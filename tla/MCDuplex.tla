------------------------------ MODULE MCDuplex ------------------------------
(* Instances of Duplex for TLC. *)
EXTENDS Duplex

CONSTANTS A, B

(* The uses in which nobody waits in a circle, up to the programs' names.  *)
(* At most one program answers in its callbacks.  It does not destroy its  *)
(* muxer first, lest a callback posts to a muxer that is gone.  A program  *)
(* that destroys its demuxer first relies on the other one to read until   *)
(* then: that one neither answers in its callbacks nor destroys its        *)
(* demuxer first.                                                          *)
SafeUses ==
  {u \in AllUses : u.leaving[B] = "muxer first" /\ u.repliers \subseteq {A}
                     /\ (A \in u.repliers => u.leaving[A] = "demuxer first")}

(* The uses without callbacks that post, in which a program destroys first *)
(* what it declared last: syncWithClient(tx, rx) names the muxer first.    *)
PlainUses ==
  {u \in AllUses : /\ u.repliers = {}
                   /\ \A p \in Programs : u.leaving[p] = "demuxer first"}
=============================================================================
