------------------------------ MODULE MCHelpers -----------------------------
(***************************************************************************)
(* What applications build on top of packetcomms, SimpleQueue and Sync,    *)
(* for TLC in one run: a behaviour is one of the first or one of the       *)
(* second, as the helper says.                                             *)
(***************************************************************************)
EXTENDS SimpleQueue, MCSync

CONSTANTS p, q, c1, c2, c3

VARIABLE helper

allVars == <<helper, vars, syncVars>>

HelperInit == helper \in {"queue", "sync"} /\ Init /\ SyncInit

HelperNext ==
  \/ helper = "queue" /\ Next /\ UNCHANGED <<helper, syncVars>>
  \/ helper = "sync" /\ SyncNext /\ UNCHANGED <<helper, vars>>

(* The fairness of FairSpec and of FairSyncSpec. *)
HelperSpec ==
  /\ HelperInit /\ [][HelperNext]_allVars
  /\ \A c \in Consumers : /\ WF_vars(helper = "queue" /\ Consumer(c))
                          /\ SF_vars(helper = "queue" /\ GetLock(c))
  /\ \A c \in Consumers \ Patient : WF_vars(helper = "queue" /\ WakeUp(c))
  /\ WF_syncVars(helper = "sync" /\ (ServerEnters \/ ServerLeaves))
  /\ WF_syncVars(helper = "sync" /\ ServerSends)
  /\ WF_syncVars(helper = "sync" /\ (ClientEnters \/ ClientAcks \/ ClientLeaves))
  /\ WF_syncVars(helper = "sync" /\ ClientHears)
  /\ WF_syncVars(helper = "sync" /\ ServerHears)
=============================================================================
