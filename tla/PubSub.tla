------------------------------- MODULE PubSub -------------------------------
(***************************************************************************)
(* What a PacketDemuxer promises to the application: every packet of a     *)
(* type reaches, in one indivisible step, everyone who is subscribed to    *)
(* that type at that moment and nobody else.  Each subscriber then has the *)
(* packets of its type in the order of their arrival, each of them once.   *)
(***************************************************************************)
EXTENDS Sequences

CONSTANTS
  Subs,        \* subscribers
  TypeOf,      \* subscriber -> the packet type it subscribes to
  Packets      \* records with at least the field "type"

VARIABLES
  members,     \* who is subscribed
  inbox        \* subscriber -> the packets it was given

pubSubVars == <<members, inbox>>

Init ==
  /\ members = {}
  /\ inbox = [s \in Subs |-> <<>>]

Join(s) ==
  /\ members' = members \cup {s}
  /\ UNCHANGED inbox

Leave(s) ==
  /\ members' = members \ {s}
  /\ UNCHANGED inbox

Publish(p) ==
  /\ inbox' = [s \in Subs |-> IF s \in members /\ TypeOf[s] = p.type
                                THEN Append(inbox[s], p) ELSE inbox[s]]
  /\ UNCHANGED members

(* The demuxer is destroyed. *)
Close ==
  /\ members' = {}
  /\ UNCHANGED inbox

Next ==
  \/ \E s \in Subs : Join(s) \/ Leave(s)
  \/ \E p \in Packets : Publish(p)
  \/ Close

Spec == Init /\ [][Next]_pubSubVars
=============================================================================
