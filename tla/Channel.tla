------------------------------ MODULE Channel -------------------------------
(***************************************************************************)
(* What packetcomms promises from end to end: a packet posted at one end   *)
(* is handed over, in the order of posting within its type, to everyone    *)
(* who is then subscribed to its type at the other end, and to nobody      *)
(* twice.  After a failure the packets not yet handed over stay so for     *)
(* ever; none of them is left out while a later one of its type arrives.   *)
(***************************************************************************)
EXTENDS Sequences

CONSTANTS
  Types,       \* packet types of the application
  Packets,     \* records with at least the field "type"
  Subs,        \* subscribers
  TypeOf       \* subscriber -> the packet type it subscribes to

VARIABLES
  pending,     \* type -> the packets posted and not handed over
  members,     \* who is subscribed
  inbox        \* subscriber -> the packets it was given

channelVars == <<pending, members, inbox>>

Init ==
  /\ pending = [t \in Types |-> <<>>]
  /\ members = {}
  /\ inbox = [s \in Subs |-> <<>>]

Post(p) ==
  /\ pending' = [pending EXCEPT ![p.type] = Append(@, p)]
  /\ UNCHANGED <<members, inbox>>

HandOver(t) ==
  /\ pending[t] # <<>>
  /\ pending' = [pending EXCEPT ![t] = Tail(@)]
  /\ inbox' = [s \in Subs |-> IF s \in members /\ TypeOf[s] = t
                                THEN Append(inbox[s], Head(pending[t])) ELSE inbox[s]]
  /\ UNCHANGED members

Subscribers(m) ==
  /\ members' = m
  /\ UNCHANGED <<pending, inbox>>

Next ==
  \/ \E p \in Packets : Post(p)
  \/ \E t \in Types : HandOver(t)
  \/ \E s \in Subs : Subscribers(members \cup {s}) \/ Subscribers(members \ {s})
  \/ Subscribers({})

Spec == Init /\ [][Next]_channelVars
=============================================================================
