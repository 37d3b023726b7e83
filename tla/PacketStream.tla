---------------------------- MODULE PacketStream ----------------------------
(***************************************************************************)
(* What a PacketMuxer promises to the far end of its transport, with no    *)
(* thread, lock, counter or byte in sight.  There is one FIFO per packet   *)
(* type.  A packet leaves its FIFO when it has been put whole on the line; *)
(* once the stream has failed nothing more reaches the line, and at most   *)
(* one packet is torn by the failure.                                      *)
(***************************************************************************)
EXTENDS Sequences

CONSTANTS
  Types,       \* packet types multiplexed on the line
  Packets      \* records with at least the field "type"

VARIABLES
  backlog,     \* type -> the packets posted and not yet on the line
  line,        \* <<the last packet put whole on the line>>, <<>> before any
  failed       \* the stream is broken

streamVars == <<backlog, line, failed>>

Init ==
  /\ backlog = [t \in Types |-> <<>>]
  /\ line = <<>>
  /\ failed = FALSE

(* Posting succeeds at any time, before and after a failure. *)
Post(p) ==
  /\ backlog' = [backlog EXCEPT ![p.type] = Append(@, p)]
  /\ UNCHANGED <<line, failed>>

(* The oldest packet of a type goes out whole. *)
Transmit(t) ==
  /\ ~failed
  /\ backlog[t] # <<>>
  /\ line' = <<Head(backlog[t])>>
  /\ backlog' = [backlog EXCEPT ![t] = Tail(@)]
  /\ UNCHANGED failed

(* The stream breaks between two packets. *)
Break ==
  /\ failed' = TRUE
  /\ UNCHANGED <<backlog, line>>

(* The stream breaks in the middle of the oldest packet of a type. *)
Tear(t) ==
  /\ ~failed
  /\ backlog[t] # <<>>
  /\ failed' = TRUE
  /\ backlog' = [backlog EXCEPT ![t] = Tail(@)]
  /\ UNCHANGED line

Next ==
  \/ \E p \in Packets : Post(p)
  \/ \E t \in Types : Transmit(t) \/ Tear(t)
  \/ Break

Spec == Init /\ [][Next]_streamVars
=============================================================================
