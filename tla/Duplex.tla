------------------------------- MODULE Duplex -------------------------------
(***************************************************************************)
(* Two programs on one connection, each with a PacketMuxer and a           *)
(* PacketDemuxer on its socket.  They send each other requests and answer  *)
(* them: some in the callback of the subscription, on the receiver thread, *)
(* the others in a thread of their own that the callback hands the request *)
(* to through a SimpleQueue.  Packets are whole here; what the model is    *)
(* about is who waits for whom: a send thread with m_txLock for room on    *)
(* the connection, a poster for m_txLock, the far end's sender for a       *)
(* receiver that posts.                                                    *)
(***************************************************************************)
EXTENDS Integers, Sequences, SequencesExt

CONSTANTS
  Programs,        \* the two programs
  Uses,            \* the ways to use the library that they may choose
  Capacity,        \* packets the connection holds in each direction
  MaxRequests      \* bound: requests a program makes

ASSUME DuplexAssumption ==
  /\ \E p, q \in Programs : p # q /\ Programs = {p, q}
  /\ Capacity \in Nat \ {0} /\ MaxRequests \in Nat

Kinds == {"request", "answer", "heartbeat"}

(* How a program uses the library: who answers in callbacks, and which     *)
(* half a program destroys first, should it leave.                         *)
AllUses ==
  [repliers : SUBSET Programs,
   leaving : [Programs -> {"muxer first", "demuxer first"}]]

VARIABLES
  use,             \* the element of Uses that was chosen
  owner,           \* program -> "live", "demuxer", "signal", "muxer", "gone"
  sender,          \* its send thread: "waiting", "sending" (with m_txLock), "exited"
  receiver,        \* its receiver: "reading", "replying", "exited"
  queued,          \* kind -> how many packets are in m_txQueues
  stop,            \* m_transportError of its muxer
  todo,            \* requests in its SimpleQueue
  pipe,            \* the packets on their way to the other program
  asked            \* how many requests it has made

sendVars == <<sender, queued, stop>>
vars == <<use, owner, sendVars, receiver, todo, pipe, asked>>

Other(p) == CHOOSE q \in Programs : q # p

Init ==
  /\ use \in Uses
  /\ owner = [p \in Programs |-> "live"]
  /\ sender = [p \in Programs |-> "waiting"]
  /\ receiver = [p \in Programs |-> "reading"]
  /\ queued = [p \in Programs |-> [k \in Kinds |-> 0]]
  /\ stop = [p \in Programs |-> FALSE]
  /\ todo = [p \in Programs |-> 0]
  /\ pipe = [p \in Programs |-> <<>>]
  /\ asked = [p \in Programs |-> 0]

-----------------------------------------------------------------------------
(* emplacePacket, for which the send thread must not hold m_txLock.  Bug:  *)
(* it still does when it has ended.                                        *)

LockKeptAtExit(p) == sender[p] = "waiting"
LockFree(p) == sender[p] # "sending"

Emplace(p, k) ==
  /\ LockFree(p)
  /\ queued' = [queued EXCEPT ![p][k] = @ + 1]

Ask(p) ==
  /\ owner[p] = "live" /\ asked[p] < MaxRequests
  /\ Emplace(p, "request")
  /\ asked' = [asked EXCEPT ![p] = @ + 1]
  /\ UNCHANGED <<use, owner, sender, stop, receiver, todo, pipe>>

(* The program's own thread takes a request from the SimpleQueue. *)
Answer(p) ==
  /\ owner[p] = "live" /\ todo[p] > 0
  /\ Emplace(p, "answer")
  /\ todo' = [todo EXCEPT ![p] = @ - 1]
  /\ UNCHANGED <<use, owner, sender, stop, receiver, pipe, asked>>

AnswerInCallback(p) ==
  /\ receiver[p] = "replying"
  /\ Emplace(p, "answer")
  /\ receiver' = [receiver EXCEPT ![p] = "reading"]
  /\ UNCHANGED <<use, owner, sender, stop, todo, pipe, asked>>

-----------------------------------------------------------------------------
(* The send thread.  Bug: it looks for requests and heartbeats only.       *)

AnswersLeft(p) == \E k \in Kinds \ {"answer"} : queued[p][k] > 0
Backlog(p) == \E k \in Kinds : queued[p][k] > 0

(* It is notified of a packet or of the destructor's signal, or its second *)
(* is over and it posts a heartbeat.                                       *)
WakeUp(p) ==
  /\ sender[p] = "waiting"
  /\ sender' = [sender EXCEPT ![p] = "sending"]
  /\ \/ (Backlog(p) \/ stop[p]) /\ UNCHANGED queued
     \/ queued' = [queued EXCEPT ![p]["heartbeat"] = @ + 1]
  /\ UNCHANGED <<use, owner, stop, receiver, todo, pipe, asked>>

(* While there is no room, writeBytes goes on trying. *)
Write(p, k) ==
  /\ sender[p] = "sending" /\ ~stop[p] /\ queued[p][k] > 0
  /\ owner[Other(p)] # "gone"
  /\ Len(pipe[p]) < Capacity
  /\ pipe' = [pipe EXCEPT ![p] = Append(@, k)]
  /\ queued' = [queued EXCEPT ![p][k] = @ - 1]
  /\ UNCHANGED <<use, owner, sender, stop, receiver, todo, asked>>

(* The other program has closed its socket. *)
WriteFails(p, k) ==
  /\ sender[p] = "sending" /\ ~stop[p] /\ queued[p][k] > 0
  /\ owner[Other(p)] = "gone"
  /\ stop' = [stop EXCEPT ![p] = TRUE]
  /\ queued' = [queued EXCEPT ![p][k] = @ - 1]
  /\ UNCHANGED <<use, owner, sender, receiver, todo, pipe, asked>>

(* The lock is let go of, in wait_for or at the end of sendLoop. *)
PassEnds(p) ==
  /\ sender[p] = "sending"
  /\ stop[p] \/ ~Backlog(p)
  /\ sender' = [sender EXCEPT ![p] = IF stop[p] THEN "exited" ELSE "waiting"]
  /\ UNCHANGED <<use, owner, queued, stop, receiver, todo, pipe, asked>>

-----------------------------------------------------------------------------
(* The receiver.  A request goes to the callback, which answers it or puts *)
(* it into the SimpleQueue.  Bug: it always answers.                       *)

AlwaysReplies(p) == TRUE
Replies(p) == p \in use.repliers

Receive(p) ==
  LET incoming == pipe[Other(p)]
  IN  /\ receiver[p] = "reading" /\ incoming # <<>>
      /\ pipe' = [pipe EXCEPT ![Other(p)] = Tail(@)]
      /\ IF Head(incoming) # "request" THEN UNCHANGED <<receiver, todo>>
         ELSE IF Replies(p)
           THEN receiver' = [receiver EXCEPT ![p] = "replying"] /\ UNCHANGED todo
           ELSE todo' = [todo EXCEPT ![p] = @ + 1] /\ UNCHANGED receiver
  /\ UNCHANGED <<use, owner, sendVars, asked>>

(* The destructor's flag is seen when no callback runs. *)
ReceiverExits(p) ==
  /\ owner[p] = "demuxer" /\ receiver[p] = "reading"
  /\ receiver' = [receiver EXCEPT ![p] = "exited"]
  /\ UNCHANGED <<use, owner, sendVars, todo, pipe, asked>>

-----------------------------------------------------------------------------
(* A program leaves: its destructors run one after the other, then it      *)
(* closes the socket.                                                      *)

Leave(p) ==
  /\ owner[p] = "live"
  /\ owner' = [owner EXCEPT ![p] =
                 IF use.leaving[p] = "muxer first" THEN "signal" ELSE "demuxer"]
  /\ UNCHANGED <<use, sendVars, receiver, todo, pipe, asked>>

DestructorSignals(p) ==
  /\ owner[p] = "signal" /\ LockFree(p)
  /\ owner' = [owner EXCEPT ![p] = "muxer"]
  /\ stop' = [stop EXCEPT ![p] = TRUE]
  /\ UNCHANGED <<use, sender, queued, receiver, todo, pipe, asked>>

(* What this program has sent can still be read; what it was sent cannot. *)
CloseSocket(p) == pipe' = [pipe EXCEPT ![Other(p)] = <<>>]

MuxerGone(p) ==
  /\ owner[p] = "muxer" /\ sender[p] = "exited"
  /\ IF use.leaving[p] = "muxer first"
       THEN owner' = [owner EXCEPT ![p] = "demuxer"] /\ UNCHANGED pipe
       ELSE owner' = [owner EXCEPT ![p] = "gone"] /\ CloseSocket(p)
  /\ UNCHANGED <<use, sendVars, receiver, todo, asked>>

DemuxerGone(p) ==
  /\ owner[p] = "demuxer" /\ receiver[p] = "exited"
  /\ IF use.leaving[p] = "muxer first"
       THEN owner' = [owner EXCEPT ![p] = "gone"] /\ CloseSocket(p)
       ELSE owner' = [owner EXCEPT ![p] = "signal"] /\ UNCHANGED pipe
  /\ UNCHANGED <<use, sendVars, receiver, todo, asked>>

Finished ==
  /\ \A p \in Programs : owner[p] = "gone" \/ sender[p] = "exited"
  /\ UNCHANGED vars

Sends(p) == WakeUp(p) \/ PassEnds(p) \/ \E k \in Kinds : Write(p, k) \/ WriteFails(p, k)
Posts(p) == Answer(p) \/ AnswerInCallback(p)
Departs(p) == DestructorSignals(p) \/ MuxerGone(p) \/ DemuxerGone(p)

Next ==
  \/ \E p \in Programs :
       Ask(p) \/ Posts(p) \/ Sends(p) \/ Receive(p) \/ ReceiverExits(p) \/ Leave(p) \/ Departs(p)
  \/ Finished

(* Every thread runs, and who wants the lock gets it in the end.  The      *)
(* steps of the last conjunct are taken a bounded number of times, so that *)
(* fairness of their disjunction is fairness of each.                      *)
FairSpec ==
  /\ Init /\ [][Next]_vars
  /\ \A p \in Programs : WF_vars(Sends(p)) /\ WF_vars(Receive(p))
  /\ SF_vars(\E p \in Programs : Posts(p) \/ ReceiverExits(p) \/ Departs(p))

-----------------------------------------------------------------------------
(* Properties.                                                             *)

(* Nobody waits in a circle.  A program that wants to go can: both of its  *)
(* destructors return, whatever the other one is doing.                    *)
LeaverLeaves == \A p \in Programs : owner[p] # "live" ~> owner[p] = "gone"

(* A callback that posts gets the lock of its muxer (PacketMuxer.h:97).    *)
CallbacksReturn ==
  \A p \in Programs : receiver[p] = "replying" ~> receiver[p] # "replying"

Unanswered(p) ==
  LET onTheWay(k, q) == queued[q][k] + Len(SelectSeq(pipe[q], LAMBDA x : x = k))
  IN  onTheWay("request", p) + onTheWay("answer", Other(p)) + todo[Other(p)]
        + (IF receiver[Other(p)] = "replying" THEN 1 ELSE 0)

(* Requests that are made are answered, unless somebody leaves. *)
RequestsAnswered ==
  \A p \in Programs :
    Unanswered(p) > 0 ~> Unanswered(p) = 0 \/ \E q \in Programs : owner[q] # "live"
=============================================================================
