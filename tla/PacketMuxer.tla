---------------------------- MODULE PacketMuxer -----------------------------
(***************************************************************************)
(* The sending half of packetcomms: PacketMuxer.h and PacketMuxer.cpp.     *)
(*                                                                         *)
(* Actors: the send thread (sendLoop), any number of application threads   *)
(* in emplacePacket, the owner that destroys the muxer, and the transport. *)
(* Only the send thread keeps m_txLock from one step to the next; the      *)
(* other critical sections are single steps that need it free.             *)
(***************************************************************************)
EXTENDS Integers, Sequences, FiniteSets

CONSTANTS
  UserTypes,       \* the types registered by the application
  ControlType,     \* IdManager::ControlPacket
  Payloads,        \* what a user packet may carry
  DataSize,        \* payload -> its size on the wire
  FieldSize,       \* size of each header field, sizeof(uint32_t) in the code
  CounterModulus,  \* m_numPosted and m_numSent wrap here, at 2^32 in the code
  MaxQueued        \* bound: user packets are posted only below this backlog

ASSUME MuxerAssumption ==
  /\ ControlType \notin UserTypes
  /\ DataSize \in [Payloads -> Nat]
  /\ FieldSize \in Nat \ {0}
  /\ MaxQueued \in Nat
  /\ CounterModulus \in Nat
  /\ MaxQueued + 1 < CounterModulus

Types == UserTypes \cup {ControlType}
Hello == [type |-> ControlType, payload |-> "Hello"]
HeartBeat == [type |-> ControlType, payload |-> "HeartBeat"]
UserPackets == [type : UserTypes, payload : Payloads]
Packets == UserPackets \cup {Hello, HeartBeat}

VARIABLES
  owner,           \* "live", "dtor" (wants the lock), "join", "gone"
  sender,          \* where the send thread is
  txLock,          \* "free" or "sender"
  txQueues,        \* m_txQueues
  numPosted, numSent,
  transportError,  \* m_transportError
  current,         \* the type whose queue sendAll is draining
  todo,            \* the queues this pass over m_txQueues has not reached
  io,              \* sendPacket and writeBytes: field, bytes left, ok so far
  link,            \* the connection under the AbstractWriter: "up", "down"
  line             \* history: <<the last packet written whole>>

queueVars == <<txQueues, numPosted, numSent>>
passVars == <<current, todo, io>>
linkVars == <<link, line>>
vars == <<owner, sender, txLock, queueVars, transportError, passVars, linkVars>>

-----------------------------------------------------------------------------
(* m_txQueues, its counters, its lock and its condition variable.  The     *)
(* definitions marked "Bug" are not used: each one is the mistake that its *)
(* neighbour avoids.                                                       *)

Queued == UNION {{t} \X (1..Len(txQueues[t])) : t \in Types}

(* Bug: the counters are wider than uint32_t. *)
IncrementWide(c) == c + 1
Increment(c) == IF c + 1 = CounterModulus THEN 0 ELSE c + 1

Enqueue(p) ==
  /\ txQueues' = [txQueues EXCEPT ![p.type] = Append(@, p)]
  /\ numPosted' = Increment(numPosted)

(* Bug: the lock_guard is left out. *)
LockForgotten == TRUE
LockFree == txLock = "free"

(* Only the send thread ever waits on m_txReady.  Notified, it leaves the  *)
(* wait and competes for the lock again.  Bug: nobody notifies.            *)
NotifyForgotten == UNCHANGED sender
Notify == sender' = IF sender = "waiting" THEN "woken" ELSE sender

Init ==
  /\ owner = "live"
  /\ sender = "start"
  /\ txLock = "free"
  /\ txQueues = [t \in Types |-> <<>>]
  /\ numPosted = 0
  /\ numSent = 0
  /\ transportError = FALSE
  /\ current = ControlType
  /\ todo = {}
  /\ io = [field |-> "type", left |-> 0, ok |-> TRUE]
  /\ link = "up"
  /\ line = <<>>

-----------------------------------------------------------------------------
(* The application threads and the owner.                                  *)

EmplacePacket(p) ==
  /\ owner = "live"
  /\ Cardinality(Queued) < MaxQueued
  /\ LockFree
  /\ Enqueue(p)
  /\ Notify
  /\ UNCHANGED <<owner, txLock, numSent, transportError, passVars, linkVars>>

DestructorBegins ==
  /\ owner = "live"
  /\ owner' = "dtor"
  /\ UNCHANGED <<sender, txLock, queueVars, transportError, passVars, linkVars>>

DestructorSignals ==
  /\ owner = "dtor"
  /\ LockFree
  /\ owner' = "join"
  /\ transportError' = TRUE
  /\ Notify
  /\ UNCHANGED <<txLock, queueVars, passVars, linkVars>>

DestructorJoins ==
  /\ owner = "join"
  /\ sender = "exited"
  /\ owner' = "gone"
  /\ UNCHANGED <<sender, txLock, queueVars, transportError, passVars, linkVars>>

-----------------------------------------------------------------------------
(* The send thread: sendLoop.                                              *)

SendHello ==
  /\ sender = "start"
  /\ LockFree
  /\ Enqueue(Hello)
  /\ sender' = "lock"
  /\ UNCHANGED <<owner, txLock, numSent, transportError, passVars, linkVars>>

TakeLock ==
  /\ sender = "lock"
  /\ LockFree
  /\ txLock' = "sender"
  /\ sender' = "check"
  /\ UNCHANGED <<owner, queueVars, transportError, passVars, linkVars>>

LeaveLoop ==
  /\ sender = "check"
  /\ transportError
  /\ txLock' = "free"
  /\ sender' = "exited"
  /\ UNCHANGED <<owner, queueVars, transportError, passVars, linkVars>>

(* Bugs: the loop always, or never, waits for packets. *)
AlwaysIdle == TRUE
NeverIdle == FALSE
Idle == numPosted = numSent

(* wait_for gives the lock up and goes to sleep in one step. *)
BeginWait ==
  /\ sender = "check"
  /\ ~transportError
  /\ Idle
  /\ txLock' = "free"
  /\ sender' = "waiting"
  /\ UNCHANGED <<owner, queueVars, transportError, passVars, linkVars>>

(* The deadline passes, for a thread still asleep or just notified. *)
TimeOut ==
  /\ sender \in {"waiting", "woken"}
  /\ sender' = "late"
  /\ UNCHANGED <<owner, txLock, queueVars, transportError, passVars, linkVars>>

SpuriousWake ==
  /\ sender = "waiting"
  /\ sender' = "woken"
  /\ UNCHANGED <<owner, txLock, queueVars, transportError, passVars, linkVars>>

(* A pass starts with any queue: an unordered_map promises no order.  Bug: *)
(* only one queue is served.                                               *)
FirstQueueOnly(t) == {}
QueuesAfter(t) == Types \ {t}
StartPass ==
  /\ current' \in Types
  /\ todo' = QueuesAfter(current')
  /\ sender' = "sendAll"
  /\ UNCHANGED <<owner, numSent, transportError, io, linkVars>>

SkipWait ==
  /\ sender = "check"
  /\ ~transportError
  /\ ~Idle
  /\ StartPass
  /\ UNCHANGED <<txLock, txQueues, numPosted>>

(* wait_for returns once the lock is held again, with the status of the    *)
(* wait, whatever was posted while the thread was after the lock.          *)
NoHeartBeat == UNCHANGED <<txQueues, numPosted>>   \* Bug
AfterWait ==
  IF sender = "late" THEN Enqueue(HeartBeat) ELSE UNCHANGED <<txQueues, numPosted>>

Wake ==
  /\ sender \in {"woken", "late"}
  /\ LockFree
  /\ txLock' = "sender"
  /\ AfterWait
  /\ StartPass

-----------------------------------------------------------------------------
(* One pass over m_txQueues: sendAll, sendPacket and writeBytes.           *)

(* The condition of sendAll's loop.  Bug: it does not test the error.      *)
MoreQueued == txQueues[current] # <<>>
KeepSending == ~transportError /\ txQueues[current] # <<>>

NextQueue(t) ==
  /\ sender = "sendAll"
  /\ ~KeepSending
  /\ t \in todo
  /\ current' = t
  /\ todo' = todo \ {t}
  /\ UNCHANGED <<owner, sender, txLock, queueVars, transportError, io, linkVars>>

PassDone ==
  /\ sender = "sendAll"
  /\ ~KeepSending
  /\ todo = {}
  /\ sender' = "check"
  /\ UNCHANGED <<owner, txLock, queueVars, transportError, passVars, linkVars>>

BeginPacket ==
  /\ sender = "sendAll"
  /\ KeepSending
  /\ sender' = "write"
  /\ io' = [field |-> "type", left |-> FieldSize, ok |-> TRUE]
  /\ UNCHANGED <<owner, txLock, queueVars, transportError, current, todo, linkVars>>

(* AbstractWriter::write: -1 on an error, else the bytes taken, none when  *)
(* it would block (or still blocks: the constructor makes the transport    *)
(* non-blocking after starting the thread).  A connection that is down     *)
(* takes nothing any more.                                                 *)
WriteResults == IF link = "down" THEN {-1} ELSE -1..io.left

(* One turn of writeBytes.  A failed field is abandoned, and sendPacket    *)
(* goes on to the next field.                                              *)
Write(n) ==
  /\ sender = "write"
  /\ io.left > 0
  /\ n \in WriteResults
  /\ io' = IF n < 0 \/ transportError
            THEN [io EXCEPT !.left = 0, !.ok = FALSE]
            ELSE [io EXCEPT !.left = @ - n]
  /\ UNCHANGED <<owner, sender, txLock, queueVars, transportError, current, todo,
                 linkVars>>

DataSizeOf(p) == IF p.type = ControlType THEN 1 ELSE DataSize[p.payload]

NextField ==
  /\ sender = "write"
  /\ io.left = 0
  /\ io.field # "data"
  /\ io' = IF io.field = "type"
            THEN [io EXCEPT !.field = "size", !.left = FieldSize]
            ELSE [io EXCEPT !.field = "data",
                            !.left = DataSizeOf(Head(txQueues[current]))]
  /\ UNCHANGED <<owner, sender, txLock, queueVars, transportError, current, todo,
                 linkVars>>

(* sendPacket stores its verdict over m_transportError; sendAll then pops  *)
(* the packet and counts it as sent.  Bug: a torn packet is not counted.   *)
CountOnlyWhole == IF io.ok THEN Increment(numSent) ELSE numSent
CountSent == Increment(numSent)

EndPacket ==
  /\ sender = "write"
  /\ io.left = 0
  /\ io.field = "data"
  /\ transportError' = ~io.ok
  /\ txQueues' = [txQueues EXCEPT ![current] = Tail(@)]
  /\ numSent' = CountSent
  /\ line' = IF io.ok THEN <<Head(txQueues[current])>> ELSE line
  /\ sender' = "sendAll"
  /\ UNCHANGED <<owner, txLock, numPosted, passVars, link>>

-----------------------------------------------------------------------------
(* The transport fails for good; the program has ended.                    *)

LinkDown ==
  /\ link = "up"
  /\ link' = "down"
  /\ UNCHANGED <<owner, sender, txLock, queueVars, transportError, passVars, line>>

Destroyed == owner = "gone" /\ UNCHANGED vars

SendLoop ==
  \/ SendHello \/ TakeLock \/ LeaveLoop \/ BeginWait \/ SkipWait \/ Wake
  \/ PassDone \/ BeginPacket \/ NextField \/ EndPacket
  \/ \E t \in Types : NextQueue(t)

Next ==
  \/ \E p \in UserPackets : EmplacePacket(p)
  \/ DestructorBegins \/ DestructorSignals \/ DestructorJoins
  \/ SendLoop \/ TimeOut \/ SpuriousWake
  \/ \E n \in -1..io.left : Write(n)
  \/ LinkDown
  \/ Destroyed

Spec == Init /\ [][Next]_vars

(* What the code's scheduling gives: the send thread runs, timers expire   *)
(* (a spurious wake-up restarts the one-second wait, but cannot always beat*)
(* it), and the destructor, which competes for the lock with a thread that *)
(* leaves it free for that second, gets it in the end.                     *)
Scheduling ==
  /\ WF_vars(SendLoop) /\ SF_vars(TimeOut)
  /\ SF_vars(DestructorSignals) /\ WF_vars(DestructorJoins)

(* A transport that keeps accepting bytes, or fails. *)
TransportMoves == WF_vars(\E n \in -1..io.left : n # 0 /\ Write(n))

FairSpec == Spec /\ Scheduling /\ TransportMoves

-----------------------------------------------------------------------------
(* Properties.                                                             *)

(* Every variable has the type of the field it models. *)
TypeOK ==
  /\ owner \in {"live", "dtor", "join", "gone"}
  /\ sender \in {"start", "lock", "check", "waiting", "woken", "late", "sendAll",
                 "write", "exited"}
  /\ txLock \in {"free", "sender"}
  /\ txQueues \in [Types -> Seq(Packets)]
  /\ numPosted \in 0..(CounterModulus - 1)
  /\ numSent \in 0..(CounterModulus - 1)
  /\ transportError \in BOOLEAN
  /\ current \in Types
  /\ todo \subseteq Types
  /\ io \in [field : {"type", "size", "data"}, left : Nat, ok : BOOLEAN]
  /\ link \in {"up", "down"}
  /\ line = <<>> \/ line \in {<<p>> : p \in Packets}

(* m_numPosted - m_numSent, modulo the counters' width, is what is queued: *)
(* the send thread's test for work (PacketMuxer.cpp:68) is exact, even     *)
(* though torn packets are counted as sent and the counters wrap.          *)
CountersMatchQueues ==
  LET n == Cardinality(Queued)
  IN  numPosted = numSent + n \/ numPosted + CounterModulus = numSent + n

(* The send thread never sleeps on packets, nor on an error, that somebody *)
(* has already signalled: between its test of the counters and its sleep   *)
(* there is no gap for a post or for the destructor.                       *)
NoLostWakeup == sender = "waiting" => Queued = {} /\ ~transportError

(* Heartbeats never pile up: the one posted after a timeout goes out, or   *)
(* breaks the stream, before the next wait can time out.                   *)
ControlBacklogBounded == Len(txQueues[ControlType]) <= 1

(* sendPacket overwrites m_transportError with its own verdict, yet the    *)
(* destructor's request to stop and a failure already seen are never lost. *)
ErrorLatched == [][transportError => transportError']_vars

(* The muxer implements its promise: per type FIFO order, no packet lost   *)
(* or duplicated before a failure, at most one torn, and nothing after it. *)
PS == INSTANCE PacketStream WITH backlog <- txQueues, failed <- transportError
StreamSpec == PS!Spec

(* With a transport that moves, the destructor returns. *)
DestructorReturns == owner = "dtor" ~> owner = "gone"

(* A dead connection is noticed even if nothing is ever posted again: this *)
(* is the second purpose of the heartbeat (PacketMuxer.cpp:77).            *)
HangUpDetected == link = "down" ~> transportError

(* No queue starves, whatever the order of the passes and however busy the *)
(* other queues are (the worry of PacketMuxer.cpp:85).                     *)
BacklogDrains ==
  \A t \in Types : txQueues[t] # <<>> ~> txQueues[t] = <<>> \/ transportError

(* sendLoop writes to the transport with m_txLock held, but it always      *)
(* comes back to a point where emplacePacket can have the lock.            *)
PostersNotLockedOut == []<>LockFree
=============================================================================
