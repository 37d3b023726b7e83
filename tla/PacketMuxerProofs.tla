------------------------- MODULE PacketMuxerProofs --------------------------
(***************************************************************************)
(* Proofs about PacketMuxer, for every value of its constants that         *)
(* MuxerAssumption allows, and so for uint32_t counters, four-byte header  *)
(* fields and any number of packet types.                                  *)
(***************************************************************************)
EXTENDS PacketMuxer, FiniteSetTheorems, TLAPS

(* What holds of the send thread at each point of its loop. *)
HasLock == {"check", "sendAll", "write"}
Outside == {"start", "waiting", "woken", "late"}

LockDiscipline == txLock = "sender" <=> sender \in HasLock

WriteHasPacket == sender = "write" => ~transportError /\ txQueues[current] # <<>>

CoreInv == TypeOK /\ LockDiscipline /\ WriteHasPacket

-----------------------------------------------------------------------------
(* Packets.                                                                *)

(* The packets of the protocol are packets. *)
LEMMA ControlPackets ==
  /\ Hello \in Packets /\ Hello.type = ControlType
  /\ HeartBeat \in Packets /\ HeartBeat.type = ControlType
BY DEF Hello, HeartBeat, Packets

(* Every packet has a known type and a size. *)
LEMMA PacketFields ==
  ASSUME NEW p \in Packets
  PROVE  /\ p.type \in Types
         /\ DataSizeOf(p) \in Nat
<1>1. CASE p \in UserPackets
  BY <1>1, MuxerAssumption DEF UserPackets, Types, DataSizeOf
<1>2. CASE p \in {Hello, HeartBeat}
  BY <1>2 DEF Hello, HeartBeat, Types, DataSizeOf
<1> QED
  BY <1>1, <1>2 DEF Packets

(* The counters stay in their width. *)
LEMMA IncrementType ==
  ASSUME NEW c \in 0..(CounterModulus - 1)
  PROVE  Increment(c) \in 0..(CounterModulus - 1)
BY MuxerAssumption DEF Increment

(* Posting a packet keeps the types of the queues and of the counter. *)
LEMMA EnqueueType ==
  ASSUME TypeOK, NEW p \in Packets, Enqueue(p)
  PROVE  /\ txQueues' \in [Types -> Seq(Packets)]
         /\ numPosted' \in 0..(CounterModulus - 1)
BY PacketFields, IncrementType DEF TypeOK, Enqueue

-----------------------------------------------------------------------------
(* Types and the lock.                                                     *)

(* The initial state satisfies the core invariant. *)
LEMMA CoreInit == Init => CoreInv
<1> SUFFICES ASSUME Init PROVE CoreInv
  OBVIOUS
<1> USE DEF Init
<1>1. TypeOK
  <2>1. txQueues \in [Types -> Seq(Packets)]
    OBVIOUS
  <2>2. io \in [field : {"type", "size", "data"}, left : Nat, ok : BOOLEAN]
    OBVIOUS
  <2>3. numPosted \in 0..(CounterModulus - 1) /\ numSent \in 0..(CounterModulus - 1)
    BY MuxerAssumption
  <2> QED
    BY <2>1, <2>2, <2>3 DEF TypeOK, Types
<1>2. LockDiscipline /\ WriteHasPacket
  BY DEF LockDiscipline, WriteHasPacket, HasLock
<1> QED
  BY <1>1, <1>2 DEF CoreInv

(* Every step keeps the core invariant. *)
LEMMA CoreStep == CoreInv /\ [Next]_vars => CoreInv'
<1> SUFFICES ASSUME CoreInv, [Next]_vars PROVE CoreInv'
  OBVIOUS
<1> USE DEF CoreInv, LockDiscipline, WriteHasPacket, HasLock
<1> USE DEF vars, queueVars, passVars, linkVars
<1>1. ASSUME NEW p \in UserPackets, EmplacePacket(p) PROVE CoreInv'
  <2>1. txQueues' \in [Types -> Seq(Packets)] /\ numPosted' \in 0..(CounterModulus - 1)
    BY <1>1, EnqueueType DEF EmplacePacket, Packets
  <2>2. TypeOK'
    BY <1>1, <2>1 DEF EmplacePacket, Notify, TypeOK
  <2>3. LockDiscipline' /\ WriteHasPacket'
    BY <1>1 DEF EmplacePacket, Notify, LockFree
  <2> QED
    BY <2>2, <2>3
<1>2. CASE DestructorBegins \/ DestructorJoins
  BY <1>2 DEF DestructorBegins, DestructorJoins, TypeOK
<1>3. CASE DestructorSignals
  BY <1>3 DEF DestructorSignals, Notify, LockFree, TypeOK
<1>4. CASE SendHello
  <2>1. txQueues' \in [Types -> Seq(Packets)] /\ numPosted' \in 0..(CounterModulus - 1)
    BY <1>4, EnqueueType, ControlPackets DEF SendHello
  <2> QED
    BY <1>4, <2>1 DEF SendHello, LockFree, TypeOK
<1>5. CASE TakeLock \/ LeaveLoop \/ BeginWait
  BY <1>5 DEF TakeLock, LeaveLoop, BeginWait, TypeOK
<1>6. CASE SkipWait
  BY <1>6 DEF SkipWait, StartPass, QueuesAfter, TypeOK
<1>7. CASE Wake
  <2>1. txQueues' \in [Types -> Seq(Packets)] /\ numPosted' \in 0..(CounterModulus - 1)
    BY <1>7, EnqueueType, ControlPackets DEF Wake, AfterWait, TypeOK
  <2> QED
    BY <1>7, <2>1 DEF Wake, StartPass, QueuesAfter, TypeOK
<1>8. CASE PassDone
  BY <1>8 DEF PassDone, TypeOK
<1>9. CASE BeginPacket
  BY <1>9, MuxerAssumption DEF BeginPacket, KeepSending, TypeOK
<1>10. CASE NextField
  <2>1. Head(txQueues[current]) \in Packets
    BY <1>10 DEF NextField, TypeOK
  <2>2. DataSizeOf(Head(txQueues[current])) \in Nat
    BY <2>1, PacketFields
  <2> QED
    BY <1>10, <2>2, MuxerAssumption DEF NextField, TypeOK
<1>11. CASE EndPacket
  <2>1. Head(txQueues[current]) \in Packets /\ Tail(txQueues[current]) \in Seq(Packets)
    BY <1>11 DEF EndPacket, TypeOK
  <2>2. numSent' \in 0..(CounterModulus - 1)
    BY <1>11, IncrementType DEF EndPacket, CountSent, TypeOK
  <2>3. line' = <<>> \/ line' \in {<<p>> : p \in Packets}
    BY <1>11, <2>1 DEF EndPacket, TypeOK
  <2>4. TypeOK'
    BY <1>11, <2>1, <2>2, <2>3 DEF EndPacket, TypeOK
  <2> QED
    BY <1>11, <2>4 DEF EndPacket
<1>12. ASSUME NEW t \in Types, NextQueue(t) PROVE CoreInv'
  BY <1>12 DEF NextQueue, TypeOK
<1>13. CASE TimeOut \/ SpuriousWake
  BY <1>13 DEF TimeOut, SpuriousWake, TypeOK
<1>14. ASSUME NEW n \in -1..io.left, Write(n) PROVE CoreInv'
  <2>1. io' \in [field : {"type", "size", "data"}, left : Nat, ok : BOOLEAN]
    <3>1. CASE n < 0
      BY <1>14, <3>1 DEF Write, TypeOK
    <3>2. CASE ~(n < 0)
      <4>1. io.left \in Nat /\ io.left - n \in Nat
        BY <1>14, <3>2 DEF TypeOK
      <4> QED
        BY <1>14, <3>2, <4>1 DEF Write, TypeOK
    <3> QED
      BY <3>1, <3>2
  <2> QED
    BY <1>14, <2>1 DEF Write, TypeOK
<1>15. CASE LinkDown
  BY <1>15 DEF LinkDown, TypeOK
<1>16. CASE Destroyed \/ UNCHANGED vars
  BY <1>16 DEF Destroyed, TypeOK
<1> QED
  BY <1>1, <1>2, <1>3, <1>4, <1>5, <1>6, <1>7, <1>8, <1>9, <1>10, <1>11, <1>12,
     <1>13, <1>14, <1>15, <1>16 DEF Next, SendLoop

(* The core invariant holds of the muxer. *)
LEMMA CoreInvariant == Spec => []CoreInv
BY CoreInit, CoreStep, PTL DEF Spec

(* The fields of the muxer keep their types; the counters never leave the  *)
(* range of uint32_t.                                                      *)
THEOREM TypeCorrect == Spec => []TypeOK
BY CoreInvariant, PTL DEF CoreInv

(* m_txQueues[type] holds packets of that type, and of a header field no   *)
(* more is left than there is.                                             *)
QueuesByType == \A t \in Types : \A i \in 1..Len(txQueues[t]) : txQueues[t][i].type = t
HeaderLeft == io.field = "type" => io.left <= FieldSize

(* A post goes to the queue of its type. *)
LEMMA EnqueueByType ==
  ASSUME TypeOK, QueuesByType, NEW p \in Packets, Enqueue(p)
  PROVE  QueuesByType'
<1>1. txQueues[p.type] \in Seq(Packets) /\ p.type \in Types
  BY PacketFields DEF TypeOK
<1>2. /\ txQueues'[p.type] = Append(txQueues[p.type], p)
      /\ \A t \in Types \ {p.type} : txQueues'[t] = txQueues[t]
  BY <1>1 DEF TypeOK, Enqueue
<1>3. ASSUME NEW i \in 1..Len(txQueues'[p.type]) PROVE txQueues'[p.type][i].type = p.type
  <2>1. i \in 1..Len(txQueues[p.type]) \/ i = Len(txQueues[p.type]) + 1
    BY <1>1, <1>2
  <2> QED
    BY <2>1, <1>1, <1>2 DEF QueuesByType
<1> QED
  BY <1>2, <1>3 DEF QueuesByType

(* What is left of a queue when its first packet goes. *)
LEMMA PopByType ==
  ASSUME TypeOK, WriteHasPacket, QueuesByType, EndPacket
  PROVE  QueuesByType'
<1>1. txQueues[current] \in Seq(Packets) /\ txQueues[current] # <<>> /\ current \in Types
  BY DEF TypeOK, WriteHasPacket, EndPacket
<1>2. /\ txQueues'[current] = Tail(txQueues[current])
      /\ \A t \in Types \ {current} : txQueues'[t] = txQueues[t]
  BY <1>1 DEF TypeOK, EndPacket
<1>3. ASSUME NEW i \in 1..Len(txQueues'[current]) PROVE txQueues'[current][i].type = current
  <2>1. i + 1 \in 1..Len(txQueues[current]) /\ txQueues'[current][i] = txQueues[current][i + 1]
    BY <1>1, <1>2
  <2> QED
    BY <2>1, <1>1 DEF QueuesByType
<1> QED
  BY <1>2, <1>3 DEF QueuesByType

LEMMA ByTypeStep ==
  CoreInv /\ QueuesByType /\ HeaderLeft /\ [Next]_vars => QueuesByType' /\ HeaderLeft'
<1> SUFFICES ASSUME CoreInv, QueuesByType, HeaderLeft, [Next]_vars
             PROVE  QueuesByType' /\ HeaderLeft'
  OBVIOUS
<1> USE DEF queueVars, passVars, linkVars
<1>1. TypeOK /\ WriteHasPacket
  BY DEF CoreInv
<1>2. UNCHANGED txQueues => QueuesByType'
  BY DEF QueuesByType
<1>3. UNCHANGED io => HeaderLeft'
  BY DEF HeaderLeft
<1>4. ASSUME NEW p \in UserPackets, EmplacePacket(p) PROVE QueuesByType' /\ HeaderLeft'
  <2>1. p \in Packets /\ Enqueue(p) /\ UNCHANGED io
    BY <1>4, ControlPackets DEF EmplacePacket, Packets
  <2> QED
    BY <2>1, <1>1, <1>3, EnqueueByType
<1>5. CASE SendHello
  BY <1>1, <1>3, <1>5, EnqueueByType, ControlPackets DEF SendHello
<1>6. CASE Wake
  <2>1. QueuesByType'
    BY <1>1, <1>2, <1>6, EnqueueByType, ControlPackets DEF Wake, AfterWait
  <2> QED
    BY <2>1, <1>3, <1>6 DEF Wake, StartPass
<1>7. CASE EndPacket
  BY <1>1, <1>3, <1>7, PopByType DEF EndPacket
<1>8. CASE BeginPacket
  <2>1. io'.left = FieldSize /\ FieldSize <= FieldSize
    BY <1>8, MuxerAssumption DEF BeginPacket
  <2> QED
    BY <2>1, <1>2, <1>8 DEF BeginPacket, HeaderLeft
<1>9. CASE NextField
  <2>1. io'.field # "type"
    BY <1>1, <1>9 DEF NextField, TypeOK
  <2> QED
    BY <2>1, <1>2, <1>9 DEF NextField, HeaderLeft
<1>10. ASSUME NEW n \in -1..io.left, Write(n) PROVE QueuesByType' /\ HeaderLeft'
  <2>1. io.left \in Nat /\ io.left - n \in Int /\ 0 <= io.left /\ (n >= 0 => io.left - n <= io.left)
    BY <1>1 DEF TypeOK
  <2>2. io'.field = io.field /\ io'.left \in Int /\ io'.left <= io.left
    <3>1. CASE n < 0
      BY <1>1, <1>10, <2>1, <3>1 DEF Write, TypeOK
    <3>2. CASE ~(n < 0)
      BY <1>1, <1>10, <2>1, <3>2 DEF Write, TypeOK
    <3> QED
      BY <3>1, <3>2
  <2> QED
    BY <2>1, <2>2, <1>2, <1>10, MuxerAssumption DEF Write, HeaderLeft
<1>11. CASE DestructorBegins \/ DestructorSignals \/ DestructorJoins \/ TakeLock \/ LeaveLoop
              \/ BeginWait \/ SkipWait \/ PassDone \/ TimeOut \/ SpuriousWake \/ LinkDown
              \/ Destroyed \/ UNCHANGED vars
  BY <1>2, <1>3, <1>11 DEF DestructorBegins, DestructorSignals, DestructorJoins, TakeLock,
     LeaveLoop, BeginWait, SkipWait, StartPass, PassDone, TimeOut, SpuriousWake, LinkDown,
     Destroyed, vars
<1>12. ASSUME NEW t \in Types, NextQueue(t) PROVE QueuesByType' /\ HeaderLeft'
  BY <1>2, <1>3, <1>12 DEF NextQueue
<1> QED
  BY <1>4, <1>5, <1>6, <1>7, <1>8, <1>9, <1>10, <1>11, <1>12 DEF Next, SendLoop

LEMMA ByTypeInvariant == Spec => [](QueuesByType /\ HeaderLeft)
<1>1. Init => QueuesByType /\ HeaderLeft
  BY MuxerAssumption DEF Init, QueuesByType, HeaderLeft
<1> QED
  BY <1>1, ByTypeStep, CoreInvariant, PTL DEF Spec

-----------------------------------------------------------------------------
(* The queues as a set of places, and its cardinality.                     *)

(* A place is a type and a position in its queue. *)
LEMMA QueuedPlaces ==
  Queued = {x \in Types \X Nat : x[2] \in 1..Len(txQueues[x[1]])}
BY DEF Queued

(* Posting adds one place. *)
LEMMA EnqueueAddsPlace ==
  ASSUME TypeOK, IsFiniteSet(Queued), NEW p \in Packets, Enqueue(p)
  PROVE  /\ IsFiniteSet(Queued')
         /\ Cardinality(Queued') = Cardinality(Queued) + 1
<1> DEFINE x == <<p.type, Len(txQueues[p.type]) + 1>>
<1>1. p.type \in Types /\ txQueues[p.type] \in Seq(Packets)
  BY PacketFields DEF TypeOK
<1>2. \A t \in Types : txQueues[t] \in Seq(Packets) /\ Len(txQueues[t]) \in Nat
  BY DEF TypeOK
<1>3. \A t \in Types : Len(txQueues'[t]) =
                         IF t = p.type THEN Len(txQueues[t]) + 1 ELSE Len(txQueues[t])
  BY <1>1, <1>2 DEF Enqueue, TypeOK
<1>4. Queued' = {y \in Types \X Nat : y[2] \in 1..Len(txQueues'[y[1]])}
  BY DEF Queued, Types
<1>5. Queued' = Queued \cup {x} /\ x \notin Queued
  BY <1>1, <1>2, <1>3, <1>4, QueuedPlaces
<1> QED
  BY <1>5, FS_AddElement

(* Popping the front of a queue removes one. *)
LEMMA PopRemovesPlace ==
  ASSUME TypeOK, IsFiniteSet(Queued), NEW t \in Types, txQueues[t] # <<>>,
         txQueues' = [txQueues EXCEPT ![t] = Tail(@)]
  PROVE  /\ IsFiniteSet(Queued')
         /\ Cardinality(Queued) \in Nat
         /\ Cardinality(Queued') = Cardinality(Queued) - 1
<1> DEFINE x == <<t, Len(txQueues[t])>>
<1>1. \A u \in Types : txQueues[u] \in Seq(Packets) /\ Len(txQueues[u]) \in Nat
  BY DEF TypeOK
<1>2. Len(txQueues[t]) # 0
  BY <1>1
<1>3. \A u \in Types : Len(txQueues'[u]) =
                         IF u = t THEN Len(txQueues[u]) - 1 ELSE Len(txQueues[u])
  BY <1>1, <1>2 DEF TypeOK
<1>4. Queued' = {y \in Types \X Nat : y[2] \in 1..Len(txQueues'[y[1]])}
  BY DEF Queued, Types
<1>5. Queued' = Queued \ {x} /\ x \in Queued
  BY <1>1, <1>2, <1>3, <1>4, QueuedPlaces
<1> QED
  BY <1>5, FS_RemoveElement, FS_CardinalityType

(* No places, no packets. *)
LEMMA NothingQueued ==
  ASSUME TypeOK, Queued = {}, NEW t \in Types
  PROVE  txQueues[t] = <<>>
<1>1. txQueues[t] \in Seq(Packets) /\ Len(txQueues[t]) \in Nat
  BY DEF TypeOK
<1>2. Len(txQueues[t]) = 0
  <2> SUFFICES ASSUME Len(txQueues[t]) # 0 PROVE FALSE
    OBVIOUS
  <2>1. <<t, 1>> \in {t} \X (1..Len(txQueues[t]))
    BY <1>1
  <2>2. <<t, 1>> \in Queued
    BY <2>1, Zenon DEF Queued
  <2> QED
    BY <2>2
<1> QED
  BY <1>1, <1>2

-----------------------------------------------------------------------------
(* The counters and the wait.                                              *)

(* The backlog never reaches the width of the counters, or equal counters  *)
(* could mean a full queue.  While the send thread is outside its lock one *)
(* place is kept for the control packet it may post next.                  *)
BacklogBound ==
  /\ Cardinality(Queued) <= MaxQueued + 1
  /\ sender \in Outside => Cardinality(Queued) <= MaxQueued

CountInv ==
  /\ IsFiniteSet(Queued)
  /\ CountersMatchQueues
  /\ BacklogBound
  /\ NoLostWakeup

(* Incrementing m_numPosted keeps it in step with one more packet, across  *)
(* the wrap to zero.                                                       *)
LEMMA CountAfterPost ==
  ASSUME NEW p \in 0..(CounterModulus - 1), NEW s \in 0..(CounterModulus - 1),
         NEW n \in Nat, n + 1 < CounterModulus,
         p = s + n \/ p + CounterModulus = s + n
  PROVE  \/ Increment(p) = s + (n + 1)
         \/ Increment(p) + CounterModulus = s + (n + 1)
BY MuxerAssumption DEF Increment

(* Incrementing m_numSent keeps it in step with one packet less. *)
LEMMA CountAfterPop ==
  ASSUME NEW p \in 0..(CounterModulus - 1), NEW s \in 0..(CounterModulus - 1),
         NEW n \in Nat \ {0}, n < CounterModulus,
         p = s + n \/ p + CounterModulus = s + n
  PROVE  \/ p = Increment(s) + (n - 1)
         \/ p + CounterModulus = Increment(s) + (n - 1)
BY MuxerAssumption DEF Increment

(* A post keeps the counters in step as long as the backlog is bounded. *)
LEMMA EnqueueCounts ==
  ASSUME TypeOK, CountInv, NEW p \in Packets, Enqueue(p), UNCHANGED numSent,
         Cardinality(Queued) <= MaxQueued
  PROVE  /\ IsFiniteSet(Queued')
         /\ Cardinality(Queued') = Cardinality(Queued) + 1
         /\ Cardinality(Queued) \in Nat
         /\ CountersMatchQueues'
<1>1. IsFiniteSet(Queued') /\ Cardinality(Queued') = Cardinality(Queued) + 1
  BY EnqueueAddsPlace DEF CountInv
<1>2. Cardinality(Queued) \in Nat
  BY FS_CardinalityType DEF CountInv
<1>3. /\ numPosted \in 0..(CounterModulus - 1) /\ numSent \in 0..(CounterModulus - 1)
      /\ Cardinality(Queued) + 1 < CounterModulus
  BY <1>2, MuxerAssumption DEF TypeOK
<1>4. \/ numPosted = numSent + Cardinality(Queued)
      \/ numPosted + CounterModulus = numSent + Cardinality(Queued)
  BY DEF CountInv, CountersMatchQueues
<1>5. \/ numPosted' = numSent + (Cardinality(Queued) + 1)
      \/ numPosted' + CounterModulus = numSent + (Cardinality(Queued) + 1)
  BY <1>2, <1>3, <1>4, CountAfterPost DEF Enqueue
<1>6. CountersMatchQueues'
  BY <1>1, <1>5 DEF CountersMatchQueues
<1> QED
  BY <1>1, <1>2, <1>6

(* Equal counters mean empty queues. *)
LEMMA IdleMeansEmpty ==
  ASSUME TypeOK, CountInv, Idle
  PROVE  Queued = {}
<1>1. IsFiniteSet(Queued) /\ Cardinality(Queued) \in Nat
  BY FS_CardinalityType DEF CountInv
<1>2. Cardinality(Queued) = 0
  BY <1>1, MuxerAssumption DEF Idle, CountInv, CountersMatchQueues, BacklogBound, TypeOK
<1> QED
  BY <1>1, <1>2, FS_EmptySet

(* The initial state satisfies it: nothing is posted. *)
LEMMA CountInit == Init => CountInv
<1> SUFFICES ASSUME Init PROVE CountInv
  OBVIOUS
<1>1. Queued = {}
  BY DEF Init, Queued
<1>2. IsFiniteSet(Queued) /\ Cardinality(Queued) = 0
  BY <1>1, FS_EmptySet
<1> QED
  BY <1>1, <1>2, MuxerAssumption
     DEF Init, CountInv, CountersMatchQueues, BacklogBound, NoLostWakeup

(* Every step keeps the counters in step with the queues. *)
LEMMA CountStep == CoreInv /\ CountInv /\ [Next]_vars => CountInv'
<1> SUFFICES ASSUME CoreInv, CountInv, [Next]_vars PROVE CountInv'
  OBVIOUS
<1> USE DEF queueVars, Outside
<1>1. TypeOK /\ LockDiscipline /\ WriteHasPacket
  BY DEF CoreInv
<1>2. IsFiniteSet(Queued) /\ Cardinality(Queued) \in Nat
  BY FS_CardinalityType DEF CountInv
<1>3. ASSUME UNCHANGED queueVars
      PROVE  IsFiniteSet(Queued') /\ CountersMatchQueues' /\ Queued' = Queued
  BY <1>3 DEF CountInv, CountersMatchQueues, Queued
<1>4. ASSUME NEW p \in UserPackets, EmplacePacket(p) PROVE CountInv'
  <2>0. p \in Packets /\ Cardinality(Queued) <= MaxQueued
    BY <1>2, <1>4, MuxerAssumption DEF EmplacePacket, Packets
  <2>1. /\ IsFiniteSet(Queued') /\ CountersMatchQueues'
        /\ Cardinality(Queued') = Cardinality(Queued) + 1
    BY <1>1, <1>4, <2>0, EnqueueCounts DEF EmplacePacket
  <2>2. Cardinality(Queued') <= MaxQueued
    BY <1>2, <1>4, <2>1, MuxerAssumption DEF EmplacePacket
  <2>3. sender' # "waiting"
    BY <1>4 DEF EmplacePacket, Notify
  <2> QED
    BY <1>2, <2>1, <2>2, <2>3, MuxerAssumption
       DEF CountInv, BacklogBound, NoLostWakeup
<1>5. CASE SendHello
  <2>1. /\ IsFiniteSet(Queued') /\ CountersMatchQueues'
        /\ Cardinality(Queued') = Cardinality(Queued) + 1
    BY <1>1, <1>2, <1>5, EnqueueCounts, ControlPackets
       DEF SendHello, CountInv, BacklogBound
  <2> QED
    BY <1>2, <1>5, <2>1, MuxerAssumption DEF SendHello, CountInv, BacklogBound, NoLostWakeup
<1>6. CASE Wake
  <2>1. CASE sender = "late"
    <3>1. /\ IsFiniteSet(Queued') /\ CountersMatchQueues'
          /\ Cardinality(Queued') = Cardinality(Queued) + 1
      BY <1>1, <1>2, <1>6, <2>1, EnqueueCounts, ControlPackets
         DEF Wake, AfterWait, StartPass, CountInv, BacklogBound
    <3> QED
      BY <1>2, <1>6, <2>1, <3>1, MuxerAssumption
         DEF Wake, StartPass, CountInv, BacklogBound, NoLostWakeup
  <2>2. CASE sender # "late"
    <3>1. UNCHANGED queueVars
      BY <1>6, <2>2 DEF Wake, AfterWait, StartPass
    <3> QED
      BY <1>3, <1>6, <3>1 DEF Wake, StartPass, CountInv, BacklogBound, NoLostWakeup
  <2> QED
    BY <2>1, <2>2
<1>7. CASE BeginWait
  <2>1. UNCHANGED queueVars
    BY <1>7 DEF BeginWait
  <2>2. Queued = {}
    BY <1>1, <1>7, IdleMeansEmpty DEF BeginWait
  <2>3. Cardinality(Queued) = 0
    BY <2>2, FS_EmptySet
  <2> QED
    BY <1>3, <1>7, <2>1, <2>2, <2>3, MuxerAssumption
       DEF BeginWait, CountInv, BacklogBound, NoLostWakeup
<1>8. CASE EndPacket
  <2>1. current \in Types /\ txQueues[current] # <<>>
    BY <1>1, <1>8 DEF EndPacket, TypeOK, WriteHasPacket
  <2>2. /\ IsFiniteSet(Queued')
        /\ Cardinality(Queued') = Cardinality(Queued) - 1
    BY <1>1, <1>2, <1>8, <2>1, PopRemovesPlace DEF EndPacket
  <2>3. IsFiniteSet(Queued') => Cardinality(Queued') \in Nat
    BY FS_CardinalityType
  <2>4. Cardinality(Queued) \in Nat \ {0}
    BY <1>2, <2>2, <2>3
  <2>5. CountersMatchQueues'
    BY <1>1, <1>8, <2>2, <2>4, CountAfterPop, MuxerAssumption
       DEF EndPacket, CountSent, CountInv, CountersMatchQueues, BacklogBound, TypeOK
  <2> QED
    BY <1>8, <2>2, <2>4, <2>5, MuxerAssumption
       DEF EndPacket, CountInv, BacklogBound, NoLostWakeup
<1>9. CASE DestructorSignals
  BY <1>3, <1>9 DEF DestructorSignals, Notify, CountInv, BacklogBound, NoLostWakeup
<1>10. ASSUME UNCHANGED <<queueVars, transportError>>,
              sender' \in Outside => sender \in Outside, sender' = "waiting" => sender = "waiting"
       PROVE  CountInv'
  BY <1>3, <1>10 DEF CountInv, BacklogBound, NoLostWakeup
<1>11. CASE DestructorBegins \/ DestructorJoins \/ TakeLock \/ LeaveLoop \/ TimeOut
             \/ SpuriousWake
  BY <1>10, <1>11
     DEF DestructorBegins, DestructorJoins, TakeLock, LeaveLoop, TimeOut, SpuriousWake
<1>12. CASE SkipWait \/ PassDone \/ BeginPacket \/ NextField
  BY <1>10, <1>12 DEF SkipWait, StartPass, PassDone, BeginPacket, NextField
<1>13. ASSUME NEW t \in Types, NextQueue(t) PROVE CountInv'
  BY <1>10, <1>13 DEF NextQueue
<1>14. ASSUME NEW n \in -1..io.left, Write(n) PROVE CountInv'
  BY <1>10, <1>14 DEF Write
<1>15. CASE LinkDown \/ Destroyed \/ UNCHANGED vars
  BY <1>10, <1>15 DEF LinkDown, Destroyed, vars
<1> QED
  BY <1>4, <1>5, <1>6, <1>7, <1>8, <1>9, <1>11, <1>12, <1>13, <1>14, <1>15
     DEF Next, SendLoop

(* The counting invariant holds of the muxer. *)
LEMMA CountInvariant == Spec => []CountInv
BY CoreInvariant, CountInit, CountStep, PTL DEF Spec

(* The send thread's test for work, m_numPosted == m_numSent, is exact     *)
(* across the wrap of both counters and across torn packets.               *)
THEOREM CountersCorrect == Spec => []CountersMatchQueues
BY CountInvariant, PTL DEF CountInv

(* No post and no request to stop is slept through. *)
THEOREM WakeupsCorrect == Spec => []NoLostWakeup
BY CountInvariant, PTL DEF CountInv

-----------------------------------------------------------------------------
(* The error flag, the heartbeats and the promise to the far end.          *)

(* Once set, m_transportError stays set: sendPacket stores its verdict     *)
(* only while the flag is clear, because the destructor needs the lock.    *)
LEMMA ErrorStays == CoreInv /\ [Next]_vars => (transportError => transportError')
<1> SUFFICES ASSUME CoreInv, [Next]_vars, transportError PROVE transportError'
  OBVIOUS
<1>1. sender # "write"
  BY DEF CoreInv, WriteHasPacket
<1>2. ~EndPacket
  BY <1>1 DEF EndPacket
<1>3. transportError' = transportError \/ transportError' = TRUE
  BY <1>2 DEF Next, SendLoop, EmplacePacket, DestructorBegins, DestructorSignals,
     DestructorJoins, SendHello, TakeLock, LeaveLoop, BeginWait, SkipWait, Wake,
     StartPass, PassDone, BeginPacket, NextField, NextQueue, TimeOut, SpuriousWake,
     Write, LinkDown, Destroyed, vars
<1> QED
  BY <1>3

(* The destructor's request to stop and a failure once seen are never      *)
(* overwritten.                                                            *)
THEOREM ErrorLatches == Spec => ErrorLatched
<1>1. CoreInv /\ [Next]_vars => [transportError => transportError']_vars
  BY ErrorStays
<1> QED
  BY <1>1, CoreInvariant, PTL DEF Spec, ErrorLatched

(* No control packet waits while the send thread is outside its lock. *)
ControlInv ==
  /\ ControlBacklogBounded
  /\ sender \in Outside => txQueues[ControlType] = <<>>

(* Every step keeps the control queue short. *)
LEMMA ControlStep ==
  CoreInv /\ CountInv /\ ControlInv /\ [Next]_vars => ControlInv'
<1> SUFFICES ASSUME CoreInv, CountInv, ControlInv, [Next]_vars PROVE ControlInv'
  OBVIOUS
<1> USE DEF queueVars, Outside, ControlInv, ControlBacklogBounded
<1>1. TypeOK /\ WriteHasPacket
  BY DEF CoreInv
<1>2. /\ ControlType \in Types
      /\ \A t \in Types : txQueues[t] \in Seq(Packets)
  BY <1>1 DEF TypeOK, Types
<1>3. ASSUME NEW p \in UserPackets, EmplacePacket(p) PROVE ControlInv'
  <2>1. p.type \in Types /\ p.type # ControlType
    BY MuxerAssumption DEF UserPackets, Types
  <2>2. txQueues'[ControlType] = txQueues[ControlType]
    BY <1>1, <1>2, <1>3, <2>1 DEF EmplacePacket, Enqueue, TypeOK
  <2> QED
    BY <1>3, <2>2 DEF EmplacePacket, Notify
<1>4. ASSUME NEW p \in Packets, p.type = ControlType, Enqueue(p), sender \in Outside
      PROVE  Len(txQueues'[ControlType]) <= 1
  BY <1>1, <1>2, <1>4 DEF Enqueue, TypeOK
<1>5. CASE SendHello
  BY <1>4, <1>5, ControlPackets DEF SendHello
<1>6. CASE Wake
  <2>1. CASE sender = "late"
    BY <1>4, <1>6, <2>1, ControlPackets DEF Wake, AfterWait, StartPass
  <2>2. CASE sender # "late"
    BY <1>6, <2>2 DEF Wake, AfterWait, StartPass
  <2> QED
    BY <2>1, <2>2
<1>7. CASE BeginWait
  <2>1. txQueues[ControlType] = <<>>
    BY <1>1, <1>2, <1>7, IdleMeansEmpty, NothingQueued DEF BeginWait
  <2> QED
    BY <1>7, <2>1 DEF BeginWait
<1>8. CASE EndPacket
  <2>1. current \in Types /\ txQueues[current] # <<>>
    BY <1>1, <1>8 DEF EndPacket, TypeOK, WriteHasPacket
  <2>2. Len(txQueues'[ControlType]) <= Len(txQueues[ControlType])
    BY <1>1, <1>2, <1>8, <2>1 DEF EndPacket, TypeOK
  <2>3. /\ Len(txQueues[ControlType]) \in Nat
        /\ txQueues'[ControlType] \in Seq(Packets)
    BY <1>1, <1>2, <1>8, <2>1 DEF EndPacket, TypeOK
  <2> QED
    BY <1>8, <2>2, <2>3 DEF EndPacket
<1>9. ASSUME UNCHANGED queueVars, sender' \in Outside => sender \in Outside
      PROVE  ControlInv'
  BY <1>9
<1>10. CASE DestructorBegins \/ DestructorSignals \/ DestructorJoins \/ TakeLock
             \/ LeaveLoop \/ TimeOut \/ SpuriousWake
  BY <1>9, <1>10 DEF DestructorBegins, DestructorSignals, Notify, DestructorJoins,
     TakeLock, LeaveLoop, TimeOut, SpuriousWake
<1>11. CASE SkipWait \/ PassDone \/ BeginPacket \/ NextField
  BY <1>9, <1>11 DEF SkipWait, StartPass, PassDone, BeginPacket, NextField
<1>12. ASSUME NEW t \in Types, NextQueue(t) PROVE ControlInv'
  BY <1>9, <1>12 DEF NextQueue
<1>13. ASSUME NEW n \in -1..io.left, Write(n) PROVE ControlInv'
  BY <1>9, <1>13 DEF Write
<1>14. CASE LinkDown \/ Destroyed \/ UNCHANGED vars
  BY <1>9, <1>14 DEF LinkDown, Destroyed, vars
<1> QED
  BY <1>3, <1>5, <1>6, <1>7, <1>8, <1>10, <1>11, <1>12, <1>13, <1>14
     DEF Next, SendLoop

(* Heartbeats never pile up behind a slow transport. *)
THEOREM HeartBeatsBounded == Spec => []ControlBacklogBounded
<1>1. Init => ControlInv
  BY DEF Init, ControlInv, ControlBacklogBounded, Types
<1> QED
  BY <1>1, ControlStep, CoreInvariant, CountInvariant, PTL DEF Spec, ControlInv

(* Each step of the muxer is a step of PacketStream or leaves it alone.    *)
LEMMA StreamStep == CoreInv /\ [Next]_vars => [PS!Next]_PS!streamVars
<1> SUFFICES ASSUME CoreInv, [Next]_vars PROVE [PS!Next]_PS!streamVars
  OBVIOUS
<1> USE DEF PS!streamVars, queueVars, linkVars
<1>1. TypeOK /\ WriteHasPacket
  BY DEF CoreInv
<1>2. ASSUME NEW p \in Packets, Enqueue(p), UNCHANGED <<line, transportError>>
      PROVE  PS!Next
  BY <1>2 DEF Enqueue, PS!Next, PS!Post
<1>3. ASSUME NEW p \in UserPackets, EmplacePacket(p) PROVE PS!Next
  BY <1>2, <1>3 DEF EmplacePacket, Packets
<1>4. CASE SendHello
  BY <1>2, <1>4, ControlPackets DEF SendHello
<1>5. CASE Wake
  BY <1>2, <1>5, ControlPackets DEF Wake, AfterWait, StartPass
<1>6. CASE DestructorSignals
  BY <1>6 DEF DestructorSignals, PS!Next, PS!Break
<1>7. CASE EndPacket
  <2>1. ~transportError /\ txQueues[current] # <<>> /\ current \in Types
    BY <1>1, <1>7 DEF EndPacket, WriteHasPacket, TypeOK
  <2>2. CASE io.ok
    <3>1. transportError' = FALSE /\ transportError = FALSE
      BY <1>1, <1>7, <2>1, <2>2 DEF EndPacket, TypeOK
    <3>2. line' = <<Head(txQueues[current])>>
      BY <1>7, <2>2 DEF EndPacket
    <3>3. PS!Transmit(current)
      BY <1>7, <2>1, <3>1, <3>2 DEF EndPacket, PS!Transmit
    <3> QED
      BY <2>1, <3>3 DEF PS!Next
  <2>3. CASE ~io.ok
    <3>1. transportError' = TRUE
      BY <1>7, <2>3 DEF EndPacket
    <3>2. PS!Tear(current)
      BY <1>7, <2>1, <2>3, <3>1 DEF EndPacket, PS!Tear
    <3> QED
      BY <2>1, <3>2 DEF PS!Next
  <2> QED
    BY <2>2, <2>3
<1>8. CASE DestructorBegins \/ DestructorJoins \/ TakeLock \/ LeaveLoop \/ BeginWait
             \/ SkipWait \/ PassDone \/ BeginPacket \/ NextField \/ TimeOut
             \/ SpuriousWake \/ LinkDown \/ Destroyed \/ UNCHANGED vars
  BY <1>8 DEF DestructorBegins, DestructorJoins, TakeLock, LeaveLoop, BeginWait,
     SkipWait, StartPass, PassDone, BeginPacket, NextField, TimeOut, SpuriousWake,
     LinkDown, Destroyed, vars
<1>9. ASSUME NEW t \in Types, NextQueue(t) PROVE UNCHANGED PS!streamVars
  BY <1>9 DEF NextQueue
<1>10. ASSUME NEW n \in -1..io.left, Write(n) PROVE UNCHANGED PS!streamVars
  BY <1>10 DEF Write
<1> QED
  BY <1>3, <1>4, <1>5, <1>6, <1>7, <1>8, <1>9, <1>10 DEF Next, SendLoop

(* The muxer implements its promise to the far end: per type FIFO order,   *)
(* no packet lost or duplicated before a failure, at most one torn by it   *)
(* and nothing after it.                                                   *)
THEOREM StreamImplemented == Spec => StreamSpec
<1>1. Init => PS!Init
  BY DEF Init, PS!Init
<1> QED
  BY <1>1, StreamStep, CoreInvariant, PTL DEF Spec, StreamSpec, PS!Spec
=============================================================================
