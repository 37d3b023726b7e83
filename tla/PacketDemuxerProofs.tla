------------------------ MODULE PacketDemuxerProofs -------------------------
(***************************************************************************)
(* Proofs about PacketDemuxer, for every value of its constants that       *)
(* DemuxerAssumption allows: any number of packet types, of subscribers    *)
(* per type and of packets received.                                       *)
(***************************************************************************)
EXTENDS PacketDemuxer, SequenceTheorems, TLAPS

(* The packet under way is one that a muxer sends, and what is dispatched  *)
(* is not a control packet.                                                *)
FrameKnown ==
  /\ receiver \in {"type", "size", "data", "packet"} => frame \in Packets
  /\ receiver = "dispatch" => frame \in UserPackets /\ position >= 1

(* The receiver holds m_subscriberLock during a dispatch and only then.    *)
LockDiscipline == subLock = "receiver" <=> receiver = "dispatch"

ReceiverInv == TypeOK /\ FrameKnown /\ LockDiscipline

(* m_subscribers: each subscriber is in the queue of its own type, once,   *)
(* and its subscription exists.                                            *)
QueuesWellFormed ==
  \A t \in UserTypes :
    /\ \A i \in 1..Len(subscribers[t]) : /\ TypeOf[subscribers[t][i]] = t
                                         /\ handle[subscribers[t][i]] # "none"
    /\ \A i, j \in 1..Len(subscribers[t]) : subscribers[t][i] = subscribers[t][j] => i = j

(* The callback that runs is that of a subscriber in the queue dispatched. *)
ActiveInQueue ==
  \A s \in active : receiver = "dispatch" /\ \E i \in 1..Len(Queue) : Queue[i] = s

(* A subscription that is being dropped keeps the demuxer alive.           *)
ClosingInQueue ==
  \A s \in Subs : handle[s] = "closing" => owner = "live" /\ Registered(s)

(* Nothing is left of a demuxer that is gone.                              *)
GoneIsEmpty ==
  owner = "gone" => receiver = "exited" /\ \A t \in UserTypes : subscribers[t] = <<>>

RegistryInv == QueuesWellFormed /\ ActiveInQueue /\ ClosingInQueue /\ GoneIsEmpty

-----------------------------------------------------------------------------
(* Packets and queues.                                                     *)

(* The packets of the protocol are packets. *)
LEMMA ControlPackets ==
  Hello \in Packets /\ HeartBeat \in Packets /\ UserPackets \subseteq Packets
BY DEF Packets

(* A packet that is not a control packet carries something for the         *)
(* application, and every packet has a size.                               *)
LEMMA PacketFields ==
  ASSUME NEW p \in Packets
  PROVE  /\ p.type # ControlType => p \in UserPackets
         /\ DataSizeOf(p) \in Nat
<1>1. CASE p \in UserPackets
  BY <1>1, DemuxerAssumption DEF UserPackets, DataSizeOf
<1>2. CASE p \in {Hello, HeartBeat}
  BY <1>2 DEF Hello, HeartBeat, DataSizeOf
<1> QED
  BY <1>1, <1>2 DEF Packets

(* A user packet has a type that one can subscribe to. *)
LEMMA UserPacketType ==
  ASSUME NEW p \in UserPackets
  PROVE  p.type \in UserTypes
BY DEF UserPackets

(* What is left of a sequence when one position is removed. *)
LEMMA RemoveAtProperties ==
  ASSUME NEW S, NEW q \in Seq(S), NEW i \in 1..Len(q)
  PROVE  /\ RemoveAt(q, i) \in Seq(S)
         /\ Len(RemoveAt(q, i)) = Len(q) - 1
         /\ \A j \in 1..Len(q) - 1 :
              RemoveAt(q, i)[j] = IF j < i THEN q[j] ELSE q[j + 1]
<1> DEFINE before == SubSeq(q, 1, i - 1)
<1> DEFINE after == SubSeq(q, i + 1, Len(q))
<1>1. /\ before \in Seq(S) /\ Len(before) = i - 1
      /\ \A j \in 1..i - 1 : before[j] = q[j]
  BY SubSeqProperties
<1>2. /\ after \in Seq(S) /\ Len(after) = Len(q) - i
      /\ \A j \in 1..Len(q) - i : after[j] = q[i + j]
  BY SubSeqProperties
<1> HIDE DEF before, after
<1>3. RemoveAt(q, i) = before \o after
  BY DEF RemoveAt, before, after
<1>4. /\ before \o after \in Seq(S)
      /\ Len(before \o after) = Len(before) + Len(after)
      /\ \A j \in 1..Len(before) + Len(after) :
           (before \o after)[j] = IF j <= Len(before) THEN before[j]
                                                    ELSE after[j - Len(before)]
  BY <1>1, <1>2, ConcatProperties
<1>5. Len(before) + Len(after) = Len(q) - 1
  BY <1>1, <1>2
<1>6. ASSUME NEW j \in 1..Len(q) - 1
      PROVE  (before \o after)[j] = IF j < i THEN q[j] ELSE q[j + 1]
  <2>1. CASE j < i
    BY <1>1, <1>4, <1>5, <2>1
  <2>2. CASE ~(j < i)
    <3>1. j - Len(before) \in 1..Len(q) - i /\ ~(j <= Len(before))
      BY <1>1, <2>2
    <3>2. (before \o after)[j] = after[j - Len(before)]
      BY <1>4, <1>5, <3>1
    <3> QED
      BY <1>1, <1>2, <2>2, <3>1, <3>2
  <2> QED
    BY <2>1, <2>2
<1> QED
  BY <1>3, <1>4, <1>5, <1>6

-----------------------------------------------------------------------------
(* Types, and the receiver with its lock.                                  *)

(* The initial state satisfies the invariant of the receiver. *)
LEMMA ReceiverInit == Init => ReceiverInv
<1> SUFFICES ASSUME Init PROVE ReceiverInv
  OBVIOUS
<1> USE DEF Init
<1>1. subscribers \in [UserTypes -> Seq(Subs)] /\ inbox \in [Subs -> Seq(Packets)]
  OBVIOUS
<1>2. TypeOK
  BY <1>1 DEF TypeOK
<1> QED
  BY <1>2 DEF ReceiverInv, FrameKnown, LockDiscipline

(* What receivePacket does when it gives up. *)
LEMMA GiveUpStep ==
  ASSUME ReceiverInv, GiveUp, transportError' \in BOOLEAN, receiver # "dispatch"
  PROVE  ReceiverInv'
BY DEF GiveUp, ReceiverInv, TypeOK, FrameKnown, LockDiscipline, dispatchVars, subVars,
   transportVars

(* Every step keeps the invariant of the receiver. *)
LEMMA ReceiverStep == ReceiverInv /\ [Next]_vars => ReceiverInv'
<1> SUFFICES ASSUME ReceiverInv, [Next]_vars PROVE ReceiverInv'
  OBVIOUS
<1> USE DEF ReceiverInv, FrameKnown, LockDiscipline
<1> USE DEF readVars, dispatchVars, subVars, transportVars
<1>1. CASE SetNonBlocking \/ DestructorSignals \/ WarnAboutSubscribers
  BY <1>1 DEF SetNonBlocking, DestructorSignals, WarnAboutSubscribers, TypeOK
<1>2. CASE DestructorJoins
  BY <1>2 DEF DestructorJoins, TypeOK
<1>3. ASSUME NEW s \in Subs, Subscribe(s) PROVE ReceiverInv'
  <2>1. TypeOf[s] \in UserTypes
    BY DemuxerAssumption
  <2>2. subscribers' \in [UserTypes -> Seq(Subs)]
    BY <1>3, <2>1 DEF Subscribe, TypeOK
  <2> QED
    BY <1>3, <2>2 DEF Subscribe, TypeOK
<1>4. ASSUME NEW s \in Subs, DropSubscription(s) PROVE ReceiverInv'
  BY <1>4 DEF DropSubscription, TypeOK
<1>5. ASSUME NEW s \in Subs, Unsubscribe(s) PROVE ReceiverInv'
  <2>1. TypeOf[s] \in UserTypes
    BY DemuxerAssumption
  <2>2. subscribers' \in [UserTypes -> Seq(Subs)]
    <3>1. PICK k \in 1..Len(subscribers[TypeOf[s]]) :
            subscribers' = [subscribers EXCEPT ![TypeOf[s]] = RemoveAt(@, k)]
      BY <1>5 DEF Unsubscribe
    <3>2. RemoveAt(subscribers[TypeOf[s]], k) \in Seq(Subs)
      BY <2>1, RemoveAtProperties DEF TypeOK
    <3> QED
      BY <3>1, <3>2, <2>1 DEF TypeOK
  <2> QED
    BY <1>5, <2>2 DEF Unsubscribe, TypeOK
<1>6. CASE TestError \/ FallAsleep
  BY <1>6 DEF TestError, FallAsleep, Reading, TypeOK
<1>7. CASE PollTimesOut \/ ReadFails \/ ReadInterrupted
  <2>1. receiver # "dispatch" /\ transportError' \in BOOLEAN
    BY <1>7 DEF PollTimesOut, ReadFails, ReadInterrupted, Reading, TypeOK
  <2> QED
    BY <1>7, <2>1, GiveUpStep DEF PollTimesOut, ReadFails, ReadInterrupted
<1>8. ASSUME NEW p \in Packets, PollReady(p) PROVE ReceiverInv'
  BY <1>8, DemuxerAssumption DEF PollReady, TypeOK
<1>9. ASSUME NEW n \in 0..left, ReadBytes(n) PROVE ReceiverInv'
  <2>1. left' \in Nat
    BY <1>9 DEF ReadBytes, TypeOK
  <2> QED
    BY <1>9, <2>1 DEF ReadBytes, TypeOK
<1>10. CASE FieldRead
  <2>1. frame \in Packets
    BY <1>10 DEF FieldRead, Reading
  <2>2. DataSizeOf(frame) \in Nat
    BY <2>1, PacketFields
  <2> QED
    BY <1>10, <2>1, <2>2, DemuxerAssumption DEF FieldRead, Reading, TypeOK
<1>11. CASE HelloRead
  BY <1>11 DEF HelloRead, NextPacket, FirstPacket, TypeOK
<1>12. CASE ControlRead
  BY <1>12 DEF ControlRead, NextPacket, FirstPacket, TypeOK
<1>13. CASE DispatchBegins
  <2>1. frame \in UserPackets
    BY <1>13, PacketFields DEF DispatchBegins
  <2>2. TypeOK'
    BY <1>13 DEF DispatchBegins, FirstPacket, TypeOK
  <2> QED
    BY <1>13, <2>1, <2>2 DEF DispatchBegins
<1>14. CASE CallbackBegins
  <2>1. frame \in Packets /\ Queue \in Seq(Subs)
    BY <1>14, ControlPackets, UserPacketType DEF CallbackBegins, Queue, TypeOK
  <2>2. Queue[position] \in Subs
    BY <1>14, <2>1 DEF CallbackBegins, TypeOK
  <2>3. inbox' \in [Subs -> Seq(Packets)]
    BY <1>14, <2>1, <2>2 DEF CallbackBegins, TypeOK
  <2>4. TypeOK'
    BY <1>14, <2>2, <2>3 DEF CallbackBegins, TypeOK
  <2> QED
    BY <1>14, <2>4 DEF CallbackBegins, TypeOK
<1>15. CASE CallbackEnds
  BY <1>15 DEF CallbackEnds, TypeOK
<1>16. CASE DispatchDone
  BY <1>16 DEF DispatchDone, ReleaseLock, NextPacket, TypeOK
<1>17. ASSUME NEW how \in {"closed", "reset"}, PeerGoes(how) PROVE ReceiverInv'
  BY <1>17 DEF PeerGoes, TypeOK
<1>18. CASE Destroyed \/ UNCHANGED vars
  BY <1>18 DEF Destroyed, vars, TypeOK
<1> QED
  BY <1>1, <1>2, <1>3, <1>4, <1>5, <1>6, <1>7, <1>8, <1>9, <1>10, <1>11, <1>12, <1>13,
     <1>14, <1>15, <1>16, <1>17, <1>18 DEF Next, ReceiveLoop

(* The invariant of the receiver holds of the demuxer. *)
LEMMA ReceiverInvariant == Spec => []ReceiverInv
BY ReceiverInit, ReceiverStep, PTL DEF Spec

(* Of a header field no more is left than there is. *)
HeaderLeft == receiver = "type" => left <= FieldSize

LEMMA HeaderLeftInvariant == Spec => []HeaderLeft
<1>1. Init => HeaderLeft
  BY DEF Init, HeaderLeft
<1>2. ReceiverInv /\ HeaderLeft /\ [Next]_vars => HeaderLeft'
  <2> SUFFICES ASSUME ReceiverInv, HeaderLeft, [Next]_vars, receiver' = "type"
               PROVE  left' <= FieldSize
    BY DEF HeaderLeft
  <2> USE DEF readVars, dispatchVars, subVars, transportVars, HeaderLeft
  <2>1. left \in Nat /\ FieldSize \in Nat
    BY DemuxerAssumption DEF ReceiverInv, TypeOK
  <2>2. ASSUME NEW p \in Packets, PollReady(p) PROVE left' <= FieldSize
    BY <2>1, <2>2 DEF PollReady
  <2>3. ASSUME NEW n \in 0..left, ReadBytes(n) PROVE left' <= FieldSize
    BY <2>1, <2>3 DEF ReadBytes
  <2>4. ~ReadFails /\ ~ReadInterrupted /\ ~PollTimesOut /\ ~TestError /\ ~FieldRead
    <3>1. ~FieldRead
      BY DEF FieldRead, Reading
    <3> QED
      BY <3>1 DEF ReadFails, ReadInterrupted, PollTimesOut, GiveUp, TestError
  <2>5. ~HelloRead /\ ~ControlRead /\ ~DispatchBegins /\ ~DispatchDone
    BY DEF HelloRead, ControlRead, DispatchBegins, DispatchDone, NextPacket
  <2>6. CASE FallAsleep \/ CallbackBegins \/ CallbackEnds \/ Destroyed \/ UNCHANGED vars
    BY <2>6 DEF FallAsleep, CallbackBegins, CallbackEnds, Destroyed, vars
  <2>7. ASSUME NEW s \in Subs, Subscribe(s) \/ DropSubscription(s) \/ Unsubscribe(s)
        PROVE  left' <= FieldSize
    BY <2>7 DEF Subscribe, DropSubscription, Unsubscribe
  <2>8. CASE SetNonBlocking \/ DestructorSignals \/ WarnAboutSubscribers \/ DestructorJoins
    BY <2>8 DEF SetNonBlocking, DestructorSignals, WarnAboutSubscribers, DestructorJoins
  <2>9. ASSUME NEW how \in {"closed", "reset"}, PeerGoes(how) PROVE left' <= FieldSize
    BY <2>9 DEF PeerGoes
  <2> QED
    BY <2>2, <2>3, <2>4, <2>5, <2>6, <2>7, <2>8, <2>9 DEF Next, ReceiveLoop
<1> QED
  BY <1>1, <1>2, ReceiverInvariant, PTL DEF Spec

(* The fields of the demuxer keep their types; what a callback is given is *)
(* never an invalid packet (the assertion of PacketDemuxer.cpp:182).       *)
THEOREM TypeCorrect == Spec => []TypeOK
BY ReceiverInvariant, PTL DEF ReceiverInv

-----------------------------------------------------------------------------
(* m_subscribers and the subscriptions.                                    *)

(* Who is subscribed, in terms of positions. *)
LEMMA RegisteredPosition ==
  ASSUME NEW s
  PROVE  Registered(s) <=> \E i \in 1..Len(subscribers[TypeOf[s]]) :
                             subscribers[TypeOf[s]][i] = s
BY DEF Registered, Contains

(* A subscriber whose callback runs is registered. *)
LEMMA ActiveRegistered ==
  ASSUME ReceiverInv, RegistryInv, NEW s \in active
  PROVE  receiver = "dispatch" /\ frame.type \in UserTypes /\ Registered(s)
<1>1. receiver = "dispatch" /\ \E i \in 1..Len(Queue) : Queue[i] = s
  BY DEF RegistryInv, ActiveInQueue
<1>2. frame.type \in UserTypes
  BY <1>1, UserPacketType DEF ReceiverInv, FrameKnown
<1>3. TypeOf[s] = frame.type
  BY <1>1, <1>2 DEF Queue, RegistryInv, QueuesWellFormed
<1> QED
  BY <1>1, <1>2, <1>3, RegisteredPosition DEF Queue

(* A registered subscriber still has its subscription. *)
LEMMA RegisteredHandle ==
  ASSUME ReceiverInv, RegistryInv, NEW s \in Subs, Registered(s)
  PROVE  handle[s] # "none" /\ owner # "gone"
<1>1. TypeOf[s] \in UserTypes
  BY DemuxerAssumption
<1>2. PICK i \in 1..Len(subscribers[TypeOf[s]]) : subscribers[TypeOf[s]][i] = s
  BY RegisteredPosition
<1>3. handle[s] # "none"
  BY <1>1, <1>2 DEF RegistryInv, QueuesWellFormed
<1>4. subscribers[TypeOf[s]] # <<>>
  BY <1>2
<1> QED
  BY <1>1, <1>3, <1>4 DEF RegistryInv, GoneIsEmpty

(* The initial state satisfies the invariant of the registry. *)
LEMMA RegistryInit == Init => RegistryInv
BY DEF Init, RegistryInv, QueuesWellFormed, ActiveInQueue, ClosingInQueue, GoneIsEmpty

(* Registering a subscriber. *)
LEMMA SubscribeStep ==
  ASSUME ReceiverInv, RegistryInv, NEW s \in Subs, Subscribe(s)
  PROVE  /\ RegistryInv'
         /\ \A u \in Subs : Registered(u)' <=> Registered(u) \/ u = s
<1> DEFINE T == TypeOf[s]
<1> DEFINE q == subscribers[T]
<1>1. T \in UserTypes /\ q \in Seq(Subs) /\ Len(q) \in Nat
  BY DemuxerAssumption DEF ReceiverInv, TypeOK
<1>2. /\ \A t \in UserTypes \ {T} : subscribers'[t] = subscribers[t]
      /\ subscribers'[T] = Append(q, s)
  BY <1>1 DEF Subscribe, ReceiverInv, TypeOK
<1>3. /\ Len(subscribers'[T]) = Len(q) + 1
      /\ \A i \in 1..Len(q) : subscribers'[T][i] = q[i]
      /\ subscribers'[T][Len(q) + 1] = s
  BY <1>1, <1>2
<1>4. /\ handle[s] = "none" /\ handle'[s] = "live"
      /\ \A u \in Subs \ {s} : handle'[u] = handle[u]
  BY DEF Subscribe, ReceiverInv, TypeOK
<1>5. \A i \in 1..Len(q) : q[i] # s
  BY <1>1, <1>4 DEF RegistryInv, QueuesWellFormed
<1>6. \A t \in UserTypes : \A i \in 1..Len(subscribers[t]) : subscribers[t][i] \in Subs
  BY DEF ReceiverInv, TypeOK
<1>7. ASSUME NEW t \in UserTypes
      PROVE  /\ \A i \in 1..Len(subscribers'[t]) : /\ TypeOf[subscribers'[t][i]] = t
                                                  /\ handle'[subscribers'[t][i]] # "none"
             /\ \A i, j \in 1..Len(subscribers'[t]) :
                  subscribers'[t][i] = subscribers'[t][j] => i = j
  <2>1. CASE t = T
    <3>1. \A i \in 1..Len(q) + 1 : i \in 1..Len(q) \/ i = Len(q) + 1
      BY <1>1
    <3>2. ASSUME NEW i \in 1..Len(q) + 1
          PROVE  /\ TypeOf[subscribers'[T][i]] = T
                 /\ handle'[subscribers'[T][i]] # "none"
      <4>1. CASE i \in 1..Len(q)
        BY <4>1, <1>1, <1>3, <1>4, <1>5, <1>6 DEF RegistryInv, QueuesWellFormed
      <4>2. CASE i = Len(q) + 1
        BY <4>2, <1>3, <1>4
      <4> QED
        BY <3>1, <4>1, <4>2
    <3>3. ASSUME NEW i \in 1..Len(q) + 1, NEW j \in 1..Len(q) + 1,
                 subscribers'[T][i] = subscribers'[T][j]
          PROVE  i = j
      <4>1. \A m, n \in 1..Len(q) : q[m] = q[n] => m = n
        BY <1>1 DEF RegistryInv, QueuesWellFormed
      <4>2. CASE i \in 1..Len(q) /\ j \in 1..Len(q)
        BY <3>3, <4>1, <4>2, <1>3
      <4>3. CASE i = Len(q) + 1 /\ j \in 1..Len(q)
        BY <3>3, <4>3, <1>3, <1>5
      <4>4. CASE i \in 1..Len(q) /\ j = Len(q) + 1
        BY <3>3, <4>4, <1>3, <1>5
      <4> QED
        BY <3>1, <4>2, <4>3, <4>4
    <3>4. Len(subscribers'[t]) = Len(q) + 1 /\ subscribers'[t] = subscribers'[T]
      BY <2>1, <1>3
    <3> HIDE DEF q, T
    <3> QED
      BY <3>2, <3>3, <3>4, <2>1
  <2>2. CASE t # T
    BY <2>2, <1>2, <1>4, <1>6 DEF RegistryInv, QueuesWellFormed
  <2> QED
    BY <2>1, <2>2
<1>8. ASSUME NEW u \in Subs PROVE Registered(u)' <=> Registered(u) \/ u = s
  <2>1. CASE TypeOf[u] = T
    <3>1. Registered(u)' <=> \E i \in 1..Len(subscribers'[T]) : subscribers'[T][i] = u
      BY <2>1 DEF Registered, Contains
    <3>2. Registered(u) <=> \E i \in 1..Len(q) : q[i] = u
      BY <2>1 DEF Registered, Contains
    <3>3. ASSUME Registered(u) \/ u = s
          PROVE  \E i \in 1..Len(q) + 1 : subscribers'[T][i] = u
      <4>1. CASE Registered(u)
        <5>1. PICK i \in 1..Len(q) : q[i] = u
          BY <4>1, <3>2
        <5>2. i \in 1..Len(q) + 1 /\ subscribers'[T][i] = u
          BY <5>1, <1>1, <1>3
        <5> QED
          BY <5>2
      <4>2. CASE u = s
        <5>1. Len(q) + 1 \in 1..Len(q) + 1 /\ subscribers'[T][Len(q) + 1] = u
          BY <4>2, <1>1, <1>3
        <5> QED
          BY <5>1
      <4> QED
        BY <3>3, <4>1, <4>2
    <3>4. ASSUME NEW i \in 1..Len(q) + 1, subscribers'[T][i] = u
          PROVE  Registered(u) \/ u = s
      <4>1. CASE i \in 1..Len(q)
        BY <3>4, <4>1, <3>2, <1>3
      <4>2. CASE i = Len(q) + 1
        BY <3>4, <4>2, <1>3
      <4>3. i \in 1..Len(q) \/ i = Len(q) + 1
        BY <1>1
      <4> QED
        BY <4>1, <4>2, <4>3
    <3>5. Len(subscribers'[T]) = Len(q) + 1
      BY <1>3
    <3> QED
      BY <3>1, <3>3, <3>4, <3>5
  <2>2. CASE TypeOf[u] # T
    <3>1. TypeOf[u] \in UserTypes /\ u # s
      BY <2>2, DemuxerAssumption
    <3> QED
      BY <2>2, <3>1, <1>2 DEF Registered
  <2> QED
    BY <2>1, <2>2
<1>9. active = {}
  BY ActiveRegistered DEF Subscribe, LockFree, ReceiverInv, LockDiscipline
<1>10. QueuesWellFormed'
  BY <1>7 DEF QueuesWellFormed
<1>11. ActiveInQueue' /\ GoneIsEmpty'
  BY <1>9 DEF Subscribe, dispatchVars, ActiveInQueue, GoneIsEmpty
<1>12. ClosingInQueue'
  BY <1>4, <1>8 DEF Subscribe, RegistryInv, ClosingInQueue
<1> QED
  BY <1>8, <1>10, <1>11, <1>12 DEF RegistryInv

(* Removing one. *)
LEMMA UnsubscribeStep ==
  ASSUME ReceiverInv, RegistryInv, NEW s \in Subs, Unsubscribe(s)
  PROVE  /\ RegistryInv'
         /\ \A u \in Subs : Registered(u)' <=> Registered(u) /\ u # s
<1> DEFINE T == TypeOf[s]
<1> DEFINE q == subscribers[T]
<1>1. T \in UserTypes /\ q \in Seq(Subs) /\ Len(q) \in Nat
  BY DemuxerAssumption DEF ReceiverInv, TypeOK
<1>2. PICK k \in 1..Len(q) : q[k] = s /\ subscribers' = [subscribers EXCEPT ![T] = RemoveAt(@, k)]
  BY DEF Unsubscribe
<1>3. /\ \A t \in UserTypes \ {T} : subscribers'[t] = subscribers[t]
      /\ subscribers'[T] = RemoveAt(q, k)
  <2>1. subscribers \in [UserTypes -> Seq(Subs)]
    BY DEF ReceiverInv, TypeOK
  <2>2. ASSUME NEW e, subscribers' = [subscribers EXCEPT ![T] = e]
        PROVE  subscribers'[T] = e /\ \A t \in UserTypes \ {T} : subscribers'[t] = subscribers[t]
    BY <1>1, <2>1, <2>2
  <2> QED
    BY <1>2, <2>2
<1>4. /\ Len(subscribers'[T]) = Len(q) - 1
      /\ \A j \in 1..Len(q) - 1 : subscribers'[T][j] = IF j < k THEN q[j] ELSE q[j + 1]
  <2> HIDE DEF q, T
  <2>1. /\ Len(RemoveAt(q, k)) = Len(q) - 1
        /\ \A j \in 1..Len(q) - 1 : RemoveAt(q, k)[j] = IF j < k THEN q[j] ELSE q[j + 1]
    BY <1>1, RemoveAtProperties
  <2> QED
    BY <2>1, <1>3
<1>5. /\ handle'[s] = "none"
      /\ \A u \in Subs \ {s} : handle'[u] = handle[u]
  BY DEF Unsubscribe, ReceiverInv, TypeOK
<1>6. \A i, j \in 1..Len(q) : q[i] = q[j] => i = j
  BY <1>1 DEF RegistryInv, QueuesWellFormed
<1>7. \A t \in UserTypes : \A i \in 1..Len(subscribers[t]) :
        subscribers[t][i] \in Subs /\ TypeOf[subscribers[t][i]] = t
          /\ handle[subscribers[t][i]] # "none"
  BY DEF ReceiverInv, TypeOK, RegistryInv, QueuesWellFormed
<1>8. ASSUME NEW j \in 1..Len(q) - 1
      PROVE  /\ subscribers'[T][j] \in Subs \ {s}
             /\ TypeOf[subscribers'[T][j]] = T /\ handle[subscribers'[T][j]] # "none"
  <2>1. PICK i \in 1..Len(q) : i # k /\ subscribers'[T][j] = q[i]
    BY <1>1, <1>4
  <2> QED
    BY <2>1, <1>1, <1>2, <1>6, <1>7
<1>9. ASSUME NEW i \in 1..Len(q) - 1, NEW j \in 1..Len(q) - 1,
             subscribers'[T][i] = subscribers'[T][j]
      PROVE  i = j
  <2> HIDE DEF q, T
  <2>1. \A m \in 1..Len(q) - 1 : m \in 1..Len(q) /\ m + 1 \in 1..Len(q)
    BY <1>1
  <2>2. CASE (i < k /\ j < k) \/ (~(i < k) /\ ~(j < k))
    BY <2>1, <2>2, <1>4, <1>6, <1>9
  <2>3. CASE i < k /\ ~(j < k)
    <3>1. q[i] = q[j + 1] /\ i # j + 1
      BY <2>3, <1>4, <1>9
    <3> QED
      BY <3>1, <2>1, <1>6
  <2>4. CASE ~(i < k) /\ j < k
    <3>1. q[i + 1] = q[j] /\ j # i + 1
      BY <2>4, <1>4, <1>9
    <3> QED
      BY <3>1, <2>1, <1>6
  <2> QED
    BY <2>2, <2>3, <2>4
<1>10. QueuesWellFormed'
  <2> SUFFICES ASSUME NEW t \in UserTypes
               PROVE  /\ \A i \in 1..Len(subscribers'[t]) :
                           /\ TypeOf[subscribers'[t][i]] = t
                           /\ handle'[subscribers'[t][i]] # "none"
                      /\ \A i, j \in 1..Len(subscribers'[t]) :
                           subscribers'[t][i] = subscribers'[t][j] => i = j
    BY DEF QueuesWellFormed
  <2>1. CASE t = T
    BY <2>1, <1>4, <1>5, <1>8, <1>9
  <2>2. CASE t # T
    <3>1. \A i \in 1..Len(subscribers[t]) : subscribers[t][i] \in Subs \ {s}
      BY <2>2, <1>7
    <3> QED
      BY <2>2, <3>1, <1>3, <1>5 DEF RegistryInv, QueuesWellFormed
  <2> QED
    BY <2>1, <2>2
<1>11. ASSUME NEW u \in Subs PROVE Registered(u)' <=> Registered(u) /\ u # s
  <2>1. CASE TypeOf[u] = T
    <3>1. Registered(u)' <=> \E i \in 1..Len(q) - 1 : subscribers'[T][i] = u
      BY <2>1, <1>4 DEF Registered, Contains
    <3>2. Registered(u) <=> \E i \in 1..Len(q) : q[i] = u
      BY <2>1 DEF Registered, Contains
    <3>3. ASSUME NEW i \in 1..Len(q), i # k
          PROVE  \E j \in 1..Len(q) - 1 : subscribers'[T][j] = q[i]
      <4>1. CASE i < k
        BY <1>1, <1>4, <3>3, <4>1
      <4>2. CASE i > k
        <5>1. i - 1 \in 1..Len(q) - 1 /\ subscribers'[T][i - 1] = q[i]
          BY <1>1, <1>4, <4>2
        <5> QED
          BY <5>1
      <4> QED
        BY <1>1, <3>3, <4>1, <4>2
    <3>4. \A j \in 1..Len(q) - 1 : \E i \in 1..Len(q) : i # k /\ subscribers'[T][j] = q[i]
      BY <1>1, <1>4
    <3>5. ASSUME Registered(u)' PROVE Registered(u) /\ u # s
      BY <3>1, <3>2, <3>4, <3>5, <1>2, <1>6
    <3>6. ASSUME Registered(u), u # s PROVE Registered(u)'
      <4>1. PICK i \in 1..Len(q) : q[i] = u
        BY <3>2, <3>6
      <4>2. i # k
        BY <4>1, <3>6, <1>2
      <4> QED
        BY <3>1, <3>3, <4>1, <4>2
    <3> QED
      BY <3>5, <3>6
  <2>2. CASE TypeOf[u] # T
    <3>1. TypeOf[u] \in UserTypes /\ u # s
      BY <2>2, DemuxerAssumption
    <3> QED
      BY <2>2, <3>1, <1>3 DEF Registered
  <2> QED
    BY <2>1, <2>2
<1>12. active = {}
  BY ActiveRegistered DEF Unsubscribe, LockFree, ReceiverInv, LockDiscipline
<1>13. owner = "live"
  BY DEF Unsubscribe, RegistryInv, ClosingInQueue
<1>14. ActiveInQueue' /\ GoneIsEmpty'
  BY <1>12, <1>13 DEF Unsubscribe, dispatchVars, ActiveInQueue, GoneIsEmpty
<1>15. ClosingInQueue'
  BY <1>5, <1>11, <1>13 DEF Unsubscribe, RegistryInv, ClosingInQueue
<1> QED
  BY <1>10, <1>11, <1>14, <1>15 DEF RegistryInv

(* Steps that leave the subscriptions alone. *)
LEMMA QuietStep ==
  ASSUME RegistryInv, UNCHANGED subVars,
         active' \subseteq active, active' # {} => UNCHANGED <<receiver, frame>>,
         (\E s \in Subs : handle[s] = "closing") => owner' = owner,
         owner' = "gone" => owner = "gone",
         receiver = "exited" => receiver' = "exited"
  PROVE  RegistryInv'
<1>1. QueuesWellFormed' /\ GoneIsEmpty'
  BY DEF RegistryInv, QueuesWellFormed, GoneIsEmpty, subVars
<1>2. ClosingInQueue'
  BY DEF RegistryInv, ClosingInQueue, Registered, subVars
<1>3. ActiveInQueue'
  BY DEF RegistryInv, ActiveInQueue, Queue, subVars
<1> QED
  BY <1>1, <1>2, <1>3 DEF RegistryInv

(* The first half of ~PacketSubscription. *)
LEMMA DropStep ==
  ASSUME ReceiverInv, RegistryInv, NEW s \in Subs, DropSubscription(s)
  PROVE  RegistryInv'
<1>1. /\ \A u \in Subs \ {s} : handle'[u] = handle[u]
      /\ handle'[s] = IF Registered(s) THEN "closing" ELSE "none"
      /\ UNCHANGED <<owner, receiver, frame, active, subscribers>>
  BY DEF DropSubscription, Shared, ReceiverInv, TypeOK, readVars, dispatchVars
<1>2. ASSUME NEW t \in UserTypes, NEW i \in 1..Len(subscribers[t])
      PROVE  TypeOf[subscribers[t][i]] = t /\ handle'[subscribers[t][i]] # "none"
  <2>1. /\ TypeOf[subscribers[t][i]] = t /\ handle[subscribers[t][i]] # "none"
        /\ subscribers[t][i] \in Subs
    BY DEF RegistryInv, QueuesWellFormed, ReceiverInv, TypeOK
  <2>2. Registered(subscribers[t][i])
    BY <2>1, RegisteredPosition
  <2> QED
    BY <1>1, <2>1, <2>2
<1>3. QueuesWellFormed'
  BY <1>1, <1>2 DEF RegistryInv, QueuesWellFormed
<1>4. ActiveInQueue' /\ GoneIsEmpty'
  BY <1>1 DEF RegistryInv, ActiveInQueue, GoneIsEmpty, Queue
<1>5. Registered(s) => owner = "live"
  BY RegisteredHandle DEF DropSubscription
<1>6. ClosingInQueue'
  BY <1>1, <1>5 DEF RegistryInv, ClosingInQueue, Registered
<1> QED
  BY <1>3, <1>4, <1>6 DEF RegistryInv

(* Every step keeps the invariant of the registry. *)
LEMMA RegistryStep == ReceiverInv /\ RegistryInv /\ [Next]_vars => RegistryInv'
<1> SUFFICES ASSUME ReceiverInv, RegistryInv, [Next]_vars PROVE RegistryInv'
  OBVIOUS
<1> USE DEF readVars, dispatchVars, subVars, transportVars
<1>1. active # {} => receiver = "dispatch"
  BY DEF RegistryInv, ActiveInQueue
<1>2. \A s \in Subs : handle[s] = "closing" => owner = "live"
  BY DEF RegistryInv, ClosingInQueue
<1>3. CASE SetNonBlocking \/ DestructorSignals \/ WarnAboutSubscribers
  BY <1>2, <1>3, QuietStep DEF SetNonBlocking, DestructorSignals, WarnAboutSubscribers
<1>4. CASE DestructorJoins
  <2>1. active' = {}
    BY <1>1, <1>4 DEF DestructorJoins
  <2>2. \A t \in UserTypes : subscribers'[t] = <<>>
    BY <1>4 DEF DestructorJoins
  <2>3. \A s \in Subs : handle'[s] # "closing"
    BY <1>2, <1>4 DEF DestructorJoins
  <2> QED
    BY <1>4, <2>1, <2>2, <2>3
       DEF DestructorJoins, RegistryInv, QueuesWellFormed, ActiveInQueue,
           ClosingInQueue, GoneIsEmpty
<1>5. ASSUME NEW s \in Subs, Subscribe(s) \/ DropSubscription(s) \/ Unsubscribe(s)
      PROVE  RegistryInv'
  BY <1>5, SubscribeStep, DropStep, UnsubscribeStep
<1>6. CASE TestError \/ FallAsleep \/ FieldRead
  BY <1>1, <1>6, QuietStep DEF TestError, FallAsleep, FieldRead, Reading
<1>7. CASE PollTimesOut \/ ReadFails \/ ReadInterrupted
  BY <1>1, <1>7, QuietStep
     DEF PollTimesOut, ReadFails, ReadInterrupted, GiveUp, Reading
<1>8. ASSUME NEW p \in Packets, PollReady(p) PROVE RegistryInv'
  BY <1>1, <1>8, QuietStep DEF PollReady
<1>9. ASSUME NEW n \in 0..left, ReadBytes(n) PROVE RegistryInv'
  BY <1>1, <1>9, QuietStep DEF ReadBytes, Reading
<1>10. CASE HelloRead \/ ControlRead \/ DispatchBegins
  BY <1>1, <1>10, QuietStep DEF HelloRead, ControlRead, DispatchBegins, NextPacket
<1>11. CASE CallbackBegins
  <2>1. /\ UNCHANGED <<owner, receiver, frame, subscribers, handle>>
        /\ receiver = "dispatch" /\ active' = {Queue[position]}
    BY <1>11 DEF CallbackBegins
  <2>2. position \in 1..Len(Queue)
    <3>1. position \in Nat /\ position >= 1 /\ Queue \in Seq(Subs)
      BY <2>1, UserPacketType DEF ReceiverInv, FrameKnown, TypeOK, Queue
    <3> QED
      BY <1>11, <3>1 DEF CallbackBegins
  <2>3. ActiveInQueue'
    BY <2>1, <2>2 DEF ActiveInQueue, Queue
  <2> QED
    BY <2>1, <2>3
       DEF RegistryInv, QueuesWellFormed, ClosingInQueue, GoneIsEmpty, Registered
<1>12. CASE CallbackEnds \/ DispatchDone
  BY <1>1, <1>12, QuietStep DEF CallbackEnds, DispatchDone, NextPacket
<1>13. ASSUME NEW how \in {"closed", "reset"}, PeerGoes(how) PROVE RegistryInv'
  BY <1>13, QuietStep DEF PeerGoes
<1>14. CASE Destroyed \/ UNCHANGED vars
  BY <1>14, QuietStep DEF Destroyed, vars
<1> QED
  BY <1>3, <1>4, <1>5, <1>6, <1>7, <1>8, <1>9, <1>10, <1>11, <1>12, <1>13, <1>14
     DEF Next, ReceiveLoop

(* The invariant of the registry holds of the demuxer. *)
LEMMA RegistryInvariant == Spec => []RegistryInv
BY ReceiverInvariant, RegistryInit, RegistryStep, PTL DEF Spec

(* A callback never runs after the destructor of its subscription has      *)
(* returned: what it captured by reference is still there.                 *)
THEOREM NoLateCallback == Spec => []NoCallbackAfterClose
<1>1. ReceiverInv /\ RegistryInv => NoCallbackAfterClose
  <2> SUFFICES ASSUME ReceiverInv, RegistryInv, NEW s \in active PROVE handle[s] # "none"
    BY DEF NoCallbackAfterClose
  <2>1. s \in Subs
    BY DEF ReceiverInv, TypeOK
  <2> QED
    BY <2>1, ActiveRegistered, RegisteredHandle
<1> QED
  BY <1>1, ReceiverInvariant, RegistryInvariant, PTL

(* The assertion of PacketDemuxer.cpp:78 holds, although the subscription  *)
(* tests whether it is still registered before it takes the lock.          *)
THEOREM UnsubscribeAssertion == Spec => []UnsubscribeFinds
<1>1. RegistryInv => UnsubscribeFinds
  BY DEF RegistryInv, ClosingInQueue, UnsubscribeFinds
<1> QED
  BY <1>1, RegistryInvariant, PTL

-----------------------------------------------------------------------------
(* The promise to the application.                                         *)

(* What a step may do that hands no packet over. *)
NothingGiven ==
  /\ UNCHANGED Given
  /\ \/ Members' = Members \/ Members' = {}
     \/ \E s \in Subs : Members' = Members \cup {s} \/ Members' = Members \ {s}

(* Outside a dispatch nobody is owed anything, so that the abstract inbox  *)
(* changes only where the dispatch begins.                                 *)
LEMMA NothingPublished ==
  ASSUME UNCHANGED <<subscribers, inbox>>,
         \/ receiver # "dispatch" /\ receiver' # "dispatch"
         \/ UNCHANGED <<receiver, position, frame>>
  PROVE  NothingGiven
<1>1. Members' = Members
  BY DEF Members, Registered
<1>2. ASSUME NEW s \in Subs
      PROVE  (IF Owed(s) THEN Append(inbox[s], frame) ELSE inbox[s])'
               = IF Owed(s) THEN Append(inbox[s], frame) ELSE inbox[s]
  <2>1. CASE receiver # "dispatch" /\ receiver' # "dispatch"
    BY <2>1 DEF Owed
  <2>2. CASE UNCHANGED <<receiver, position, frame>>
    BY <2>2 DEF Owed, Queue
  <2> QED
    BY <2>1, <2>2
<1> QED
  BY <1>1, <1>2 DEF Given, NothingGiven

(* A change of the subscribers outside a dispatch. *)
LEMMA OnlyMembersChange ==
  ASSUME UNCHANGED inbox, receiver # "dispatch", receiver' # "dispatch"
  PROVE  UNCHANGED Given
BY DEF Given, Owed

(* The dispatch takes the lock: the packet is published. *)
LEMMA DispatchPublishes ==
  ASSUME ReceiverInv, RegistryInv, DispatchBegins
  PROVE  frame \in Packets /\ PS!Publish(frame)
<1>1. frame \in Packets /\ frame \in UserPackets /\ frame.type \in UserTypes
  BY PacketFields, UserPacketType DEF DispatchBegins, ReceiverInv, FrameKnown
<1>2. /\ receiver = "packet" /\ receiver' = "dispatch" /\ position' = 1
      /\ UNCHANGED <<frame, inbox, subscribers>>
  BY DEF DispatchBegins, readVars, subVars
<1>3. Members' = Members
  BY <1>2 DEF Members, Registered
<1>4. ASSUME NEW s \in Subs
      PROVE  Owed(s)' <=> Registered(s) /\ TypeOf[s] = frame.type
  <2>1. Owed(s)' <=> \E i \in 1..Len(Queue) : Queue[i] = s
    BY <1>2 DEF Owed, Queue
  <2>2. ASSUME NEW i \in 1..Len(Queue), Queue[i] = s PROVE TypeOf[s] = frame.type
    BY <1>1, <2>2 DEF RegistryInv, QueuesWellFormed, Queue
  <2> QED
    BY <2>1, <2>2, RegisteredPosition DEF Queue
<1>5. \A s \in Subs : ~Owed(s)
  BY <1>2 DEF Owed
<1>6. Given' = [s \in Subs |-> IF s \in Members /\ TypeOf[s] = frame.type
                                  THEN Append(Given[s], frame) ELSE Given[s]]
  BY <1>2, <1>4, <1>5 DEF Given, Members
<1>7. frame \in Packets
  BY <1>1
<1> QED
  BY <1>3, <1>6, <1>7 DEF PS!Publish

(* A callback: what was owed is given.  Nobody is given a packet twice,    *)
(* since nobody is twice in a queue.                                       *)
LEMMA CallbackGivesWhatIsOwed ==
  ASSUME ReceiverInv, RegistryInv, CallbackBegins
  PROVE  NothingGiven
<1>1. /\ receiver = "dispatch" /\ position' = position + 1
      /\ position <= Len(Queue)
      /\ UNCHANGED <<receiver, frame, subscribers>>
      /\ inbox' = [inbox EXCEPT ![Queue[position]] = Append(@, frame)]
  BY DEF CallbackBegins, readVars, subVars
<1>2. frame.type \in UserTypes /\ position \in Nat \ {0}
  BY <1>1, UserPacketType DEF ReceiverInv, FrameKnown, TypeOK
<1>3. /\ Queue \in Seq(Subs) /\ Len(Queue) \in Nat /\ Queue' = Queue
      /\ \A i, j \in 1..Len(Queue) : Queue[i] = Queue[j] => i = j
  BY <1>1, <1>2 DEF Queue, ReceiverInv, TypeOK, RegistryInv, QueuesWellFormed
<1>4. position \in 1..Len(Queue) /\ position \in position..Len(Queue)
  BY <1>1, <1>2, <1>3
<1>5. PICK c \in Subs : c = Queue[position]
  BY <1>3, <1>4
<1>6. Owed(c) /\ ~Owed(c)'
  <2>1. Owed(c)
    BY <1>1, <1>4, <1>5 DEF Owed
  <2>2. ASSUME NEW i \in position + 1..Len(Queue) PROVE Queue[i] # c
    <3>1. i \in 1..Len(Queue) /\ i # position
      BY <1>2, <1>3
    <3> QED
      BY <1>3, <1>4, <1>5, <3>1
  <2>3. Owed(c)' <=> \E i \in position + 1..Len(Queue) : Queue[i] = c
    BY <1>1, <1>3 DEF Owed
  <2> QED
    BY <2>1, <2>2, <2>3
<1>7. ASSUME NEW s \in Subs, s # c PROVE Owed(s)' <=> Owed(s)
  <2>1. \A i \in position..Len(Queue) : i = position \/ i \in position + 1..Len(Queue)
    BY <1>2, <1>3
  <2>2. position + 1..Len(Queue) \subseteq position..Len(Queue)
    BY <1>2, <1>3
  <2> QED
    BY <1>1, <1>3, <1>5, <1>7, <2>1, <2>2 DEF Owed
<1>8. inbox \in [Subs -> Seq(Packets)]
  BY DEF ReceiverInv, TypeOK
<1>9. ASSUME NEW s \in Subs
      PROVE  (IF Owed(s) THEN Append(inbox[s], frame) ELSE inbox[s])'
               = IF Owed(s) THEN Append(inbox[s], frame) ELSE inbox[s]
  <2>1. CASE s = c
    <3>1. inbox'[s] = Append(inbox[s], frame)
      BY <2>1, <1>1, <1>5, <1>8
    <3> QED
      BY <2>1, <3>1, <1>6
  <2>2. CASE s # c
    BY <2>2, <1>1, <1>5, <1>7, <1>8
  <2> QED
    BY <2>1, <2>2
<1>10. Members' = Members
  BY <1>1 DEF Members, Registered
<1> QED
  BY <1>9, <1>10 DEF Given, NothingGiven

(* A packet is dispatched by DispatchBegins only. *)
LEMMA DispatchIsTheOnlyWay ==
  ASSUME [Next]_vars, receiver = "packet", receiver' = "dispatch"
  PROVE  DispatchBegins
<1> USE DEF readVars, dispatchVars, subVars, transportVars
<1>1. ~ReadFails /\ ~ReadInterrupted /\ ~FieldRead /\ ~FallAsleep
  BY DEF ReadFails, ReadInterrupted, FieldRead, FallAsleep, Reading
<1>2. \A n : ~ReadBytes(n)
  BY DEF ReadBytes, Reading
<1>3. ~TestError /\ ~PollTimesOut /\ ~HelloRead /\ ~ControlRead /\ \A p : ~PollReady(p)
  BY DEF TestError, PollTimesOut, HelloRead, ControlRead, PollReady, NextPacket
<1>4. ~CallbackBegins /\ ~CallbackEnds /\ ~DispatchDone
  BY DEF CallbackBegins, CallbackEnds, DispatchDone
<1>5. \A s : ~Subscribe(s) /\ ~DropSubscription(s) /\ ~Unsubscribe(s)
  BY DEF Subscribe, DropSubscription, Unsubscribe
<1>6. ~SetNonBlocking /\ ~DestructorSignals /\ ~WarnAboutSubscribers /\ ~DestructorJoins
  BY DEF SetNonBlocking, DestructorSignals, WarnAboutSubscribers, DestructorJoins
<1>7. ~Destroyed /\ ~UNCHANGED vars /\ \A how : ~PeerGoes(how)
  BY DEF Destroyed, vars, PeerGoes
<1> QED
  BY <1>1, <1>2, <1>3, <1>4, <1>5, <1>6, <1>7 DEF Next, ReceiveLoop

(* Only the beginning of a dispatch gives anybody anything.  Every other   *)
(* step changes the subscribers, or nothing that the application sees.     *)
LEMMA MembersStep ==
  ASSUME ReceiverInv, RegistryInv, [Next]_vars,
         ~(receiver = "packet" /\ receiver' = "dispatch")
  PROVE  NothingGiven
<1> USE DEF readVars, dispatchVars, subVars, transportVars
<1>1. CASE SetNonBlocking \/ DestructorSignals \/ WarnAboutSubscribers
  BY <1>1, NothingPublished
     DEF SetNonBlocking, DestructorSignals, WarnAboutSubscribers
<1>2. CASE DestructorJoins
  <2>1. receiver # "dispatch" /\ receiver' # "dispatch" /\ UNCHANGED inbox
    BY <1>2 DEF DestructorJoins
  <2>2. \A s \in Subs : ~Registered(s)'
    BY <1>2, DemuxerAssumption DEF DestructorJoins, Registered, Contains
  <2>3. Members' = {}
    BY <2>2 DEF Members
  <2> QED
    BY <2>1, <2>3, OnlyMembersChange DEF NothingGiven
<1>3. ASSUME NEW s \in Subs, Subscribe(s) PROVE NothingGiven
  <2>1. receiver # "dispatch" /\ receiver' # "dispatch" /\ UNCHANGED inbox
    BY <1>3 DEF Subscribe, LockFree, ReceiverInv, LockDiscipline
  <2>2. Members' = Members \cup {s}
    BY <1>3, SubscribeStep DEF Members
  <2> QED
    BY <2>1, <2>2, OnlyMembersChange DEF NothingGiven
<1>4. ASSUME NEW s \in Subs, DropSubscription(s) PROVE NothingGiven
  BY <1>4, NothingPublished DEF DropSubscription
<1>5. ASSUME NEW s \in Subs, Unsubscribe(s) PROVE NothingGiven
  <2>1. receiver # "dispatch" /\ receiver' # "dispatch" /\ UNCHANGED inbox
    BY <1>5 DEF Unsubscribe, LockFree, ReceiverInv, LockDiscipline
  <2>2. Members' = Members \ {s}
    BY <1>5, UnsubscribeStep DEF Members
  <2> QED
    BY <2>1, <2>2, OnlyMembersChange DEF NothingGiven
<1>6. CASE TestError \/ FallAsleep
  BY <1>6, NothingPublished DEF TestError, FallAsleep
<1>7. CASE PollTimesOut \/ ReadFails \/ ReadInterrupted
  BY <1>7, NothingPublished DEF PollTimesOut, ReadFails, ReadInterrupted, GiveUp, Reading
<1>8. ASSUME NEW p \in Packets, PollReady(p) PROVE NothingGiven
  BY <1>8, NothingPublished DEF PollReady
<1>9. ASSUME NEW n \in 0..left, ReadBytes(n) PROVE NothingGiven
  BY <1>9, NothingPublished DEF ReadBytes
<1>10. CASE FieldRead
  <2>1. /\ receiver # "dispatch" /\ receiver' # "dispatch"
        /\ UNCHANGED <<subscribers, inbox>>
    BY <1>10 DEF FieldRead, Reading
  <2> QED
    BY <2>1, NothingPublished
<1>11. CASE HelloRead \/ ControlRead
  BY <1>11, NothingPublished DEF HelloRead, ControlRead, NextPacket
<1>12. ~DispatchBegins
  BY DEF DispatchBegins
<1>13. CASE CallbackBegins
  BY <1>13, CallbackGivesWhatIsOwed
<1>14. CASE CallbackEnds
  BY <1>14, NothingPublished DEF CallbackEnds
<1>15. CASE DispatchDone
  <2>1. Members' = Members
    BY <1>15 DEF DispatchDone, Members, Registered
  <2>2. ASSUME NEW s \in Subs PROVE ~Owed(s) /\ ~Owed(s)'
    <3>1. position > Len(Queue) /\ receiver' = "loop" /\ position \in Nat
      BY <1>15 DEF DispatchDone, NextPacket, ReceiverInv, TypeOK
    <3>2. Len(Queue) \in Nat
      BY <1>15, UserPacketType
         DEF DispatchDone, ReceiverInv, FrameKnown, TypeOK, Queue
    <3>3. position..Len(Queue) = {}
      BY <3>1, <3>2
    <3> QED
      BY <3>1, <3>3 DEF Owed
  <2>3. UNCHANGED inbox
    BY <1>15 DEF DispatchDone
  <2> QED
    BY <2>1, <2>2, <2>3 DEF Given, NothingGiven
<1>16. ASSUME NEW how \in {"closed", "reset"}, PeerGoes(how)
       PROVE  NothingGiven
  BY <1>16, NothingPublished DEF PeerGoes
<1>17. CASE Destroyed \/ UNCHANGED vars
  BY <1>17, NothingPublished DEF Destroyed, vars
<1> QED
  BY <1>1, <1>2, <1>3, <1>4, <1>5, <1>6, <1>7, <1>8, <1>9, <1>10, <1>11, <1>12, <1>13,
     <1>14, <1>15, <1>16, <1>17 DEF Next, ReceiveLoop

(* Each step of the demuxer is a step of PubSub or leaves it alone. *)
LEMMA PubSubStep ==
  ReceiverInv /\ RegistryInv /\ [Next]_vars => [PS!Next]_PS!pubSubVars
<1> SUFFICES ASSUME ReceiverInv, RegistryInv, [Next]_vars
             PROVE  [PS!Next]_PS!pubSubVars
  OBVIOUS
<1>1. CASE receiver = "packet" /\ receiver' = "dispatch"
  <2>1. DispatchBegins
    BY <1>1, DispatchIsTheOnlyWay
  <2>2. frame \in Packets /\ PS!Publish(frame)
    BY <2>1, DispatchPublishes
  <2> QED
    BY <2>2 DEF PS!Next, PS!Publish
<1>2. CASE ~(receiver = "packet" /\ receiver' = "dispatch")
  <2>1. NothingGiven
    BY <1>2, MembersStep
  <2> QED
    BY <2>1 DEF NothingGiven, PS!Next, PS!Join, PS!Leave, PS!Close, PS!pubSubVars
<1> QED
  BY <1>1, <1>2

(* The demuxer implements its promise: every packet of a type reaches,     *)
(* once and in order, exactly those who are subscribed to it when its      *)
(* dispatch begins, although they are called one by one.                   *)
THEOREM PubSubImplemented == Spec => PubSubSpec
<1>1. Init => PS!Init
  BY DemuxerAssumption DEF Init, PS!Init, Members, Given, Registered, Contains, Owed
<1> QED
  BY <1>1, PubSubStep, ReceiverInvariant, RegistryInvariant, PTL
     DEF Spec, PubSubSpec, PS!Spec
=============================================================================
