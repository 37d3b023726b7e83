----------------------------- MODULE LinkProofs -----------------------------
(***************************************************************************)
(* Proofs about Link, for any packet types, sizes, capacity of the         *)
(* connection and lists of names.  What is known of the two halves alone   *)
(* is taken from their own proofs.                                         *)
(***************************************************************************)
EXTENDS Link, SequenceTheorems, WellFoundedInduction, TLAPS

MP == INSTANCE PacketMuxerProofs WITH
       owner <- txOwner, transportError <- txError, MaxQueued <- MaxPosts
DP == INSTANCE PacketDemuxerProofs WITH
       owner <- rxOwner, transportError <- rxError, MaxInbox <- MaxPosts + 1
IP == INSTANCE IdManagerProofs WITH
       InvalidString <- D!InvalidPacket.type, ControlString <- ControlType

-----------------------------------------------------------------------------
(* The bytes on the line.                                                  *)

Fields == {"type", "size", "data"}
WireBytes == [packet : {Encoded(p) : p \in M!Packets}, field : Fields, rest : Nat \ {0}]
ByteOf(p, field, n) == [packet |-> Encoded(p), field |-> field, rest |-> n]
HeaderByte(b) == b.field = "type" /\ b.rest = FieldSize

(* b may be the next byte on the line when n bytes of a field of p are     *)
(* still to come.                                                          *)
Follows(p, field, n, b) ==
  \/ n > 0 /\ b = ByteOf(p, field, n)
  \/ n = 0 /\ field = "type" /\ b = ByteOf(p, "size", FieldSize)
  \/ n = 0 /\ field = "size" /\ D!DataSizeOf(p) > 0 /\ b = ByteOf(p, "data", D!DataSizeOf(p))
  \/ n = 0 /\ field = "size" /\ D!DataSizeOf(p) = 0 /\ HeaderByte(b)
  \/ n = 0 /\ field = "data" /\ HeaderByte(b)

(* The next byte that the demuxer is after, that may come after another    *)
(* byte, and that the muxer may write.                                     *)
Wanted(b) == IF D!Reading THEN Follows(frame, receiver, left, b) ELSE HeaderByte(b)
After(a, b) == Follows(Decoded(a.packet), a.field, a.rest - 1, b)
Written(b) ==
  IF sender = "write" THEN Follows(Head(txQueues[current]), io.field, io.left, b)
                      ELSE HeaderByte(b)

(* From the demuxer over the bytes under way to the muxer each byte is one *)
(* that may follow the one before.  Of a stream that either end has given  *)
(* up nothing is asked.                                                    *)
Connected ==
  /\ pipe # <<>> => Wanted(pipe[1])
  /\ \A i \in 1..Len(pipe) - 1 : After(pipe[i], pipe[i + 1])
  /\ link = "up" =>
       \A b \in WireBytes :
         Written(b) => IF pipe = <<>> THEN Wanted(b) ELSE After(pipe[Len(pipe)], b)

LineInv ==
  /\ pipe \in Seq(WireBytes)
  /\ ~rxError /\ peer = "open" => Connected

LinkInv == MP!CoreInv /\ DP!ReceiverInv /\ LineInv

-----------------------------------------------------------------------------
(* Packets and their ids.                                                  *)

(* The two halves have the same packets, of the same sizes. *)
LEMMA SamePackets ==
  /\ MP!Packets = M!Packets /\ DP!Packets = M!Packets /\ D!Packets = M!Packets
  /\ \A p : M!DataSizeOf(p) = D!DataSizeOf(p)
  /\ M!Hello \in M!Packets
BY DEF MP!Packets, DP!Packets, M!Packets, D!Packets, MP!UserPackets, DP!UserPackets,
       M!UserPackets, D!UserPackets, MP!Hello, DP!Hello, M!Hello, D!Hello,
       MP!HeartBeat, DP!HeartBeat, M!HeartBeat, D!HeartBeat, M!DataSizeOf, D!DataSizeOf

(* Every packet has a type, known to both ends, and a size. *)
LEMMA PacketFields ==
  ASSUME NEW p \in M!Packets
  PROVE  /\ p = [type |-> p.type, payload |-> p.payload]
         /\ p.type \in UserTypes \cup {ControlType}
         /\ D!DataSizeOf(p) \in Nat
<1>1. CASE p \in M!UserPackets
  BY <1>1, LinkAssumption DEF M!MuxerAssumption, M!UserPackets, D!DataSizeOf
<1>2. CASE p \in {M!Hello, M!HeartBeat}
  BY <1>2 DEF M!Hello, M!HeartBeat, D!DataSizeOf
<1> QED
  BY <1>1, <1>2 DEF M!Packets

(* The far end finds the name of the type, although its list may be longer *)
(* or shorter (IdManager.h:25).                                            *)
LEMMA TypeDecoded ==
  ASSUME NEW t \in UserTypes \cup {ControlType}
  PROVE  I!ToString(RxTable, I!ToId(TxTable, t)) = t
<1> DEFINE S == I!Names(TxIds) \cup I!Names(RxIds)
<1>1. TxIds \in Seq(S) /\ RxIds \in Seq(S)
  <2>1. TxIds \in Seq(I!Names(TxIds)) /\ RxIds \in Seq(I!Names(RxIds))
    BY LinkAssumption
  <2> QED
    BY <2>1
<1> HIDE DEF S
<1>2. /\ \A list : I!Table(list) = IP!Table(list)
      /\ \A list : I!AssertionHolds(list) <=> IP!AssertionHolds(list)
      /\ \A list : I!Names(list) = IP!Names(list)
      /\ \A table, name : I!ToId(table, name) = IP!ToId(table, name)
      /\ \A table, id : I!ToString(table, id) = IP!ToString(table, id)
  BY Zenon DEF I!Table, IP!Table, I!AssertionHolds, IP!AssertionHolds, I!Names, IP!Names,
     I!ToId, IP!ToId, I!ToString, IP!ToString, I!Turns, IP!Turns, I!AddName, IP!AddName,
     I!Reserved, IP!Reserved, I!OutOfRange, IP!OutOfRange, I!InvalidPacket,
     IP!InvalidPacket, I!ControlPacket, IP!ControlPacket
<1>3. /\ IP!AssertionHolds(TxIds) /\ IP!AssertionHolds(RxIds)
      /\ D!InvalidPacket.type # ControlType
      /\ \A i \in 1..Len(TxIds) : i <= Len(RxIds) => TxIds[i] = RxIds[i]
  BY <1>2, LinkAssumption
<1>4. /\ t \in {D!InvalidPacket.type, ControlType} \cup IP!Names(TxIds)
      /\ t \in {D!InvalidPacket.type, ControlType} \cup IP!Names(RxIds)
  BY <1>2, LinkAssumption
<1>5. /\ IP!ToId(IP!Table(TxIds), t) # IP!OutOfRange
      /\ IP!ToId(IP!Table(RxIds), t) # IP!OutOfRange
  BY <1>1, <1>4, IP!KnownNames
<1>6. IP!ToString(IP!Table(RxIds), IP!ToId(IP!Table(TxIds), t)) = t
  BY <1>1, <1>3, <1>5, IP!EndsAgree
<1> QED
  BY <1>2, <1>6 DEF TxTable, RxTable

(* What the demuxer reads is the packet that was written. *)
LEMMA PacketDecoded ==
  ASSUME NEW p \in M!Packets
  PROVE  Decoded(Encoded(p)) = p
<1>1. I!ToString(RxTable, I!ToId(TxTable, p.type)) = p.type
  BY PacketFields, TypeDecoded
<1> QED
  BY <1>1, PacketFields DEF Decoded, Encoded

(* Every byte on the line is one of a packet. *)
LEMMA ByteDecoded ==
  ASSUME NEW b \in WireBytes
  PROVE  /\ Decoded(b.packet) \in M!Packets
         /\ b = ByteOf(Decoded(b.packet), b.field, b.rest)
         /\ b.field \in Fields /\ b.rest \in Nat \ {0}
<1>1. PICK p \in M!Packets : b.packet = Encoded(p)
  BY DEF WireBytes
<1> QED
  BY <1>1, PacketDecoded DEF WireBytes, ByteOf
-----------------------------------------------------------------------------
(* The halves in the composition.                                          *)

(* What each half assumes of its constants. *)
LEMMA HalvesAssumptions == MP!MuxerAssumption /\ DP!DemuxerAssumption
BY LinkAssumption DEF M!MuxerAssumption, MP!MuxerAssumption, D!DemuxerAssumption, DP!DemuxerAssumption

(* The initial states are those of the two halves. *)
LEMMA HalvesInit == Init => MP!Init /\ DP!Init
BY DEF Init, M!Init, D!Init, MP!Init, DP!Init, M!Types, MP!Types, D!InvalidPacket, DP!InvalidPacket

(* The muxer's steps are those of the module it is an instance of. *)
LEMMA MuxerSteps ==
  /\ \A p : M!EmplacePacket(p) => MP!EmplacePacket(p)
  /\ \A n : M!Write(n) => MP!Write(n)
  /\ \A t : M!NextQueue(t) => MP!NextQueue(t)
  /\ M!DestructorBegins => MP!DestructorBegins
  /\ M!DestructorSignals => MP!DestructorSignals
  /\ M!DestructorJoins => MP!DestructorJoins
  /\ M!SendHello => MP!SendHello
  /\ M!TakeLock => MP!TakeLock
  /\ M!LeaveLoop => MP!LeaveLoop
  /\ M!BeginWait => MP!BeginWait
  /\ M!TimeOut => MP!TimeOut
  /\ M!SpuriousWake => MP!SpuriousWake
  /\ M!SkipWait => MP!SkipWait
  /\ M!Wake => MP!Wake
  /\ M!PassDone => MP!PassDone
  /\ M!BeginPacket => MP!BeginPacket
  /\ M!NextField => MP!NextField
  /\ M!EndPacket => MP!EndPacket
  /\ M!LinkDown => MP!LinkDown
<1> USE DEF
    M!Types, MP!Types, M!Hello, MP!Hello, M!HeartBeat, MP!HeartBeat, M!UserPackets,
    MP!UserPackets, M!queueVars, MP!queueVars, M!passVars, MP!passVars, M!linkVars,
    MP!linkVars, M!Increment, MP!Increment, M!Enqueue, MP!Enqueue, M!LockFree,
    MP!LockFree, M!Notify, MP!Notify, M!Idle, MP!Idle, M!QueuesAfter,
    MP!QueuesAfter, M!StartPass, MP!StartPass, M!AfterWait, MP!AfterWait,
    M!KeepSending, MP!KeepSending, M!WriteResults, MP!WriteResults, M!DataSizeOf,
    MP!DataSizeOf, M!CountSent, MP!CountSent
<1>1. ASSUME NEW p PROVE M!EmplacePacket(p) => MP!EmplacePacket(p)
  <2>1. M!Queued = MP!Queued
    BY DEF M!Queued, MP!Queued
  <2> QED
    BY <2>1, Zenon DEF M!EmplacePacket, MP!EmplacePacket, M!Cardinality, MP!Cardinality
<1>2. ASSUME NEW n PROVE M!Write(n) => MP!Write(n)
  BY DEF M!Write, MP!Write
<1>3. ASSUME NEW t PROVE M!NextQueue(t) => MP!NextQueue(t)
  BY DEF M!NextQueue, MP!NextQueue
<1>4. M!DestructorBegins => MP!DestructorBegins
  BY DEF M!DestructorBegins, MP!DestructorBegins
<1>5. M!DestructorSignals => MP!DestructorSignals
  BY DEF M!DestructorSignals, MP!DestructorSignals
<1>6. M!DestructorJoins => MP!DestructorJoins
  BY DEF M!DestructorJoins, MP!DestructorJoins
<1>7. M!SendHello => MP!SendHello
  BY DEF M!SendHello, MP!SendHello
<1>8. M!TakeLock => MP!TakeLock
  BY DEF M!TakeLock, MP!TakeLock
<1>9. M!LeaveLoop => MP!LeaveLoop
  BY DEF M!LeaveLoop, MP!LeaveLoop
<1>10. M!BeginWait => MP!BeginWait
  BY DEF M!BeginWait, MP!BeginWait
<1>11. M!TimeOut => MP!TimeOut
  BY DEF M!TimeOut, MP!TimeOut
<1>12. M!SkipWait => MP!SkipWait
  BY DEF M!SkipWait, MP!SkipWait
<1>13. M!Wake => MP!Wake
  BY DEF M!Wake, MP!Wake
<1>14. M!PassDone => MP!PassDone
  BY DEF M!PassDone, MP!PassDone
<1>15. M!BeginPacket => MP!BeginPacket
  BY DEF M!BeginPacket, MP!BeginPacket
<1>16. M!NextField => MP!NextField
  BY DEF M!NextField, MP!NextField
<1>17. M!EndPacket => MP!EndPacket
  BY DEF M!EndPacket, MP!EndPacket
<1>18. M!LinkDown => MP!LinkDown
  BY DEF M!LinkDown, MP!LinkDown
<1>19. M!SpuriousWake => MP!SpuriousWake
  BY DEF M!SpuriousWake, MP!SpuriousWake
<1> HIDE DEF
    M!Types, MP!Types, M!Hello, MP!Hello, M!HeartBeat, MP!HeartBeat, M!UserPackets,
    MP!UserPackets, M!queueVars, MP!queueVars, M!passVars, MP!passVars, M!linkVars,
    MP!linkVars, M!Increment, MP!Increment, M!Enqueue, MP!Enqueue, M!LockFree,
    MP!LockFree, M!Notify, MP!Notify, M!Idle, MP!Idle, M!QueuesAfter,
    MP!QueuesAfter, M!StartPass, MP!StartPass, M!AfterWait, MP!AfterWait,
    M!KeepSending, MP!KeepSending, M!WriteResults, MP!WriteResults, M!DataSizeOf,
    MP!DataSizeOf, M!CountSent, MP!CountSent
<1> QED
  BY <1>1, <1>2, <1>3, <1>4, <1>5, <1>6, <1>7, <1>8, <1>9, <1>10, <1>11, <1>12,
     <1>13, <1>14, <1>15, <1>16, <1>17, <1>18, <1>19

(* And so are the demuxer's. *)
LEMMA DemuxerSteps ==
  /\ \A s : D!Subscribe(s) => DP!Subscribe(s)
  /\ \A s : D!DropSubscription(s) => DP!DropSubscription(s)
  /\ \A s : D!Unsubscribe(s) => DP!Unsubscribe(s)
  /\ \A p : D!PollReady(p) => DP!PollReady(p)
  /\ \A n : D!ReadBytes(n) => DP!ReadBytes(n)
  /\ \A how : D!PeerGoes(how) => DP!PeerGoes(how)
  /\ D!SetNonBlocking => DP!SetNonBlocking
  /\ D!DestructorSignals => DP!DestructorSignals
  /\ D!WarnAboutSubscribers => DP!WarnAboutSubscribers
  /\ D!DestructorJoins => DP!DestructorJoins
  /\ D!TestError => DP!TestError
  /\ D!PollTimesOut => DP!PollTimesOut
  /\ D!FallAsleep => DP!FallAsleep
  /\ D!ReadFails => DP!ReadFails
  /\ D!ReadInterrupted => DP!ReadInterrupted
  /\ D!FieldRead => DP!FieldRead
  /\ D!HelloRead => DP!HelloRead
  /\ D!ControlRead => DP!ControlRead
  /\ D!DispatchBegins => DP!DispatchBegins
  /\ D!CallbackBegins => DP!CallbackBegins
  /\ D!CallbackEnds => DP!CallbackEnds
  /\ D!DispatchDone => DP!DispatchDone
<1> USE DEF
    D!Hello, DP!Hello, D!InvalidPacket, DP!InvalidPacket, D!readVars, DP!readVars,
    D!dispatchVars, DP!dispatchVars, D!subVars, DP!subVars, D!transportVars,
    DP!transportVars, D!LockFree, DP!LockFree, D!GiveUp, DP!GiveUp, D!Reading,
    DP!Reading, D!Interrupted, DP!Interrupted, D!ReadResults, DP!ReadResults,
    D!ZeroBytesIsError, DP!ZeroBytesIsError, D!Failed, DP!Failed, D!DataSizeOf,
    DP!DataSizeOf, D!FirstPacket, DP!FirstPacket, D!NextPacket, DP!NextPacket,
    D!Queue, DP!Queue, D!ReleaseLock, DP!ReleaseLock
<1>1. ASSUME NEW s PROVE D!Subscribe(s) => DP!Subscribe(s)
  BY DEF D!Subscribe, DP!Subscribe
<1>2. ASSUME NEW p PROVE D!PollReady(p) => DP!PollReady(p)
  BY DEF D!PollReady, DP!PollReady
<1>3. ASSUME NEW n PROVE D!ReadBytes(n) => DP!ReadBytes(n)
  BY DEF D!ReadBytes, DP!ReadBytes
<1>4. ASSUME NEW how PROVE D!PeerGoes(how) => DP!PeerGoes(how)
  BY DEF D!PeerGoes, DP!PeerGoes
<1>5. D!SetNonBlocking => DP!SetNonBlocking
  BY DEF D!SetNonBlocking, DP!SetNonBlocking
<1>6. D!DestructorSignals => DP!DestructorSignals
  BY DEF D!DestructorSignals, DP!DestructorSignals
<1>7. D!WarnAboutSubscribers => DP!WarnAboutSubscribers
  BY DEF D!WarnAboutSubscribers, DP!WarnAboutSubscribers
<1>8. D!DestructorJoins => DP!DestructorJoins
  BY DEF D!DestructorJoins, DP!DestructorJoins
<1>9. D!TestError => DP!TestError
  BY DEF D!TestError, DP!TestError
<1>10. D!PollTimesOut => DP!PollTimesOut
  BY DEF D!PollTimesOut, DP!PollTimesOut
<1>11. D!FallAsleep => DP!FallAsleep
  BY DEF D!FallAsleep, DP!FallAsleep
<1>12. D!ReadFails => DP!ReadFails
  BY DEF D!ReadFails, DP!ReadFails
<1>13. D!ReadInterrupted => DP!ReadInterrupted
  BY DEF D!ReadInterrupted, DP!ReadInterrupted
<1>14. D!FieldRead => DP!FieldRead
  BY DEF D!FieldRead, DP!FieldRead
<1>15. D!HelloRead => DP!HelloRead
  BY DEF D!HelloRead, DP!HelloRead
<1>16. D!ControlRead => DP!ControlRead
  BY DEF D!ControlRead, DP!ControlRead
<1>17. D!DispatchBegins => DP!DispatchBegins
  BY DEF D!DispatchBegins, DP!DispatchBegins
<1>18. D!CallbackBegins => DP!CallbackBegins
  BY DEF D!CallbackBegins, DP!CallbackBegins
<1>19. D!CallbackEnds => DP!CallbackEnds
  BY DEF D!CallbackEnds, DP!CallbackEnds
<1>20. D!DispatchDone => DP!DispatchDone
  BY DEF D!DispatchDone, DP!DispatchDone
<1>21. ASSUME NEW s PROVE D!DropSubscription(s) => DP!DropSubscription(s)
  BY DEF D!DropSubscription, DP!DropSubscription, D!Shared, DP!Shared, D!Registered,
         DP!Registered, D!Contains, DP!Contains
<1>22. ASSUME NEW s PROVE D!Unsubscribe(s) => DP!Unsubscribe(s)
  BY DEF D!Unsubscribe, DP!Unsubscribe, D!RemoveAt, DP!RemoveAt
<1> HIDE DEF
    D!Hello, DP!Hello, D!InvalidPacket, DP!InvalidPacket, D!readVars, DP!readVars,
    D!dispatchVars, DP!dispatchVars, D!subVars, DP!subVars, D!transportVars,
    DP!transportVars, D!LockFree, DP!LockFree, D!GiveUp, DP!GiveUp, D!Reading,
    DP!Reading, D!Interrupted, DP!Interrupted, D!ReadResults, DP!ReadResults,
    D!ZeroBytesIsError, DP!ZeroBytesIsError, D!Failed, DP!Failed, D!DataSizeOf,
    DP!DataSizeOf, D!FirstPacket, DP!FirstPacket, D!NextPacket, DP!NextPacket,
    D!Queue, DP!Queue, D!ReleaseLock, DP!ReleaseLock
<1> QED
  BY <1>1, <1>2, <1>3, <1>4, <1>5, <1>6, <1>7, <1>8, <1>9, <1>10, <1>11, <1>12,
     <1>13, <1>14, <1>15, <1>16, <1>17, <1>18, <1>19, <1>20, <1>21, <1>22

(* The demuxer is told of the packet whose byte comes first. *)
LEMMA HeaderIsPacket ==
  ASSUME LineInv, pipe # <<>>
  PROVE  pipe[1] \in WireBytes /\ Head(pipe) = pipe[1] /\ Decoded(Head(pipe).packet) \in DP!Packets
BY ByteDecoded, SamePackets, EmptySeq DEF LineInv

(* A step of the composition is a step of the muxer and one of the         *)
(* demuxer, or leaves them alone.                                          *)
LEMMA HalvesStep ==
  ASSUME LinkInv, [Next]_vars
  PROVE  [MP!Next]_MP!vars /\ [DP!Next]_DP!vars
<1> USE DEF muxVars, demVars, lineVars, MP!vars, MP!queueVars, MP!passVars, MP!linkVars,
            DP!vars, DP!readVars, DP!dispatchVars, DP!subVars, DP!transportVars
<1>1. CASE \E p \in M!UserPackets : Post(p)
  <2>1. PICK p \in M!UserPackets : Post(p)
    BY <1>1
  <2>2. p \in MP!UserPackets
    BY DEF MP!UserPackets, M!UserPackets
  <2> QED
    BY <2>1, <2>2, MuxerSteps DEF Post, MP!Next
<1>2. CASE SendLoop
  <2>1. MP!SendLoop
    BY <1>2, MuxerSteps DEF SendLoop, MuxerRuns, BeginPacket, MP!SendLoop, M!Types, MP!Types
  <2> QED
    BY <2>1, <1>2 DEF SendLoop, MuxerRuns, BeginPacket, MP!Next
<1>3. CASE OneSecondPasses \/ SpuriousWake \/ DestroyMuxer \/ ConnectionFails
  BY <1>3, MuxerSteps DEF OneSecondPasses, SpuriousWake, DestroyMuxer, ConnectionFails, MP!Next
<1>4. CASE \E n \in -1..io.left : Send(n)
  BY <1>4, MuxerSteps DEF Send, MP!Next
<1>5. CASE SetNonBlocking \/ DestroyDemuxer
  BY <1>5, DemuxerSteps DEF SetNonBlocking, DestroyDemuxer, DP!Next
<1>6. CASE DemuxerRuns \/ NothingCame \/ PacketReceived
  <2>1. DP!ReceiveLoop \/ DP!FallAsleep
    BY <1>6, DemuxerSteps DEF DemuxerRuns, NothingCame, PacketReceived, DP!ReceiveLoop
  <2> QED
    BY <2>1, <1>6 DEF DemuxerRuns, NothingCame, PacketReceived, DP!Next
<1>7. CASE HeaderReady
  <2>1. \E p \in DP!Packets : DP!PollReady(p)
    BY <1>7, DemuxerSteps, SamePackets, HeaderIsPacket DEF HeaderReady, LinkInv
  <2> QED
    BY <2>1, <1>7 DEF HeaderReady, DP!Next, DP!ReceiveLoop
<1>8. CASE \E s \in Subs : Subscribe(s) \/ DropSubscription(s)
  BY <1>8, DemuxerSteps DEF Subscribe, DropSubscription, DP!Next
<1>9. CASE \E n \in 0..left : Receive(n)
  BY <1>9, DemuxerSteps DEF Receive, DP!Next
<1>10. CASE FailureSeen \/ SocketClosed
  BY <1>10, DemuxerSteps DEF FailureSeen, SocketClosed, DP!Next
<1>11. CASE Destroyed \/ UNCHANGED vars
  BY <1>11 DEF Destroyed, vars
<1> QED
  BY <1>1, <1>2, <1>3, <1>4, <1>5, <1>6, <1>7, <1>8, <1>9, <1>10, <1>11
  DEF Next, ReceiveLoop

-----------------------------------------------------------------------------
(* The line.                                                               *)

(* With a field read or written the next one begins. *)
LEMMA FollowsNextField ==
  ASSUME NEW p \in M!Packets, NEW b
  PROVE  /\ Follows(p, "type", 0, b) <=> Follows(p, "size", FieldSize, b)
         /\ Follows(p, "size", 0, b) <=> Follows(p, "data", D!DataSizeOf(p), b)
         /\ Follows(p, "data", 0, b) <=> HeaderByte(b)
<1>1. D!DataSizeOf(p) \in Nat /\ FieldSize \in Nat /\ FieldSize > 0
  BY PacketFields, LinkAssumption DEF M!MuxerAssumption
<1> QED
  BY <1>1 DEF Follows

(* A step of the muxer's side that writes nothing: what it may write next  *)
(* it could have written before.                                           *)
LEMMA MuxerSide ==
  ASSUME LineInv, UNCHANGED <<demVars, pipe>>, link' = "up" => link = "up",
         \A b \in WireBytes : link' = "up" /\ Written(b)' => Written(b)
  PROVE  LineInv'
<1>1. /\ UNCHANGED <<rxError, peer, pipe>>
      /\ \A b : Wanted(b)' <=> Wanted(b)
  BY DEF demVars, Wanted, D!Reading
<1>2. Connected => Connected'
  BY <1>1 DEF Connected
<1> QED
  BY <1>1, <1>2 DEF LineInv

(* A step of the demuxer's side that reads nothing: it wants no other byte *)
(* than before.                                                            *)
LEMMA DemuxerSide ==
  ASSUME LineInv, UNCHANGED <<muxVars, pipe>>,
         ~rxError' /\ peer' = "open" =>
           /\ ~rxError /\ peer = "open"
           /\ \A b \in WireBytes : Wanted(b) => Wanted(b)'
  PROVE  LineInv'
<1>1. /\ UNCHANGED <<link, pipe>>
      /\ \A b : Written(b)' <=> Written(b)
  BY DEF muxVars, Written
<1>2. pipe # <<>> => pipe[1] \in WireBytes
  BY HeaderIsPacket
<1>3. Connected /\ (\A b \in WireBytes : Wanted(b) => Wanted(b)') => Connected'
  BY <1>1, <1>2 DEF Connected
<1> QED
  BY <1>1, <1>3 DEF LineInv

(* What the muxer knows while it writes a packet: nobody else has the      *)
(* lock, and the packet stays at the head of its queue.                    *)
LEMMA Writing ==
  ASSUME LinkInv, sender = "write"
  PROVE  /\ txLock # "free" /\ ~txError
         /\ Head(txQueues[current]) \in M!Packets
         /\ io.field \in Fields /\ io.left \in Nat
<1>1. txLock # "free" /\ ~txError /\ txQueues[current] # <<>>
  BY DEF LinkInv, MP!CoreInv, MP!LockDiscipline, MP!HasLock, MP!WriteHasPacket
<1>2. txQueues[current] \in Seq(M!Packets) /\ io.field \in Fields /\ io.left \in Nat
  BY SamePackets DEF LinkInv, MP!CoreInv, MP!TypeOK, Fields
<1> QED
  BY <1>1, <1>2, HeadTailProperties

(* Whatever the muxer's side does between two packets. *)
LEMMA BetweenPackets ==
  ASSUME LinkInv, UNCHANGED <<demVars, pipe>>, link' = "up" => link = "up",
         sender # "write", sender' # "write"
  PROVE  LineInv'
BY MuxerSide DEF LinkInv, Written

(* Whatever it does beside the packet being written. *)
LEMMA BesidesPacket ==
  ASSUME LinkInv, UNCHANGED <<demVars, pipe>>, link' = "up" => link = "up",
         UNCHANGED <<sender, io, current, txQueues>>
  PROVE  LineInv'
BY MuxerSide DEF LinkInv, Written

(* The muxer's threads and its connection, but for BeginPacket and Send:   *)
(* they do nothing to the packet being written, unless they go on to its   *)
(* next field or end it.                                                   *)
LEMMA MuxerCases ==
  ASSUME LinkInv,
         \/ \E p \in M!UserPackets : Post(p)
         \/ MuxerRuns \/ OneSecondPasses \/ SpuriousWake \/ DestroyMuxer \/ ConnectionFails
  PROVE  /\ UNCHANGED <<demVars, pipe, flying>> /\ (link' = "up" => link = "up")
         /\ \/ sender # "write" /\ sender' # "write"
            \/ UNCHANGED <<sender, io, current, txQueues>>
            \/ M!NextField \/ M!EndPacket
<1>1. UNCHANGED <<demVars, pipe, flying>>
  BY DEF Post, MuxerRuns, OneSecondPasses, SpuriousWake, DestroyMuxer, ConnectionFails, lineVars
<1>2. CASE \E p \in M!UserPackets : Post(p)
  <2>1. txLock = "free" /\ M!Notify /\ link' = link
    BY <1>2 DEF Post, M!EmplacePacket, M!LockFree, M!linkVars
  <2> QED
    BY <1>1, <2>1, Writing DEF M!Notify
<1>3. CASE OneSecondPasses \/ SpuriousWake
  BY <1>1, <1>3 DEF OneSecondPasses, M!TimeOut, SpuriousWake, M!SpuriousWake, M!linkVars
<1>4. CASE M!DestructorBegins \/ M!DestructorJoins \/ ConnectionFails
  BY <1>1, <1>4 DEF M!DestructorBegins, M!DestructorJoins, ConnectionFails, M!LinkDown,
                    M!queueVars, M!passVars, M!linkVars
<1>5. CASE M!DestructorSignals
  <2>1. txLock = "free" /\ M!Notify /\ link' = link
    BY <1>5 DEF M!DestructorSignals, M!LockFree, M!linkVars
  <2> QED
    BY <1>1, <2>1, Writing DEF M!Notify
<1>6. CASE M!SendHello \/ M!TakeLock \/ M!LeaveLoop \/ M!BeginWait \/ M!PassDone
  BY <1>1, <1>6
  DEF M!SendHello, M!TakeLock, M!LeaveLoop, M!BeginWait, M!PassDone, M!linkVars
<1>7. CASE M!SkipWait \/ M!Wake \/ \E t \in M!Types : M!NextQueue(t)
  BY <1>1, <1>7 DEF M!SkipWait, M!Wake, M!StartPass, M!NextQueue, M!linkVars
<1>8. CASE M!NextField \/ M!EndPacket
  BY <1>1, <1>8 DEF M!NextField, M!EndPacket, M!linkVars
<1> QED
  BY <1>2, <1>3, <1>4, <1>5, <1>6, <1>7, <1>8 DEF MuxerRuns, DestroyMuxer

(* The next field of the packet being written. *)
LEMMA NextFieldIs ==
  ASSUME LinkInv, M!NextField
  PROVE  /\ sender = "write" /\ sender' = "write" /\ io.left = 0
         /\ UNCHANGED <<current, txQueues, link>>
         /\ \/ io.field = "type" /\ io'.field = "size" /\ io'.left = FieldSize
            \/ /\ io.field = "size" /\ io'.field = "data"
               /\ io'.left = D!DataSizeOf(Head(txQueues[current]))
<1>1. /\ sender = "write" /\ sender' = "write" /\ io.left = 0 /\ io.field \in {"type", "size"}
      /\ UNCHANGED <<current, txQueues, link>>
  BY Writing DEF M!NextField, Fields, M!queueVars, M!linkVars
<1> QED
  BY <1>1, SamePackets DEF M!NextField, LinkInv, MP!CoreInv, MP!TypeOK

(* These steps leave the line as it is. *)
LEMMA MuxerKeepsLine ==
  ASSUME LinkInv,
         \/ \E p \in M!UserPackets : Post(p)
         \/ MuxerRuns \/ OneSecondPasses \/ SpuriousWake \/ DestroyMuxer \/ ConnectionFails
  PROVE  LineInv'
<1>1. UNCHANGED <<demVars, pipe>> /\ (link' = "up" => link = "up")
  BY MuxerCases
<1>2. CASE sender # "write" /\ sender' # "write"
  BY <1>1, <1>2, BetweenPackets
<1>3. CASE UNCHANGED <<sender, io, current, txQueues>>
  BY <1>1, <1>3, BesidesPacket
<1>4. CASE M!NextField
  <2> DEFINE p == Head(txQueues[current])
  <2>1. /\ sender = "write" /\ sender' = "write" /\ io.left = 0
        /\ UNCHANGED <<current, txQueues>>
        /\ \/ io.field = "type" /\ io'.field = "size" /\ io'.left = FieldSize
           \/ io.field = "size" /\ io'.field = "data" /\ io'.left = D!DataSizeOf(p)
    BY <1>4, NextFieldIs
  <2>2. p \in M!Packets
    BY <2>1, Writing
  <2>3. ASSUME NEW b PROVE Written(b)' => Written(b)
    <3>1. /\ Written(b) <=> Follows(p, io.field, 0, b)
          /\ Written(b)' <=> Follows(p, io'.field, io'.left, b)
      BY <2>1 DEF Written
    <3> QED
      BY <3>1, <2>1, <2>2, FollowsNextField
  <2> QED
    BY <1>1, <2>3, MuxerSide DEF LinkInv
<1>5. CASE M!EndPacket
  <2>1. sender = "write" /\ sender' # "write" /\ io.left = 0 /\ io.field = "data"
    BY <1>5 DEF M!EndPacket
  <2>2. \A b : Written(b)' => Written(b)
    BY <2>1, Writing, FollowsNextField DEF Written
  <2> QED
    BY <1>1, <2>2, MuxerSide DEF LinkInv
<1> QED
  BY <1>2, <1>3, <1>4, <1>5, MuxerCases

(* The first byte of a packet is that of a header. *)
LEMMA BeginPacketKeepsLine ==
  ASSUME LinkInv, BeginPacket
  PROVE  LineInv'
<1>1. /\ UNCHANGED <<demVars, pipe, link, current, txQueues>>
      /\ sender = "sendAll" /\ sender' = "write" /\ io' = [field |-> "type", left |-> FieldSize, ok |-> TRUE]
  BY DEF BeginPacket, M!BeginPacket, M!queueVars, M!linkVars
<1>2. FieldSize > 0
  BY LinkAssumption DEF M!MuxerAssumption
<1>3. ASSUME NEW b, Written(b)' PROVE Written(b)
  BY <1>1, <1>2, <1>3 DEF Written, Follows, ByteOf, HeaderByte
<1> QED
  BY <1>1, <1>3, MuxerSide DEF LinkInv

(* One write, of n bytes. *)
LEMMA SendIs ==
  ASSUME LinkInv, NEW n \in -1..io.left, Send(n)
  PROVE  /\ sender = "write" /\ io.left \in Nat /\ io.left > 0 /\ io.field \in Fields /\ n \in Int
         /\ UNCHANGED <<demVars, flying, sender, current, txQueues, link>>
         /\ n < 0 => link = "down"
         /\ n > 0 => link = "up"
         /\ n >= 0 => io'.field = io.field /\ io'.left = io.left - n
         /\ pipe' = IF n > 0 THEN pipe \o Bytes(n) ELSE pipe
<1>1. /\ sender = "write" /\ io.left \in Nat /\ io.left > 0 /\ io.field \in Fields /\ n \in Int
      /\ UNCHANGED <<demVars, flying, sender, current, txQueues, link>>
      /\ pipe' = IF n > 0 THEN pipe \o Bytes(n) ELSE pipe
      /\ n < 0 => link = "down"
  BY Writing DEF Send, M!Write, M!queueVars, M!linkVars
<1>2. n >= 0 => io' = [io EXCEPT !.left = io.left - n]
  BY <1>1, Writing DEF Send, M!Write
<1>3. n >= 0 => io'.field = io.field /\ io'.left = io.left - n
  BY <1>2 DEF LinkInv, MP!CoreInv, MP!TypeOK
<1>4. n > 0 => link = "up"
  BY <1>1 DEF Send, M!Write, M!WriteResults, LinkInv, MP!CoreInv, MP!TypeOK
<1> QED
  BY <1>1, <1>3, <1>4

(* The line after it: the bytes of one field are added. *)
LEMMA SendAdds ==
  ASSUME LinkInv, NEW n \in -1..io.left, Send(n), n > 0
  PROVE  /\ pipe' \in Seq(WireBytes) /\ Len(pipe') = Len(pipe) + n
         /\ \A i \in 1..Len(pipe) : pipe'[i] = pipe[i]
         /\ \A j \in 1..n :
              /\ pipe'[Len(pipe) + j] = ByteOf(Head(txQueues[current]), io.field, io.left - j + 1)
              /\ pipe'[Len(pipe) + j] \in WireBytes
<1>1. PICK p \in M!Packets, f \in Fields, m \in Nat :
        p = Head(txQueues[current]) /\ f = io.field /\ m = io.left
  BY SendIs, Writing
<1>2. PICK k \in Nat : k = n /\ k <= m
  BY <1>1
<1>3. PICK r \in Seq(WireBytes), L \in Nat : r = pipe /\ L = Len(r)
  BY LenProperties DEF LinkInv, LineInv
<1>4. PICK new : new = Bytes(n)
  OBVIOUS
<1>5. /\ Len(new) = k
      /\ \A j \in 1..k : new[j] = ByteOf(p, f, m - j + 1)
  BY <1>1, <1>2, <1>4 DEF Bytes, ByteOf
<1>6. ASSUME NEW j \in 1..k PROVE new[j] \in WireBytes
  <2>1. m - j + 1 \in Nat \ {0}
    BY <1>2
  <2> QED
    BY <2>1, <1>5 DEF WireBytes, ByteOf
<1>7. new \in Seq(WireBytes)
  BY <1>2, <1>4, <1>6 DEF Bytes
<1>8. PICK q : q = pipe' /\ q = r \o new
  BY <1>3, <1>4, SendIs
<1>9. q \in Seq(WireBytes) /\ Len(q) = L + k
  BY <1>3, <1>5, <1>7, <1>8, ConcatProperties
<1>10. \A i \in 1..L : q[i] = r[i]
  <2>1. \A i \in 1..L : i \in 1..L + k /\ i <= L
    BY <1>2
  <2> QED
    BY <2>1, <1>3, <1>5, <1>7, <1>8, ConcatProperties
<1>11. \A j \in 1..k : q[L + j] = new[j]
  <2>1. \A j \in 1..k : L + j \in 1..L + k /\ ~(L + j <= L) /\ (L + j) - L = j
    BY <1>2
  <2> QED
    BY <2>1, <1>3, <1>5, <1>7, <1>8, ConcatProperties
<1> QED
  BY <1>1, <1>2, <1>3, <1>5, <1>6, <1>8, <1>9, <1>10, <1>11

(* The bytes that a write puts on the line continue what is there. *)
LEMMA SendKeepsLine ==
  ASSUME LinkInv, NEW n \in -1..io.left, Send(n)
  PROVE  LineInv'
<1>1. /\ sender = "write" /\ io.left \in Nat /\ io.left > 0 /\ io.field \in Fields /\ n \in Int
      /\ UNCHANGED <<demVars, sender, current, txQueues, link>>
      /\ pipe' = IF n > 0 THEN pipe \o Bytes(n) ELSE pipe
      /\ n < 0 => link = "down"
  BY SendIs
<1>2. PICK p \in M!Packets : p = Head(txQueues[current])
  BY <1>1, Writing
<1>3. PICK f \in Fields, m \in Nat : f = io.field /\ m = io.left /\ n <= m
  BY <1>1
<1>4. n >= 0 => io'.field = f /\ io'.left = m - n
  BY <1>3, SendIs
<1>5. \A b : /\ Written(b) <=> Follows(p, f, m, b)
             /\ n >= 0 => (Written(b)' <=> Follows(p, f, m - n, b))
  BY <1>1, <1>2, <1>3, <1>4 DEF Written
<1>6. CASE n <= 0
  <2>1. \A b : link' = "up" /\ Written(b)' => Written(b)
    <3>1. n = 0 => m - n = m
      BY <1>3
    <3> QED
      BY <3>1, <1>1, <1>5, <1>6
  <2>2. UNCHANGED <<demVars, pipe>> /\ (link' = "up" => link = "up")
    BY <1>1, <1>6
  <2> QED
    BY <2>1, <2>2, MuxerSide DEF LinkInv
<1>7. CASE n > 0
  <2>1. PICK k \in Nat : k = n /\ k > 0
    BY <1>1, <1>7
  <2>2. PICK L \in Nat : L = Len(pipe) /\ pipe \in Seq(WireBytes)
    BY LenProperties DEF LinkInv, LineInv
  <2>3. PICK q : q = pipe'
    OBVIOUS
  <2>4. /\ q \in Seq(WireBytes) /\ Len(q) = L + k
        /\ \A i \in 1..L : q[i] = pipe[i]
        /\ \A j \in 1..k : q[L + j] = ByteOf(p, f, m - j + 1) /\ q[L + j] \in WireBytes
    BY <1>2, <1>3, <1>7, <2>1, <2>2, <2>3, SendAdds
  <2>5. UNCHANGED <<rxError, peer, link>> /\ \A b : Wanted(b)' <=> Wanted(b)
    BY <1>1 DEF demVars, Wanted, D!Reading
  <2>6. ASSUME Connected PROVE Connected'
    <3>1. 1 \in 1..k /\ q[L + 1] \in WireBytes /\ Written(q[L + 1])
      <4>1. 1 \in 1..k /\ m - 1 + 1 = m /\ m > 0
        BY <1>1, <1>3, <2>1
      <4>2. q[L + 1] = ByteOf(p, f, m) /\ q[L + 1] \in WireBytes
        BY <4>1, <2>4
      <4> QED
        BY <4>1, <4>2, <1>5 DEF Follows
    <3>2. link = "up"
      BY <1>7, SendIs
    <3>3. IF pipe = <<>> THEN Wanted(q[L + 1]) ELSE After(pipe[L], q[L + 1])
      BY <2>2, <2>6, <3>1, <3>2 DEF Connected
    <3>4. Wanted(q[1])
      <4>1. CASE pipe = <<>>
        <5>1. L = 0
          BY <4>1, <2>2
        <5> QED
          BY <4>1, <5>1, <3>3
      <4>2. CASE pipe # <<>>
        <5>1. 1 \in 1..L
          BY <4>2, <2>2, EmptySeq
        <5> QED
          BY <5>1, <4>2, <2>4, <2>6 DEF Connected
      <4> QED
        BY <4>1, <4>2
    <3>5. ASSUME NEW i \in 1..L + k - 1 PROVE After(q[i], q[i + 1])
      <4>1. CASE i \in 1..L - 1
        <5>1. i \in 1..L /\ i + 1 \in 1..L
          BY <4>1, <2>2
        <5> QED
          BY <5>1, <4>1, <2>2, <2>4, <2>6 DEF Connected
      <4>2. CASE i = L
        <5>1. pipe # <<>> /\ L \in 1..L
          BY <4>2, <2>2
        <5> QED
          BY <5>1, <4>2, <2>4, <3>3
      <4>3. CASE i > L
        <5>1. i - L \in 1..k - 1 /\ i = L + (i - L)
          BY <4>3, <2>1
        <5>2. PICK j \in 1..k - 1 : i = L + j
          BY <5>1
        <5>3. /\ j \in 1..k /\ j + 1 \in 1..k /\ i + 1 = L + (j + 1)
              /\ m - (j + 1) + 1 = m - j /\ m - j > 0 /\ (m - j + 1) - 1 = m - j
          BY <5>2, <1>3, <2>1
        <5>4. q[i] = ByteOf(p, f, m - j + 1) /\ q[i + 1] = ByteOf(p, f, m - j)
          BY <5>2, <5>3, <2>4
        <5> QED
          BY <5>3, <5>4, PacketDecoded DEF After, Follows, ByteOf
      <4> QED
        BY <4>1, <4>2, <4>3
    <3>6. ASSUME NEW b, Written(b)' PROVE After(q[L + k], b)
      <4>1. k \in 1..k /\ (m - k + 1) - 1 = m - n
        BY <1>3, <2>1
      <4>2. q[L + k] = ByteOf(p, f, m - k + 1)
        BY <4>1, <2>4
      <4>3. Follows(p, f, m - n, b)
        BY <1>5, <1>7, <3>6
      <4> QED
        BY <4>1, <4>2, <4>3, PacketDecoded DEF After, ByteOf
    <3>7. q # <<>>
      <4>1. L + k # 0
        BY <2>1
      <4> QED
        BY <4>1, <2>4
    <3>8. (pipe # <<>> => Wanted(pipe[1]))'
      BY <2>3, <2>5, <3>4
    <3>9. (\A i \in 1..Len(pipe) - 1 : After(pipe[i], pipe[i + 1]))'
      BY <2>3, <2>4, <3>5 DEF After
    <3>10. (\A b \in WireBytes : Written(b) => After(pipe[Len(pipe)], b))'
      BY <2>3, <2>4, <3>6 DEF After
    <3> QED
      BY <2>3, <3>7, <3>8, <3>9, <3>10 DEF Connected
  <2> QED
    BY <2>3, <2>4, <2>5, <2>6 DEF LinkInv, LineInv
<1> QED
  BY <1>1, <1>6, <1>7

-----------------------------------------------------------------------------
(* The demuxer's end of the line.                                          *)

(* What the demuxer knows while it reads a packet. *)
LEMMA ReadingPacket ==
  ASSUME LinkInv
  PROVE  /\ D!Reading \/ receiver = "packet" => frame \in M!Packets
         /\ left \in Nat
BY SamePackets DEF LinkInv, DP!ReceiverInv, DP!FrameKnown, DP!TypeOK, D!Reading

(* Whatever the demuxer's side does between two packets. *)
LEMMA BetweenReads ==
  ASSUME LinkInv, UNCHANGED <<muxVars, pipe>>, ~D!Reading, ~D!Reading',
         ~rxError' /\ peer' = "open" => ~rxError /\ peer = "open"
  PROVE  LineInv'
BY DemuxerSide DEF LinkInv, Wanted

(* Whatever it does beside the packet being read. *)
LEMMA BesidesRead ==
  ASSUME LinkInv, UNCHANGED <<muxVars, pipe, receiver, frame, left>>,
         ~rxError' /\ peer' = "open" => ~rxError /\ peer = "open"
  PROVE  LineInv'
BY DemuxerSide DEF LinkInv, Wanted, D!Reading

(* Nothing more is read from a stream that the demuxer has given up. *)
LEMMA GivenUp ==
  ASSUME LinkInv, UNCHANGED <<muxVars, pipe>>, rxError' = TRUE
  PROVE  LineInv'
BY DemuxerSide DEF LinkInv

(* With a field read the next one is asked for. *)
LEMMA FieldReadKeepsLine ==
  ASSUME LinkInv, D!FieldRead, UNCHANGED <<muxVars, pipe>>
  PROVE  LineInv'
<1>1. /\ D!Reading /\ left = 0 /\ UNCHANGED <<frame, rxError, peer>>
      /\ receiver \in {"type", "size", "data"}
  BY DEF D!FieldRead, D!Reading, D!transportVars
<1>2. \/ receiver = "type" /\ receiver' = "size" /\ left' = FieldSize
      \/ receiver = "size" /\ receiver' = "data" /\ left' = D!DataSizeOf(frame)
      \/ receiver = "data" /\ receiver' = "packet"
  BY <1>1 DEF D!FieldRead
<1>3. frame \in M!Packets
  BY <1>1, ReadingPacket
<1>4. ASSUME NEW b PROVE Wanted(b) => Wanted(b)'
  <2>1. Wanted(b) <=> Follows(frame, receiver, 0, b)
    BY <1>1 DEF Wanted
  <2>2. CASE receiver' \in {"size", "data"}
    <3>1. Wanted(b)' <=> Follows(frame, receiver', left', b)
      BY <1>1, <2>2 DEF Wanted, D!Reading
    <3> QED
      BY <2>1, <2>2, <3>1, <1>2, <1>3, FollowsNextField
  <2>3. CASE receiver = "data" /\ receiver' = "packet"
    <3>1. Wanted(b)' <=> HeaderByte(b)
      BY <2>3 DEF Wanted, D!Reading, HeaderByte
    <3> QED
      BY <2>1, <2>3, <3>1, <1>3, FollowsNextField
  <2> QED
    BY <1>2, <2>2, <2>3
<1> QED
  BY <1>1, <1>4, DemuxerSide DEF LinkInv

(* The demuxer has a packet in hand, whole or in part. *)
Holding == D!Reading \/ receiver = "packet"

(* The demuxer's threads and its connection, where they take no byte, do   *)
(* not begin to take one and do not hand a packet over: they do nothing to *)
(* the packet in hand, unless they give up or have read a field of it.     *)
LEMMA DemuxerCases ==
  ASSUME LinkInv,
         \/ SetNonBlocking \/ DemuxerRuns \/ DestroyDemuxer \/ NothingCame
         \/ (\E s \in Subs : Subscribe(s) \/ DropSubscription(s)) \/ SocketClosed
  PROVE  /\ UNCHANGED <<muxVars, pipe, flying>>
         /\ (rxError => rxError') /\ (peer' = "open" => peer = "open")
         /\ \/ receiver' = "loop" /\ rxError' = TRUE
            \/ UNCHANGED <<receiver, frame, left>>
            \/ ~Holding /\ ~Holding'
            \/ D!FieldRead
<1> USE DEF D!readVars, D!dispatchVars, D!subVars, D!transportVars
<1>1. UNCHANGED <<muxVars, pipe, flying>>
  BY DEF SetNonBlocking, DemuxerRuns, DestroyDemuxer, NothingCame, Subscribe,
         DropSubscription, SocketClosed, lineVars
<1>2. CASE SetNonBlocking \/ SocketClosed \/ \E s \in Subs : Subscribe(s) \/ DropSubscription(s)
  BY <1>1, <1>2
  DEF SetNonBlocking, D!SetNonBlocking, SocketClosed, D!PeerGoes, Subscribe, D!Subscribe,
      DropSubscription, D!DropSubscription, D!Unsubscribe
<1>3. CASE DestroyDemuxer
  BY <1>1, <1>3
  DEF DestroyDemuxer, D!DestructorSignals, D!WarnAboutSubscribers, D!DestructorJoins
<1>4. CASE NothingCame
  <2>1. CASE D!PollTimesOut
    BY <1>1, <2>1 DEF D!PollTimesOut, D!GiveUp, Holding, D!Reading
  <2>2. CASE D!FallAsleep
    BY <1>1, <2>2 DEF D!FallAsleep
  <2> QED
    BY <1>4, <2>1, <2>2 DEF NothingCame
<1>5. CASE D!TestError
  BY <1>1, <1>5 DEF D!TestError, Holding, D!Reading
<1>6. CASE D!ReadFails \/ D!ReadInterrupted
  <2>1. receiver' = "loop" /\ rxError' = TRUE /\ peer' = peer
    BY <1>6 DEF D!ReadFails, D!ReadInterrupted, D!GiveUp, D!Interrupted, LinkInv,
                DP!ReceiverInv, DP!TypeOK
  <2> QED
    BY <1>1, <2>1
<1>7. CASE D!FieldRead
  BY <1>1, <1>7 DEF D!FieldRead
<1>8. CASE D!CallbackBegins \/ D!CallbackEnds
  BY <1>1, <1>8 DEF D!CallbackBegins, D!CallbackEnds
<1>9. CASE D!DispatchDone
  BY <1>1, <1>9 DEF D!DispatchDone, D!NextPacket, Holding, D!Reading
<1> QED
  BY <1>2, <1>3, <1>4, <1>5, <1>6, <1>7, <1>8, <1>9 DEF DemuxerRuns

(* And what handing a packet over does to the demuxer's side. *)
LEMMA PacketReceivedIs ==
  ASSUME PacketReceived
  PROVE  /\ UNCHANGED <<muxVars, pipe, peer>> /\ (rxError => rxError')
         /\ receiver = "packet" /\ ~Holding'
<1>1. /\ receiver = "packet" /\ receiver' \in {"loop", "dispatch"} /\ peer' = peer
      /\ rxError' = rxError \/ rxError' = (rxError \/ frame # D!Hello)
  BY DEF PacketReceived, D!HelloRead, D!ControlRead, D!DispatchBegins, D!NextPacket,
         D!transportVars
<1>2. rxError => rxError'
  BY <1>1
<1> QED
  BY <1>1, <1>2 DEF PacketReceived, Holding, D!Reading

(* These steps leave the line as it is. *)
LEMMA DemuxerKeepsLine ==
  ASSUME LinkInv,
         \/ SetNonBlocking \/ DemuxerRuns \/ DestroyDemuxer \/ NothingCame
         \/ (\E s \in Subs : Subscribe(s) \/ DropSubscription(s)) \/ SocketClosed
         \/ PacketReceived
  PROVE  LineInv'
<1>1. CASE PacketReceived
  BY <1>1, PacketReceivedIs, BetweenReads DEF Holding, D!Reading
<1>2. CASE ~PacketReceived
  <2>1. /\ UNCHANGED <<muxVars, pipe>>
        /\ ~rxError' /\ peer' = "open" => ~rxError /\ peer = "open"
    BY <1>2, DemuxerCases
  <2>2. CASE rxError' = TRUE
    BY <2>1, <2>2, GivenUp
  <2>3. CASE UNCHANGED <<receiver, frame, left>>
    BY <2>1, <2>3, BesidesRead
  <2>4. CASE ~Holding /\ ~Holding'
    BY <2>1, <2>4, BetweenReads DEF Holding
  <2>5. CASE D!FieldRead
    BY <2>1, <2>5, FieldReadKeepsLine
  <2> QED
    BY <1>2, <2>2, <2>3, <2>4, <2>5, DemuxerCases
<1> QED
  BY <1>1, <1>2

(* The header that begins is that of the packet whose byte comes first. *)
LEMMA HeaderKeepsLine ==
  ASSUME LinkInv, HeaderReady
  PROVE  LineInv'
<1>1. /\ UNCHANGED <<muxVars, pipe, rxError, peer>> /\ receiver = "poll"
      /\ receiver' = "type" /\ left' = FieldSize
      /\ peer = "open" => pipe # <<>> /\ frame' = Decoded(Head(pipe).packet)
  BY DEF HeaderReady, D!PollReady, D!transportVars, lineVars
<1>2. ASSUME ~rxError, peer = "open" PROVE Connected'
  <2>1. Connected /\ pipe # <<>>
    BY <1>1, <1>2 DEF LinkInv, LineInv
  <2>2. pipe[1] \in WireBytes /\ Head(pipe) = pipe[1]
    BY <2>1, HeaderIsPacket DEF LinkInv
  <2>3. HeaderByte(pipe[1])
    BY <1>1, <2>1 DEF Connected, Wanted, D!Reading
  <2>4. pipe[1] = ByteOf(frame', "type", FieldSize)
    BY <1>1, <1>2, <2>2, <2>3, ByteDecoded DEF HeaderByte
  <2>5. FieldSize > 0
    BY LinkAssumption DEF M!MuxerAssumption
  <2>6. Follows(frame', receiver', left', pipe[1])
    BY <1>1, <2>4, <2>5 DEF Follows
  <2>7. Wanted(pipe[1])'
    BY <1>1, <2>6 DEF Wanted, D!Reading
  <2>8. link' = link /\ \A b : Written(b)' <=> Written(b)
    BY <1>1 DEF muxVars, Written
  <2> QED
    BY <1>1, <2>1, <2>7, <2>8 DEF Connected
<1> QED
  BY <1>1, <1>2 DEF LinkInv, LineInv

(* The bytes under way are those that are left of the field. *)
LEMMA BytesAhead ==
  ASSUME LinkInv, Connected, D!Reading,
         NEW m \in Nat, m = left, NEW n \in 1..m, n <= Len(pipe)
  PROVE  \A i \in 1..n : pipe[i] = ByteOf(frame, receiver, m - i + 1)
<1> DEFINE T == {i \in 1..n : pipe[i] # ByteOf(frame, receiver, m - i + 1)}
<1>1. SUFFICES ASSUME T # {} PROVE FALSE
  OBVIOUS
<1>2. PICK i \in T : \A j \in T : ~(<<j, i>> \in OpToRel(<, Nat))
  <2>1. T \subseteq Nat
    OBVIOUS
  <2> HIDE DEF T
  <2> QED
    BY <1>1, <2>1, NatLessThanWellFounded, WFMin
<1>3. i \in 1..n /\ i \in Nat /\ pipe[i] # ByteOf(frame, receiver, m - i + 1)
  OBVIOUS
<1>4. \A j \in 1..n : j < i => pipe[j] = ByteOf(frame, receiver, m - j + 1)
  <2> SUFFICES ASSUME NEW j \in 1..n, j < i PROVE j \notin T
    OBVIOUS
  <2>1. <<j, i>> \in OpToRel(<, Nat)
    BY <1>3 DEF OpToRel
  <2> QED
    BY <1>2, <2>1
<1> HIDE DEF T
<1>5. frame \in M!Packets
  BY ReadingPacket
<1>6. PICK L \in Nat : L = Len(pipe)
  BY LenProperties DEF LinkInv, LineInv
<1>7. CASE i = 1
  <2>1. pipe # <<>> /\ m > 0 /\ m - 1 + 1 = m
    BY <1>6
  <2>2. Follows(frame, receiver, m, pipe[1])
    BY <2>1 DEF Connected, Wanted
  <2>3. pipe[1] = ByteOf(frame, receiver, m)
    BY <2>1, <2>2 DEF Follows
  <2> QED
    BY <1>3, <1>7, <2>1, <2>3
<1>8. CASE i > 1
  <2>1. PICK j \in 1..n : i = j + 1 /\ j < i /\ j \in 1..L - 1
    <3>1. i - 1 \in 1..n /\ i = (i - 1) + 1 /\ i - 1 < i /\ i - 1 \in 1..L - 1
      BY <1>3, <1>6, <1>8
    <3> QED
      BY <3>1
  <2>2. pipe[j] = ByteOf(frame, receiver, m - j + 1) /\ After(pipe[j], pipe[i])
    BY <2>1, <1>4, <1>6 DEF Connected
  <2>3. (m - j + 1) - 1 = m - j /\ m - j > 0 /\ m - i + 1 = m - j
    BY <1>3, <2>1
  <2>4. Follows(frame, receiver, m - j, pipe[i])
    BY <2>2, <2>3, <1>5, PacketDecoded DEF After, ByteOf
  <2>5. pipe[i] = ByteOf(frame, receiver, m - j)
    BY <2>3, <2>4 DEF Follows
  <2> QED
    BY <1>3, <2>3, <2>5
<1> QED
  BY <1>3, <1>7, <1>8

(* One read, of n bytes. *)
LEMMA ReceiveTakes ==
  ASSUME LinkInv, NEW n \in 0..left, Receive(n)
  PROVE  /\ UNCHANGED <<muxVars, flying, receiver, frame, rxError, peer>> /\ D!Reading
         /\ left' = left - n /\ pipe' \in Seq(WireBytes)
         /\ peer # "open" => n = 0
         /\ peer = "open" =>
              /\ n <= Len(pipe) /\ Len(pipe') = Len(pipe) - n
              /\ \A i \in 1..Len(pipe) - n : n + i \in 1..Len(pipe) /\ pipe'[i] = pipe[n + i]
<1>1. /\ UNCHANGED <<muxVars, flying, receiver, frame, rxError, peer>> /\ D!Reading
      /\ left' = left - n /\ pipe' = SubSeq(pipe, n + 1, Len(pipe))
      /\ peer = "open" => n <= Len(pipe)
      /\ peer # "open" => n = 0
  BY DEF Receive, D!ReadBytes, D!ReadResults, D!Failed, D!transportVars,
         LinkInv, DP!ReceiverInv, DP!TypeOK
<1>2. PICK k \in Nat : k = n
  BY ReadingPacket
<1>3. PICK L \in Nat : L = Len(pipe) /\ pipe \in Seq(WireBytes)
  BY LenProperties DEF LinkInv, LineInv
<1>4. PICK q : q = pipe'
  OBVIOUS
<1>5. /\ q \in Seq(WireBytes) /\ Len(q) = IF k + 1 <= L THEN L - (k + 1) + 1 ELSE 0
      /\ \A i \in 1..L - (k + 1) + 1 : q[i] = pipe[i + (k + 1) - 1]
  <2>1. k + 1 \in Int /\ \A i \in k + 1..L : i \in 1..L
    BY <1>2
  <2>2. \A i \in k + 1..L : pipe[i] \in WireBytes
    BY <1>3, <2>1, ElementOfSeq
  <2> QED
    BY <1>1, <1>2, <1>3, <1>4, <2>1, <2>2, SubSeqProperties
<1>6. ASSUME k <= L
      PROVE  /\ Len(q) = L - k
             /\ \A i \in 1..L - k : k + i \in 1..L /\ q[i] = pipe[k + i]
  <2>1. /\ Len(q) = L - k /\ L - (k + 1) + 1 = L - k
        /\ \A i \in 1..L - k : k + i \in 1..L /\ i + (k + 1) - 1 = k + i
    BY <1>2, <1>5, <1>6
  <2> QED
    BY <2>1, <1>5
<1> QED
  BY <1>1, <1>2, <1>3, <1>4, <1>5, <1>6

(* What is left on the line after a read continues what was read. *)
LEMMA ReceiveKeepsLine ==
  ASSUME LinkInv, NEW n \in 0..left, Receive(n)
  PROVE  LineInv'
<1>1. UNCHANGED <<muxVars, receiver, frame, rxError, peer>> /\ D!Reading /\ left' = left - n
  BY ReceiveTakes
<1>2. PICK m \in Nat : m = left /\ n \in 0..m
  BY ReadingPacket
<1>3. PICK L \in Nat : L = Len(pipe) /\ pipe \in Seq(WireBytes)
  BY LenProperties DEF LinkInv, LineInv
<1>4. PICK q \in Seq(WireBytes) : q = pipe'
  BY ReceiveTakes
<1>5. ASSUME ~rxError, peer = "open" PROVE Connected'
  <2>1. Connected /\ n <= L
    BY <1>3, <1>5, ReceiveTakes DEF LinkInv, LineInv
  <2>2. /\ Len(q) = L - n
        /\ \A i \in 1..L - n : n + i \in 1..L /\ q[i] = pipe[n + i]
    BY <1>3, <1>4, <1>5, ReceiveTakes
  <2>3. /\ link' = link
        /\ \A b : /\ Written(b)' <=> Written(b)
                  /\ Wanted(b) <=> Follows(frame, receiver, m, b)
                  /\ Wanted(b)' <=> Follows(frame, receiver, m - n, b)
    BY <1>1, <1>2 DEF muxVars, Written, Wanted, D!Reading
  <2>4. CASE n = 0
    <3>1. q = pipe
      <4>1. Len(q) = L /\ \A i \in 1..L : q[i] = pipe[i]
        BY <1>2, <1>3, <2>2, <2>4
      <4> QED
        BY <4>1, <1>3, <1>4, SeqEqual
    <3>2. m - n = m
      BY <1>2, <2>4
    <3> QED
      BY <1>4, <2>1, <2>3, <3>1, <3>2 DEF Connected
  <2>5. CASE n > 0
    <3>1. n \in 1..m /\ n \in 1..n /\ (m - n + 1) - 1 = m - n /\ n \in 1..L
      BY <1>2, <2>1, <2>5
    <3>2. pipe[n] = ByteOf(frame, receiver, m - n + 1)
      BY <3>1, <1>1, <1>2, <1>3, <2>1, BytesAhead
    <3>3. \A b : Wanted(b)' <=> After(pipe[n], b)
      BY <1>1, <2>3, <3>1, <3>2, PacketDecoded, ReadingPacket DEF After, ByteOf
    <3>4. ASSUME q # <<>> PROVE After(pipe[n], q[1])
      <4>1. Len(q) # 0
        BY <3>4, <1>4, EmptySeq
      <4>2. 1 \in 1..L - n /\ n \in 1..L - 1
        BY <4>1, <2>1, <2>2, <3>1
      <4> QED
        BY <4>2, <1>3, <2>1, <2>2 DEF Connected
    <3>5. ASSUME NEW i \in 1..Len(q) - 1 PROVE After(q[i], q[i + 1])
      <4>1. /\ i \in 1..L - n /\ i + 1 \in 1..L - n
            /\ n + (i + 1) = (n + i) + 1 /\ n + i \in 1..L - 1
        BY <2>1, <2>2
      <4> QED
        BY <4>1, <1>3, <2>1, <2>2 DEF Connected
    <3>6. ASSUME link = "up", NEW b \in WireBytes, Written(b)
          PROVE  IF q = <<>> THEN After(pipe[n], b) ELSE After(q[Len(q)], b)
      <4>1. pipe # <<>>
        BY <3>1, <1>3
      <4>2. After(pipe[L], b)
        BY <4>1, <3>6, <1>3, <2>1 DEF Connected
      <4>3. CASE q = <<>>
        <5>1. n = L
          BY <4>3, <2>1, <2>2
        <5> QED
          BY <4>2, <4>3, <5>1
      <4>4. CASE q # <<>>
        <5>1. Len(q) # 0
          BY <4>4, <1>4, EmptySeq
        <5>2. L - n \in 1..L - n /\ n + (L - n) = L
          BY <5>1, <2>1, <2>2
        <5> QED
          BY <4>2, <4>4, <5>2, <2>2
      <4> QED
        BY <4>3, <4>4
    <3>7. (pipe # <<>> => Wanted(pipe[1]))'
      BY <1>4, <3>3, <3>4
    <3>8. (\A i \in 1..Len(pipe) - 1 : After(pipe[i], pipe[i + 1]))'
      BY <1>4, <3>5 DEF After
    <3>9. (link = "up" =>
             \A b \in WireBytes :
               Written(b) => IF pipe = <<>> THEN Wanted(b) ELSE After(pipe[Len(pipe)], b))'
      <4>1. \A b : After(q[Len(q)], b)' <=> After(q[Len(q)], b)
        BY DEF After
      <4> QED
        BY <1>4, <2>3, <3>3, <3>6, <4>1
    <3> QED
      BY <3>7, <3>8, <3>9 DEF Connected
  <2> QED
    BY <2>4, <2>5, <1>2
<1> QED
  BY <1>1, <1>4, <1>5 DEF LinkInv, LineInv

-----------------------------------------------------------------------------
(* The invariant of the composition.                                       *)

(* A connection that failed has lost what was under way. *)
LEMMA FailureKeepsLine ==
  ASSUME FailureSeen
  PROVE  LineInv'
BY DEF FailureSeen, D!PeerGoes, LineInv

(* At the start nothing is under way, the muxer begins with a header and   *)
(* the demuxer waits for one.                                              *)
LEMMA LineInit == Init => LineInv
BY DEF Init, M!Init, D!Init, LineInv, Connected, Written, Wanted, D!Reading

(* Every step keeps the bytes under way connected with both ends. *)
LEMMA LineStep ==
  ASSUME LinkInv, [Next]_vars
  PROVE  LineInv'
<1>1. CASE \/ \E p \in M!UserPackets : Post(p)
           \/ MuxerRuns \/ OneSecondPasses \/ SpuriousWake \/ DestroyMuxer \/ ConnectionFails
  BY <1>1, MuxerKeepsLine
<1>2. CASE BeginPacket
  BY <1>2, BeginPacketKeepsLine
<1>3. CASE \E n \in -1..io.left : Send(n)
  BY <1>3, SendKeepsLine
<1>4. CASE \/ SetNonBlocking \/ DemuxerRuns \/ DestroyDemuxer \/ NothingCame
           \/ \E s \in Subs : Subscribe(s) \/ DropSubscription(s)
           \/ PacketReceived \/ SocketClosed
  BY <1>4, DemuxerKeepsLine
<1>5. CASE HeaderReady
  BY <1>5, HeaderKeepsLine
<1>6. CASE \E n \in 0..left : Receive(n)
  BY <1>6, ReceiveKeepsLine
<1>7. CASE FailureSeen
  BY <1>7, FailureKeepsLine
<1>8. CASE Destroyed \/ UNCHANGED vars
  <2>1. UNCHANGED <<muxVars, pipe, receiver, frame, left, rxError, peer>>
    BY <1>8 DEF Destroyed, vars, demVars, lineVars
  <2> QED
    BY <2>1, BesidesRead
<1> QED
  BY <1>1, <1>2, <1>3, <1>4, <1>5, <1>6, <1>7, <1>8 DEF Next, SendLoop, ReceiveLoop

LEMMA LinkInvariant == Spec => []LinkInv
<1>1. Init => LinkInv
  BY HalvesInit, LineInit, HalvesAssumptions, MP!CoreInit, DP!ReceiverInit
  DEF LinkInv
<1>2. LinkInv /\ [Next]_vars => LinkInv'
  <2> SUFFICES ASSUME LinkInv, [Next]_vars PROVE LinkInv'
    OBVIOUS
  <2>1. MP!CoreInv' /\ DP!ReceiverInv'
    BY HalvesStep, HalvesAssumptions, MP!CoreStep, DP!ReceiverStep DEF LinkInv
  <2> QED
    BY <2>1, LineStep DEF LinkInv
<1> QED
  BY <1>1, <1>2, PTL DEF Spec

(* readBytes (PacketDemuxer.cpp:198) gets the bytes that writeBytes put on *)
(* the line for the same field of the same packet, whatever partial writes *)
(* and reads cut them into, up to an error.                                *)
THEOREM FramingCorrect == Spec => []Framing
<1>1. LinkInv => Framing
  <2> SUFFICES ASSUME LinkInv, ~rxError, pipe # <<>>, peer = "open"
               PROVE  LET b == Head(pipe)
                      IN  IF D!Reading /\ left > 0
                            THEN /\ Decoded(b.packet) = frame
                                 /\ b.field = receiver /\ b.rest = left
                            ELSE D!Reading \/ (b.field = "type" /\ b.rest = FieldSize)
    BY DEF Framing
  <2>1. Wanted(pipe[1]) /\ Head(pipe) = pipe[1]
    BY HeaderIsPacket DEF LinkInv, LineInv, Connected
  <2>2. CASE D!Reading /\ left > 0
    <3>1. Follows(frame, receiver, left, pipe[1]) /\ left # 0
      BY <2>1, <2>2, ReadingPacket DEF Wanted
    <3>2. pipe[1] = ByteOf(frame, receiver, left)
      BY <3>1 DEF Follows
    <3> QED
      BY <2>1, <2>2, <3>2, ReadingPacket, PacketDecoded DEF ByteOf
  <2>3. CASE ~(D!Reading /\ left > 0)
    BY <2>1, <2>3 DEF Wanted, HeaderByte
  <2> QED
    BY <2>2, <2>3
<1> QED
  BY <1>1, LinkInvariant, PTL

(* Composed, the two halves behave as each does alone: what is proved of   *)
(* the muxer and of the demuxer holds of the two ends of a connection.     *)
THEOREM HalvesImplemented == Spec => MP!Spec /\ DP!Spec
<1>1. LinkInv /\ [Next]_vars => [MP!Next]_MP!vars /\ [DP!Next]_DP!vars
  BY HalvesStep
<1> QED
  BY <1>1, HalvesInit, LinkInvariant, PTL DEF Spec, MP!Spec, DP!Spec

-----------------------------------------------------------------------------
(* The packets under way.                                                  *)

(* Of a packet's header some byte has been written, or read. *)
Begun(field, n) == field # "type" \/ n # FieldSize

(* Of the packets of type t that have not been handed over: how many the   *)
(* demuxer has begun to read, and how many the muxer to write.             *)
Read(t) == IF Holding /\ Begun(receiver, left) /\ frame.type = t THEN 1 ELSE 0
Sent(t) ==
  Len(flying[t])
    - (IF sender = "write" /\ ~Begun(io.field, io.left) /\ current = t THEN 1 ELSE 0)

(* at counts those packets on from the demuxer to the muxer, by the first  *)
(* bytes of their headers: a byte at i is one of the packet at[i].         *)
Starts(b, t) == IF HeaderByte(b) /\ Decoded(b.packet).type = t THEN 1 ELSE 0
Numbered(t, at) ==
  /\ at[0] = Read(t)
  /\ \A i \in 1..Len(pipe) :
       /\ at[i] = at[i - 1] + Starts(pipe[i], t)
       /\ Decoded(pipe[i].packet).type = t =>
            at[i] \in 1..Len(flying[t]) /\ flying[t][at[i]] = Decoded(pipe[i].packet)
  /\ link = "up" => at[Len(pipe)] = Sent(t)

(* The packet in hand is the oldest of its type, if there is any chance    *)
(* that it will be received whole.                                         *)
Arriving ==
  \/ receiver = "packet"
  \/ D!Reading /\ ~rxError /\ (peer = "open" \/ receiver # "type" \/ left = 0)
FrameIsOldest ==
  Arriving => flying[frame.type] # <<>> /\ flying[frame.type][1] = frame

(* The packet being written is the youngest of its type, while some of its *)
(* bytes are still to be written.                                          *)
BytesToCome ==
  /\ link = "up" /\ sender = "write"
  /\ \/ io.left > 0 \/ io.field = "type"
     \/ io.field = "size" /\ D!DataSizeOf(Head(txQueues[current])) > 0
CurrentIsYoungest ==
  BytesToCome =>
    /\ flying[current] # <<>>
    /\ flying[current][Len(flying[current])] = Head(txQueues[current])

FlyingInv ==
  /\ flying \in [M!Types -> Seq(M!Packets)]
  /\ FrameIsOldest
  /\ ~rxError /\ peer = "open" =>
       /\ CurrentIsYoungest
       /\ \A t \in M!Types : \E at \in [0..Len(pipe) -> Nat] : Numbered(t, at)

(* What is known without looking at the packets under way. *)
BaseInv ==
  /\ LinkInv
  /\ MP!QueuesByType /\ MP!HeaderLeft
  /\ DP!RegistryInv /\ DP!HeaderLeft

LEMMA BaseInvariant == Spec => []BaseInv
<1>1. MP!Spec => [](MP!QueuesByType /\ MP!HeaderLeft)
  BY HalvesAssumptions, MP!ByTypeInvariant
<1>2. DP!Spec => []DP!RegistryInv
  BY HalvesAssumptions, DP!RegistryInvariant
<1>3. DP!Spec => []DP!HeaderLeft
  BY HalvesAssumptions, DP!HeaderLeftInvariant
<1> QED
  BY <1>1, <1>2, <1>3, LinkInvariant, HalvesImplemented, PTL DEF BaseInv

(* Types of packets. *)
LEMMA TypesKnown ==
  /\ M!Types = UserTypes \cup {ControlType} /\ MP!Types = M!Types
  /\ \A p \in M!Packets : p.type \in M!Types
BY PacketFields DEF M!Types, MP!Types

(* A number that no step changes is the same in the end. *)
LEMMA ConstantRun ==
  ASSUME NEW at, NEW a \in Nat, NEW b \in Nat, a <= b,
         \A i \in a..b : i # a => at[i] = at[i - 1]
  PROVE  at[b] = at[a]
<1> DEFINE T == {i \in a..b : at[i] # at[a]}
<1> SUFFICES ASSUME T # {} PROVE FALSE
  OBVIOUS
<1>1. PICK i \in T : \A j \in T : ~(<<j, i>> \in OpToRel(<, Nat))
  <2>1. T \subseteq Nat
    OBVIOUS
  <2> HIDE DEF T
  <2> QED
    BY <2>1, NatLessThanWellFounded, WFMin
<1>2. i \in a + 1..b /\ i - 1 \in a..b /\ i - 1 < i /\ i \in Nat /\ i - 1 \in Nat
  OBVIOUS
<1>3. <<i - 1, i>> \in OpToRel(<, Nat)
  BY <1>2 DEF OpToRel
<1>4. at[i - 1] = at[a]
  BY <1>1, <1>2, <1>3
<1> QED
  BY <1>2, <1>4

(* Numbers that no step lowers are at least the first one. *)
LEMMA RisingRun ==
  ASSUME NEW b \in Nat, NEW at \in [0..b -> Nat],
         \A i \in 1..b : at[i] >= at[i - 1]
  PROVE  \A i \in 0..b : at[i] >= at[0]
<1> DEFINE T == {i \in 0..b : ~(at[i] >= at[0])}
<1> SUFFICES ASSUME T # {} PROVE FALSE
  OBVIOUS
<1>1. PICK i \in T : \A j \in T : ~(<<j, i>> \in OpToRel(<, Nat))
  <2>1. T \subseteq Nat
    OBVIOUS
  <2> HIDE DEF T
  <2> QED
    BY <2>1, NatLessThanWellFounded, WFMin
<1>2. i \in 1..b /\ i - 1 \in 0..b /\ i - 1 < i /\ i \in Nat /\ i - 1 \in Nat
  OBVIOUS
<1>3. <<i - 1, i>> \in OpToRel(<, Nat)
  BY <1>2 DEF OpToRel
<1>4. at[i - 1] >= at[0] /\ at[i] >= at[i - 1]
  BY <1>1, <1>2, <1>3
<1>5. at[i] \in Nat /\ at[i - 1] \in Nat /\ at[0] \in Nat
  BY <1>2
<1> QED
  BY <1>4, <1>5

(* A step that moves no packet and no byte. *)
LEMMA SameFlying ==
  ASSUME FlyingInv, UNCHANGED <<flying, pipe>>, link' = "up" => link = "up",
         FrameIsOldest',
         ~rxError' /\ peer' = "open" =>
           /\ ~rxError /\ peer = "open"
           /\ \A t \in M!Types : Read(t)' = Read(t) /\ (link' = "up" => Sent(t)' = Sent(t))
           /\ CurrentIsYoungest => CurrentIsYoungest'
  PROVE  FlyingInv'
<1>1. ASSUME ~rxError', peer' = "open",
             NEW t \in M!Types, NEW at \in [0..Len(pipe) -> Nat], Numbered(t, at)
      PROVE  at \in [0..Len(pipe') -> Nat] /\ Numbered(t, at)'
  BY <1>1 DEF Numbered, Starts, HeaderByte
<1> QED
  BY <1>1 DEF FlyingInv

(* The header is not empty, and a field that has been read or written whole *)
(* is begun.                                                               *)
LEMMA BegunFields ==
  /\ FieldSize \in Nat /\ FieldSize > 0
  /\ \A field : Begun(field, 0)
  /\ \A n : Begun("size", n) /\ Begun("data", n)
BY LinkAssumption DEF M!MuxerAssumption, Begun

(* Beside BeginPacket and Send, the muxer's side moves no packet. *)
LEMMA MuxerKeepsFlying ==
  ASSUME BaseInv, FlyingInv,
         \/ \E p \in M!UserPackets : Post(p)
         \/ MuxerRuns \/ OneSecondPasses \/ SpuriousWake \/ DestroyMuxer \/ ConnectionFails
  PROVE  FlyingInv'
<1>1. LinkInv
  BY DEF BaseInv
<1>2. UNCHANGED <<demVars, pipe, flying>> /\ (link' = "up" => link = "up")
  BY <1>1, MuxerCases
<1>3. UNCHANGED <<receiver, left, frame, rxError, peer>>
  BY <1>2 DEF demVars
<1>4. FrameIsOldest'
  BY <1>2, <1>3 DEF FlyingInv, FrameIsOldest, Arriving, D!Reading
<1>5. \A t : Read(t)' = Read(t)
  BY <1>3 DEF Read, Holding, Begun, D!Reading
<1>6. /\ \A t : Sent(t)' = Sent(t)
      /\ CurrentIsYoungest => CurrentIsYoungest'
  <2>1. CASE sender # "write" /\ sender' # "write"
    BY <1>2, <2>1 DEF Sent, CurrentIsYoungest, BytesToCome
  <2>2. CASE UNCHANGED <<sender, io, current, txQueues>>
    BY <1>2, <2>2 DEF Sent, CurrentIsYoungest, BytesToCome, Begun
  <2>3. CASE M!NextField
    <3>1. /\ sender = "write" /\ sender' = "write" /\ io.left = 0
          /\ UNCHANGED <<current, txQueues, link>>
          /\ \/ io.field = "type" /\ io'.field = "size" /\ io'.left = FieldSize
             \/ /\ io.field = "size" /\ io'.field = "data"
                /\ io'.left = D!DataSizeOf(Head(txQueues[current]))
      BY <1>1, <2>3, NextFieldIs
    <3>2. Begun(io.field, io.left) /\ Begun(io.field, io.left)'
      BY <3>1, BegunFields DEF Begun
    <3>3. \A t : Sent(t)' = Sent(t)
      BY <1>2, <3>1, <3>2 DEF Sent
    <3>4. BytesToCome' => BytesToCome
      BY <3>1 DEF BytesToCome
    <3> QED
      BY <1>2, <3>1, <3>3, <3>4 DEF CurrentIsYoungest
  <2>4. CASE M!EndPacket
    <3>1. sender = "write" /\ sender' # "write" /\ io.left = 0
      BY <2>4 DEF M!EndPacket
    <3>2. Begun(io.field, io.left)
      BY <3>1, BegunFields
    <3> QED
      BY <1>2, <3>1, <3>2 DEF Sent, CurrentIsYoungest, BytesToCome
  <2> QED
    BY <1>1, <2>1, <2>2, <2>3, <2>4, MuxerCases
<1> QED
  BY <1>2, <1>3, <1>4, <1>5, <1>6, SameFlying

(* The packet at the head of the queue joins those under way. *)
LEMMA BeginPacketKeepsFlying ==
  ASSUME BaseInv, FlyingInv, BeginPacket
  PROVE  FlyingInv'
<1>1. /\ UNCHANGED <<demVars, pipe, link, current, txQueues>>
      /\ sender = "sendAll" /\ sender' = "write"
      /\ io' = [field |-> "type", left |-> FieldSize, ok |-> TRUE]
      /\ txQueues[current] # <<>>
      /\ flying' = [flying EXCEPT ![current] = Append(@, Head(txQueues[current]))]
  BY DEF BeginPacket, M!BeginPacket, M!KeepSending, M!queueVars, M!linkVars
<1>2. PICK c \in M!Types, p \in M!Packets : c = current /\ p = Head(txQueues[current])
  <2>1. current \in M!Types /\ txQueues[current] \in Seq(M!Packets)
    BY SamePackets, TypesKnown DEF BaseInv, LinkInv, MP!CoreInv, MP!TypeOK
  <2> QED
    BY <1>1, <2>1, HeadTailProperties
<1>3. PICK s \in Seq(M!Packets), n \in Nat : s = flying[c] /\ n = Len(s)
  BY LenProperties DEF FlyingInv
<1>4. PICK new : new = Append(s, p)
  OBVIOUS
<1>5. /\ new \in Seq(M!Packets) /\ Len(new) = n + 1 /\ new # <<>>
      /\ \A i \in 1..n : new[i] = s[i]
      /\ new[n + 1] = p
  BY <1>3, <1>4, AppendProperties
<1>6. /\ flying'[c] = new /\ \A t \in M!Types \ {c} : flying'[t] = flying[t]
      /\ flying' \in [M!Types -> Seq(M!Packets)]
  BY <1>1, <1>2, <1>3, <1>4, <1>5 DEF FlyingInv
<1>7. UNCHANGED <<receiver, left, frame, rxError, peer>>
  BY <1>1 DEF demVars
<1>8. FrameIsOldest'
  <2> SUFFICES ASSUME Arriving PROVE flying'[frame.type] # <<>> /\ flying'[frame.type][1] = frame
    BY <1>7 DEF FrameIsOldest, Arriving, D!Reading
  <2>1. flying[frame.type] # <<>> /\ flying[frame.type][1] = frame
    BY DEF FlyingInv, FrameIsOldest
  <2>2. frame.type \in M!Types
    BY TypesKnown, ReadingPacket DEF BaseInv, Arriving
  <2>3. CASE frame.type = c
    <3>1. n # 0
      BY <2>1, <2>3, <1>3, EmptySeq
    <3>2. 1 \in 1..n
      BY <3>1
    <3> QED
      BY <2>1, <2>3, <3>2, <1>3, <1>5, <1>6
  <2> QED
    BY <2>1, <2>2, <2>3, <1>6
<1>9. CurrentIsYoungest'
  BY <1>1, <1>2, <1>5, <1>6 DEF CurrentIsYoungest
<1>10. ASSUME NEW t \in M!Types, NEW at \in [0..Len(pipe) -> Nat], Numbered(t, at)
       PROVE  Numbered(t, at)'
  <2>1. Read(t)' = Read(t)
    BY <1>7 DEF Read, Holding, Begun, D!Reading
  <2>2. Sent(t)' = Sent(t)
    <3>1. ~Begun(io.field, io.left)'
      BY <1>1 DEF Begun
    <3>2. CASE t = c
      <4>1. Len(flying[t]) = n /\ Len(flying'[t]) = n + 1 /\ (n + 1) - 1 = n - 0
        BY <3>2, <1>3, <1>5, <1>6
      <4> QED
        BY <3>1, <3>2, <4>1, <1>1, <1>2 DEF Sent
    <3>3. CASE t # c
      BY <3>3, <1>1, <1>2, <1>6 DEF Sent
    <3> QED
      BY <3>2, <3>3
  <2>3. \A i \in 1..Len(flying[t]) : i \in 1..Len(flying'[t]) /\ flying'[t][i] = flying[t][i]
    <3>1. \A i \in 1..n : i \in 1..n + 1
      OBVIOUS
    <3> QED
      BY <3>1, <1>3, <1>5, <1>6
  <2>4. \A i \in 1..Len(pipe) : Starts(pipe[i], t)' = Starts(pipe[i], t)
    BY <1>1 DEF Starts, HeaderByte
  <2> QED
    BY <1>1, <1>10, <2>1, <2>2, <2>3, <2>4 DEF Numbered
<1> QED
  BY <1>1, <1>6, <1>7, <1>8, <1>9, <1>10 DEF FlyingInv

(* The demuxer's side moves no packet where it takes no byte and hands     *)
(* none over.                                                              *)
LEMMA DemuxerKeepsFlying ==
  ASSUME BaseInv, FlyingInv,
         \/ SetNonBlocking \/ DemuxerRuns \/ DestroyDemuxer \/ NothingCame
         \/ (\E s \in Subs : Subscribe(s) \/ DropSubscription(s)) \/ SocketClosed
  PROVE  FlyingInv'
<1>1. LinkInv
  BY DEF BaseInv
<1>2. /\ UNCHANGED <<muxVars, pipe, flying>>
      /\ (rxError => rxError') /\ (peer' = "open" => peer = "open")
  BY <1>1, DemuxerCases
<1>3. /\ UNCHANGED link /\ \A t : Sent(t)' = Sent(t)
      /\ CurrentIsYoungest => CurrentIsYoungest'
  BY <1>2 DEF muxVars, Sent, Begun, CurrentIsYoungest, BytesToCome
<1>4. /\ FrameIsOldest => FrameIsOldest'
      /\ rxError' = TRUE \/ \A t : Read(t)' = Read(t)
  <2>1. CASE receiver' = "loop" /\ rxError' = TRUE
    BY <2>1 DEF FrameIsOldest, Arriving, D!Reading
  <2>2. CASE UNCHANGED <<receiver, frame, left>>
    <3>1. Arriving' => Arriving
      BY <1>2, <2>2 DEF Arriving, D!Reading
    <3> QED
      BY <1>2, <2>2, <3>1 DEF FrameIsOldest, Read, Holding, Begun, D!Reading
  <2>3. CASE ~Holding /\ ~Holding'
    BY <2>3 DEF FrameIsOldest, Arriving, Read, Holding
  <2>4. CASE D!FieldRead
    <3>1. /\ D!Reading /\ left = 0 /\ ~rxError /\ UNCHANGED <<frame, rxError, peer>>
          /\ receiver' \in {"size", "data", "packet"}
      BY <2>4 DEF D!FieldRead, D!Reading, D!Interrupted, D!transportVars
    <3>2. Arriving
      BY <3>1 DEF Arriving
    <3>3. Holding /\ Holding'
      BY <3>1 DEF Holding, D!Reading
    <3>4. Begun(receiver, left) /\ Begun(receiver, left)'
      BY <3>1, BegunFields DEF Begun
    <3> QED
      BY <1>2, <3>1, <3>2, <3>3, <3>4 DEF FrameIsOldest, Read
  <2> QED
    BY <1>1, <2>1, <2>2, <2>3, <2>4, DemuxerCases
<1>5. FrameIsOldest'
  BY <1>4 DEF FlyingInv
<1> QED
  BY <1>2, <1>3, <1>4, <1>5, SameFlying

(* A connection that failed has lost what was under way. *)
LEMMA FailureKeepsFlying ==
  ASSUME FlyingInv, FailureSeen
  PROVE  FlyingInv'
<1>1. /\ peer = "open" /\ peer' # "open"
      /\ UNCHANGED <<flying, receiver, frame, left, rxError>>
  BY DEF FailureSeen, D!PeerGoes, D!readVars
<1>2. Arriving' => Arriving
  BY <1>1 DEF Arriving, D!Reading
<1> QED
  BY <1>1, <1>2 DEF FlyingInv, FrameIsOldest

(* The header that begins is that of the oldest packet of its type. *)
LEMMA HeaderKeepsFlying ==
  ASSUME BaseInv, FlyingInv, HeaderReady
  PROVE  FlyingInv'
<1>1. /\ UNCHANGED <<muxVars, pipe, flying, rxError, peer>> /\ receiver = "poll"
      /\ receiver' = "type" /\ left' = FieldSize
      /\ peer = "open" => pipe # <<>> /\ frame' = Decoded(Head(pipe).packet)
  BY DEF HeaderReady, D!PollReady, D!transportVars, lineVars
<1>2. \A t : Read(t) = 0 /\ Read(t)' = 0
  BY <1>1 DEF Read, Holding, Begun, D!Reading
<1>3. FrameIsOldest'
  <2> SUFFICES ASSUME Arriving' PROVE flying[frame'.type] # <<>> /\ flying[frame'.type][1] = frame'
    BY <1>1 DEF FrameIsOldest
  <2>1. ~rxError /\ peer = "open"
    BY <1>1, BegunFields DEF Arriving
  <2>2. pipe # <<>> /\ Connected
    BY <1>1, <2>1 DEF BaseInv, LinkInv, LineInv
  <2>3. /\ pipe[1] \in WireBytes /\ Head(pipe) = pipe[1] /\ Len(pipe) \in Nat
    BY <2>2, HeaderIsPacket, LenProperties DEF BaseInv, LinkInv, LineInv
  <2>4. HeaderByte(pipe[1])
    BY <1>1, <2>2 DEF Connected, Wanted, D!Reading
  <2>5. PICK p \in M!Packets : p = frame' /\ p = Decoded(pipe[1].packet) /\ p.type \in M!Types
    BY <1>1, <2>1, <2>3, ByteDecoded, TypesKnown
  <2>6. PICK at \in [0..Len(pipe) -> Nat] : Numbered(p.type, at)
    BY <2>1, <2>5 DEF FlyingInv
  <2>7. 1 \in 1..Len(pipe) /\ 1 - 1 = 0
    BY <2>2, <2>3, EmptySeq DEF BaseInv, LinkInv, LineInv
  <2>8. at[1] = 0 + 1
    BY <1>2, <2>4, <2>5, <2>6, <2>7 DEF Numbered, Starts
  <2>9. 1 \in 1..Len(flying[p.type]) /\ flying[p.type][1] = p
    BY <2>5, <2>6, <2>7, <2>8 DEF Numbered
  <2> QED
    BY <2>5, <2>9, EmptySeq
<1>4. /\ UNCHANGED link /\ \A t : Sent(t)' = Sent(t)
      /\ CurrentIsYoungest => CurrentIsYoungest'
  BY <1>1 DEF muxVars, Sent, Begun, CurrentIsYoungest, BytesToCome
<1> QED
  BY <1>1, <1>2, <1>3, <1>4, SameFlying

(* Between two headers the bytes are of one packet. *)
LEMMA SamePacket ==
  ASSUME NEW a \in WireBytes, NEW b, After(a, b), ~HeaderByte(b)
  PROVE  Decoded(b.packet) = Decoded(a.packet)
<1>1. PICK p \in M!Packets : p = Decoded(a.packet)
  BY ByteDecoded
<1>2. \E f \in Fields, n \in Int : b = ByteOf(p, f, n)
  BY <1>1, ByteDecoded, PacketFields, BegunFields DEF After, Follows, Fields
<1> QED
  BY <1>1, <1>2, PacketDecoded DEF ByteOf

(* The numbers rise. *)
LEMMA NumbersRise ==
  ASSUME NEW t, NEW L \in Nat, L = Len(pipe), NEW at \in [0..L -> Nat], Numbered(t, at)
  PROVE  \A i \in 0..L : at[i] >= at[0]
<1>1. \A i \in 1..L : at[i] >= at[i - 1]
  <2> SUFFICES ASSUME NEW i \in 1..L PROVE at[i] >= at[i - 1]
    OBVIOUS
  <2>1. at[i] = at[i - 1] + Starts(pipe[i], t) /\ i - 1 \in 0..L
    BY DEF Numbered
  <2>2. at[i - 1] \in Nat /\ Starts(pipe[i], t) \in {0, 1}
    BY <2>1 DEF Starts
  <2> QED
    BY <2>1, <2>2
<1> QED
  BY <1>1, RisingRun

(* While the demuxer has a whole packet in hand, the bytes of that type on *)
(* the line are those of later packets.                                    *)
LEMMA LaterPackets ==
  ASSUME LinkInv, Connected, receiver = "packet",
         NEW L \in Nat, L = Len(pipe), NEW at \in [0..L -> Nat], Numbered(frame.type, at)
  PROVE  /\ at[0] = 1
         /\ \A i \in 1..L : Decoded(pipe[i].packet).type = frame.type => at[i] >= 2
<1>1. at[0] = 1 /\ \A i \in 0..L : at[i] \in Nat /\ at[i] >= 1
  <2>1. at[0] = 1
    BY DEF Numbered, Read, Holding, Begun
  <2>2. \A i \in 0..L : at[i] >= at[0]
    BY NumbersRise
  <2> QED
    BY <2>1, <2>2
<1> DEFINE T == {i \in 1..L : Decoded(pipe[i].packet).type = frame.type /\ ~(at[i] >= 2)}
<1> SUFFICES ASSUME T # {} PROVE FALSE
  BY <1>1
<1>2. PICK i \in T : \A j \in T : ~(<<j, i>> \in OpToRel(<, Nat))
  <2>1. T \subseteq Nat
    OBVIOUS
  <2> HIDE DEF T
  <2> QED
    BY <2>1, NatLessThanWellFounded, WFMin
<1>3. /\ i \in 1..L /\ i - 1 \in 0..L /\ i - 1 < i
      /\ Decoded(pipe[i].packet).type = frame.type /\ ~(at[i] >= 2)
  OBVIOUS
<1>4. at[i] = at[i - 1] + Starts(pipe[i], frame.type)
  BY <1>3 DEF Numbered
<1>5. ~HeaderByte(pipe[i])
  BY <1>1, <1>3, <1>4 DEF Starts
<1>6. i # 1
  <2>1. i = 1 => pipe # <<>>
    BY <1>3
  <2> QED
    BY <2>1, <1>5 DEF Connected, Wanted, D!Reading
<1>7. PICK j \in 1..L - 1 : i = j + 1 /\ j = i - 1 /\ j \in 1..L
  <2>1. i - 1 \in 1..L - 1 /\ i - 1 \in 1..L /\ (i - 1) + 1 = i
    BY <1>3, <1>6
  <2> QED
    BY <2>1
<1>8. pipe[j] \in WireBytes /\ After(pipe[j], pipe[i])
  <2>1. pipe[j] \in WireBytes
    BY <1>7, ElementOfSeq DEF LinkInv, LineInv
  <2> QED
    BY <2>1, <1>7 DEF Connected
<1>9. Decoded(pipe[j].packet).type = frame.type
  BY <1>3, <1>5, <1>8, SamePacket
<1>10. <<j, i>> \in OpToRel(<, Nat)
  BY <1>3, <1>7 DEF OpToRel
<1>11. at[j] >= 2
  BY <1>2, <1>7, <1>9, <1>10
<1>12. at[i] >= at[j]
  BY <1>1, <1>3, <1>4, <1>7 DEF Starts
<1>13. at[i] \in Nat /\ at[j] \in Nat
  BY <1>3, <1>7
<1> QED
  BY <1>3, <1>11, <1>12, <1>13

(* A byte that the muxer will write, and not of a header not begun. *)
LEMMA ByteToCome ==
  ASSUME BaseInv, BytesToCome, Begun(io.field, io.left)
  PROVE  /\ \E b \in WireBytes :
              /\ Written(b) /\ ~HeaderByte(b)
              /\ Decoded(b.packet) = Head(txQueues[current])
         /\ Head(txQueues[current]).type = current
<1>1. PICK p \in M!Packets, f \in Fields, m \in Nat :
        p = Head(txQueues[current]) /\ f = io.field /\ m = io.left
  BY Writing DEF BaseInv, BytesToCome
<1>2. \A b : Written(b) <=> Follows(p, f, m, b)
  BY <1>1 DEF BytesToCome, Written
<1>3. ASSUME NEW g \in Fields, NEW n \in Nat, n > 0, Follows(p, f, m, ByteOf(p, g, n)),
             Begun(g, n)
      PROVE  \E b \in WireBytes : Written(b) /\ ~HeaderByte(b) /\ Decoded(b.packet) = p
  <2>1. ByteOf(p, g, n) \in WireBytes
    BY <1>3 DEF ByteOf, WireBytes
  <2>2. ~HeaderByte(ByteOf(p, g, n)) /\ Decoded(ByteOf(p, g, n).packet) = p
    BY <1>3, PacketDecoded DEF ByteOf, HeaderByte, Begun
  <2> QED
    BY <1>2, <1>3, <2>1, <2>2
<1>4. \E b \in WireBytes : Written(b) /\ ~HeaderByte(b) /\ Decoded(b.packet) = p
  <2>1. CASE m > 0
    <3>1. Follows(p, f, m, ByteOf(p, f, m)) /\ Begun(f, m)
      BY <1>1, <2>1 DEF Follows
    <3> QED
      BY <2>1, <3>1, <1>3
  <2>2. CASE m = 0 /\ f = "type"
    <3>1. Follows(p, f, m, ByteOf(p, "size", FieldSize))
      BY <2>2 DEF Follows
    <3> QED
      BY <3>1, <1>3, BegunFields DEF Fields
  <2>3. CASE m = 0 /\ f = "size" /\ D!DataSizeOf(p) > 0
    <3>1. Follows(p, f, m, ByteOf(p, "data", D!DataSizeOf(p)))
      BY <2>3 DEF Follows
    <3> QED
      BY <2>3, <3>1, <1>3, BegunFields, PacketFields DEF Fields
  <2> QED
    BY <1>1, <2>1, <2>2, <2>3 DEF BytesToCome
<1>5. Head(txQueues[current]).type = current
  <2>1. /\ txQueues[current] # <<>> /\ current \in MP!Types
        /\ txQueues[current] \in Seq(MP!Packets)
    BY DEF BytesToCome, BaseInv, LinkInv, MP!CoreInv, MP!WriteHasPacket, MP!TypeOK
  <2>2. 1 \in 1..Len(txQueues[current]) /\ Head(txQueues[current]) = txQueues[current][1]
    BY <2>1, EmptySeq, LenProperties
  <2> QED
    BY <2>1, <2>2 DEF BaseInv, MP!QueuesByType
<1> QED
  BY <1>1, <1>4, <1>5

(* Of the packet that the muxer is still writing the demuxer has no whole  *)
(* copy: it is not the one in hand.                                        *)
LEMMA CurrentNotReceived ==
  ASSUME BaseInv, FlyingInv, ~rxError, peer = "open",
         receiver = "packet", BytesToCome, current = frame.type
  PROVE  Len(flying[current]) >= 2
<1>1. LinkInv /\ Connected /\ link = "up" /\ current \in M!Types
  BY TypesKnown, ReadingPacket DEF BaseInv, LinkInv, LineInv, BytesToCome
<1>2. PICK L \in Nat : L = Len(pipe) /\ pipe \in Seq(WireBytes)
  BY <1>1, LenProperties DEF LinkInv, LineInv
<1>3. PICK at \in [0..L -> Nat] : Numbered(frame.type, at)
  BY <1>1, <1>2 DEF FlyingInv
<1>4. at[0] = 1 /\ \A i \in 1..L : Decoded(pipe[i].packet).type = frame.type => at[i] >= 2
  BY <1>1, <1>2, <1>3, LaterPackets
<1>5. at[L] >= 1 /\ at[L] = Sent(current) /\ Len(flying[current]) \in Nat
  <2>1. \A i \in 0..L : at[i] >= at[0]
    BY <1>2, <1>3, NumbersRise
  <2>2. flying[current] \in Seq(M!Packets)
    BY <1>1 DEF FlyingInv
  <2> QED
    BY <1>1, <1>2, <1>3, <1>4, <2>1, <2>2, LenProperties DEF Numbered
<1>6. CASE ~Begun(io.field, io.left)
  BY <1>5, <1>6 DEF Sent, BytesToCome
<1>7. CASE Begun(io.field, io.left)
  <2>1. PICK b \in WireBytes : /\ Written(b) /\ ~HeaderByte(b)
                               /\ Decoded(b.packet).type = current
    BY <1>7, ByteToCome
  <2>2. pipe # <<>> /\ After(pipe[L], b)
    BY <1>1, <1>2, <2>1 DEF Connected, Wanted, D!Reading
  <2>3. L \in 1..L
    BY <1>2, <2>2, EmptySeq
  <2>4. pipe[L] \in WireBytes
    BY <1>2, <2>3, ElementOfSeq
  <2>5. Decoded(pipe[L].packet).type = current
    BY <2>1, <2>2, <2>4, SamePacket
  <2>6. at[L] >= 2
    BY <1>4, <2>3, <2>5
  <2> QED
    BY <1>5, <1>7, <2>6 DEF Sent
<1> QED
  BY <1>6, <1>7

(* The oldest packet of its type is handed over. *)
LEMMA PacketReceivedKeepsFlying ==
  ASSUME BaseInv, FlyingInv, PacketReceived
  PROVE  FlyingInv'
<1>1. /\ UNCHANGED <<muxVars, pipe, peer>> /\ (rxError => rxError')
      /\ receiver = "packet" /\ ~Holding'
  BY PacketReceivedIs
<1>2. FrameIsOldest' /\ \A t : Read(t)' = 0
  BY <1>1 DEF FrameIsOldest, Arriving, Holding, Read
<1>3. CASE greeting /\ frame # M!Hello
  <2>1. flying' = flying /\ rxError' = TRUE
    BY <1>3 DEF PacketReceived, D!HelloRead, D!ControlRead, D!DispatchBegins, D!Hello, M!Hello
  <2> QED
    BY <1>2, <2>1 DEF FlyingInv
<1>4. CASE ~(greeting /\ frame # M!Hello)
  <2>1. flying' = [flying EXCEPT ![frame.type] = Tail(@)]
    BY <1>4 DEF PacketReceived
  <2>2. PICK c \in M!Types : c = frame.type
    BY <1>1, TypesKnown, ReadingPacket DEF BaseInv
  <2>3. PICK s \in Seq(M!Packets), n \in Nat : s = flying[c] /\ n = Len(s) /\ n > 0
    <3>1. flying[c] \in Seq(M!Packets) /\ flying[c] # <<>>
      BY <1>1, <2>2 DEF FlyingInv, FrameIsOldest, Arriving
    <3>2. Len(flying[c]) \in Nat /\ Len(flying[c]) # 0
      BY <3>1, LenProperties, EmptySeq
    <3>3. Len(flying[c]) > 0
      BY <3>2
    <3> QED
      BY <3>1, <3>2, <3>3
  <2>4. PICK new : new = Tail(s)
    OBVIOUS
  <2>5. /\ new \in Seq(M!Packets) /\ Len(new) = n - 1
        /\ \A i \in 1..n - 1 : new[i] = s[i + 1]
    BY <2>3, <2>4, HeadTailProperties
  <2>6. /\ flying'[c] = new /\ \A t \in M!Types \ {c} : flying'[t] = flying[t]
        /\ flying' \in [M!Types -> Seq(M!Packets)]
    BY <2>1, <2>2, <2>3, <2>4, <2>5 DEF FlyingInv
  <2>7. ASSUME ~rxError', peer' = "open"
        PROVE  /\ CurrentIsYoungest'
               /\ \A t \in M!Types : \E at \in [0..Len(pipe) -> Nat] : Numbered(t, at)'
    <3>1. ~rxError /\ peer = "open" /\ CurrentIsYoungest
      BY <1>1, <2>7 DEF FlyingInv
    <3>2. UNCHANGED <<sender, io, current, txQueues, link>>
      BY <1>1 DEF muxVars
    <3>3. LinkInv /\ Connected
      BY <3>1 DEF BaseInv, LinkInv, LineInv
    <3>4. PICK L \in Nat : L = Len(pipe)
      BY <3>3, LenProperties DEF LinkInv, LineInv
    <3>5. CurrentIsYoungest'
      <4> SUFFICES ASSUME BytesToCome
                   PROVE  /\ flying'[current] # <<>>
                          /\ flying'[current][Len(flying'[current])] = Head(txQueues[current])
        BY <3>2 DEF CurrentIsYoungest, BytesToCome
      <4>1. flying[current] # <<>> /\ flying[current][Len(flying[current])] = Head(txQueues[current])
        BY <3>1 DEF CurrentIsYoungest
      <4>2. current \in M!Types
        BY <3>3, TypesKnown DEF LinkInv, MP!CoreInv, MP!TypeOK
      <4>3. CASE current = c
        <5>1. n >= 2
          BY <1>1, <2>2, <2>3, <3>1, <4>3, CurrentNotReceived
        <5>2. n - 1 \in 1..n - 1 /\ (n - 1) + 1 = n /\ n - 1 # 0
          BY <5>1
        <5>3. new # <<>> /\ new[n - 1] = s[n]
          BY <5>2, <2>5, EmptySeq
        <5> QED
          BY <5>3, <4>1, <4>3, <2>3, <2>5, <2>6
      <4>4. CASE current # c
        BY <4>1, <4>2, <4>4, <2>6
      <4> QED
        BY <4>3, <4>4
    <3>6. ASSUME NEW t \in M!Types
          PROVE  \E at \in [0..L -> Nat] : Numbered(t, at)'
      <4>1. PICK at \in [0..L -> Nat] : Numbered(t, at)
        BY <3>1, <3>4 DEF FlyingInv
      <4>2. \A i \in 1..L : Starts(pipe[i], t)' = Starts(pipe[i], t)
        BY <1>1 DEF Starts, HeaderByte
      <4>3. CASE t # c
        <5>1. Read(t) = 0 /\ flying'[t] = flying[t] /\ Sent(t)' = Sent(t)
          BY <4>3, <2>2, <2>6, <3>2 DEF Read, Sent
        <5>2. Numbered(t, at)'
          BY <1>1, <1>2, <3>2, <3>4, <4>1, <4>2, <5>1 DEF Numbered
        <5> QED
          BY <5>2
      <4>4. CASE t = c
        <5>1. /\ at[0] = 1
              /\ \A i \in 1..L : Decoded(pipe[i].packet).type = t => at[i] >= 2
          BY <1>1, <2>2, <3>3, <3>4, <4>1, <4>4, LaterPackets
        <5>2. \A i \in 0..L : at[i] \in Nat /\ at[i] >= 1
          BY <3>4, <4>1, <5>1, NumbersRise
        <5> DEFINE less == [i \in 0..L |-> at[i] - 1]
        <5>3. less \in [0..L -> Nat] /\ less[0] = 0
          BY <5>1, <5>2
        <5>4. \A i \in 0..L : less[i] = at[i] - 1
          OBVIOUS
        <5> HIDE DEF less
        <5>5. ASSUME NEW i \in 1..L
              PROVE  /\ less[i] = less[i - 1] + Starts(pipe[i], t)
                     /\ Decoded(pipe[i].packet).type = t =>
                          /\ less[i] \in 1..Len(flying'[t])
                          /\ flying'[t][less[i]] = Decoded(pipe[i].packet)
          <6>1. /\ i \in 0..L /\ i - 1 \in 0..L
                /\ at[i] = at[i - 1] + Starts(pipe[i], t)
                /\ Decoded(pipe[i].packet).type = t =>
                     at[i] \in 1..n /\ s[at[i]] = Decoded(pipe[i].packet)
            BY <2>3, <3>4, <4>1, <4>4 DEF Numbered
          <6>2. at[i] \in Nat /\ at[i - 1] \in Nat /\ Starts(pipe[i], t) \in Nat
            BY <5>2, <6>1 DEF Starts
          <6>3. less[i] = less[i - 1] + Starts(pipe[i], t)
            BY <5>4, <6>1, <6>2
          <6>4. ASSUME Decoded(pipe[i].packet).type = t
                PROVE  /\ less[i] \in 1..Len(flying'[t])
                       /\ flying'[t][less[i]] = Decoded(pipe[i].packet)
            <7>1. at[i] >= 2 /\ at[i] \in 1..n
              BY <5>1, <6>1, <6>4
            <7>2. PICK x \in Nat : x = at[i] /\ x >= 2 /\ x <= n
              BY <6>2, <7>1
            <7>3. less[i] = x - 1
              BY <5>4, <6>1, <7>2
            <7>4. x - 1 \in 1..n - 1 /\ (x - 1) + 1 = x
              BY <7>2
            <7>5. less[i] \in 1..n - 1 /\ less[i] + 1 = at[i]
              BY <7>2, <7>3, <7>4
            <7> QED
              BY <7>5, <2>5, <2>6, <4>4, <6>1, <6>4
          <6> QED
            BY <6>3, <6>4
        <5>6. link' = "up" => less[L] = Sent(t)'
          <6> SUFFICES ASSUME link = "up" PROVE less[L] = Sent(t)'
            BY <3>2
          <6>1. at[L] = Sent(t) /\ less[L] = at[L] - 1
            BY <3>4, <4>1, <5>4 DEF Numbered
          <6>2. PICK b \in {0, 1} :
                  b = IF sender = "write" /\ ~Begun(io.field, io.left) /\ current = t THEN 1 ELSE 0
            OBVIOUS
          <6>3. Sent(t) = n - b /\ Sent(t)' = (n - 1) - b
            BY <2>3, <2>5, <2>6, <3>2, <4>4, <6>2 DEF Sent, Begun
          <6> QED
            BY <6>1, <6>3
        <5>7. Numbered(t, less)'
          BY <1>1, <1>2, <3>4, <4>2, <5>3, <5>5, <5>6 DEF Numbered
        <5> QED
          BY <5>3, <5>7
      <4> QED
        BY <4>3, <4>4
    <3> QED
      BY <3>4, <3>5, <3>6
  <2> QED
    BY <1>1, <1>2, <2>6, <2>7 DEF FlyingInv
<1> QED
  BY <1>3, <1>4

(* Only the first byte of a header, with the muxer about to write it, puts *)
(* another packet on the line.                                             *)
LEMMA SendNumbers ==
  ASSUME BaseInv, FlyingInv, ~rxError, peer = "open",
         NEW n \in -1..io.left, Send(n), n > 0, NEW t \in M!Types
  PROVE  \E at \in [0..Len(pipe') -> Nat] : Numbered(t, at)'
<1>1. LinkInv /\ CurrentIsYoungest
  BY DEF BaseInv, FlyingInv
<1>2. /\ sender = "write" /\ link = "up" /\ io.left > 0
      /\ UNCHANGED <<demVars, flying, sender, current, txQueues, link>>
      /\ io'.field = io.field /\ io'.left = io.left - n
  BY <1>1, SendIs
<1>3. PICK p \in M!Packets, f \in Fields, m \in Nat, k \in Nat :
        /\ p = Head(txQueues[current]) /\ f = io.field /\ m = io.left
        /\ k = n /\ k > 0 /\ k <= m /\ m > 0
  BY <1>1, <1>2, Writing
<1>4. PICK c \in M!Types : c = current
  BY <1>1, TypesKnown DEF LinkInv, MP!CoreInv, MP!TypeOK
<1>5. PICK L \in Nat : L = Len(pipe)
  BY <1>1, LenProperties DEF LinkInv, LineInv
<1>6. PICK q \in Seq(WireBytes) : q = pipe'
  BY <1>1, SendAdds
<1>7. /\ Len(q) = L + k
      /\ \A i \in 1..L : q[i] = pipe[i]
      /\ \A j \in 1..k : q[L + j] = ByteOf(p, f, m - j + 1)
  BY <1>1, <1>3, <1>5, <1>6, SendAdds
<1>8. /\ p.type = c
      /\ f = "type" => m <= FieldSize
  <2>1. txQueues[current] # <<>> /\ txQueues[current] \in Seq(MP!Packets)
    BY <1>1, <1>2, <1>4, TypesKnown DEF LinkInv, MP!CoreInv, MP!WriteHasPacket, MP!TypeOK
  <2>2. 1 \in 1..Len(txQueues[current]) /\ Head(txQueues[current]) = txQueues[current][1]
    BY <2>1, EmptySeq, LenProperties
  <2> QED
    BY <2>2, <1>3, <1>4, TypesKnown DEF BaseInv, MP!QueuesByType, MP!HeaderLeft
<1>9. PICK s \in Seq(M!Packets), z \in Nat : s = flying[t] /\ z = Len(s)
  BY LenProperties DEF FlyingInv
<1>10. t = c => z \in 1..z /\ s[z] = p
  <2>1. BytesToCome
    BY <1>2 DEF BytesToCome
  <2>2. t = c => s # <<>> /\ s[z] = p
    BY <2>1, <1>1, <1>3, <1>4, <1>9 DEF CurrentIsYoungest
  <2>3. s # <<>> => z # 0
    BY <1>9, EmptySeq
  <2> QED
    BY <2>2, <2>3
<1>11. PICK at \in [0..L -> Nat] : Numbered(t, at)
  BY <1>5 DEF FlyingInv
<1>12. PICK b \in {0, 1} : /\ b = IF ~Begun(f, m) /\ c = t THEN 1 ELSE 0
                           /\ at[L] = z - b
  BY <1>2, <1>3, <1>4, <1>5, <1>9, <1>11 DEF Numbered, Sent
<1>13. Sent(t)' = z
  <2>1. Begun(f, m - k)
    BY <1>3, <1>8, BegunFields DEF Begun
  <2>2. Begun(io.field, io.left)'
    BY <2>1, <1>2, <1>3 DEF Begun
  <2> QED
    BY <2>2, <1>2, <1>9 DEF Sent
<1>14. Read(t)' = Read(t)
  BY <1>2 DEF demVars, Read, Holding, Begun, D!Reading
<1> DEFINE on == [i \in 0..L + k |-> IF i <= L THEN at[i] ELSE z]
<1>15. /\ on \in [0..L + k -> Nat]
       /\ \A i \in 0..L : on[i] = at[i]
       /\ \A j \in 1..k : on[L + j] = z
  <2>1. \A i \in 0..L : i \in 0..L + k /\ i <= L
    BY <1>3
  <2>2. \A j \in 1..k : L + j \in 0..L + k /\ ~(L + j <= L)
    BY <1>3
  <2>3. on \in [0..L + k -> Nat]
    BY <1>11
  <2> QED
    BY <2>1, <2>2, <2>3
<1> HIDE DEF on
<1>16. ASSUME NEW i \in 1..L + k
       PROVE  /\ on[i] = on[i - 1] + Starts(q[i], t)
              /\ Decoded(q[i].packet).type = t => on[i] \in 1..z /\ s[on[i]] = Decoded(q[i].packet)
  <2>1. CASE i \in 1..L
    <3>1. i \in 0..L /\ i - 1 \in 0..L
      BY <2>1
    <3> QED
      BY <2>1, <3>1, <1>5, <1>7, <1>9, <1>11, <1>15 DEF Numbered
  <2>2. CASE ~(i \in 1..L)
    <3>1. PICK j \in 1..k : i = L + j
      <4>1. i - L \in 1..k /\ i = L + (i - L)
        BY <2>2, <1>3
      <4> QED
        BY <4>1
    <3>2. q[i] = ByteOf(p, f, m - j + 1) /\ Decoded(q[i].packet) = p /\ on[i] = z
      BY <3>1, <1>7, <1>15, PacketDecoded DEF ByteOf
    <3>3. on[i] = on[i - 1] + Starts(q[i], t)
      <4>1. Starts(q[i], t) = IF f = "type" /\ m - j + 1 = FieldSize /\ c = t THEN 1 ELSE 0
        BY <3>2, <1>8 DEF Starts, HeaderByte, ByteOf
      <4>2. CASE j = 1
        <5>1. i - 1 = L /\ L \in 0..L /\ m - j + 1 = m
          BY <3>1, <4>2, <1>3
        <5>2. on[i - 1] = z - b
          BY <5>1, <1>12, <1>15
        <5>3. Starts(q[i], t) = b
          BY <4>1, <5>1, <1>12 DEF Begun
        <5> QED
          BY <3>2, <5>2, <5>3
      <4>3. CASE j # 1
        <5>1. PICK h \in 1..k : i - 1 = L + h
          <6>1. j - 1 \in 1..k /\ i - 1 = L + (j - 1)
            BY <3>1, <4>3, <1>3
          <6> QED
            BY <6>1
        <5>2. on[i - 1] = z
          BY <5>1, <1>15
        <5>3. f = "type" => m - j + 1 # FieldSize
          BY <4>3, <1>3, <1>8, BegunFields
        <5> QED
          BY <3>2, <4>1, <5>2, <5>3
      <4> QED
        BY <4>2, <4>3
    <3> QED
      BY <3>2, <3>3, <1>8, <1>10
  <2> QED
    BY <2>1, <2>2
<1>17. Numbered(t, on)'
  <2>1. on[0] = Read(t)'
    BY <1>11, <1>14, <1>15 DEF Numbered
  <2>2. on[Len(q)] = Sent(t)'
    <3>1. k \in 1..k
      BY <1>3
    <3> QED
      BY <3>1, <1>7, <1>13, <1>15
  <2>3. flying'[t] = s /\ \A i : Starts(pipe[i], t)' = Starts(q[i], t)
    BY <1>2, <1>6, <1>9 DEF Starts, HeaderByte
  <2> QED
    BY <2>1, <2>2, <2>3, <1>6, <1>7, <1>9, <1>16 DEF Numbered
<1> QED
  BY <1>6, <1>7, <1>15, <1>17

(* A write moves no packet, and leaves the packet being written the        *)
(* youngest.                                                               *)
LEMMA SendKeepsFlying ==
  ASSUME BaseInv, FlyingInv, NEW n \in -1..io.left, Send(n)
  PROVE  FlyingInv'
<1>1. /\ sender = "write" /\ io.left \in Nat /\ io.left > 0 /\ n \in Int
      /\ UNCHANGED <<demVars, flying, sender, current, txQueues, link>>
      /\ n < 0 => link = "down"
      /\ n > 0 => link = "up"
      /\ n >= 0 => io'.field = io.field /\ io'.left = io.left - n
      /\ n <= 0 => pipe' = pipe
  BY SendIs DEF BaseInv
<1>2. UNCHANGED <<receiver, left, frame, rxError, peer>>
  BY <1>1 DEF demVars
<1>3. FrameIsOldest'
  BY <1>1, <1>2 DEF FlyingInv, FrameIsOldest, Arriving, D!Reading
<1>4. \A t : Read(t)' = Read(t)
  BY <1>2 DEF Read, Holding, Begun, D!Reading
<1>5. CurrentIsYoungest => CurrentIsYoungest'
  <2>1. BytesToCome' => BytesToCome
    BY <1>1 DEF BytesToCome
  <2> QED
    BY <2>1, <1>1 DEF CurrentIsYoungest
<1>6. CASE n <= 0
  <2>1. ASSUME link' = "up", NEW t PROVE Sent(t)' = Sent(t)
    <3>1. io'.field = io.field /\ io'.left = io.left
      BY <1>1, <1>6, <2>1
    <3> QED
      BY <3>1, <1>1 DEF Sent, Begun
  <2> QED
    BY <2>1, <1>1, <1>2, <1>3, <1>4, <1>5, <1>6, SameFlying
<1>7. CASE n > 0
  BY <1>1, <1>2, <1>3, <1>5, <1>7, SendNumbers DEF FlyingInv
<1> QED
  BY <1>1, <1>6, <1>7

(* Only the first byte of a header, with the demuxer about to read it,     *)
(* takes another packet from the line.                                     *)
LEMMA ReceiveNumbers ==
  ASSUME BaseInv, FlyingInv, ~rxError, peer = "open",
         NEW n \in 0..left, Receive(n), NEW t \in M!Types
  PROVE  \E at \in [0..Len(pipe') -> Nat] : Numbered(t, at)'
<1>1. LinkInv /\ Connected
  BY DEF BaseInv, LinkInv, LineInv
<1>2. /\ UNCHANGED <<muxVars, flying, receiver, frame, rxError, peer>> /\ D!Reading
      /\ left' = left - n
  BY <1>1, ReceiveTakes
<1>3. PICK m \in Nat, k \in Nat : m = left /\ k = n /\ k <= m
  BY <1>1, ReadingPacket
<1>4. PICK L \in Nat : L = Len(pipe)
  BY <1>1, LenProperties DEF LinkInv, LineInv
<1>5. PICK q \in Seq(WireBytes) : q = pipe'
  BY <1>1, ReceiveTakes
<1>6. /\ k <= L /\ Len(q) = L - k
      /\ \A i \in 1..L - k : k + i \in 1..L /\ q[i] = pipe[k + i]
  BY <1>1, <1>3, <1>4, <1>5, ReceiveTakes
<1>7. PICK at \in [0..L -> Nat] : Numbered(t, at)
  BY <1>4 DEF FlyingInv
<1>8. receiver = "type" => m <= FieldSize
  BY <1>3 DEF BaseInv, DP!HeaderLeft
<1>9. ASSUME NEW i \in 1..k
      PROVE  /\ at[i] = at[i - 1] + Starts(pipe[i], t)
             /\ Starts(pipe[i], t) = IF /\ receiver = "type" /\ m - i + 1 = FieldSize
                                        /\ frame.type = t THEN 1 ELSE 0
  <2>1. i \in 1..L /\ k \in 1..m
    BY <1>3, <1>6
  <2>2. pipe[i] = ByteOf(frame, receiver, m - i + 1)
    BY <2>1, <1>1, <1>2, <1>3, <1>4, <1>6, BytesAhead
  <2>3. Decoded(pipe[i].packet) = frame
    BY <2>2, <1>1, <1>2, ReadingPacket, PacketDecoded DEF ByteOf
  <2>4. at[i] = at[i - 1] + Starts(pipe[i], t)
    BY <2>1, <1>4, <1>7 DEF Numbered
  <2>5. HeaderByte(pipe[i]) <=> receiver = "type" /\ m - i + 1 = FieldSize
    BY <2>2 DEF HeaderByte, ByteOf
  <2> QED
    BY <2>3, <2>4, <2>5 DEF Starts
<1>10. at[0] = IF Begun(receiver, m) /\ frame.type = t THEN 1 ELSE 0
  BY <1>2, <1>3, <1>7 DEF Numbered, Read, Holding
<1>11. Read(t)' = IF Begun(receiver, m - k) /\ frame.type = t THEN 1 ELSE 0
  <2>1. Holding' /\ left' = m - k
    BY <1>2, <1>3 DEF Holding, D!Reading
  <2> QED
    BY <2>1, <1>2 DEF Read, Begun
<1>12. at[k] = Read(t)'
  <2>1. CASE k = 0
    <3>1. m - k = m
      BY <2>1
    <3> QED
      BY <2>1, <3>1, <1>10, <1>11
  <2>2. CASE k > 0 /\ receiver = "type" /\ m = FieldSize /\ frame.type = t
    <3>1. 1 \in 1..k /\ m - 1 + 1 = FieldSize /\ 1 - 1 = 0
      BY <2>2, <1>3
    <3>2. at[0] = 0
      BY <2>2, <1>10 DEF Begun
    <3>3. at[1] = 1
      BY <3>1, <3>2, <2>2, <1>9
    <3>4. \A i \in 1..k : i # 1 => at[i] = at[i - 1]
      <4> SUFFICES ASSUME NEW i \in 1..k, i # 1 PROVE at[i] = at[i - 1]
        OBVIOUS
      <4>1. i \in 1..k /\ m - i + 1 # FieldSize /\ i - 1 \in 0..L
        BY <2>2, <1>3, <1>6, BegunFields
      <4>2. at[i] = at[i - 1] + 0
        BY <4>1, <1>9
      <4> QED
        BY <4>1, <4>2, <1>7
    <3>5. at[k] = at[1]
      <4>1. 1 \in Nat /\ 1 <= k
        BY <2>2
      <4> QED
        BY <3>4, <4>1, ConstantRun, Zenon
    <3>6. Begun(receiver, m - k)
      BY <2>2, BegunFields DEF Begun
    <3> QED
      BY <2>2, <3>3, <3>5, <3>6, <1>11
  <2>3. CASE ~(receiver = "type" /\ m = FieldSize /\ frame.type = t)
    <3>1. \A i \in 0..k : i # 0 => at[i] = at[i - 1]
      <4> SUFFICES ASSUME NEW i \in 0..k, i # 0 PROVE at[i] = at[i - 1]
        OBVIOUS
      <4>1. i \in 1..k /\ i - 1 \in 0..L
        BY <1>6
      <4>2. ~(receiver = "type" /\ m - i + 1 = FieldSize /\ frame.type = t)
        BY <4>1, <2>3, <1>8, BegunFields
      <4>3. at[i] = at[i - 1] + 0
        BY <4>1, <4>2, <1>9
      <4> QED
        BY <4>1, <4>3, <1>7
    <3>2. at[k] = at[0]
      <4>1. 0 \in Nat /\ 0 <= k
        OBVIOUS
      <4> QED
        BY <3>1, <4>1, ConstantRun, Zenon
    <3>3. frame.type = t => Begun(receiver, m) /\ Begun(receiver, m - k)
      BY <2>3, <1>3, <1>8, BegunFields DEF Begun
    <3> QED
      BY <3>2, <3>3, <1>10, <1>11
  <2> QED
    BY <2>1, <2>2, <2>3
<1> DEFINE on == [i \in 0..L - k |-> at[k + i]]
<1>13. on \in [0..L - k -> Nat] /\ \A i \in 0..L - k : on[i] = at[k + i]
  <2>1. \A i \in 0..L - k : k + i \in 0..L
    BY <1>6
  <2> QED
    BY <2>1, <1>7
<1> HIDE DEF on
<1>14. ASSUME NEW i \in 1..L - k
       PROVE  /\ on[i] = on[i - 1] + Starts(q[i], t)
              /\ Decoded(q[i].packet).type = t =>
                   on[i] \in 1..Len(flying[t]) /\ flying[t][on[i]] = Decoded(q[i].packet)
  <2>1. /\ i \in 0..L - k /\ i - 1 \in 0..L - k /\ k + (i - 1) = (k + i) - 1
        /\ k + i \in 1..L /\ q[i] = pipe[k + i]
    BY <1>6
  <2>2. on[i] = at[k + i] /\ on[i - 1] = at[(k + i) - 1]
    BY <2>1, <1>13
  <2> QED
    BY <2>1, <2>2, <1>4, <1>7 DEF Numbered
<1>15. Numbered(t, on)'
  <2>1. on[0] = Read(t)'
    <3>1. 0 \in 0..L - k /\ k + 0 = k
      BY <1>6
    <3> QED
      BY <3>1, <1>12, <1>13
  <2>2. link' = "up" => on[Len(q)] = Sent(t)'
    <3>1. L - k \in 0..L - k /\ k + (L - k) = L
      BY <1>6
    <3>2. link' = link /\ Sent(t)' = Sent(t)
      BY <1>2 DEF muxVars, Sent, Begun
    <3> QED
      BY <3>1, <3>2, <1>4, <1>6, <1>7, <1>13 DEF Numbered
  <2>3. \A i : Starts(pipe[i], t)' = Starts(q[i], t)
    BY <1>5 DEF Starts, HeaderByte
  <2> QED
    BY <2>1, <2>2, <2>3, <1>2, <1>5, <1>6, <1>14 DEF Numbered
<1> QED
  BY <1>5, <1>6, <1>13, <1>15

LEMMA ReceiveKeepsFlying ==
  ASSUME BaseInv, FlyingInv, NEW n \in 0..left, Receive(n)
  PROVE  FlyingInv'
<1>1. /\ UNCHANGED <<muxVars, flying, receiver, frame, rxError, peer>> /\ D!Reading
      /\ left' = left - n /\ left \in Nat
      /\ peer # "open" => n = 0
  BY ReceiveTakes, ReadingPacket DEF BaseInv
<1>2. FrameIsOldest'
  <2>1. Arriving' => Arriving
    <3>1. n = 0 => left' = left
      BY <1>1
    <3> QED
      BY <3>1, <1>1 DEF Arriving, D!Reading
  <2> QED
    BY <2>1, <1>1 DEF FlyingInv, FrameIsOldest
<1>3. CurrentIsYoungest => CurrentIsYoungest'
  BY <1>1 DEF muxVars, CurrentIsYoungest, BytesToCome
<1> QED
  BY <1>1, <1>2, <1>3, ReceiveNumbers DEF FlyingInv

-----------------------------------------------------------------------------
(* What is under way, as an invariant.                                     *)

LEMMA FlyingInit == Init => FlyingInv
<1> SUFFICES ASSUME Init PROVE FlyingInv
  OBVIOUS
<1>1. /\ receiver = "poll" /\ sender = "start" /\ pipe = <<>>
      /\ flying = [t \in M!Types |-> <<>>]
  BY DEF Init, M!Init, D!Init
<1>2. FrameIsOldest /\ CurrentIsYoungest
  BY <1>1 DEF FrameIsOldest, Arriving, D!Reading, CurrentIsYoungest, BytesToCome
<1>3. ASSUME NEW t \in M!Types PROVE \E at \in [0..Len(pipe) -> Nat] : Numbered(t, at)
  <2>1. Read(t) = 0 /\ Sent(t) = 0 /\ Len(pipe) = 0
    BY <1>1 DEF Read, Holding, D!Reading, Sent
  <2>2. Numbered(t, [i \in 0..0 |-> 0])
    BY <2>1 DEF Numbered
  <2> QED
    BY <2>1, <2>2
<1> QED
  BY <1>1, <1>2, <1>3 DEF FlyingInv

LEMMA FlyingStep ==
  ASSUME BaseInv, FlyingInv, [Next]_vars
  PROVE  FlyingInv'
<1>1. CASE \/ \E p \in M!UserPackets : Post(p)
           \/ MuxerRuns \/ OneSecondPasses \/ SpuriousWake \/ DestroyMuxer \/ ConnectionFails
  BY <1>1, MuxerKeepsFlying
<1>2. CASE BeginPacket
  BY <1>2, BeginPacketKeepsFlying
<1>3. CASE \E n \in -1..io.left : Send(n)
  BY <1>3, SendKeepsFlying
<1>4. CASE \/ SetNonBlocking \/ DemuxerRuns \/ DestroyDemuxer \/ NothingCame
           \/ (\E s \in Subs : Subscribe(s) \/ DropSubscription(s)) \/ SocketClosed
  BY <1>4, DemuxerKeepsFlying
<1>5. CASE PacketReceived
  BY <1>5, PacketReceivedKeepsFlying
<1>6. CASE HeaderReady
  BY <1>6, HeaderKeepsFlying
<1>7. CASE \E n \in 0..left : Receive(n)
  BY <1>7, ReceiveKeepsFlying
<1>8. CASE FailureSeen
  BY <1>8, FailureKeepsFlying
<1>9. CASE Destroyed \/ UNCHANGED vars
  <2>1. UNCHANGED <<muxVars, pipe, flying, receiver, frame, left, rxError, peer>>
    BY <1>9 DEF Destroyed, vars, demVars, lineVars
  <2>2. /\ UNCHANGED link /\ \A t : Sent(t)' = Sent(t) /\ Read(t)' = Read(t)
        /\ CurrentIsYoungest => CurrentIsYoungest'
    BY <2>1 DEF muxVars, Sent, Read, Begun, Holding, D!Reading, CurrentIsYoungest, BytesToCome
  <2>3. FrameIsOldest'
    BY <2>1 DEF FlyingInv, FrameIsOldest, Arriving, D!Reading
  <2> QED
    BY <2>1, <2>2, <2>3, SameFlying
<1> QED
  BY <1>1, <1>2, <1>3, <1>4, <1>5, <1>6, <1>7, <1>8, <1>9 DEF Next, SendLoop, ReceiveLoop

LEMMA FlyingInvariant == Spec => []FlyingInv
<1>1. BaseInv /\ FlyingInv /\ [Next]_vars => FlyingInv'
  BY FlyingStep
<1> QED
  BY <1>1, FlyingInit, BaseInvariant, PTL DEF Spec

-----------------------------------------------------------------------------
(* The promise from end to end.                                            *)

(* A packet that goes from the muxer's queue to the line keeps its place.  *)
LEMMA HeadMoved ==
  ASSUME NEW S, NEW u \in Seq(S), NEW v \in Seq(S), v # <<>>
  PROVE  Append(u, Head(v)) \o Tail(v) = u \o v
OBVIOUS

(* One that is posted comes last. *)
LEMMA PostedLast ==
  ASSUME NEW S, NEW u \in Seq(S), NEW v \in Seq(S), NEW x \in S
  PROVE  u \o Append(v, x) = Append(u \o v, x)
OBVIOUS

(* The one handed over was the first. *)
LEMMA HandedOverFirst ==
  ASSUME NEW S, NEW u \in Seq(S), NEW v \in Seq(S), u # <<>>
  PROVE  /\ u \o v # <<>> /\ Head(u \o v) = u[1]
         /\ Tail(u \o v) = Tail(u) \o v
OBVIOUS

(* Who is subscribed and what they were given, in the composition. *)
LEMMA SubscribersSeen ==
  /\ D!Members = DP!Members /\ D!Members' = DP!Members'
  /\ D!Given = DP!Given /\ D!Given' = DP!Given'
BY DEF D!Members, DP!Members, D!Registered, DP!Registered, D!Contains, DP!Contains,
       D!Given, DP!Given, D!Owed, DP!Owed, D!Queue, DP!Queue

(* A control packet is of no type of the application. *)
LEMMA UserType ==
  /\ ControlType \notin UserTypes
  /\ \A p \in M!UserPackets : p.type \in UserTypes
  /\ M!Hello.type = ControlType /\ M!HeartBeat.type = ControlType
BY LinkAssumption DEF M!MuxerAssumption, M!UserPackets, M!Hello, M!HeartBeat

LEMMA QueueTypes ==
  ASSUME BaseInv, FlyingInv, NEW t \in M!Types
  PROVE  /\ flying[t] \in Seq(M!Packets) /\ txQueues[t] \in Seq(M!Packets)
         /\ Unsent(t) \in Seq(M!Packets)
<1>1. flying[t] \in Seq(M!Packets) /\ txQueues[t] \in Seq(M!Packets)
  BY SamePackets, TypesKnown DEF BaseInv, LinkInv, MP!CoreInv, MP!TypeOK, FlyingInv
<1>2. sender = "write" => txQueues[current] # <<>>
  BY DEF BaseInv, LinkInv, MP!CoreInv, MP!WriteHasPacket
<1> QED
  BY <1>1, <1>2, HeadTailProperties DEF Unsent

(* The packets of an application's type that are posted and not handed     *)
(* over: no step of the muxer's side changes them but a post.              *)
PendingKept == \A t \in UserTypes : Pending(t)' = Pending(t)

LEMMA ControlEnqueued ==
  ASSUME BaseInv, NEW p \in M!Packets, p.type = ControlType, M!Enqueue(p),
         UNCHANGED flying, sender # "write", sender' # "write"
  PROVE  PendingKept
BY UserType, TypesKnown DEF BaseInv, LinkInv, MP!CoreInv, MP!TypeOK, M!Enqueue, PendingKept,
   Pending, Unsent

LEMMA MuxerKeepsPending ==
  ASSUME BaseInv, MuxerRuns \/ OneSecondPasses \/ SpuriousWake \/ DestroyMuxer \/ ConnectionFails
  PROVE  PendingKept
<1> USE DEF M!queueVars, M!passVars, M!linkVars
<1>1. UNCHANGED flying
  BY DEF MuxerRuns, OneSecondPasses, SpuriousWake, DestroyMuxer, ConnectionFails, lineVars
<1>2. CASE UNCHANGED <<txQueues, sender, current>>
  BY <1>1, <1>2 DEF PendingKept, Pending, Unsent
<1>3. CASE UNCHANGED txQueues /\ sender # "write" /\ sender' # "write"
  BY <1>1, <1>3 DEF PendingKept, Pending, Unsent
<1>4. CASE M!SendHello
  BY <1>1, <1>4, ControlEnqueued, SamePackets, UserType DEF M!SendHello
<1>5. CASE M!Wake
  <2>1. sender # "write" /\ sender' # "write"
    BY <1>5 DEF M!Wake, M!StartPass
  <2>2. M!HeartBeat \in M!Packets
    BY DEF M!Packets
  <2> QED
    BY <2>1, <2>2, <1>1, <1>3, <1>5, ControlEnqueued, UserType DEF M!Wake, M!AfterWait
<1>6. CASE M!EndPacket
  <2>1. /\ sender = "write" /\ sender' # "write" /\ UNCHANGED current
        /\ txQueues' = [txQueues EXCEPT ![current] = Tail(txQueues[current])]
    BY <1>6 DEF M!EndPacket
  <2>2. \A t \in UserTypes : txQueues'[t] = IF t = current THEN Tail(txQueues[t]) ELSE txQueues[t]
    BY <2>1, TypesKnown DEF BaseInv, LinkInv, MP!CoreInv, MP!TypeOK
  <2> QED
    BY <2>1, <2>2, <1>1 DEF PendingKept, Pending, Unsent
<1>7. CASE M!NextField
  BY <1>2, <1>7 DEF M!NextField
<1>8. CASE OneSecondPasses \/ SpuriousWake
  BY <1>3, <1>8 DEF OneSecondPasses, M!TimeOut, SpuriousWake, M!SpuriousWake
<1>9. CASE M!DestructorBegins \/ M!DestructorJoins \/ ConnectionFails
  BY <1>2, <1>9 DEF M!DestructorBegins, M!DestructorJoins, ConnectionFails, M!LinkDown
<1>10. CASE M!DestructorSignals
  <2>1. UNCHANGED <<txQueues, current>> /\ M!Notify
    BY <1>10 DEF M!DestructorSignals
  <2> QED
    BY <2>1, <1>2, <1>3 DEF M!Notify
<1>11. CASE M!TakeLock \/ M!LeaveLoop \/ M!BeginWait \/ M!PassDone
  BY <1>3, <1>11 DEF M!TakeLock, M!LeaveLoop, M!BeginWait, M!PassDone
<1>12. CASE M!SkipWait \/ \E t \in M!Types : M!NextQueue(t)
  BY <1>3, <1>12 DEF M!SkipWait, M!StartPass, M!NextQueue
<1> QED
  BY <1>4, <1>5, <1>6, <1>7, <1>8, <1>9, <1>10, <1>11, <1>12 DEF MuxerRuns, DestroyMuxer

(* A packet on its way from the queue to the line. *)
LEMMA BeginPacketKeepsPending ==
  ASSUME BaseInv, FlyingInv, BeginPacket
  PROVE  PendingKept
<1>1. /\ UNCHANGED <<current, txQueues>> /\ sender # "write" /\ sender' = "write"
      /\ txQueues[current] # <<>>
      /\ flying' = [flying EXCEPT ![current] = Append(@, Head(txQueues[current]))]
  BY DEF BeginPacket, M!BeginPacket, M!KeepSending, M!queueVars
<1>2. ASSUME NEW t \in M!Types PROVE Pending(t)' = Pending(t)
  <2>1. flying'[t] = IF t = current THEN Append(flying[t], Head(txQueues[t])) ELSE flying[t]
    BY <1>1 DEF FlyingInv
  <2>2. flying[t] \in Seq(M!Packets) /\ txQueues[t] \in Seq(M!Packets)
    BY QueueTypes
  <2>3. CASE t = current
    <3>1. /\ Pending(t) = flying[t] \o txQueues[t]
          /\ Pending(t)' = Append(flying[t], Head(txQueues[t])) \o Tail(txQueues[t])
      BY <1>1, <2>1, <2>3 DEF Pending, Unsent
    <3>2. txQueues[t] # <<>>
      BY <1>1, <2>3
    <3>3. Append(flying[t], Head(txQueues[t])) \o Tail(txQueues[t]) = flying[t] \o txQueues[t]
      BY <2>2, <3>2, HeadMoved
    <3> QED
      BY <3>1, <3>3
  <2>4. CASE t # current
    BY <1>1, <2>1, <2>4 DEF Pending, Unsent
  <2> QED
    BY <2>3, <2>4
<1> QED
  BY <1>2, TypesKnown DEF PendingKept

(* The demuxer's side changes them only where it begins to dispatch. *)
LEMMA DemuxerKeepsPending ==
  ASSUME BaseInv, UNCHANGED <<muxVars, flying>>
  PROVE  PendingKept
BY DEF muxVars, PendingKept, Pending, Unsent

LEMMA ControlKeepsPending ==
  ASSUME BaseInv, FlyingInv, PacketReceived, D!HelloRead \/ D!ControlRead
  PROVE  PendingKept
<1>1. UNCHANGED muxVars /\ frame \in M!Packets
  BY PacketReceivedIs, ReadingPacket DEF BaseInv
<1>2. frame = M!Hello \/ frame.type = ControlType \/ (greeting /\ frame # M!Hello)
  BY DEF D!HelloRead, D!ControlRead
<1>3. \A t \in UserTypes : flying'[t] = flying[t]
  <2>1. CASE greeting /\ frame # M!Hello
    BY <2>1 DEF PacketReceived
  <2>2. CASE ~(greeting /\ frame # M!Hello)
    <3>1. frame.type = ControlType
      BY <1>2, <2>2, UserType
    <3> QED
      BY <2>2, <3>1, UserType, TypesKnown DEF PacketReceived, FlyingInv
  <2> QED
    BY <2>1, <2>2
<1> QED
  BY <1>1, <1>3 DEF muxVars, PendingKept, Pending, Unsent

(* What a step does to the packets posted and not handed over. *)
LEMMA PendingStep ==
  ASSUME BaseInv, FlyingInv, [Next]_vars
  PROVE  \/ \E p \in M!UserPackets : Post(p)
         \/ PacketReceived /\ D!DispatchBegins
         \/ PendingKept /\ ~(receiver = "packet" /\ receiver' = "dispatch")
<1>1. LinkInv
  BY DEF BaseInv
<1>2. CASE MuxerRuns \/ OneSecondPasses \/ SpuriousWake \/ DestroyMuxer \/ ConnectionFails
  <2>1. UNCHANGED demVars
    BY <1>2 DEF MuxerRuns, OneSecondPasses, SpuriousWake, DestroyMuxer, ConnectionFails
  <2> QED
    BY <2>1, <1>2, MuxerKeepsPending DEF demVars
<1>3. CASE BeginPacket
  BY <1>3, BeginPacketKeepsPending DEF BeginPacket, demVars
<1>4. CASE \E n \in -1..io.left : Send(n)
  <2>1. UNCHANGED <<demVars, flying, sender, current, txQueues>>
    BY <1>1, <1>4, SendIs
  <2> QED
    BY <2>1 DEF demVars, PendingKept, Pending, Unsent
<1>5. CASE \/ SetNonBlocking \/ DemuxerRuns \/ DestroyDemuxer \/ NothingCame
           \/ (\E s \in Subs : Subscribe(s) \/ DropSubscription(s)) \/ SocketClosed
  <2>1. UNCHANGED <<muxVars, flying>>
    BY <1>1, <1>5, DemuxerCases
  <2>2. \/ receiver' # "dispatch" \/ receiver' = receiver \/ receiver # "packet"
    BY <1>1, <1>5, DemuxerCases DEF Holding, D!FieldRead, D!Reading
  <2> QED
    BY <2>1, <2>2, DemuxerKeepsPending
<1>6. CASE HeaderReady
  BY <1>6, DemuxerKeepsPending DEF HeaderReady, D!PollReady, lineVars
<1>7. CASE \E n \in 0..left : Receive(n)
  BY <1>1, <1>7, ReceiveTakes, DemuxerKeepsPending DEF D!Reading
<1>8. CASE FailureSeen
  BY <1>8, DemuxerKeepsPending DEF FailureSeen, D!PeerGoes
<1>9. CASE PacketReceived /\ (D!HelloRead \/ D!ControlRead)
  BY <1>9, ControlKeepsPending DEF D!HelloRead, D!ControlRead, D!NextPacket
<1>10. CASE Destroyed \/ UNCHANGED vars
  BY <1>10, DemuxerKeepsPending DEF Destroyed, vars, demVars, lineVars
<1> QED
  BY <1>2, <1>3, <1>4, <1>5, <1>6, <1>7, <1>8, <1>9, <1>10
  DEF Next, SendLoop, ReceiveLoop, PacketReceived

(* A post comes last of its type. *)
LEMMA PostPosts ==
  ASSUME BaseInv, FlyingInv, NEW p \in M!UserPackets, Post(p)
  PROVE  C!Post(p)
<1>1. /\ UNCHANGED <<demVars, flying>> /\ sender # "write" /\ sender' # "write"
      /\ txQueues' = [txQueues EXCEPT ![p.type] = Append(txQueues[p.type], p)]
  <2>1. txLock = "free" /\ M!Notify /\ M!Enqueue(p) /\ UNCHANGED <<demVars, flying>>
    BY DEF Post, M!EmplacePacket, M!LockFree, lineVars
  <2>2. sender # "write"
    BY <2>1, Writing DEF BaseInv
  <2> QED
    BY <2>1, <2>2 DEF M!Notify, M!Enqueue
<1>2. p \in M!Packets /\ p.type \in UserTypes
  BY UserType DEF M!Packets
<1>3. ASSUME NEW t \in UserTypes
      PROVE  Pending(t)' = IF t = p.type THEN Append(Pending(t), p) ELSE Pending(t)
  <2>1. t \in M!Types
    BY TypesKnown
  <2>2. flying[t] \in Seq(M!Packets) /\ txQueues[t] \in Seq(M!Packets)
    BY <2>1, QueueTypes
  <2>3. txQueues'[t] = IF t = p.type THEN Append(txQueues[t], p) ELSE txQueues[t]
    BY <1>1, <2>1, TypesKnown DEF BaseInv, LinkInv, MP!CoreInv, MP!TypeOK
  <2>4. Pending(t) = flying[t] \o txQueues[t] /\ Pending(t)' = flying[t] \o txQueues'[t]
    BY <1>1 DEF Pending, Unsent
  <2>5. flying[t] \o Append(txQueues[t], p) = Append(flying[t] \o txQueues[t], p)
    <3>1. PICK u \in Seq(M!Packets), v \in Seq(M!Packets) : u = flying[t] /\ v = txQueues[t]
      BY <2>2
    <3>2. u \o Append(v, p) = Append(u \o v, p)
      BY <1>2, PostedLast
    <3> QED
      BY <3>1, <3>2
  <2> QED
    BY <2>3, <2>4, <2>5
<1>4. [t \in UserTypes |-> Pending(t)]'
        = [[t \in UserTypes |-> Pending(t)] EXCEPT ![p.type] = Append(@, p)]
  BY <1>2, <1>3
<1>5. UNCHANGED <<D!Members, D!Given>>
  BY <1>1 DEF demVars, D!Members, D!Registered, D!Given, D!Owed, D!Queue
<1> QED
  BY <1>4, <1>5 DEF C!Post

(* The dispatch hands the oldest packet of its type to the subscribers. *)
LEMMA DispatchHandsOver ==
  ASSUME BaseInv, FlyingInv, PacketReceived, D!DispatchBegins
  PROVE  frame.type \in UserTypes /\ C!HandOver(frame.type)
<1>1. UNCHANGED muxVars /\ receiver = "packet" /\ frame \in M!Packets
  BY PacketReceivedIs, ReadingPacket DEF BaseInv
<1>2. PICK c \in UserTypes : c = frame.type
  BY <1>1, TypesKnown DEF D!DispatchBegins, M!Types
<1>3. c \in M!Types
  BY TypesKnown
<1>4. flying[c] # <<>> /\ flying[c][1] = frame
  BY <1>1, <1>2 DEF FlyingInv, FrameIsOldest, Arriving
<1>5. flying' = [flying EXCEPT ![c] = Tail(flying[c])]
  BY <1>2 DEF PacketReceived, D!DispatchBegins
<1>6. /\ flying[c] \in Seq(M!Packets) /\ Unsent(c) \in Seq(M!Packets)
  BY <1>3, QueueTypes
<1>7. /\ Pending(c) # <<>> /\ Head(Pending(c)) = frame
      /\ Tail(Pending(c)) = Tail(flying[c]) \o Unsent(c)
  BY <1>4, <1>6, HandedOverFirst DEF Pending
<1>8. ASSUME NEW t \in UserTypes
      PROVE  Pending(t)' = IF t = c THEN Tail(Pending(t)) ELSE Pending(t)
  <2>1. flying'[t] = IF t = c THEN Tail(flying[t]) ELSE flying[t]
    BY <1>5, TypesKnown DEF FlyingInv
  <2>2. Unsent(t)' = Unsent(t)
    BY <1>1 DEF muxVars, Unsent
  <2> QED
    BY <1>7, <2>1, <2>2 DEF Pending
<1>9. [t \in UserTypes |-> Pending(t)]'
        = [[t \in UserTypes |-> Pending(t)] EXCEPT ![c] = Tail(@)]
  BY <1>8
<1>10. /\ D!Members' = D!Members
       /\ D!Given' = [s \in Subs |-> IF s \in D!Members /\ TypeOf[s] = c
                                        THEN Append(D!Given[s], frame) ELSE D!Given[s]]
  <2>1. DP!PS!Publish(frame)
    BY DemuxerSteps, HalvesAssumptions, DP!DispatchPublishes DEF BaseInv, LinkInv
  <2> QED
    BY <2>1, <1>2, SubscribersSeen DEF DP!PS!Publish
<1> QED
  BY <1>2, <1>7, <1>9, <1>10 DEF C!HandOver

(* Each step of the composition is a step of Channel or leaves it alone. *)
LEMMA ChannelStep ==
  ASSUME BaseInv, FlyingInv, [Next]_vars
  PROVE  [C!Next]_C!channelVars
<1>1. CASE \E p \in M!UserPackets : Post(p)
  BY <1>1, PostPosts DEF C!Next
<1>2. CASE PacketReceived /\ D!DispatchBegins
  BY <1>2, DispatchHandsOver DEF C!Next
<1>3. CASE PendingKept /\ ~(receiver = "packet" /\ receiver' = "dispatch")
  <2>1. [DP!Next]_DP!vars
    BY HalvesStep DEF BaseInv
  <2>2. DP!NothingGiven
    BY <1>3, <2>1, HalvesAssumptions, DP!MembersStep DEF BaseInv, LinkInv
  <2>3. /\ D!Given' = D!Given
        /\ \/ D!Members' = D!Members \/ D!Members' = {}
           \/ \E s \in Subs : D!Members' = D!Members \cup {s} \/ D!Members' = D!Members \ {s}
    BY <2>2, SubscribersSeen DEF DP!NothingGiven
  <2>4. [t \in UserTypes |-> Pending(t)]' = [t \in UserTypes |-> Pending(t)]
    BY <1>3 DEF PendingKept
  <2> QED
    BY <2>3, <2>4 DEF C!Next, C!Subscribers, C!channelVars
<1> QED
  BY <1>1, <1>2, <1>3, PendingStep

(* The two ends implement Channel: what emplacePacket takes at one end is  *)
(* handed over at the other to everyone then subscribed, in the order of   *)
(* its type, once and without a gap, through partial writes and reads,     *)
(* heartbeats, errors and the destruction of either end.                   *)
THEOREM ChannelImplemented == Spec => ChannelSpec
<1>1. Init => C!Init
  <2> SUFFICES ASSUME Init PROVE C!Init
    OBVIOUS
  <2>1. \A t \in UserTypes : Pending(t) = <<>>
    BY TypesKnown DEF Init, M!Init, MP!Types, M!Types, Pending, Unsent
  <2>2. D!Members = {} /\ D!Given = [s \in Subs |-> <<>>]
    BY LinkAssumption
    DEF Init, D!Init, D!DemuxerAssumption, D!Members, D!Registered, D!Contains, D!Given, D!Owed
  <2> QED
    BY <2>1, <2>2 DEF C!Init
<1>2. BaseInv /\ FlyingInv /\ [Next]_vars => [C!Next]_C!channelVars
  BY ChannelStep
<1> QED
  BY <1>1, <1>2, BaseInvariant, FlyingInvariant, PTL DEF Spec, ChannelSpec, C!Spec
=============================================================================
