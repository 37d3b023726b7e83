-------------------------------- MODULE Link --------------------------------
(***************************************************************************)
(* A PacketMuxer, one direction of a TCP connection and the PacketDemuxer  *)
(* at its far end, composed byte by byte.  Each half is the module that    *)
(* models it, here with the other half for an environment: what the        *)
(* transport may answer, free in those modules, is what the bytes under    *)
(* way allow.  On the line a packet's type is the id that the muxer's      *)
(* IdManager gives it, which the demuxer's looks up.                       *)
(***************************************************************************)
EXTENDS Integers, Sequences, FiniteSets

CONSTANTS
  UserTypes, ControlType, Payloads, DataSize, FieldSize, CounterModulus,
  Subs, TypeOf,
  TxIds, RxIds,    \* the names that each end's IdManager was made from
  Capacity,        \* bytes the connection holds between write and read
  MaxPosts         \* bound: packets the application posts

VARIABLES
  txOwner, sender, txLock, txQueues, numPosted, numSent, txError, current, todo,
  io, link, line,
  rxOwner, receiver, greeting, frame, left, blocking, asleep, rxError, peer,
  subLock, subscribers, position, active, handle, first, inbox,
  pipe,            \* the bytes written and not yet read
  flying,          \* history: type -> the packets begun on the line, not yet handed over
  posts            \* how many packets were posted

M == INSTANCE PacketMuxer WITH
       owner <- txOwner, transportError <- txError, MaxQueued <- MaxPosts
D == INSTANCE PacketDemuxer WITH
       owner <- rxOwner, transportError <- rxError, MaxInbox <- MaxPosts + 1
I == INSTANCE IdManager WITH
       InvalidString <- D!InvalidPacket.type, ControlString <- ControlType

(* The two tables, which nothing changes later. *)
TxTable == I!Table(TxIds)
RxTable == I!Table(RxIds)

(* Each end has made its table of different names, the longer list begins  *)
(* with the shorter one, and both have the types that are used.            *)
ASSUME LinkAssumption ==
  /\ M!MuxerAssumption /\ D!DemuxerAssumption
  /\ D!InvalidPacket.type # ControlType
  /\ TxIds \in Seq(I!Names(TxIds)) /\ RxIds \in Seq(I!Names(RxIds))
  /\ I!AssertionHolds(TxIds) /\ I!AssertionHolds(RxIds)
  /\ \A i \in 1..Len(TxIds) : i <= Len(RxIds) => TxIds[i] = RxIds[i]
  /\ UserTypes \subseteq I!Names(TxIds) \cap I!Names(RxIds)
  /\ Capacity \in Nat

muxVars == <<txOwner, sender, txLock, txQueues, numPosted, numSent, txError, current,
             todo, io, link, line>>
demVars == <<rxOwner, receiver, greeting, frame, left, blocking, asleep, rxError, peer,
             subLock, subscribers, position, active, handle, first, inbox>>
lineVars == <<pipe, flying>>
vars == <<muxVars, demVars, lineVars, posts>>

Init ==
  /\ M!Init /\ D!Init
  /\ pipe = <<>> /\ flying = [t \in M!Types |-> <<>>] /\ posts = 0

-----------------------------------------------------------------------------
(* The muxer's side. *)

Post(p) ==
  /\ posts < MaxPosts
  /\ M!EmplacePacket(p)
  /\ posts' = posts + 1
  /\ UNCHANGED <<demVars, lineVars>>

(* All of sendLoop except for what it puts on the line. *)
MuxerRuns ==
  /\ \/ M!SendHello \/ M!TakeLock \/ M!LeaveLoop \/ M!BeginWait \/ M!SkipWait
     \/ M!Wake \/ M!PassDone \/ M!NextField \/ M!EndPacket
     \/ \E t \in M!Types : M!NextQueue(t)
  /\ UNCHANGED <<demVars, lineVars, posts>>

OneSecondPasses == M!TimeOut /\ UNCHANGED <<demVars, lineVars, posts>>

SpuriousWake == M!SpuriousWake /\ UNCHANGED <<demVars, lineVars, posts>>

DestroyMuxer ==
  /\ M!DestructorBegins \/ M!DestructorSignals \/ M!DestructorJoins
  /\ UNCHANGED <<demVars, lineVars, posts>>

BeginPacket ==
  /\ M!BeginPacket
  /\ flying' = [flying EXCEPT ![current] = Append(@, Head(txQueues[current]))]
  /\ UNCHANGED <<demVars, pipe, posts>>

Encoded(p) == [p EXCEPT !.type = I!ToId(TxTable, p.type)]
Decoded(p) == [p EXCEPT !.type = I!ToString(RxTable, p.type)]

(* The bytes of the field being written, each with the number of bytes     *)
(* from it to the end of the field.                                        *)
Bytes(n) ==
  [i \in 1..n |-> [packet |-> Encoded(Head(txQueues[current])), field |-> io.field,
                   rest |-> io.left - i + 1]]

(* write fails when the connection is gone, and then always fails: that an *)
(* error of a stream socket is final is checked in TcpSocket.              *)
Send(n) ==
  /\ M!Write(n)
  /\ IF n < 0 THEN link = "down"
     ELSE n <= Capacity - Len(pipe) /\ (n = 0 => Len(pipe) = Capacity)
  /\ pipe' = IF n > 0 THEN pipe \o Bytes(n) ELSE pipe
  /\ UNCHANGED <<demVars, flying, posts>>

-----------------------------------------------------------------------------
(* The demuxer's side. *)

SetNonBlocking == D!SetNonBlocking /\ UNCHANGED <<muxVars, lineVars, posts>>

(* What moves no byte and ends no packet. *)
DemuxerRuns ==
  /\ \/ D!TestError \/ D!ReadFails \/ D!ReadInterrupted
     \/ D!FieldRead \/ D!CallbackBegins \/ D!CallbackEnds \/ D!DispatchDone
  /\ UNCHANGED <<muxVars, lineVars, posts>>

DestroyDemuxer ==
  /\ D!DestructorSignals \/ D!WarnAboutSubscribers \/ D!DestructorJoins
  /\ UNCHANGED <<muxVars, lineVars, posts>>

Subscribe(s) == D!Subscribe(s) /\ UNCHANGED <<muxVars, lineVars, posts>>

DropSubscription(s) ==
  /\ D!DropSubscription(s) \/ D!Unsubscribe(s)
  /\ UNCHANGED <<muxVars, lineVars, posts>>

NothingCame ==
  /\ pipe = <<>>
  /\ D!PollTimesOut \/ D!FallAsleep
  /\ UNCHANGED <<muxVars, lineVars, posts>>

(* The demuxer is about to read a header: of the packet whose byte comes   *)
(* first, or, when the connection is gone, of none.                        *)
HeaderReady ==
  /\ IF peer = "open" THEN pipe # <<>> /\ D!PollReady(Decoded(Head(pipe).packet))
                      ELSE D!PollReady(M!Hello)
  /\ UNCHANGED <<muxVars, lineVars, posts>>

Receive(n) ==
  /\ D!ReadBytes(n)
  /\ peer = "open" => n <= Len(pipe) /\ (n = 0 => pipe = <<>>)
  /\ pipe' = SubSeq(pipe, n + 1, Len(pipe))
  /\ UNCHANGED <<muxVars, flying, posts>>

(* A packet has been read whole: it is handed over, unless it fails the    *)
(* test of the first packet.                                               *)
PacketReceived ==
  /\ D!HelloRead \/ D!ControlRead \/ D!DispatchBegins
  /\ flying' = IF greeting /\ frame # M!Hello
                 THEN flying ELSE [flying EXCEPT ![frame.type] = Tail(@)]
  /\ UNCHANGED <<muxVars, pipe, posts>>

-----------------------------------------------------------------------------
(* The connection.  It may fail: the muxer's side notices when it writes,  *)
(* the demuxer's some time later.  A program that has destroyed its muxer  *)
(* closes its socket, and the far end reads all that was written before    *)
(* it sees the end.                                                        *)

ConnectionFails == M!LinkDown /\ UNCHANGED <<demVars, lineVars, posts>>

FailureSeen ==
  /\ link = "down" /\ peer = "open"
  /\ D!PeerGoes("reset")
  /\ pipe' = <<>>
  /\ UNCHANGED <<muxVars, flying, posts>>

SocketClosed ==
  /\ txOwner = "gone" /\ link = "up" /\ pipe = <<>> /\ peer = "open"
  /\ D!PeerGoes("closed")
  /\ UNCHANGED <<muxVars, lineVars, posts>>

Destroyed == txOwner = "gone" /\ rxOwner = "gone" /\ UNCHANGED vars

SendLoop == MuxerRuns \/ BeginPacket
ReceiveLoop == DemuxerRuns \/ NothingCame \/ HeaderReady \/ PacketReceived

Next ==
  \/ \E p \in M!UserPackets : Post(p)
  \/ SendLoop \/ OneSecondPasses \/ SpuriousWake \/ DestroyMuxer
  \/ \E n \in -1..io.left : Send(n)
  \/ SetNonBlocking \/ ReceiveLoop \/ DestroyDemuxer
  \/ \E s \in Subs : Subscribe(s) \/ DropSubscription(s)
  \/ \E n \in 0..left : Receive(n)
  \/ ConnectionFails \/ FailureSeen \/ SocketClosed
  \/ Destroyed

Spec == Init /\ [][Next]_vars

(* Both programs run, timers expire and the lock goes round, as in the     *)
(* modules of the two halves.  What those had to assume of the far end is  *)
(* now its behaviour: bytes move while there is room for them and somebody *)
(* reads.  A thread that has started gets on with it, a program closes the *)
(* socket it has no use for any more, and a failed connection is noticed:  *)
(* each of these steps is taken at most once.                              *)
FairSpec ==
  /\ Spec
  /\ WF_vars(SendLoop) /\ SF_vars(OneSecondPasses)
  /\ WF_vars(\E n \in -1..io.left : n # 0 /\ Send(n))
  /\ WF_vars(ReceiveLoop)
  /\ WF_vars(\E n \in 0..left : (asleep \/ n # 0) /\ Receive(n))
  /\ SF_vars(\/ txOwner = "dtor" /\ DestroyMuxer
             \/ rxOwner = "warn" /\ DestroyDemuxer)
  /\ WF_vars(\/ txOwner = "join" /\ DestroyMuxer
             \/ rxOwner = "join" /\ DestroyDemuxer
             \/ rxOwner = "gone" /\ ConnectionFails
             \/ SetNonBlocking \/ FailureSeen \/ SocketClosed)

-----------------------------------------------------------------------------
(* Properties.                                                             *)

(* The two ends agree on the framing, however the bytes were cut up by     *)
(* partial writes and reads: the next byte to read belongs to the packet   *)
(* and the field that readBytes (PacketDemuxer.cpp:198) is after, and has  *)
(* as many bytes of the field behind it as readBytes still asks for;       *)
(* between two packets it is the first byte of a header.                   *)
Framing ==
  ~rxError /\ pipe # <<>> /\ peer = "open" =>
    LET b == Head(pipe)
    IN  IF D!Reading /\ left > 0
          THEN /\ Decoded(b.packet) = frame
               /\ b.field = receiver /\ b.rest = left
          ELSE D!Reading \/ (b.field = "type" /\ b.rest = FieldSize)

(* The packet being written is on the line already, although sendAll pops  *)
(* it only afterwards (PacketMuxer.cpp:110).                               *)
Unsent(t) ==
  IF sender = "write" /\ t = current THEN Tail(txQueues[t]) ELSE txQueues[t]

Pending(t) == flying[t] \o Unsent(t)

(* From emplacePacket at one end to the callbacks at the other, the two    *)
(* halves and the connection implement Channel, with heartbeats, timeouts, *)
(* torn packets, a failing or closed connection and either end destroyed   *)
(* at any time.                                                            *)
C == INSTANCE Channel WITH
       Types <- UserTypes,
       Packets <- M!UserPackets,
       pending <- [t \in UserTypes |-> Pending(t)],
       members <- D!Members,
       inbox <- D!Given
ChannelSpec == C!Spec

(* What is posted is handed over, unless one of the ends has seen an error *)
(* or its destructor.                                                      *)
Delivery ==
  \A t \in UserTypes :
    Pending(t) # <<>> ~> Pending(t) = <<>> \/ txError \/ rxError

(* The muxer's destructor (PacketMuxer.cpp:30) needs a far end that reads, *)
(* and the demuxer is one, whatever it dispatches, until it stops itself.  *)
MuxerDestroyed == txOwner = "dtor" ~> txOwner = "gone" \/ rxError

(* The demuxer's destructor (PacketDemuxer.cpp:28) needs a read that has   *)
(* begun in blocking mode to end: the far end's heartbeats, or the end of  *)
(* the connection, see to it.                                              *)
DemuxerDestroyed == rxOwner = "warn" ~> rxOwner = "gone"

(* PacketDemuxer.cpp:224 and 225: the first packet from a PacketMuxer is   *)
(* always Hello, and the demuxer terminates if it is not.                  *)
HelloGate == D!HelloGate
=============================================================================
