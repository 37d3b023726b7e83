--------------------------- MODULE PacketDemuxer ----------------------------
(***************************************************************************)
(* The receiving half of packetcomms: PacketDemuxer, PacketSubscriber and  *)
(* PacketSubscription.                                                     *)
(*                                                                         *)
(* Actors: the receiver thread (receiveLoop), the application threads that *)
(* subscribe and drop subscriptions, the owner that constructs and         *)
(* destroys the demuxer, and the transport behind AbstractReader.  Only    *)
(* the receiver keeps m_subscriberLock from one step to the next; the      *)
(* other critical sections are single steps that need it free.             *)
(* m_transportError is read and written without any lock.                  *)
(***************************************************************************)
EXTENDS Integers, Sequences, SequencesExt

CONSTANTS
  UserTypes,       \* packet types registered by the application
  ControlType,     \* IdManager::ControlPacket
  Payloads,        \* what a user packet may carry
  DataSize,        \* payload -> its size on the wire
  FieldSize,       \* size of each header field, sizeof(uint32_t) in the code
  Subs,            \* places where the application keeps a PacketSubscription
  TypeOf,          \* the packet type each of them subscribes to
  MaxInbox         \* bound: no packet starts once a subscriber was given this many

ASSUME DemuxerAssumption ==
  /\ ControlType \notin UserTypes
  /\ DataSize \in [Payloads -> Nat]
  /\ FieldSize \in Nat \ {0}
  /\ TypeOf \in [Subs -> UserTypes]
  /\ MaxInbox \in Nat

Hello == [type |-> ControlType, payload |-> "Hello"]
HeartBeat == [type |-> ControlType, payload |-> "HeartBeat"]
InvalidPacket == [type |-> "__INVALID__", payload |-> "None"]
UserPackets == [type : UserTypes, payload : Payloads]
Packets == UserPackets \cup {Hello, HeartBeat}

VARIABLES
  owner,           \* "ctor", "live", "warn", "join", "gone"
  receiver,        \* where the receiver thread is
  greeting,        \* the receiver is still in receiveHelloMessage
  frame, left,     \* receivePacket: the packet on the wire, bytes of the field left
  blocking,        \* the mode of the transport
  asleep,          \* a read issued in blocking mode waits for data
  transportError,  \* m_transportError
  peer,            \* the far end: "open", "closed" (end of stream), "reset"
  subLock,         \* "free" or "receiver"
  subscribers,     \* m_subscribers
  position,        \* the dispatch loop's iterator, 0 outside the loop
  active,          \* the subscriber whose callback is running, if any
  handle,          \* each PacketSubscription: "none", "live", "closing"
  first,           \* history: <<the first packet received>>, <<>> before
  inbox            \* history: what each callback was given

readVars == <<greeting, frame, left, asleep>>
dispatchVars == <<position, active, inbox>>
subVars == <<subscribers, handle>>
transportVars == <<blocking, peer>>
vars == <<owner, receiver, readVars, transportError, subLock, dispatchVars, subVars,
          transportVars, first>>

Init ==
  /\ owner = "ctor" /\ receiver = "poll" /\ greeting = TRUE
  /\ frame = InvalidPacket /\ left = 0 /\ asleep = FALSE
  /\ blocking = TRUE /\ peer = "open"
  /\ transportError = FALSE
  /\ subLock = "free"
  /\ subscribers = [t \in UserTypes |-> <<>>]
  /\ position = 0
  /\ active = {}
  /\ handle = [s \in Subs |-> "none"]
  /\ first = <<>>
  /\ inbox = [s \in Subs |-> <<>>]

(* lock_guard on m_subscriberLock.  Bug: it is left out. *)
LockForgotten == TRUE
LockFree == subLock = "free"

-----------------------------------------------------------------------------
(* The owner.  The receiver already runs when the constructor makes the    *)
(* transport non-blocking.  The application does not destroy the demuxer   *)
(* while it is dropping a subscription, nor the other way round.           *)

SetNonBlocking ==
  /\ owner = "ctor"
  /\ owner' = "live"
  /\ blocking' = FALSE
  /\ UNCHANGED <<receiver, readVars, transportError, subLock, dispatchVars, subVars,
                 peer, first>>

DestructorSignals ==
  /\ owner = "live"
  /\ \A s \in Subs : handle[s] # "closing"
  /\ owner' = "warn"
  /\ transportError' = TRUE
  /\ UNCHANGED <<receiver, readVars, subLock, dispatchVars, subVars, transportVars,
                 first>>

WarnAboutSubscribers ==
  /\ owner = "warn"
  /\ LockFree
  /\ owner' = "join"
  /\ UNCHANGED <<receiver, readVars, transportError, subLock, dispatchVars, subVars,
                 transportVars, first>>

DestructorJoins ==
  /\ owner = "join"
  /\ receiver = "exited"
  /\ owner' = "gone"
  /\ subscribers' = [t \in UserTypes |-> <<>>]
  /\ UNCHANGED <<receiver, readVars, transportError, subLock, dispatchVars, handle,
                 transportVars, first>>

-----------------------------------------------------------------------------
(* The application threads.                                                *)

Subscribe(s) ==
  /\ owner = "live"
  /\ handle[s] = "none"
  /\ LockFree
  /\ handle' = [handle EXCEPT ![s] = "live"]
  /\ subscribers' = [subscribers EXCEPT ![TypeOf[s]] = Append(@, s)]
  /\ UNCHANGED <<owner, receiver, readVars, transportError, subLock, dispatchVars,
                 transportVars, first>>

Registered(s) == Contains(subscribers[TypeOf[s]], s)

(* use_count() > 1: the demuxer's map shares the subscriber.  Bug: no test.*)
AlwaysShared(s) == TRUE
Shared(s) == Registered(s)

(* ~PacketSubscription, up to the lock of unsubscribe. *)
DropSubscription(s) ==
  /\ owner \in {"live", "gone"}
  /\ handle[s] = "live"
  /\ handle' = [handle EXCEPT ![s] = IF Shared(s) THEN "closing" ELSE "none"]
  /\ UNCHANGED <<owner, receiver, readVars, transportError, subLock, dispatchVars,
                 subscribers, transportVars, first>>

(* The search of unsubscribe; erase(itr) takes the one entry it found. *)
Unsubscribe(s) ==
  /\ handle[s] = "closing"
  /\ LockFree
  /\ handle' = [handle EXCEPT ![s] = "none"]
  /\ \E i \in 1..Len(subscribers[TypeOf[s]]) :
       /\ subscribers[TypeOf[s]][i] = s
       /\ subscribers' = [subscribers EXCEPT ![TypeOf[s]] = RemoveAt(@, i)]
  /\ UNCHANGED <<owner, receiver, readVars, transportError, subLock, dispatchVars,
                 transportVars, first>>

-----------------------------------------------------------------------------
(* The receiver: receiveLoop, receiveHelloMessage, receivePacket, readBytes.*)

TestError ==
  /\ receiver = "loop"
  /\ receiver' = IF transportError THEN "exited" ELSE "poll"
  /\ UNCHANGED <<owner, readVars, transportError, subLock, dispatchVars, subVars,
                 transportVars, first>>

(* receivePacket returns false; the hello phase ends all the same. *)
GiveUp ==
  /\ receiver' = "loop"
  /\ greeting' = FALSE
  /\ frame' = InvalidPacket
  /\ left' = 0
  /\ asleep' = FALSE
  /\ UNCHANGED <<owner, subLock, dispatchVars, subVars, transportVars, first>>

(* readyForReading: nothing came in time.  The end of the stream and a     *)
(* reset count as readable.                                                *)
PollTimesOut ==
  /\ receiver = "poll"
  /\ peer = "open"
  /\ GiveUp
  /\ UNCHANGED transportError

(* Ready is a hint: the read that follows may find nothing all the same    *)
(* (PacketDemuxer.cpp:157).                                                *)
PollReady(p) ==
  /\ receiver = "poll"
  /\ \A s \in Subs : Len(inbox[s]) < MaxInbox \/ peer # "open"
  /\ receiver' = "type"
  /\ frame' = p
  /\ left' = FieldSize
  /\ UNCHANGED <<owner, greeting, asleep, transportError, subLock, dispatchVars,
                 subVars, transportVars, first>>

Reading == receiver \in {"type", "size", "data"}

(* readBytes tests m_transportError before each read and after the last.   *)
(* Bug: only a failing read ends it.                                       *)
NeverInterrupted == FALSE
Interrupted == transportError

(* A read in blocking mode finds nothing and sleeps in the kernel, where   *)
(* neither a later change of mode nor m_transportError reaches it.         *)
FallAsleep ==
  /\ Reading /\ left > 0 /\ ~Interrupted
  /\ blocking /\ ~asleep
  /\ peer = "open"
  /\ asleep' = TRUE
  /\ UNCHANGED <<owner, receiver, greeting, frame, left, transportError, subLock,
                 dispatchVars, subVars, transportVars, first>>

(* AbstractReader::read: -1 on an error, 0 at the end of the stream and,   *)
(* when it does not block, also when there is nothing to read yet.         *)
ReadResults ==
  CASE peer = "reset" -> {-1}
    [] peer = "closed" -> {0}
    [] peer = "open" -> IF blocking \/ asleep THEN 1..left ELSE 0..left

(* Every call of readBytes leaves transportErrorOnZeroBytes FALSE. *)
ZeroBytesIsError == FALSE

(* Bug: the error code is not looked at. *)
NegativeIgnored(n) == n = 0 /\ ZeroBytesIsError
Failed(n) == n < 0 \/ (n = 0 /\ ZeroBytesIsError)

ReadFails ==
  /\ Reading /\ left > 0
  /\ asleep \/ ~Interrupted
  /\ \E n \in ReadResults : Failed(n)
  /\ transportError' = TRUE
  /\ GiveUp

ReadBytes(n) ==
  /\ Reading /\ left > 0
  /\ asleep \/ ~Interrupted
  /\ n \in ReadResults /\ ~Failed(n)
  /\ left' = left - n
  /\ asleep' = FALSE
  /\ UNCHANGED <<owner, receiver, greeting, frame, transportError, subLock,
                 dispatchVars, subVars, transportVars, first>>

ReadInterrupted ==
  /\ Reading /\ ~asleep
  /\ Interrupted
  /\ GiveUp
  /\ UNCHANGED transportError

(* Bug: one byte short. *)
OffByOne(p) == IF p.type = ControlType THEN 0 ELSE DataSize[p.payload] - 1
DataSizeOf(p) == IF p.type = ControlType THEN 1 ELSE DataSize[p.payload]

FieldRead ==
  /\ Reading /\ left = 0 /\ ~Interrupted
  /\ CASE receiver = "type" -> receiver' = "size" /\ left' = FieldSize
       [] receiver = "size" -> receiver' = "data" /\ left' = DataSizeOf(frame)
       [] receiver = "data" -> receiver' = "packet" /\ left' = 0
  /\ UNCHANGED <<owner, greeting, frame, asleep, transportError, subLock,
                 dispatchVars, subVars, transportVars, first>>

-----------------------------------------------------------------------------
(* The receiver, with a whole packet.                                      *)

FirstPacket == first' = IF first = <<>> THEN <<frame>> ELSE first

(* Back to the loop; std::move has left an invalid packet behind. *)
NextPacket == receiver' = "loop" /\ frame' = InvalidPacket

HelloRead ==
  /\ receiver = "packet"
  /\ greeting
  /\ greeting' = FALSE
  /\ transportError' = (transportError \/ frame # Hello)
  /\ NextPacket
  /\ FirstPacket
  /\ UNCHANGED <<owner, left, asleep, subLock, dispatchVars, subVars,
                 transportVars>>

(* handleControlMessage does nothing. *)
ControlRead ==
  /\ receiver = "packet"
  /\ ~greeting
  /\ frame.type = ControlType
  /\ NextPacket
  /\ FirstPacket
  /\ UNCHANGED <<owner, greeting, left, asleep, transportError, subLock, dispatchVars,
                 subVars, transportVars>>

DispatchBegins ==
  /\ receiver = "packet"
  /\ ~greeting
  /\ frame.type # ControlType
  /\ LockFree
  /\ subLock' = "receiver"
  /\ receiver' = "dispatch"
  /\ position' = 1
  /\ FirstPacket
  /\ UNCHANGED <<owner, readVars, transportError, active, inbox, subVars,
                 transportVars>>

Queue == subscribers[frame.type]

CallbackBegins ==
  /\ receiver = "dispatch"
  /\ active = {}
  /\ position <= Len(Queue)
  /\ active' = {Queue[position]}
  /\ inbox' = [inbox EXCEPT ![Queue[position]] = Append(@, frame)]
  /\ position' = position + 1
  /\ UNCHANGED <<owner, receiver, readVars, transportError, subLock, subVars,
                 transportVars, first>>

CallbackEnds ==
  /\ active # {}
  /\ active' = {}
  /\ UNCHANGED <<owner, receiver, readVars, transportError, subLock, position, inbox,
                 subVars, transportVars, first>>

(* Bug: the lock is not released. *)
LockKept == UNCHANGED subLock
ReleaseLock == subLock' = "free"

DispatchDone ==
  /\ receiver = "dispatch"
  /\ active = {}
  /\ position > Len(Queue)
  /\ ReleaseLock
  /\ position' = 0
  /\ NextPacket
  /\ UNCHANGED <<owner, greeting, left, asleep, transportError, active, inbox,
                 subVars, transportVars, first>>

-----------------------------------------------------------------------------
(* The transport; the end of the program.                                  *)

PeerGoes(how) ==
  /\ peer = "open" \/ (peer = "closed" /\ how = "reset")
  /\ peer' = how
  /\ UNCHANGED <<owner, receiver, readVars, transportError, subLock, dispatchVars,
                 subVars, blocking, first>>

Destroyed ==
  /\ owner = "gone"
  /\ \A s \in Subs : handle[s] = "none"
  /\ UNCHANGED vars

ReceiveLoop ==
  \/ TestError \/ PollTimesOut \/ ReadFails \/ ReadInterrupted \/ FieldRead
  \/ HelloRead \/ ControlRead
  \/ DispatchBegins \/ CallbackBegins \/ CallbackEnds \/ DispatchDone
  \/ \E p \in Packets : PollReady(p)

Next ==
  \/ SetNonBlocking \/ DestructorSignals \/ WarnAboutSubscribers \/ DestructorJoins
  \/ \E s \in Subs : Subscribe(s) \/ DropSubscription(s) \/ Unsubscribe(s)
  \/ ReceiveLoop \/ FallAsleep
  \/ \E n \in 0..left : ReadBytes(n)
  \/ \E how \in {"closed", "reset"} : PeerGoes(how)
  \/ Destroyed

Spec == Init /\ [][Next]_vars

(* What the code's scheduling gives: the receiver runs, polls time out, the*)
(* application's callbacks return, a thread after the lock gets it in the  *)
(* end (the receiver leaves it free while it reads a packet), and a read   *)
(* that sleeps is woken when the far end closes.  Nothing makes the far    *)
(* end send, and nothing makes it close.                                   *)
FairSpec ==
  /\ Spec
  /\ WF_vars(ReceiveLoop)
  /\ WF_vars(asleep /\ ReadBytes(0))
  /\ WF_vars(SetNonBlocking)
  /\ SF_vars(WarnAboutSubscribers) /\ WF_vars(DestructorJoins)
  /\ \A s \in Subs : SF_vars(Unsubscribe(s))

-----------------------------------------------------------------------------
(* Properties.                                                             *)

(* Every variable has the type of the field it models. *)
TypeOK ==
  /\ owner \in {"ctor", "live", "warn", "join", "gone"}
  /\ receiver \in {"loop", "poll", "type", "size", "data", "packet", "dispatch",
                   "exited"}
  /\ {greeting, blocking, asleep, transportError} \subseteq BOOLEAN
  /\ frame \in Packets \cup {InvalidPacket}
  /\ left \in Nat
  /\ peer \in {"open", "closed", "reset"}
  /\ subLock \in {"free", "receiver"}
  /\ subscribers \in [UserTypes -> Seq(Subs)]
  /\ position \in Nat
  /\ active \subseteq Subs
  /\ handle \in [Subs -> {"none", "live", "closing"}]
  /\ first = <<>> \/ first \in {<<p>> : p \in Packets}
  /\ inbox \in [Subs -> Seq(Packets)]

(* Once ~PacketSubscription has returned, its callback neither runs nor    *)
(* will run: callbacks may capture locals by reference, as Sync.cpp does.  *)
NoCallbackAfterClose == \A s \in active : handle[s] # "none"

(* The assertion of PacketDemuxer.cpp:78: between the test of use_count in *)
(* ~PacketSubscription and the search in unsubscribe, which takes the lock *)
(* only then, the subscriber stays registered, whoever else comes and goes.*)
UnsubscribeFinds == \A s \in Subs : handle[s] = "closing" => Registered(s)

(* The demuxer implements its promise, although it calls the subscribers   *)
(* one by one: a packet counts as published when the dispatch takes the    *)
(* lock, and those not yet called are owed it.                             *)
Owed(s) ==
  receiver = "dispatch" /\ \E i \in position..Len(Queue) : Queue[i] = s

Members == {s \in Subs : Registered(s)}
Given == [s \in Subs |-> IF Owed(s) THEN Append(inbox[s], frame) ELSE inbox[s]]

PS == INSTANCE PubSub WITH members <- Members, inbox <- Given
PubSubSpec == PS!Spec

(* A reset connection is noticed, whatever the receiver is doing. *)
ResetDetected == peer = "reset" ~> transportError

(* The destructor returns, even while the far end is silent in the middle  *)
(* of a packet, unless the receiver sleeps in a blocking read.             *)
DestructorReturns == owner = "warn" /\ ~asleep ~> owner = "gone"

(* Dropping a subscription returns, whatever is being dispatched. *)
UnsubscribeReturns == \A s \in Subs : handle[s] = "closing" ~> handle[s] = "none"

(* PacketDemuxer.cpp:105: the loop exits if the other end hangs up. *)
HangUpEndsLoop == peer = "closed" ~> receiver = "exited" \/ peer = "reset"

(* PacketDemuxer.cpp:224: if the first message is not Hello, the demuxer   *)
(* terminates, so that no subscriber ever sees such a stream.              *)
HelloGate == active # {} => first = <<Hello>>

(* PacketDemuxer.cpp:29: the destructor's signal makes the thread exit. *)
SignalEndsLoop == owner = "warn" ~> receiver = "exited"
=============================================================================
