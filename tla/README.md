# A TLA+ development for packetcomms

packetcomms sends packets of many types over one byte stream. A `PacketMuxer`
queues packets per type and one thread writes them; a `PacketDemuxer` has one
thread that reads them and calls the subscribers. This directory holds TLA+
models of both halves, of the two composed over a connection, of two programs
that use them in both directions, of the sockets underneath and of what
applications build on top; the TLC configurations that check the models; and
proofs, for every value of the constants, of all the safety properties that the
configurations check.

Line numbers are relative to the files under `src/` of the repository.

## 1. The system

| Part | State | Operations |
|---|---|---|
| `PacketMuxer` | a queue per type, `m_numPosted`, `m_numSent`, `m_transportError`, the recursive mutex `m_txLock`, the condition `m_txReady`, the send thread | constructor, destructor, `emplacePacket`, `ok`, counters; on the thread: `sendLoop`, `sendAll`, `sendPacket`, `writeBytes` |
| `PacketDemuxer`, `PacketSubscriber` | subscribers per type, `m_subscriberLock`, `m_transportError` (no lock), the receiver thread | constructor, destructor, `subscribe`, `unsubscribe`, `isSubscribed`, `ok`; on the thread: `receiveLoop`, `receiveHelloMessage`, `receivePacket`, `readBytes` |
| `PacketSubscription` | a shared pointer to a subscriber | move, destructor (unsubscribes) |
| `SimpleQueue` | a FIFO, a mutex, a condition | `emplace`, `lock`, `waitNotEmpty`, `waitNotempty`, `size`, `empty`, `front`, `pop` |
| `Sync` | one flag per call | `syncWithClient`, `syncWithServer` |
| `IdManager` | `m_map` and `m_reverse`, constant after construction | constructor, `toId`, `toString` |
| `ComPacket`, `ControlMessage` | type and bytes | construction, move |
| `Serialisation`, `PacketSerialisation`, `VectorStream` | a byte buffer per call | `serialise`, `deserialise` |
| `Socket` | a file descriptor | `Bind`, `Connect`, `Shutdown`, `read`, `write`, `setBlocking`, `readyForReading`, destructor |
| `TcpSocket` | | constructor, `Listen`, `Accept`, Nagle options |
| `UdpSocket` | | constructor, `SendTo`, `ReceiveFrom` |
| `Ipv4Address` | an address, valid or not | construction from a name and a port, queries |

How they interact. Application threads call `emplacePacket`, which takes
`m_txLock`, queues, counts and notifies. The send thread holds `m_txLock` all
the time except while it waits, also while it writes. The transport is shared:
one socket usually serves a muxer as `AbstractWriter` and a demuxer as
`AbstractReader`. The receiver reads without a lock and holds
`m_subscriberLock` while it calls all the subscribers of a packet; a callback
typically puts the packet into a `SimpleQueue`. `~PacketSubscription` calls back
into the demuxer. `Sync` uses a muxer, a demuxer and a subscription on each side.
Hello and heartbeats travel from a muxer to the demuxer at the far end.

What is hard. Two threads started in the initialiser lists of constructors that
have not ended; a condition variable with a timeout; an error flag written by
several parties, in the demuxer without synchronisation; partial, failing and
blocked reads and writes; packets torn by an error; counters that wrap;
subscriptions dropped in the middle of a dispatch; destructors that wait for a
thread that waits for the far end; two programs that wait for each other; a
socket shut down by one thread while another sleeps in it; ready messages that
nobody is subscribed to.

What makes each part correct.

* Muxer: per type FIFO order, nothing lost or duplicated before a failure and
  nothing written after one; the test for work is exact; no wake-up is lost; an
  error is never forgotten and a dead connection is noticed; no queue starves;
  the destructor returns.
* Demuxer: each packet reaches exactly the current subscribers of its type, in
  order; no callback after its subscription is gone; unsubscribing finds what
  it removes and returns; errors end the loop; the destructor returns.
* SimpleQueue: FIFO across consumers, no lost wake-up, `waitNotempty` returns
  with something to take.
* Sync: a rendezvous; both calls return.
* End to end: what is posted is handed over once, in order; the two ends never
  disagree on where a packet begins; either end can be destroyed at any time.
* Two programs: nobody waits in a circle.
* IdManager: its two tables fit each other, and those of the two ends fit as well.
* Sockets: errors of a stream are final, `Shutdown` releases whoever sleeps, an answer
  to a datagram goes to its sender.

`PROJECT.json` lists the hazards behind these, each at its line.

## 2. Modules

| Module | Models |
|---|---|
| `PacketStream` | abstract: what a muxer promises to the far end |
| `PacketMuxer` | `PacketMuxer.cpp/.h`, with the transport as an environment |
| `PacketMuxerProofs` | theorems about `PacketMuxer` |
| `PubSub` | abstract: what a demuxer promises to the application |
| `PacketDemuxer` | `PacketDemuxer.*`, `PacketSubscriber.*`, `PacketSubscription.*`, with the transport as an environment |
| `PacketDemuxerProofs` | theorems about `PacketDemuxer` |
| `Channel` | abstract: what packetcomms promises from `emplacePacket` to the callbacks |
| `IdManager` | `IdManager.h` |
| `IdManagerProofs` | theorems about `IdManager` |
| `Link` | composes `PacketMuxer`, a connection and `PacketDemuxer`, byte by byte |
| `LinkProofs` | theorems about `Link` |
| `Duplex` | two programs, each with muxer, demuxer, callbacks and a `SimpleQueue`, on one connection |
| `TcpSocket` | `Socket.*` and `TcpSocket.*` over a kernel |
| `TcpSocketProofs` | theorems about `TcpSocket` |
| `UdpSocket` | `Socket.*`, `UdpSocket.*` and `Ipv4Address.*` over a network |
| `UdpSocketProofs` | theorems about `UdpSocket` |
| `SimpleQueue` | `SimpleQueue.h` |
| `SimpleQueueProofs` | theorems about `SimpleQueue` |
| `Sync` | `Sync.cpp`, over streams that keep the promises of `PacketStream` and `PubSub` |
| `SyncProofs` | theorems about `Sync` |
| `MC...` | values for the constants of the above |

Definitions marked *Bug* are not used. Each is the mistake its neighbour
avoids; put in the neighbour's place it makes a property fail (section 4).

**Grain of atomicity.** A critical section that contains no wait and no
transport call is one step that needs its lock free. The send thread's and the
receiver's sections are split, since they write to the transport and call the
application in them; `txLock` and `subLock` say that they hold the lock. Every
`write` and `read` is a step, and so is every move to the next header field.
`wait_for` is three: give the lock up and sleep; wake (notified, spuriously, or
at the deadline); take the lock again. A thread that was notified or has
timed out competes for the lock with everybody else, so that packets may be
posted between its timeout and its heartbeat, as in the code.

**PacketMuxer.** `sender` is the program counter of `sendLoop`: `start` (line
62), `lock` (65), `check` (67-68), `waiting`/`woken`/`late` (72), `sendAll`
(88-90 and 108), `write` (131-140), `exited`. `current` and `todo` are the
iteration over the `unordered_map`, in any order; the code's map lacks the queues
of types never posted, for which `sendAll` does nothing. `io` has the state of
`sendPacket` and `writeBytes`: which of the three fields, how many of its bytes
are left, and the conjunction of the results so far. `write` returns -1, or any number of bytes from 0
(would block) to all of them. `line` is a history variable, the last
whole packet written. Both the transport's failure (`LinkDown`) and a single
failing write are possible at any time.

**PacketDemuxer.** `receiver` is the program counter of `receiveLoop` and
`receivePacket`; `greeting` is true while it is in `receiveHelloMessage`. `frame`
is the packet the far end is sending, chosen when its first byte can be read,
and `left` counts the bytes of the current field still to come; they may never
come. `blocking` and `asleep` model the thread's head start over
`setBlocking(false)`. `peer` is `open`, `closed` (end of stream: `poll` says ready
and `read` returns 0) or `reset` (`read` returns -1). `handle[s]` is the
`PacketSubscription` of subscriber `s`: `closing` is the gap between the test
of `use_count` in its destructor and the lock in `unsubscribe`. The far end is a
muxer with the same type table, so a frame is a packet of a known type; whole,
but with no promise that Hello comes first. The application does not drop a
subscription and destroy the demuxer at the same time, and its callbacks return
and do not call the demuxer.

**Link.** An instance of each half, and between them `pipe`: the bytes written
and not yet read, each with the packet and the field it belongs to and how many
bytes of the field are left. The actions are all those of the two halves, spurious
wake-ups and dropped subscriptions included, conjoined with what they do to the pipe: what `write` and `read` may return, free in the
halves, is what the bytes under way and the room for them allow. The type
in a header is an id; `TxTable` and `RxTable` are the tables of the two `IdManager`s, made
from the lists `TxIds` and `RxIds`. The muxer looks ids up in its `m_map`, the demuxer
looks names up in its `m_reverse`. A `write` error means that the connection is gone; the reader learns of
it later, or of an orderly end once it has read everything. `flying` is a
history: for each type, the packets begun on the line and not handed over.

**Duplex.** Packets are whole here and the send thread is three states. `use`
says which programs answer requests in their callbacks (the others hand them to a
thread of their own through a `SimpleQueue`) and which of its two halves a program
destroys first. What remains is who waits for whom: `LockFree` for whoever posts
or destroys a muxer, room in `pipe` for the send threads, a returned callback for
the receivers, the joins of the two destructors.

**TcpSocket.** `listener` and `backlog` are the listening socket, and `Ends` the
two ends of each client's connection: the server's end is in the kernel from
`Connect` on and becomes an object in `Accept`. `conn`, `heard` and `unread` are the
kernel's: whether this end is connected or shut, what it has learnt of the other
(end of stream, a reset that the next call reports, a reset reported), the bytes it
can read. Sockets closed with bytes unread, and bytes sent to a socket that is
shut, cause resets, as in Linux. `readyForReading` changes no state and is not an action:
its answer is in `PacketDemuxer`, where it is a hint, after which a read may still find
nothing (section 6). A `Connect` that fails changes nothing and is not an action.
The application writes only after connecting and does not destroy a socket while a
thread is inside a call.

**UdpSocket.** Clients ask with `SendTo` or, connected, with `write`; the server
answers at the address that `ReceiveFrom` has put into its one `Ipv4Address`.
Ports are ints that `htons` cuts, here modulo `PortModulus`. The network
loses, duplicates and reorders. `ReceiveNothing` is `ReceiveFrom` when it returns 0 because
it would block, or -1, and leaves the address object as it was; for an empty datagram it
returns 0 too, with the address filled in. A `ReceiveFrom` without an address object is not
modelled.

**IdManager.** `Table(list)` has the members `m_map` and `m_reverse`, and the local `id`, at the
end of the constructor's loop; each turn (`AddName`) puts the name into both. A name that occurs
twice overwrites its entry in `m_map` and is appended to `m_reverse` again, as in a
build without assertions; `AssertionHolds` is what the assertion says of all turns.
`ToId` looks into `m_map` and is `OutOfRange` where `at` throws; `ToString` looks into
`m_reverse`.

**SimpleQueue.** `at` is where each consumer is; `Patient` consumers use
`waitNotempty`, the others `waitNotEmpty`. `front` and `pop` are two steps of a
consumer that holds the lock.

**Sync.** `Script` is the sequence of message names the two sides synchronise
on. A ready message in flight is a number per name; on arrival it sets the flag
if the side is subscribed to the name, and is dropped otherwise. `sent` says
that the current call has sent a message: for the client, its acknowledgement.

## 3. Properties and runs

| Run | Shows | Bounds |
|---|---|---|
| `muxer` | ten properties of the muxer | two user types, payloads of 0 and 2 bytes, fields of 1 byte, posts up to a backlog of 2, counters modulo 4 |
| `demuxer` | seven properties of the demuxer | one user type, two subscribers, payloads of 0 and 2 bytes, no new packet once a subscriber was given 2 |
| `helpers` | four properties of SimpleQueue; a rendezvous for two names, and both sides return | three consumers, two of them without a timeout, two items, three calls of `emplace`; two messages of a name in flight to the client |
| `link` | framing and end-to-end refinement | one type (the demuxer's list has another one), one subscriber that joins and leaves, two posts of 0 or 2 bytes besides Hello and heartbeats, fields of 1 byte, 2 bytes on the connection, counters modulo 4 |
| `link_live` | delivery, and both destructors return | as `link`, with one post of 2 bytes, 1 byte on the connection, counters modulo 3 |
| `duplex` | no circular wait in three uses | one packet on the connection and one request, each way |
| `sockets` | what muxer, demuxer and servers assume of sockets | a listener and one client, 2 bytes each way; two askers with two requests each, empty or not |
| `link_hello`, `duplex_circle`, `demuxer_hang_up`, `demuxer_blocked`, `sync_reuse` | violations, section 6 | as above or smaller |

Muxer:

* `CountersMatchQueues`: the two wrapping counters differ by what is queued.
* `NoLostWakeup`: never asleep with packets queued or an error signalled.
* `ControlBacklogBounded`: at most one control packet is queued. It needs that
  the thread waits only when nothing is queued and that each pass drains.
* `ErrorLatched`: `m_transportError = !ok` (line 142) never undoes the
  destructor's signal or an earlier failure.
* `StreamSpec`: the muxer implements `PacketStream` with `backlog <- txQueues`
  and `failed <- transportError`. It has order, loss, duplication and silence
  after a failure in one statement.
* `DestructorReturns`, `HangUpDetected`, `BacklogDrains`, `PostersNotLockedOut`:
  liveness. `BacklogDrains` answers the worry of line 85: although a full queue
  keeps `sendAll` in its loop, nobody can post while it runs, since it holds the
  lock, so each pass ends and visits every queue. `HangUpDetected` says that the
  shutdown `@bug` of line 104 cannot happen any more, thanks to the heartbeat.

Demuxer:

* `NoCallbackAfterClose`: a callback that captured locals by reference is safe
  once the subscription's destructor has returned.
* `UnsubscribeFinds`: the assertion of line 78 holds although `use_count` is tested before
  the lock is taken, whoever else subscribes or drops in between. (That the demuxer still
  exists is up to the application, section 7.)
* `PubSubSpec`: the demuxer implements `PubSub`. The packet counts as published
  when the dispatch takes the lock; subscribers not yet called are *owed* it, and
  the refinement mapping adds it to their inboxes.
* `ResetDetected`, `DestructorReturns` (unless the receiver sleeps in a blocking
  read), `UnsubscribeReturns`: liveness.

Link:

* `Framing`: the next byte to read belongs to the packet and the field that
  `readBytes` is after, with as many bytes behind it as `readBytes` asks for.
* `ChannelSpec`: the composition implements `Channel`, where posting appends a packet
  and handing over removes the oldest of a type and gives it to the current
  subscribers. A packet counts as pending while it is queued, on the line, or read
  and not dispatched.
* `Delivery`, `MuxerDestroyed`, `DemuxerDestroyed` (run `link_live`): with a demuxer for its far end the
  muxer's destructor returns; with a muxer for its far end the demuxer's does, even if
  a read began in blocking mode, since heartbeats wake it.

Duplex: `LeaverLeaves`, `CallbacksReturn`, `RequestsAnswered`. `MCDuplex.SafeUses`
states the discipline under which they hold: at most one of the two programs posts
in callbacks, and that one destroys its demuxer first; the other one answers in a
thread of its own and destroys its muxer first. Whether both, one or none leaves is
up to the programs.

Sockets: `ErrorsAreFinal` (the muxer goes on after an error, and `Link` assumes that it fails again), `Released`,
`AnswersGoToAskers`.

SimpleQueue (run `helpers`): `ReturnsNotEmpty`, `NobodySleepsOnItems`, `FirstInFirstOut`,
`ItemsTaken`. Sync (run `helpers` as well): `Rendezvous`, `BothReturn`.

**Why the bounds are enough.** A backlog of two user packets, next to Hello and
heartbeats, gives two packets of one type (order within a queue), one in each of
two (order of the queues), packets posted while another is being written, and a
backlog that fills the counters' range, so that they wrap many times and at
every phase. Payloads of 0 and 2 bytes cover the field that needs no write, the
whole write and the partial write; a header field of one byte is whole, blocked
or failed. Two subscribers of one type are the least for which a dispatch can be
interrupted between two callbacks, with one that leaves, joins, or has been
called already. Three consumers have a waiter, a waiter woken in vain and a rival
that times out.

In `link` a posted packet is two or four bytes, Hello and each heartbeat three, on a
connection that holds two: every packet with a payload is cut up by both sides, an empty
one ends with its header. Two posts of different size show the order of packets of one type,
against each other and against Hello and heartbeats, with a subscriber that comes and goes in
between; `ChannelImplemented` (section 5) has it for any number. `link_live` has one post, and a
connection that holds one byte, the one that blocks soonest. In `duplex` the smallest connection is the one that
fills up soonest, and each program needs one request to make the other answer. `SafeUses`
takes one of each pair of uses that differ in the programs' names. In `sockets`
more clients would be more copies of the same connection.

`link` and `link_live` use a view, `MCLink.Behaviour`: states that differ only in variables nothing
reads any more count as one. These are histories of the halves (`line`, `first`), the
counters but for whether they are equal, which is all the send thread asks (their
difference is what is queued, by `CountersMatchQueues`), and its locals while they are
out of scope. All properties and guards have the same value in
states with the same view, and so have their successors. `sockets` and
`helpers` check two modules each in one run: the initial state says which, and the
variables of the other one stay put.

**Fairness.** The send thread and the receiver are scheduled (weak fairness).
Timers expire: strong fairness for the muxer's, because a spurious wake-up restarts
the wait and may interrupt it again and again, but not always. A thread that
wants a lock gets it eventually (strong fairness, for each such step): the code leaves
the locks free for a whole wait or a whole poll, but also takes them again.
Nothing makes applications post, subscribe or destroy. In `muxer` the
transport keeps taking bytes or fails. In `demuxer` nothing makes the far end send
or close. In `link_live` both assumptions are gone: bytes move while there is room and
somebody reads, and a program that has destroyed both halves closes its socket. In
`duplex` there is fairness for each thread, and one strong condition for all
the steps that a behaviour takes only finitely often, which is the same as one for each.
In `sockets` only a call that has something to return returns. In `helpers` the
consumers of a queue come back for more, and both programs that synchronise enter their
calls and messages arrive.

**Deadlock** is checked in every run but `sockets`, where all sockets may be closed and
all datagrams lost, and `duplex_circle`, whose counterexample is one. A destroyed muxer or demuxer, and a
finished script, stutter explicitly.

## 4. Mutants

Each property of each passing run is tied in `PROJECT.json` to one mistake in
the code that would break it: a lock left out, a notification left out, an
`if` for a `while`, the heartbeat or a repetition left out, the error code not
looked at, a torn packet not counted, a packet size off by one, and so on. TLC
refutes the property when the mistake replaces the definition it is of.

## 5. Proofs

`IdManagerProofs` proves of the two tables, for lists of any length: `KnownNames`, which
names `toId` has an id for; `NameOfId`, by which the id that `m_map` has for a name is a
place of `m_reverse` where that name stands, even for lists that repeat names; `IdOfId`,
by which the id that `m_map` has for the name at a place of `m_reverse` is that place, if the
assertion holds at each turn; and `EndsAgree`, by which two ends with such lists have
the same ids for the names both know, if their lists agree as far as both go. The
argument is about the loop, turn by turn. `TurnsRight` says that after each turn
`m_reverse` is the reserved names and the names so far, and that each entry of `m_map` points
to a place of `m_reverse` with its name. `TurnsDistinct` says that with the assertion each place
is pointed to, since no entry is ever overwritten. Both are by induction, in the form the
provers can follow: a first turn for which the statement fails is `LeastNumber` of a set, and
the turn before it leads to a contradiction. That the recursive function of the loop has the
values its definition says is shown in the same way (`LoopEnds`). `link` runs with lists of
different length.

`PacketMuxerProofs` proves, for every set of types, payload sizes, backlog and
counter width allowed by `MuxerAssumption`: `TypeCorrect`, `CountersCorrect`,
`WakeupsCorrect`, `ErrorLatches`, `HeartBeatsBounded` and `StreamImplemented`,
which are the safety properties of the run `muxer`. `MuxerAssumption` asks that the control type is
not a user type, that sizes are natural numbers and header fields are not empty,
and that `MaxQueued + 1 < CounterModulus`: with 2^32 packets queued the counters
would be equal again and the thread would go to sleep on them.

The argument.

* `CoreInv` = `TypeOK`, the lock is held exactly at the program points where
  `sendLoop` holds it, and a packet is written only while there is no error and
  its queue is not empty. The last part is what protects line 142: the
  destructor needs the lock, so nobody can signal while a packet is written, and
  what `sendPacket` overwrites is always `false`. `ErrorLatches` and
  `StreamImplemented` follow from it step by step.
* `CountInv` adds the counters, `NoLostWakeup`, and a bound on the backlog: at
  most `MaxQueued + 1` packets, and at most `MaxQueued` while the send thread is
  outside its lock, where it may yet post a Hello or a heartbeat. The bound is what
  makes the comparison modulo the counters' width exact: equal counters then
  mean empty queues (`IdleMeansEmpty`). Lemmas on the set of places of the queues
  say what a post and a pop do to its cardinality.
* `ControlInv` strengthens `ControlBacklogBounded`: no control packet is queued
  while the send thread is outside its lock, so the one it may post is alone.

The three invariants were checked with TLC on the instance of `muxer` before they
were proved. Two more, `QueuesByType` (a queue holds packets of its own type) and
`HeaderLeft`, are there for `LinkProofs`.

`PacketDemuxerProofs` proves, for all subscribers, types and sizes that
`DemuxerAssumption` allows: `TypeCorrect`, `NoLateCallback`, `UnsubscribeAssertion` and
`PubSubImplemented`, the safety properties of the run `demuxer`.

* `ReceiverInv` = `TypeOK`, a frame is Hello or a packet that can be sent
  (`FrameKnown`), and the receiver holds the lock exactly while it dispatches
  (`LockDiscipline`).
* `RegistryInv` says of `m_subscribers`: every entry is a subscription that has not
  been dropped, under its own type, and no subscription is entered twice
  (`QueuesWellFormed`); who is in a callback is in the queue being dispatched
  (`ActiveInQueue`); who is being dropped is still in its queue
  (`ClosingInQueue`); a destroyed demuxer has no entries (`GoneIsEmpty`). That
  nothing is entered twice is what makes `erase(itr)` of one entry enough, so that
  `NoLateCallback` follows.
* For `PubSubImplemented` the packet is published at the start of the dispatch, when
  all the members of the queue become those who are owed it; each `CallbackBegins`
  pays one of them, so that the mapped inbox does not change any more.
  The queue being dispatched over cannot change, because `Subscribe` and
  `Unsubscribe` need the lock.

`SimpleQueueProofs` proves, for any number of consumers and packets, the three
invariants of SimpleQueue in the run `helpers`: `WaitKeepsItsWord`, `NoLostNotification`,
`QueueIsFifo`. None is inductive alone. `QueueInv` adds that whoever is past the
wait holds the lock, so that nobody else can pop between the wait and `front`, and that what
`front` gave is still the head at `pop`. `QueueAssumption` says that patient
consumers are consumers and that the mark of a free lock is not the name of one.

`SyncProofs` proves `RendezvousCorrect` under the hypothesis `DifferentNames`: each
name is used once in the script, as in the run `helpers`. Without it the theorem is false
(a late ready message of the first use sets the flag of the second, section 6).
`SyncInv` says that a message in flight bears the name of a call that its sender has
entered, and that a flag is set only if the other side is at least as far.
The bound on messages in flight plays no part in the argument.

`TcpSocketProofs` proves `WriteErrorsFinal`, for any number of clients, backlog and
capacity. `TcpInv` adds to what failed writers know that both ends of a connection come into
being together, and that this goes for every client in the backlog: otherwise a new
connection could bring an end back to life where a write has failed. The lemma `CutStep` says
that whatever ends connections only adds reasons to fail in `write`; the steps of readers
and writers are looked at one by one. `UdpSocketProofs` proves `AnswersCorrect` from `UdpAssumption` (ports are
different); `UdpInv` follows a request from its sender over the server's address
object back to the port it came from. Both theorems are about the specifications
`TcpSpec` and `UdpSpec`, of which `MCSockets` runs one or the other.

`LinkProofs` proves `FramingCorrect`, for lists of names that `LinkAssumption` allows:
names occur once, the longer list begins with the shorter one, and both have the
types in use. `LinkInv` is the conjunction of `CoreInv`, `ReceiverInv` and, while the
demuxer has seen no error, `Connected`: from the demuxer over the bytes under way to the
muxer each byte is one that may come after the one before. That is a statement
about neighbours only, so that a write adds its bytes at one end, and a read takes
them at the other, without the proof ever having to speak of the
stream as a whole. A read takes several bytes at once, and that those are the ones
of the field asked for is the lemma `BytesAhead`, by the least byte that is not.
`HalvesImplemented` says that the composition implements the modules of its two halves:
what is proved of them holds of the two ends of a connection.

`ChannelImplemented` says that the composition implements `Channel`, for any types, sizes,
posts, capacity of the connection, partial writes and reads, failures and destructors.
The halves' own refinements do not give it, since each leaves its transport open.
`LinkInv` does not either, since it relates only neighbouring bytes, while the order
of packets is a matter of the whole connection. What is needed is `FlyingInv`: for
each type there is a numbering of the bytes under way, which begins at the demuxer
with the packets it has begun to read, rises by one at each first byte of a header of the
type, and ends at the muxer with the packets it has begun to write; and a byte of the type
with the number `n` belongs to the `n`-th packet of `flying`. Hence the packet in the
demuxer's hands is the oldest of its type (`FrameIsOldest`) and the one being written the
youngest (`CurrentIsYoungest`).

* A write extends the numbering at one end (`SendNumbers`), a read takes away what it has
  counted at the other (`ReceiveNumbers`), and when a packet has been received all numbers
  of its type go down by one (`PacketReceivedKeepsFlying`). That is right only because
  no byte of a packet received whole is still under way (`LaterPackets`,
  `CurrentNotReceived`): a field that ended early, or a size that was misread, would
  break it.
* A post changes only the end of one queue, which is the queue of the packet's type by
  `QueuesByType` (`PostPosts`). A packet that goes from its queue to the line, or from
  the line to the demuxer, changes nothing in what is pending (`PendingStep`).
* Only the start of a dispatch hands anything over: the packet at the head of its
  type, to whoever is subscribed then (`DispatchHandsOver`, from the demuxer's
  `DispatchPublishes` and `DispatchIsTheOnlyWay`).
* Once the connection has ended or the demuxer has seen an error no byte arrives any
  more, and the numbering is not asked for. What the demuxer can still dispatch is the
  packet it has read whole, which `FrameIsOldest` speaks of.

TLC checked `FlyingInv` on the instance of `link`, and with two posts and room for seven
bytes, before it was proved.

All the inductive invariants hold in every state of the small instances too.

Only model-checked: liveness, since fairness and `ENABLED` are outside the prover's
reach. That leaves `Duplex`, whose properties are all of this kind, to TLC alone.
Every safety property of a passing run is a theorem.

## 6. Where code and documentation disagree

Each is a run that expects a violation.

* `link_hello`: a user packet can be written before Hello (`PacketDemuxer.cpp:224`
  says never), and after a hello timeout it is accepted (`:225` says the demuxer
  terminates). If it comes in time the demuxer shuts down, on a stream no
  application did anything wrong to.
* `duplex_circle`: two programs that each destroy their demuxer first, and leave at the
  same time, never finish: nobody reads, both send threads keep `m_txLock` while they try
  to write, and the destructors cannot set the flag that "causes threads to exit"
  (`PacketMuxer.cpp:33`). The same wait takes one muxer only, if its far end stays
  connected and does not read. Two programs that both answer in callbacks end up in
  it as well, without leaving.
* `demuxer_hang_up`: an orderly hang-up does not end the loop
  (`PacketDemuxer.cpp:104`, `:155`); the receiver spins until it is destroyed.
* `demuxer_blocked`: a read begun before the transport is non-blocking does not
  see the destructor's signal (`PacketDemuxer.cpp:29`).
* `sync_reuse`: with one message name used twice in a row the server can wait for ever
  for an acknowledgement that was given (`Sync.h:18`).

Three smaller ones have no run. `PacketDemuxer.cpp:155-156` says that the first read of a packet
treats zero bytes as an error, because `readyForReading` said that there were bytes; 157-158
says that this is incorrect, because `POLLIN` does not promise any, and the code below
passes `false`: zero bytes are read again. The models follow the code: in `PacketDemuxer` the
answer commits the receiver to a packet whose first read may find nothing again and again,
and no property relies on more. After an error `sendAll` leaves the rest of the container
queued (`PacketMuxer.cpp:97` says it will be empty). `Accept` on a socket that listens
without having been bound waits (`TcpSocket.cpp:71` says it returns null).

## 7. Not modelled

* Bytes, byte order, cereal, `VectorStream`: no state is shared, and a packet's
  content does not steer any of the code. The size on the wire is modelled.
* Frames no muxer writes (unknown or invalid types, absurd sizes).
* Callbacks that call their own demuxer (a self-deadlock on `std::mutex`), and
  destruction of a demuxer while a subscription is being dropped: both are misuse the
  code does not defend against.
* `ok`, `getNumPosted`, `getNumSent`, `isSubscribed`: unsynchronised
  readers without effect on the library's state. The demuxer's own unsynchronised
  flag is modelled as if it were atomic, which it is on the builds the project targets.
* Of the sockets: Nagle's algorithm, `ReadyForWriting`, `GetPeerAddress`, `SetPort`, the
  text of host names, Windows. A second program in the same process that reuses
  a descriptor, and copies of a socket: nothing in the repository does that. A blocking `send`
  that a signal interrupts returns -1 with `EINTR`, which `Socket.cpp:198` does not tell from a
  failure; the models' errors are those that last, as for the sockets the muxer makes
  non-blocking.
* Payloads of 2 GiB and more, for which the 32-bit size in the header and the `int` of
  `ComPacket` are too small.

## 8. Plan

In this order.

1. `Duplex`: the lock discipline behind its liveness properties as an inductive
   invariant (who holds the muxer's lock, who may wait for whom).
2. `PacketDemuxer`: an unsynchronised `isSubscribed`, and moves between
   subscriptions (move assignment swaps, so the old subscription lives on).
3. `VectorStream`: writing and reading back, as pure functions.
