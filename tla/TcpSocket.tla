----------------------------- MODULE TcpSocket ------------------------------
(***************************************************************************)
(* Stream sockets: the classes Socket and TcpSocket in a program that      *)
(* listens, accepts and serves clients, and in its clients.  What the      *)
(* kernel does is external and as in Linux; bytes are counted only.  At    *)
(* each end of a connection one thread reads, another one writes, and a    *)
(* third shuts the socket down or changes its mode; the socket is          *)
(* destroyed when nobody is inside a call.                                 *)
(***************************************************************************)
EXTENDS Integers, Sequences, SequencesExt

CONSTANTS
  Clients,       \* the clients
  QueueSize,     \* connections that may wait to be accepted
  Capacity       \* bytes a connection holds in each direction

ASSUME TcpAssumption == QueueSize \in Nat \ {0} /\ Capacity \in Nat \ {0}

Client(c) == <<c, "client">>
Server(c) == <<c, "server">>     \* what Accept returns for the client
Ends == {Client(c) : c \in Clients} \cup {Server(c) : c \in Clients}
Peer(e) == IF e[2] = "client" THEN Server(e[1]) ELSE Client(e[1])

VARIABLES
  listener,    \* "made", "bound", "adrift" (listens, but not bound), "listening",
               \* "shut", "destroyed"
  backlog,     \* clients connected and not yet accepted
  accepter,    \* the thread that accepts: "idle", "asleep"
  life,        \* end -> its object: "none", "live", "destroyed"
  conn,        \* end -> "none", "up", "shut"
  heard,       \* end -> of its peer: "open", "end", "reset", "broken" (read returned -1)
  unread,      \* end -> bytes that it can read
  blocking,    \* end -> its mode
  reader,      \* end -> its reader: "idle", "asleep" in recv
  wrote        \* end -> the last result of write: "some", "none", "error"

listenVars == <<listener, backlog, accepter>>
lineVars == <<conn, heard, unread>>
tcpVars == <<listenVars, life, lineVars, blocking, reader, wrote>>

TcpInit ==
  /\ listener = "made" /\ backlog = <<>> /\ accepter = "idle"
  /\ life = [e \in Ends |-> IF e[2] = "client" THEN "live" ELSE "none"]
  /\ conn = [e \in Ends |-> "none"]
  /\ heard = [e \in Ends |-> "open"]
  /\ unread = [e \in Ends |-> 0]
  /\ blocking = [e \in Ends |-> TRUE]
  /\ reader = [e \in Ends |-> "idle"]
  /\ wrote = [e \in Ends |-> "none"]

-----------------------------------------------------------------------------
(* The kernel ends connections at the given ends.  Their peers hear of it, *)
(* and lose what they have not read yet if the connection is aborted.      *)
Cut(ends, aborted) ==
  /\ conn' = [e \in Ends |-> IF e \in ends THEN "shut" ELSE conn[e]]
  /\ heard' = [e \in Ends |->
       CASE Peer(e) \in aborted /\ heard[e] # "broken" -> "reset"
         [] Peer(e) \in ends \ aborted /\ heard[e] = "open" -> "end"
         [] OTHER -> heard[e]]
  /\ unread' = [e \in Ends |-> IF Peer(e) \in aborted THEN 0 ELSE unread[e]]

(* Nobody will accept these any more. *)
DropBacklog ==
  LET waiting == {Server(c) : c \in ToSet(backlog)}
  IN  backlog' = <<>> /\ Cut(waiting, waiting)

-----------------------------------------------------------------------------
(* The listening socket.  Bind fails if the port is in use; a socket that  *)
(* listens without having been bound gets a port nobody knows.             *)

Bind ==
  /\ listener = "made"
  /\ listener' = "bound"
  /\ UNCHANGED <<backlog, accepter, life, lineVars, blocking, reader, wrote>>

Listen ==
  /\ listener \in {"made", "bound"}
  /\ listener' = IF listener = "bound" THEN "listening" ELSE "adrift"
  /\ UNCHANGED <<backlog, accepter, life, lineVars, blocking, reader, wrote>>

Listens == listener \in {"listening", "adrift"}

AcceptBegins ==
  /\ accepter = "idle" /\ listener # "destroyed"
  /\ accepter' = "asleep"
  /\ UNCHANGED <<listener, backlog, life, lineVars, blocking, reader, wrote>>

(* accept returns the descriptor of the first connection. *)
Accept ==
  /\ accepter = "asleep" /\ Listens /\ backlog # <<>>
  /\ life' = [life EXCEPT ![Server(Head(backlog))] = "live"]
  /\ backlog' = Tail(backlog)
  /\ accepter' = "idle"
  /\ UNCHANGED <<listener, lineVars, blocking, reader, wrote>>

(* It returns -1, and Accept null, if the socket does not listen, or there *)
(* is no descriptor left for the connection.                               *)
AcceptFails ==
  /\ accepter = "asleep" /\ (~Listens \/ backlog # <<>>)
  /\ accepter' = "idle"
  /\ UNCHANGED <<listener, backlog, life, lineVars, blocking, reader, wrote>>

ShutdownListener ==
  /\ Listens
  /\ listener' = "shut"
  /\ DropBacklog
  /\ UNCHANGED <<accepter, life, blocking, reader, wrote>>

DestroyListener ==
  /\ listener # "destroyed" /\ accepter = "idle"
  /\ listener' = "destroyed"
  /\ DropBacklog
  /\ UNCHANGED <<accepter, life, blocking, reader, wrote>>

-----------------------------------------------------------------------------
(* Connected sockets. *)

(* Connect returns false, with nothing changed, if the address is not      *)
(* valid or nobody listens there.                                          *)
Connect(c) ==
  /\ life[Client(c)] = "live" /\ conn[Client(c)] = "none"
  /\ listener = "listening" /\ Len(backlog) < QueueSize
  /\ conn' = [conn EXCEPT ![Client(c)] = "up", ![Server(c)] = "up"]
  /\ backlog' = Append(backlog, c)
  /\ UNCHANGED <<listener, accepter, life, heard, unread, blocking, reader, wrote>>

Connected(e) == life[e] = "live" /\ conn[e] # "none"

(* A read will not wait: there are bytes, the end of them, or an error.    *)
Readable(e) == unread[e] > 0 \/ heard[e] # "open" \/ conn[e] = "shut"

(* recv has n > 0 bytes, or for n = 0 the end of the stream or, once, the  *)
(* error that says why.                                                    *)
Read(e, n) ==
  /\ Connected(e) /\ Readable(e)
  /\ IF unread[e] > 0 THEN n \in 1..unread[e] ELSE n = 0
  /\ unread' = [unread EXCEPT ![e] = @ - n]
  /\ heard' = [heard EXCEPT ![e] = IF @ = "reset" THEN "broken" ELSE @]
  /\ reader' = [reader EXCEPT ![e] = "idle"]
  /\ UNCHANGED <<listenVars, life, conn, blocking, wrote>>

(* There is nothing: recv sleeps, or it fails with EAGAIN and read returns *)
(* 0, as it does at the end of the stream.                                 *)
ReadNothing(e) ==
  /\ Connected(e) /\ reader[e] # "asleep" /\ ~Readable(e)
  /\ reader' = [reader EXCEPT ![e] = IF blocking[e] THEN "asleep" ELSE "idle"]
  /\ UNCHANGED <<listenVars, life, lineVars, blocking, wrote>>

Room(e) == Capacity - unread[Peer(e)]

(* write returns -1: the socket is shut at this end, or the connection was *)
(* reset.  Bug: EAGAIN is an error like the others.                        *)
EagainIsError(e) == Room(e) = 0 \/ conn[e] = "shut" \/ heard[e] \in {"reset", "broken"}
WriteError(e) == conn[e] = "shut" \/ heard[e] \in {"reset", "broken"}

(* send takes some of the bytes.  If the peer has ended the connection it  *)
(* takes them all the same, and the answer is a reset.                     *)
Write(e, n) ==
  /\ Connected(e) /\ conn[e] = "up" /\ heard[e] \in {"open", "end"}
  /\ n \in 1..Room(e)
  /\ wrote' = [wrote EXCEPT ![e] = "some"]
  /\ IF conn[Peer(e)] = "up"
       THEN /\ unread' = [unread EXCEPT ![Peer(e)] = @ + n]
            /\ UNCHANGED heard
       ELSE /\ unread' = [unread EXCEPT ![e] = 0]
            /\ heard' = [heard EXCEPT ![e] = "reset"]
  /\ UNCHANGED <<listenVars, life, conn, blocking, reader>>

(* EAGAIN comes out as 0. *)
WriteWouldBlock(e) ==
  /\ Connected(e) /\ conn[e] = "up" /\ heard[e] \in {"open", "end"}
  /\ Room(e) = 0 /\ ~blocking[e] /\ ~WriteError(e)
  /\ wrote' = [wrote EXCEPT ![e] = "none"]
  /\ UNCHANGED <<listenVars, life, lineVars, blocking, reader>>

WriteFails(e) ==
  /\ Connected(e) /\ WriteError(e)
  /\ wrote' = [wrote EXCEPT ![e] = "error"]
  /\ heard' = [heard EXCEPT ![e] = IF @ = "reset" THEN "broken" ELSE @]
  /\ UNCHANGED <<listenVars, life, conn, unread, blocking, reader>>

SetBlocking(e, block) ==
  /\ Connected(e)
  /\ blocking' = [blocking EXCEPT ![e] = block]
  /\ UNCHANGED <<listenVars, life, lineVars, reader, wrote>>

(* shutdown(SHUT_RDWR) is an error, which is logged, on a socket that is   *)
(* not connected.  Bug: it shuts the receiving side only, of which the     *)
(* peer hears nothing.                                                     *)
ReceivingOnly(e) == conn' = [conn EXCEPT ![e] = "shut"] /\ UNCHANGED <<heard, unread>>
BothSides(e) == Cut({e}, {})

Shutdown(e) ==
  /\ life[e] = "live" /\ conn[e] = "up"
  /\ BothSides(e)
  /\ UNCHANGED <<listenVars, life, blocking, reader, wrote>>

(* ~Socket: a connection closed with bytes unread is aborted. *)
Destroy(e) ==
  /\ life[e] = "live" /\ reader[e] = "idle"
  /\ life' = [life EXCEPT ![e] = "destroyed"]
  /\ IF conn[e] = "none" THEN UNCHANGED lineVars
     ELSE Cut({e}, IF unread[e] > 0 THEN {e} ELSE {})
  /\ UNCHANGED <<listenVars, blocking, reader, wrote>>

-----------------------------------------------------------------------------
Arrivals == Accept \/ AcceptFails
Wakes(e) == reader[e] = "asleep" /\ \E n \in 0..Capacity : Read(e, n)

TcpNext ==
  \/ Bind \/ Listen \/ AcceptBegins \/ Arrivals \/ ShutdownListener \/ DestroyListener
  \/ \E c \in Clients : Connect(c)
  \/ \E e \in Ends :
       \/ ReadNothing(e)
       \/ \E n \in 0..Capacity : Read(e, n) \/ Write(e, n)
       \/ WriteWouldBlock(e) \/ WriteFails(e)
       \/ \E block \in BOOLEAN : SetBlocking(e, block)
       \/ Shutdown(e) \/ Destroy(e)

TcpSpec == TcpInit /\ [][TcpNext]_tcpVars

-----------------------------------------------------------------------------
(* Properties. *)

(* Once write has returned -1 at an end it never takes another byte: the   *)
(* muxer, which goes on with the next field of a packet after an error     *)
(* (PacketMuxer.cpp:131), relies on it for the framing.                    *)
ErrorsAreFinal ==
  [][\A e \in Ends : wrote[e] = "error" => wrote'[e] = "error"]_tcpVars

(* Shutdown (Socket.cpp:74) gets a thread that sleeps in read out of it,   *)
(* at either end of the connection, and one that sleeps in Accept.         *)
Released ==
  /\ \A e \in Ends :
       (conn[e] = "shut" \/ conn[Peer(e)] = "shut") /\ reader[e] = "asleep"
         ~> reader[e] # "asleep"
  /\ listener = "shut" /\ accepter = "asleep" ~> accepter = "idle"
=============================================================================
