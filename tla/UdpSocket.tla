----------------------------- MODULE UdpSocket ------------------------------
(***************************************************************************)
(* Datagrams: the classes UdpSocket, Socket and Ipv4Address in a server    *)
(* that answers requests at the address ReceiveFrom gave it, and in the    *)
(* clients that ask, some with SendTo and some connected.  The network,    *)
(* which is external, loses, duplicates and reorders datagrams.            *)
(***************************************************************************)
EXTENDS Integers

CONSTANTS
  Askers,          \* the clients
  Hosts,           \* the names that can be resolved, all of the server's machine
  UnknownHost,     \* a name that cannot
  PortModulus,     \* 2^16 in the program
  ServerPort,      \* the int that server and clients use for its port
  PortOf,          \* client -> the port the kernel gives to its socket
  MaxAsked         \* bound: requests a client makes

Htons(port) == port % PortModulus

ASSUME UdpAssumption ==
  /\ UnknownHost \notin Hosts /\ PortModulus \in Nat \ {0} /\ ServerPort \in Nat
  /\ MaxAsked \in Nat
  /\ \A c, d \in Askers : /\ PortOf[c] \in 0..PortModulus - 1
                          /\ PortOf[c] # Htons(ServerPort)
                          /\ PortOf[c] = PortOf[d] => c = d

-----------------------------------------------------------------------------
(* Ipv4Address.  An object that was given no address, or a name that could *)
(* not be resolved, is not valid.                                          *)

NoAddress == [valid |-> FALSE, port |-> 0]
GetHostByName(host, port) ==
  IF host \in Hosts THEN [valid |-> TRUE, port |-> Htons(port)] ELSE NoAddress
ServerAddress(host) == GetHostByName(host, ServerPort)
Names == Hosts \cup {UnknownHost}

-----------------------------------------------------------------------------
VARIABLES
  bound,       \* the server's socket is bound
  from,        \* the server's Ipv4Address object
  request,     \* the request in its buffer, None if there is none
  target,      \* client -> the address its socket is connected to
  asked,       \* client -> how many requests it has made
  net,         \* the datagrams under way
  answers      \* client -> the answers it has read

udpVars == <<bound, from, request, target, asked, net, answers>>

None == <<>>

(* ReceiveFrom refuses an address object that is not valid yet: the server *)
(* has one, or has made the mistake.                                       *)
UdpInit ==
  /\ bound = FALSE
  /\ from \in {ServerAddress(h) : h \in Names}
  /\ request = None
  /\ target = [c \in Askers |-> NoAddress]
  /\ asked = [c \in Askers |-> 0]
  /\ net = {}
  /\ answers = [c \in Askers |-> {}]

BindServer ==
  /\ ~bound /\ bound' = TRUE
  /\ UNCHANGED <<from, request, target, asked, net, answers>>

ConnectTo(c, host) ==
  /\ ServerAddress(host).valid
  /\ target' = [target EXCEPT ![c] = ServerAddress(host)]
  /\ UNCHANGED <<bound, from, request, asked, net, answers>>

(* SendTo and, on a connected socket, write.  A datagram may be empty. *)
Ask(c, addr, empty) ==
  /\ addr.valid /\ asked[c] < MaxAsked
  /\ asked' = [asked EXCEPT ![c] = @ + 1]
  /\ net' = net \cup {[from |-> PortOf[c], to |-> addr.port,
                       about |-> IF empty THEN None ELSE <<c, asked'[c]>>]}
  /\ UNCHANGED <<bound, from, request, target, answers>>

(* recvfrom fills the address in, as far as the given length allows.  Bug: *)
(* the length stays 0.                                                     *)
LengthZero(d) == from
FilledIn(d) == [valid |-> TRUE, port |-> d.from]

(* The datagram may come once more, unless once is FALSE. *)
Taken(d, once) == net' = IF once THEN net \ {d} ELSE net

(* The buffer is that of the last call, whether or not its request was     *)
(* answered.  For an empty datagram ReceiveFrom returns 0, with its address*)
(* filled in.                                                              *)
ReceiveFrom(d, once) ==
  /\ bound /\ from.valid
  /\ d \in net /\ d.to = Htons(ServerPort)
  /\ Taken(d, once)
  /\ request' = d.about /\ from' = FilledIn(d)
  /\ UNCHANGED <<bound, target, asked, answers>>

(* It returns 0 also when it would block, and -1 for an address object that*)
(* is not valid or another error: that object stays as it was.             *)
ReceiveNothing ==
  /\ request' = None
  /\ UNCHANGED <<bound, from, target, asked, net, answers>>

Answer ==
  /\ request # None /\ from.valid
  /\ net' = net \cup {[from |-> Htons(ServerPort), to |-> from.port, about |-> request]}
  /\ request' = None
  /\ UNCHANGED <<bound, from, target, asked, answers>>

(* read: a connected socket is given its peer's datagrams only.            *)
ReadFrom(c, d, once) ==
  /\ d \in net /\ d.to = PortOf[c]
  /\ target[c].valid => d.from = target[c].port
  /\ Taken(d, once)
  /\ answers' = [answers EXCEPT ![c] = @ \cup {d.about}]
  /\ UNCHANGED <<bound, from, request, target, asked>>

Lose(d) ==
  /\ d \in net /\ net' = net \ {d}
  /\ UNCHANGED <<bound, from, request, target, asked, answers>>

UdpNext ==
  \/ BindServer \/ ReceiveNothing \/ Answer
  \/ \E c \in Askers :
       \/ \E h \in Names : ConnectTo(c, h)
       \/ \E addr \in {ServerAddress(h) : h \in Names} \cup {target[c]}, empty \in BOOLEAN :
            Ask(c, addr, empty)
  \/ \E d \in net :
       \/ Lose(d)
       \/ \E once \in BOOLEAN :
            ReceiveFrom(d, once) \/ \E c \in Askers : ReadFrom(c, d, once)

UdpSpec == UdpInit /\ [][UdpNext]_udpVars

-----------------------------------------------------------------------------
(* What a client reads is an answer to a request of its own, and what the  *)
(* server sends goes to who asked, however requests are interleaved,       *)
(* doubled or late: the address and the data that ReceiveFrom              *)
(* (UdpSocket.cpp:94) returns are of the same datagram.                    *)
AnswersGoToAskers ==
  /\ \A c \in Askers : \A a \in answers[c] : a[1] = c
  /\ \A d \in net : d.from = Htons(ServerPort) => d.to = PortOf[d.about[1]]
=============================================================================
