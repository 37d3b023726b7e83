-------------------------- MODULE UdpSocketProofs ---------------------------
(***************************************************************************)
(* Proofs about UdpSocket, for any number of clients, requests and ports.  *)
(* The inductive invariant follows a request from the client over the      *)
(* server's address object and back.                                       *)
(***************************************************************************)
EXTENDS UdpSocket, TLAPS

Ports == 0..PortModulus - 1
Addresses == [valid : BOOLEAN, port : Ports]
Requests == Askers \X Nat
Datagrams == [from : Ports, to : Ports, about : Requests \cup {None}]

UdpTypes ==
  /\ bound \in BOOLEAN
  /\ from \in Addresses
  /\ request \in Requests \cup {None}
  /\ target \in [Askers -> Addresses]
  /\ asked \in [Askers -> Nat]
  /\ net \in SUBSET Datagrams
  /\ answers \in [Askers -> SUBSET Requests]

(* Clients are connected to the server, if to anybody. *)
ServerIsTarget == \A c \in Askers : target[c].valid => target[c].port = Htons(ServerPort)

(* A datagram is a client's request to the server, which may be empty, or  *)
(* goes to who asked.                                                      *)
Conversation(d) ==
  \/ /\ d.to = Htons(ServerPort)
     /\ \E c \in Askers : d.from = PortOf[c] /\ (d.about # None => d.about[1] = c)
  \/ d.from = Htons(ServerPort) /\ d.about # None /\ d.to = PortOf[d.about[1]]

(* While the server has a request, its address object is that of the asker. *)
AskerKnown == request # None => from.port = PortOf[request[1]]

OwnAnswers == \A c \in Askers : \A a \in answers[c] : a[1] = c

UdpInv ==
  /\ UdpTypes /\ ServerIsTarget /\ AskerKnown /\ OwnAnswers
  /\ \A d \in net : Conversation(d)

-----------------------------------------------------------------------------
(* Addresses are well formed, and a valid one is the server's. *)
LEMMA AddressProperties ==
  /\ \A c \in Askers : PortOf[c] \in Ports
  /\ Htons(ServerPort) \in Ports
  /\ \A host : /\ ServerAddress(host) \in Addresses
               /\ ServerAddress(host).valid => ServerAddress(host).port = Htons(ServerPort)
<1>1. \A c \in Askers : PortOf[c] \in Ports
  BY UdpAssumption DEF Ports
<1>2. Htons(ServerPort) \in Ports /\ 0 \in Ports
  BY UdpAssumption DEF Htons, Ports
<1>3. ASSUME NEW host
      PROVE  /\ ServerAddress(host) \in Addresses
             /\ ServerAddress(host).valid => ServerAddress(host).port = Htons(ServerPort)
  <2>1. CASE host \in Hosts
    BY <2>1, <1>2 DEF ServerAddress, GetHostByName, Addresses
  <2>2. CASE host \notin Hosts
    BY <2>2, <1>2 DEF ServerAddress, GetHostByName, NoAddress, Addresses
  <2> QED
    BY <2>1, <2>2
<1> QED
  BY <1>1, <1>2, <1>3

(* The initial state satisfies the invariant. *)
LEMMA UdpInvInit == UdpInit => UdpInv
<1> SUFFICES ASSUME UdpInit PROVE UdpInv
  OBVIOUS
<1>1. from \in Addresses
  BY AddressProperties DEF UdpInit
<1>2. NoAddress \in Addresses /\ ~NoAddress.valid
  BY UdpAssumption DEF NoAddress, Addresses, Ports
<1> QED
  BY <1>1, <1>2 DEF UdpInit, UdpInv, UdpTypes, ServerIsTarget, AskerKnown, OwnAnswers

(* A request says where it comes from. *)
LEMMA AskStep ==
  ASSUME UdpInv, NEW c \in Askers, NEW addr \in Addresses,
         addr.valid => addr.port = Htons(ServerPort), NEW empty \in BOOLEAN,
         Ask(c, addr, empty)
  PROVE  UdpInv'
<1> DEFINE about == IF empty THEN None ELSE <<c, asked'[c]>>
           d == [from |-> PortOf[c], to |-> addr.port, about |-> about]
<1>1. /\ addr.port = Htons(ServerPort) /\ net' = net \cup {d}
      /\ asked' = [asked EXCEPT ![c] = asked[c] + 1]
      /\ UNCHANGED <<bound, from, request, target, answers>>
  BY DEF Ask
<1>2. asked' \in [Askers -> Nat]
  BY <1>1 DEF UdpInv, UdpTypes
<1>3. about \in Requests \cup {None} /\ (about # None => about[1] = c)
  BY <1>2 DEF Requests, None
<1> HIDE DEF about
<1>4. d \in Datagrams /\ Conversation(d)
  BY <1>1, <1>3, AddressProperties DEF Datagrams, Conversation
<1> HIDE DEF d
<1>5. UdpTypes' /\ \A e \in net' : Conversation(e)
  BY <1>1, <1>2, <1>4 DEF UdpInv, UdpTypes
<1> QED
  BY <1>1, <1>5 DEF UdpInv, ServerIsTarget, AskerKnown, OwnAnswers

(* recvfrom hands out the data and the address of one datagram: it came to *)
(* the server, and so from a client.                                       *)
LEMMA ReceiveFromStep ==
  ASSUME UdpInv, NEW d \in net, NEW once \in BOOLEAN, ReceiveFrom(d, once)
  PROVE  UdpInv'
<1>1. /\ d.to = Htons(ServerPort) /\ net' \subseteq net
      /\ request' = d.about /\ from' = [valid |-> TRUE, port |-> d.from]
      /\ UNCHANGED <<bound, target, asked, answers>>
  BY DEF ReceiveFrom, Taken, FilledIn
<1>2. d.from \in Ports /\ d.about \in Requests \cup {None}
  BY DEF UdpInv, UdpTypes, Datagrams
<1>3. d.about # None => d.from = PortOf[d.about[1]]
  <2> SUFFICES ASSUME d.about # None PROVE d.from = PortOf[d.about[1]]
    OBVIOUS
  <2>1. d.about[1] \in Askers
    BY <1>2 DEF Requests
  <2> QED
    BY <1>1, <2>1, UdpAssumption DEF UdpInv, Conversation
<1>4. UdpTypes'
  BY <1>1, <1>2 DEF UdpInv, UdpTypes, Addresses
<1> QED
  BY <1>1, <1>3, <1>4 DEF UdpInv, ServerIsTarget, AskerKnown, OwnAnswers

(* The answer goes to the address of the request. *)
LEMMA AnswerStep ==
  ASSUME UdpInv, Answer
  PROVE  UdpInv'
<1> DEFINE d == [from |-> Htons(ServerPort), to |-> from.port, about |-> request]
<1>1. /\ request # None /\ net' = net \cup {d} /\ request' = None
      /\ UNCHANGED <<bound, from, target, asked, answers>>
  BY DEF Answer
<1>2. d \in Datagrams
  BY <1>1, AddressProperties DEF UdpInv, UdpTypes, Datagrams, Addresses
<1>3. Conversation(d)
  BY <1>1 DEF UdpInv, AskerKnown, Conversation
<1> HIDE DEF d
<1>4. UdpTypes' /\ \A e \in net' : Conversation(e)
  BY <1>1, <1>2, <1>3 DEF UdpInv, UdpTypes
<1> QED
  BY <1>1, <1>4 DEF UdpInv, ServerIsTarget, AskerKnown, OwnAnswers

(* A call that receives nothing empties the buffer. *)
LEMMA ReceiveNothingStep ==
  ASSUME UdpInv, ReceiveNothing
  PROVE  UdpInv'
BY DEF ReceiveNothing, UdpInv, UdpTypes, ServerIsTarget, AskerKnown, OwnAnswers

(* What comes to the port of a client is an answer, to a request of its    *)
(* own since no two clients have the same port.                            *)
LEMMA ReadFromStep ==
  ASSUME UdpInv, NEW c \in Askers, NEW d \in net, NEW once \in BOOLEAN, ReadFrom(c, d, once)
  PROVE  UdpInv'
<1>1. /\ d.to = PortOf[c] /\ net' \subseteq net
      /\ answers' = [answers EXCEPT ![c] = answers[c] \cup {d.about}]
      /\ UNCHANGED <<bound, from, request, target, asked>>
  BY DEF ReadFrom, Taken
<1>2. d.about # None /\ d.to = PortOf[d.about[1]]
  BY <1>1, UdpAssumption DEF UdpInv, Conversation
<1>3. d.about \in Requests /\ d.about[1] = c
  <2>1. d.about \in Requests /\ d.about[1] \in Askers
    BY <1>2 DEF UdpInv, UdpTypes, Datagrams, Requests
  <2> QED
    BY <1>1, <1>2, <2>1, UdpAssumption
<1>4. UdpTypes'
  BY <1>1, <1>3 DEF UdpInv, UdpTypes
<1>5. OwnAnswers'
  BY <1>1, <1>3 DEF UdpInv, UdpTypes, OwnAnswers
<1> QED
  BY <1>1, <1>4, <1>5 DEF UdpInv, ServerIsTarget, AskerKnown

(* Binding, connecting and losing a datagram. *)
LEMMA OtherStep ==
  ASSUME UdpInv,
         \/ BindServer \/ \E d \in net : Lose(d)
         \/ \E c \in Askers : \E h \in Names : ConnectTo(c, h)
  PROVE  UdpInv'
<1>1. CASE BindServer
  BY <1>1 DEF BindServer, UdpInv, UdpTypes, ServerIsTarget, AskerKnown, OwnAnswers
<1>2. CASE \E d \in net : Lose(d)
  BY <1>2 DEF Lose, UdpInv, UdpTypes, ServerIsTarget, AskerKnown, OwnAnswers
<1>3. CASE \E c \in Askers : \E h \in Names : ConnectTo(c, h)
  <2>1. PICK c \in Askers, h \in Names : ConnectTo(c, h)
    BY <1>3
  <2>2. /\ target' = [target EXCEPT ![c] = ServerAddress(h)]
        /\ UNCHANGED <<bound, from, request, asked, net, answers>>
    BY <2>1 DEF ConnectTo
  <2>3. /\ target' \in [Askers -> Addresses] /\ ServerIsTarget'
    BY <2>2, AddressProperties DEF UdpInv, UdpTypes, ServerIsTarget
  <2> QED
    BY <2>2, <2>3 DEF UdpInv, UdpTypes, AskerKnown, OwnAnswers
<1> QED
  BY <1>1, <1>2, <1>3

-----------------------------------------------------------------------------
(* The invariant of datagrams. *)
THEOREM UdpInvariant == UdpSpec => []UdpInv
<1>1. UdpInv /\ [UdpNext]_udpVars => UdpInv'
  <2> SUFFICES ASSUME UdpInv, [UdpNext]_udpVars PROVE UdpInv'
    OBVIOUS
  <2>1. CASE \/ BindServer \/ \E d \in net : Lose(d)
             \/ \E c \in Askers : \E h \in Names : ConnectTo(c, h)
    BY <2>1, OtherStep
  <2>2. CASE Answer
    BY <2>2, AnswerStep
  <2>3. CASE ReceiveNothing
    BY <2>3, ReceiveNothingStep
  <2>4. CASE \E c \in Askers :
               \E addr \in {ServerAddress(h) : h \in Names} \cup {target[c]}, empty \in BOOLEAN :
                 Ask(c, addr, empty)
    <3>1. PICK c \in Askers :
            \E addr \in {ServerAddress(h) : h \in Names} \cup {target[c]}, empty \in BOOLEAN :
              Ask(c, addr, empty)
      BY <2>4
    <3>2. PICK addr \in {ServerAddress(h) : h \in Names} \cup {target[c]}, empty \in BOOLEAN :
            Ask(c, addr, empty)
      BY <3>1
    <3>3. addr \in Addresses /\ (addr.valid => addr.port = Htons(ServerPort))
      BY AddressProperties DEF UdpInv, UdpTypes, ServerIsTarget
    <3> QED
      BY <3>2, <3>3, AskStep
  <2>5. CASE \E d \in net : \E once \in BOOLEAN : ReceiveFrom(d, once)
    BY <2>5, ReceiveFromStep
  <2>6. CASE \E d \in net : \E once \in BOOLEAN : \E c \in Askers : ReadFrom(c, d, once)
    BY <2>6, ReadFromStep
  <2>7. CASE UNCHANGED udpVars
    BY <2>7 DEF udpVars, UdpInv, UdpTypes, ServerIsTarget, AskerKnown, OwnAnswers
  <2> QED
    BY <2>1, <2>2, <2>3, <2>4, <2>5, <2>6, <2>7 DEF UdpNext
<1> QED
  BY <1>1, UdpInvInit, PTL DEF UdpSpec

(* ReceiveFrom (UdpSocket.cpp:94) gives the address that belongs to the    *)
(* data, so that answers go to who asked, over any network of the model.   *)
THEOREM AnswersCorrect == UdpSpec => []AnswersGoToAskers
<1>1. UdpInv => AnswersGoToAskers
  <2> SUFFICES ASSUME UdpInv, NEW d \in net, d.from = Htons(ServerPort)
               PROVE  d.to = PortOf[d.about[1]]
    BY DEF UdpInv, OwnAnswers, AnswersGoToAskers
  <2> QED
    BY UdpAssumption DEF UdpInv, Conversation
<1> QED
  BY <1>1, UdpInvariant, PTL
=============================================================================
