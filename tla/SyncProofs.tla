----------------------------- MODULE SyncProofs -----------------------------
(***************************************************************************)
(* Proofs about Sync, for scripts of any length whose names are different. *)
(* (With a name used again neither theorem holds: a late ready message of  *)
(* the first use sets the flag of the second.)  The inductive invariant    *)
(* says that a message in flight, and a flag that is set, come from a call *)
(* that the other side has entered.                                        *)
(***************************************************************************)
EXTENDS Sync, SequenceTheorems, TLAPS

DifferentNames ==
  \A i, j \in 1..Len(Script) : Script[i] = Script[j] => i = j

Sides == [subscribed : BOOLEAN, calls : 0..Len(Script), ready : BOOLEAN, sent : BOOLEAN]

SyncTypes ==
  /\ server \in Sides /\ client \in Sides
  /\ toClient \in [Names -> Nat] /\ toServer \in [Names -> Nat]
  /\ server.subscribed => server.calls > 0
  /\ client.subscribed => client.calls > 0

(* Messages bear the name of a call that their sender has entered. *)
Calls(side, n) == \E k \in 1..side.calls : Script[k] = n
MessagesKnown ==
  \A n \in Names : /\ toClient[n] > 0 => Calls(server, n)
                   /\ toServer[n] > 0 => Calls(client, n)

(* A side that has heard the other one is not ahead of it. *)
FlagsKnown ==
  /\ server.ready => server.calls <= client.calls
  /\ client.ready => client.calls <= server.calls
  /\ client.subscribed /\ client.sent => client.ready

SyncInv == SyncTypes /\ MessagesKnown /\ FlagsKnown /\ Rendezvous

-----------------------------------------------------------------------------
(* The script is a sequence of names. *)
LEMMA ScriptProperties ==
  /\ Len(Script) \in Nat
  /\ \A k \in 1..Len(Script) : Script[k] \in Names
BY ScriptAssumption, LenProperties, ElementOfSeq

(* The initial state satisfies the invariant. *)
LEMMA SyncInvInit == SyncInit => SyncInv
BY ScriptProperties DEF SyncInit, Outside, SyncInv, SyncTypes, Sides, MessagesKnown, FlagsKnown,
     Rendezvous, Past

(* A side enters its next call: its flag is down, and the other side has   *)
(* been in all the calls it has behind it.                                 *)
LEMMA EnterStep ==
  ASSUME SyncInv, ServerEnters \/ ClientEnters
  PROVE  SyncInv'
<1>1. server.calls \in Nat /\ client.calls \in Nat
  BY ScriptProperties DEF SyncInv, SyncTypes, Sides
<1>2. CASE ServerEnters
  <2>1. /\ ~server.subscribed /\ server.calls < Len(Script)
        /\ server' = [subscribed |-> TRUE, calls |-> server.calls + 1,
                      ready |-> FALSE, sent |-> FALSE]
        /\ UNCHANGED <<client, toClient, toServer>>
    BY <1>2 DEF ServerEnters, Enters, NotReady
  <2>2. server' \in Sides /\ server'.subscribed /\ server'.calls = server.calls + 1 /\ ~server'.ready
    BY <2>1, <1>1, ScriptProperties DEF Sides
  <2>3. SyncTypes'
    BY <2>1, <2>2, <1>1 DEF SyncInv, SyncTypes
  <2>4. MessagesKnown'
    BY <2>1, <2>2, <1>1 DEF SyncInv, MessagesKnown, Calls
  <2>5. FlagsKnown' /\ Rendezvous'
    BY <2>1, <2>2, <1>1 DEF SyncInv, FlagsKnown, Rendezvous, Past
  <2> QED
    BY <2>3, <2>4, <2>5 DEF SyncInv
<1>3. CASE ClientEnters
  <2>1. /\ ~client.subscribed /\ client.calls < Len(Script)
        /\ client' = [subscribed |-> TRUE, calls |-> client.calls + 1,
                      ready |-> FALSE, sent |-> FALSE]
        /\ UNCHANGED <<server, toClient, toServer>>
    BY <1>3 DEF ClientEnters, Enters, NotReady
  <2>2. /\ client' \in Sides /\ client'.subscribed /\ client'.calls = client.calls + 1
        /\ ~client'.ready /\ ~client'.sent
    BY <2>1, <1>1, ScriptProperties DEF Sides
  <2>3. SyncTypes'
    BY <2>1, <2>2, <1>1 DEF SyncInv, SyncTypes
  <2>4. MessagesKnown'
    BY <2>1, <2>2, <1>1 DEF SyncInv, MessagesKnown, Calls
  <2>5. FlagsKnown' /\ Rendezvous'
    BY <2>1, <2>2, <1>1 DEF SyncInv, FlagsKnown, Rendezvous, Past
  <2> QED
    BY <2>3, <2>4, <2>5 DEF SyncInv
<1> QED
  BY <1>2, <1>3

(* The message of a call goes to the other side. *)
LEMMA SendStep ==
  ASSUME SyncInv, ServerSends \/ ClientAcks
  PROVE  SyncInv'
<1>1. CASE ServerSends
  <2> DEFINE n == Script[server.calls]
  <2>1. /\ server.subscribed /\ toClient' = [toClient EXCEPT ![n] = toClient[n] + 1]
        /\ server' = [server EXCEPT !.sent = TRUE] /\ UNCHANGED <<client, toServer>>
    BY <1>1 DEF ServerSends, Name
  <2>2. server.calls \in 1..Len(Script) /\ n \in Names /\ Calls(server, n)
    BY <2>1, ScriptProperties DEF SyncInv, SyncTypes, Sides, Calls
  <2>3. /\ server' \in Sides /\ server'.subscribed = server.subscribed
        /\ server'.calls = server.calls /\ server'.ready = server.ready
    BY <2>1 DEF SyncInv, SyncTypes, Sides
  <2>4. toClient' \in [Names -> Nat] /\ \A m \in Names \ {n} : toClient'[m] = toClient[m]
    BY <2>1, <2>2 DEF SyncInv, SyncTypes
  <2>5. SyncTypes'
    BY <2>1, <2>3, <2>4 DEF SyncInv, SyncTypes
  <2>6. MessagesKnown'
    BY <2>1, <2>2, <2>3, <2>4 DEF SyncInv, MessagesKnown, Calls
  <2>7. FlagsKnown' /\ Rendezvous'
    BY <2>1, <2>3 DEF SyncInv, FlagsKnown, Rendezvous, Past
  <2> QED
    BY <2>5, <2>6, <2>7 DEF SyncInv
<1>2. CASE ClientAcks
  <2> DEFINE n == Script[client.calls]
  <2>1. /\ client.subscribed /\ client.ready
        /\ toServer' = [toServer EXCEPT ![n] = toServer[n] + 1]
        /\ client' = [client EXCEPT !.sent = TRUE] /\ UNCHANGED <<server, toClient>>
    BY <1>2 DEF ClientAcks, Name
  <2>2. client.calls \in 1..Len(Script) /\ n \in Names /\ Calls(client, n)
    BY <2>1, ScriptProperties DEF SyncInv, SyncTypes, Sides, Calls
  <2>3. /\ client' \in Sides /\ client'.subscribed = client.subscribed
        /\ client'.calls = client.calls /\ client'.ready = client.ready
    BY <2>1 DEF SyncInv, SyncTypes, Sides
  <2>4. toServer' \in [Names -> Nat] /\ \A m \in Names \ {n} : toServer'[m] = toServer[m]
    BY <2>1, <2>2 DEF SyncInv, SyncTypes
  <2>5. SyncTypes'
    BY <2>1, <2>3, <2>4 DEF SyncInv, SyncTypes
  <2>6. MessagesKnown'
    BY <2>1, <2>2, <2>3, <2>4 DEF SyncInv, MessagesKnown, Calls
  <2>7. FlagsKnown' /\ Rendezvous'
    BY <2>1, <2>3 DEF SyncInv, FlagsKnown, Rendezvous, Past
  <2> QED
    BY <2>5, <2>6, <2>7 DEF SyncInv
<1> QED
  BY <1>1, <1>2

(* A message sets the flag of the call it belongs to, which its sender has *)
(* entered, or that of no call.                                            *)
LEMMA HearStep ==
  ASSUME DifferentNames, SyncInv, ServerHears \/ ClientHears
  PROVE  SyncInv'
<1>1. server.calls \in 0..Len(Script) /\ client.calls \in 0..Len(Script) /\ Len(Script) \in Nat
  BY ScriptProperties DEF SyncInv, SyncTypes, Sides
<1>2. CASE ServerHears
  <2>1. PICK n \in Names :
          /\ toServer[n] > 0 /\ toServer' = [toServer EXCEPT ![n] = toServer[n] - 1]
          /\ server' = [server EXCEPT !.ready =
                          server.ready \/ (server.subscribed /\ n = Script[server.calls])]
          /\ UNCHANGED <<client, toClient>>
    BY <1>2 DEF ServerHears, Hear, Name
  <2>2. toServer' \in [Names -> Nat] /\ \A m \in Names : toServer'[m] > 0 => toServer[m] > 0
    BY <2>1 DEF SyncInv, SyncTypes
  <2>3. /\ server' \in Sides /\ server'.subscribed = server.subscribed
        /\ server'.calls = server.calls
        /\ server'.ready => server.ready \/ (server.subscribed /\ n = Script[server.calls])
    BY <2>1 DEF SyncInv, SyncTypes, Sides
  <2>4. server.subscribed /\ n = Script[server.calls] => server.calls <= client.calls
    <3> SUFFICES ASSUME server.subscribed, n = Script[server.calls]
                 PROVE  server.calls <= client.calls
      OBVIOUS
    <3>1. PICK k \in 1..client.calls : Script[k] = n
      BY <2>1 DEF SyncInv, MessagesKnown, Calls
    <3>2. k = server.calls
      BY <3>1, <1>1 DEF DifferentNames, SyncInv, SyncTypes
    <3> QED
      BY <3>1, <3>2, <1>1
  <2>5. SyncTypes'
    BY <2>1, <2>2, <2>3 DEF SyncInv, SyncTypes
  <2>6. MessagesKnown'
    BY <2>1, <2>2, <2>3 DEF SyncInv, MessagesKnown, Calls
  <2>7. FlagsKnown' /\ Rendezvous'
    BY <2>1, <2>3, <2>4 DEF SyncInv, FlagsKnown, Rendezvous, Past
  <2> QED
    BY <2>5, <2>6, <2>7 DEF SyncInv
<1>3. CASE ClientHears
  <2>1. PICK n \in Names :
          /\ toClient[n] > 0 /\ toClient' = [toClient EXCEPT ![n] = toClient[n] - 1]
          /\ client' = [client EXCEPT !.ready =
                          client.ready \/ (client.subscribed /\ n = Script[client.calls])]
          /\ UNCHANGED <<server, toServer>>
    BY <1>3 DEF ClientHears, Hear, Name
  <2>2. toClient' \in [Names -> Nat] /\ \A m \in Names : toClient'[m] > 0 => toClient[m] > 0
    BY <2>1 DEF SyncInv, SyncTypes
  <2>3. /\ client' \in Sides /\ client'.subscribed = client.subscribed
        /\ client'.calls = client.calls /\ client'.sent = client.sent
        /\ client'.ready => client.ready \/ (client.subscribed /\ n = Script[client.calls])
        /\ client.ready => client'.ready
    BY <2>1 DEF SyncInv, SyncTypes, Sides
  <2>4. client.subscribed /\ n = Script[client.calls] => client.calls <= server.calls
    <3> SUFFICES ASSUME client.subscribed, n = Script[client.calls]
                 PROVE  client.calls <= server.calls
      OBVIOUS
    <3>1. PICK k \in 1..server.calls : Script[k] = n
      BY <2>1 DEF SyncInv, MessagesKnown, Calls
    <3>2. k = client.calls
      BY <3>1, <1>1 DEF DifferentNames, SyncInv, SyncTypes
    <3> QED
      BY <3>1, <3>2, <1>1
  <2>5. SyncTypes'
    BY <2>1, <2>2, <2>3 DEF SyncInv, SyncTypes
  <2>6. MessagesKnown'
    BY <2>1, <2>2, <2>3 DEF SyncInv, MessagesKnown, Calls
  <2>7. FlagsKnown' /\ Rendezvous'
    BY <2>1, <2>3, <2>4 DEF SyncInv, FlagsKnown, Rendezvous, Past
  <2> QED
    BY <2>5, <2>6, <2>7 DEF SyncInv
<1> QED
  BY <1>2, <1>3

(* A side returns when it has heard the other one in the same call. *)
LEMMA LeaveStep ==
  ASSUME SyncInv, ServerLeaves \/ ClientLeaves
  PROVE  SyncInv'
<1>1. server.calls \in Nat /\ client.calls \in Nat
  BY ScriptProperties DEF SyncInv, SyncTypes, Sides
<1>2. CASE ServerLeaves
  <2>1. /\ server.subscribed /\ server.ready
        /\ server' = [server EXCEPT !.subscribed = FALSE]
        /\ UNCHANGED <<client, toClient, toServer>>
    BY <1>2 DEF ServerLeaves
  <2>2. /\ server' \in Sides /\ ~server'.subscribed
        /\ server'.calls = server.calls /\ server'.ready = server.ready
    BY <2>1 DEF SyncInv, SyncTypes, Sides
  <2>3. SyncTypes' /\ MessagesKnown'
    BY <2>1, <2>2 DEF SyncInv, SyncTypes, MessagesKnown, Calls
  <2>4. FlagsKnown' /\ Rendezvous'
    BY <2>1, <2>2, <1>1 DEF SyncInv, FlagsKnown, Rendezvous, Past
  <2> QED
    BY <2>3, <2>4 DEF SyncInv
<1>3. CASE ClientLeaves
  <2>1. /\ client.subscribed /\ client.sent
        /\ client' = [client EXCEPT !.subscribed = FALSE]
        /\ UNCHANGED <<server, toClient, toServer>>
    BY <1>3 DEF ClientLeaves
  <2>2. /\ client' \in Sides /\ ~client'.subscribed
        /\ client'.calls = client.calls /\ client'.ready = client.ready
    BY <2>1 DEF SyncInv, SyncTypes, Sides
  <2>3. SyncTypes' /\ MessagesKnown'
    BY <2>1, <2>2 DEF SyncInv, SyncTypes, MessagesKnown, Calls
  <2>4. FlagsKnown' /\ Rendezvous'
    BY <2>1, <2>2, <1>1 DEF SyncInv, FlagsKnown, Rendezvous, Past
  <2> QED
    BY <2>3, <2>4 DEF SyncInv
<1> QED
  BY <1>2, <1>3

-----------------------------------------------------------------------------
(* The invariant of the rendezvous. *)
THEOREM SyncInvariant ==
  ASSUME DifferentNames
  PROVE  SyncSpec => []SyncInv
<1>1. SyncInv /\ [SyncNext]_syncVars => SyncInv'
  <2> SUFFICES ASSUME SyncInv, [SyncNext]_syncVars PROVE SyncInv'
    OBVIOUS
  <2>1. CASE ServerEnters \/ ClientEnters
    BY <2>1, EnterStep
  <2>2. CASE ServerSends \/ ClientAcks
    BY <2>2, SendStep
  <2>3. CASE ServerHears \/ ClientHears
    BY <2>3, HearStep
  <2>4. CASE ServerLeaves \/ ClientLeaves
    BY <2>4, LeaveStep
  <2>5. CASE UNCHANGED syncVars
    BY <2>5 DEF syncVars, SyncInv, SyncTypes, MessagesKnown, Calls, FlagsKnown, Rendezvous, Past
  <2> QED
    BY <2>1, <2>2, <2>3, <2>4, <2>5 DEF SyncNext, Finished
<1> QED
  BY <1>1, SyncInvInit, PTL DEF SyncSpec

(* Neither side returns from a call of syncWithClient or syncWithServer    *)
(* (Sync.h:18) before the other side has entered it, if every              *)
(* synchronisation has a name of its own.                                  *)
THEOREM RendezvousCorrect ==
  ASSUME DifferentNames
  PROVE  SyncSpec => []Rendezvous
BY SyncInvariant, PTL DEF SyncInv
=============================================================================
