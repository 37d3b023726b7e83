-------------------------------- MODULE Sync --------------------------------
(***************************************************************************)
(* Sync.cpp: syncWithClient (the server side) and syncWithServer (the      *)
(* client side), called one after the other for the message names of       *)
(* Script.  The two packet streams deliver what is sent, in order for each *)
(* name (PacketStream), to whoever is subscribed to the name on arrival    *)
(* (PubSub), so all that matters of a stream is the number of ready        *)
(* messages of each name in flight.                                        *)
(***************************************************************************)
EXTENDS Integers, Sequences

CONSTANTS
  Names, Script,   \* message names, and those the two sides agreed on, in order
  MaxInFlight      \* bound: ready messages of a name in flight to the client

ASSUME ScriptAssumption == Script \in Seq(Names) /\ MaxInFlight \in Nat \ {0}

VARIABLES
  server, client,        \* subscribed, calls begun, the ready flag, whether it has sent
  toClient, toServer     \* ready messages in flight, per name

syncVars == <<server, client, toClient, toServer>>

Outside == [subscribed |-> FALSE, calls |-> 0, ready |-> FALSE, sent |-> TRUE]

SyncInit ==
  /\ server = Outside /\ client = Outside
  /\ toClient = [n \in Names |-> 0] /\ toServer = toClient

Name(side) == Script[side.calls]

(* The flag before the subscription.  Bug: it starts set.                  *)
ReadyAtStart == TRUE
NotReady == FALSE

Enters(side) ==
  /\ ~side.subscribed /\ side.calls < Len(Script)
  /\ side' = [subscribed |-> TRUE, calls |-> side.calls + 1,
              ready |-> NotReady, sent |-> FALSE]

ServerEnters == Enters(server) /\ UNCHANGED <<client, toClient, toServer>>

ClientEnters == Enters(client) /\ UNCHANGED <<server, toClient, toServer>>

(* The server repeats the message until the flag is set.  Bug: it does not *)
(* repeat it.                                                              *)
OnceOnly == ~server.sent
Repeatedly == TRUE

ServerSends ==
  /\ server.subscribed /\ ~server.ready /\ Repeatedly
  /\ toClient[Name(server)] < MaxInFlight
  /\ toClient' = [toClient EXCEPT ![Name(server)] = @ + 1]
  /\ server' = [server EXCEPT !.sent = TRUE]
  /\ UNCHANGED <<client, toServer>>

(* The flag is set: the subscription goes out of scope. *)
ServerLeaves ==
  /\ server.subscribed /\ server.ready
  /\ server' = [server EXCEPT !.subscribed = FALSE]
  /\ UNCHANGED <<client, toClient, toServer>>

ClientAcks ==
  /\ client.subscribed /\ client.ready /\ ~client.sent
  /\ client' = [client EXCEPT !.sent = TRUE]
  /\ toServer' = [toServer EXCEPT ![Name(client)] = @ + 1]
  /\ UNCHANGED <<server, toClient>>

ClientLeaves ==
  /\ client.subscribed /\ client.sent
  /\ client' = [client EXCEPT !.subscribed = FALSE]
  /\ UNCHANGED <<server, toClient, toServer>>

(* The two subscriptions: a message nobody subscribes to is dropped. *)
Hear(side, n) ==
  side' = [side EXCEPT !.ready = @ \/ (side.subscribed /\ n = Name(side))]

ClientHears == \E n \in Names :
  /\ toClient[n] > 0 /\ toClient' = [toClient EXCEPT ![n] = @ - 1]
  /\ Hear(client, n) /\ UNCHANGED <<server, toServer>>

ServerHears == \E n \in Names :
  /\ toServer[n] > 0 /\ toServer' = [toServer EXCEPT ![n] = @ - 1]
  /\ Hear(server, n) /\ UNCHANGED <<client, toClient>>

Returned(side) == ~side.subscribed /\ side.calls = Len(Script)

Finished ==
  /\ Returned(server) /\ Returned(client)
  /\ \A n \in Names : toClient[n] = 0 /\ toServer[n] = 0
  /\ UNCHANGED syncVars

SyncNext ==
  \/ ServerEnters \/ ServerSends \/ ServerLeaves \/ ServerHears
  \/ ClientEnters \/ ClientAcks \/ ClientLeaves \/ ClientHears
  \/ Finished

SyncSpec == SyncInit /\ [][SyncNext]_syncVars

(* Both programs run, and the streams deliver. *)
FairSyncSpec ==
  /\ SyncSpec
  /\ WF_syncVars(ServerEnters \/ ServerLeaves) /\ WF_syncVars(ServerSends)
  /\ WF_syncVars(ClientEnters \/ ClientAcks \/ ClientLeaves)
  /\ WF_syncVars(ClientHears) /\ WF_syncVars(ServerHears)

-----------------------------------------------------------------------------
(* Properties.                                                             *)

Past(side) == IF side.subscribed THEN side.calls - 1 ELSE side.calls

(* A rendezvous: neither side returns from a call before the other has     *)
(* entered the same one (the loops of lines 25 and 46).                    *)
Rendezvous == Past(server) <= client.calls /\ Past(client) <= server.calls

(* Once a side has entered a call, both get through the whole script,      *)
(* whoever came first and although ready messages that arrive before the   *)
(* client has subscribed are lost (the loop of line 25 repeats them).      *)
BothReturn ==
  server.subscribed \/ client.subscribed ~> Returned(server) /\ Returned(client)

(* Sync.h:18, "Blocks until client acknowledges it is ready": a server     *)
(* that waits in a call is released once the client has acknowledged that  *)
(* call.                                                                   *)
AckReleasesServer ==
  \A k \in 1..Len(Script) :
    server.subscribed /\ server.calls = k /\ client.calls = k /\ client.sent
      ~> ~(server.subscribed /\ server.calls = k)
=============================================================================
