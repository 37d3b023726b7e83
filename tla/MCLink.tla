------------------------------- MODULE MCLink -------------------------------
(* Instances of Link for TLC. *)
EXTENDS Link, TLC

CONSTANTS a, s

MCTypeOf == s :> a
MCTxIds == <<a>>
MCRxIds == <<a, "a later type">>
MCDataSize == [p \in Payloads |-> IF p = "full" THEN 2 ELSE 0]

(* States that differ only in what nothing reads any more are the same to  *)
(* TLC: the histories of the two halves, the counters but for their        *)
(* difference, and the send thread's local variables while they are out of *)
(* scope.                                                                  *)
Behaviour ==
  <<txOwner, sender, txLock, txQueues, txError, numPosted = numSent,
    IF sender \in {"sendAll", "write"} THEN <<current, todo>> ELSE <<>>,
    IF sender = "write" THEN <<io>> ELSE <<>>, link,
    rxOwner, receiver, greeting, frame, left, blocking, asleep, rxError, peer,
    subLock, subscribers, position, active, handle, inbox, lineVars, posts>>
=============================================================================
