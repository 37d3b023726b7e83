----------------------------- MODULE SimpleQueue ----------------------------
(***************************************************************************)
(* SimpleQueue.h: the queue an application puts between the callback of a  *)
(* PacketSubscription and its own threads.  Any number of threads emplace, *)
(* any number hold a LockedQueue in turn and wait in it, with or without a *)
(* timeout, before they take the front packet.                             *)
(***************************************************************************)
EXTENDS Integers, Sequences

CONSTANTS
  Items,         \* packets
  Consumers,     \* threads that lock the queue
  Patient,       \* those that call waitNotempty(), not waitNotEmpty(timeout)
  MaxEmplaced    \* bound: the number of calls of emplace

ASSUME QueueAssumption == Patient \subseteq Consumers /\ "free" \notin Consumers

VARIABLES
  items,         \* m_items
  lock,          \* the consumer that holds m_lock, or "free"
  at,            \* consumer -> where it is
  front,         \* consumer -> what front() gave it, until it pops
  emplaced,      \* history: what was emplaced
  taken          \* history: what was taken, by whomever

vars == <<items, lock, at, front, emplaced, taken>>

Init ==
  /\ items = <<>>
  /\ lock = "free"
  /\ at = [c \in Consumers |-> "out"]
  /\ front = [c \in Consumers |-> <<>>]
  /\ emplaced = <<>>
  /\ taken = <<>>

(* lock_guard and unique_lock on m_lock.  Bug: they are left out. *)
LockForgotten == TRUE
LockFree == lock = "free"

(* Where the consumers are after notify_all.  Bug: nobody notifies. *)
NotifyNobody == at
NotifyAll == [c \in Consumers |-> IF at[c] = "asleep" THEN "awake" ELSE at[c]]

Emplace(x) ==
  /\ Len(emplaced) < MaxEmplaced
  /\ LockFree
  /\ items' = Append(items, x)
  /\ at' = NotifyAll
  /\ emplaced' = Append(emplaced, x)
  /\ UNCHANGED <<lock, front, taken>>

(* waitNotempty tests again after its sleep, waitNotEmpty just returns.    *)
(* Bug: waitNotempty has an if in place of the while.                      *)
WaitOnce(c) == at[c] = "out"
WaitAgain(c) == at[c] = "out" \/ c \in Patient

(* A consumer gets the lock, in lock() or at the end of its sleep.  It     *)
(* goes to sleep and gives the lock up in one step, or it goes on.         *)
GetLock(c) ==
  /\ at[c] \in {"out", "awake"}
  /\ LockFree
  /\ IF items = <<>> /\ WaitAgain(c)
       THEN at' = [at EXCEPT ![c] = "asleep"] /\ UNCHANGED lock
       ELSE at' = [at EXCEPT ![c] = "ready"] /\ lock' = c
  /\ UNCHANGED <<items, front, emplaced, taken>>

(* A spurious wake-up, or the timeout of waitNotEmpty. *)
WakeUp(c) ==
  /\ at[c] = "asleep"
  /\ at' = [at EXCEPT ![c] = "awake"]
  /\ UNCHANGED <<items, lock, front, emplaced, taken>>

(* front(), then pop(), by a thread that holds the lock. *)
Front(c) ==
  /\ at[c] = "ready" /\ items # <<>>
  /\ front' = [front EXCEPT ![c] = <<Head(items)>>]
  /\ at' = [at EXCEPT ![c] = "pop"]
  /\ UNCHANGED <<items, lock, emplaced, taken>>

Pop(c) ==
  /\ at[c] = "pop" /\ items # <<>>
  /\ items' = Tail(items)
  /\ taken' = taken \o front[c]
  /\ front' = [front EXCEPT ![c] = <<>>]
  /\ at' = [at EXCEPT ![c] = "done"]
  /\ UNCHANGED <<lock, emplaced>>

(* Bug: the lock outlives the LockedQueue. *)
LockKept == UNCHANGED lock
ReleaseLock == lock' = "free"

(* ~LockedQueue.  A wait with a timeout may have left nothing to take. *)
Unlock(c) ==
  /\ at[c] = "done" \/ (at[c] = "ready" /\ c \notin Patient /\ items = <<>>)
  /\ ReleaseLock
  /\ at' = [at EXCEPT ![c] = "out"]
  /\ UNCHANGED <<items, front, emplaced, taken>>

Consumer(c) == GetLock(c) \/ Front(c) \/ Pop(c) \/ Unlock(c)

Next ==
  \/ \E x \in Items : Emplace(x)
  \/ \E c \in Consumers : Consumer(c) \/ WakeUp(c)

Spec == Init /\ [][Next]_vars

(* The application's consumers keep coming back, timeouts expire, and a    *)
(* thread that is after the lock gets it in the end.                       *)
FairSpec ==
  /\ Spec
  /\ \A c \in Consumers : WF_vars(Consumer(c)) /\ SF_vars(GetLock(c))
  /\ \A c \in Consumers \ Patient : WF_vars(WakeUp(c))

-----------------------------------------------------------------------------
(* Properties.                                                             *)

(* waitNotempty promises a packet to take, although other consumers may    *)
(* take it between the notification and the lock.                          *)
ReturnsNotEmpty ==
  \A c \in Patient : at[c] = "ready" => items # <<>>

(* Nobody sleeps beside a packet that could be taken. *)
NobodySleepsOnItems ==
  items # <<>> => \A c \in Consumers : at[c] # "asleep"

(* With all its consumers together the queue is one FIFO: the packets come *)
(* out once each and in the order in which they went in.                   *)
FirstInFirstOut == taken \o items = emplaced

(* What was emplaced is taken. *)
ItemsTaken == items # <<>> ~> items = <<>>
=============================================================================
