------------------------- MODULE SimpleQueueProofs --------------------------
(***************************************************************************)
(* Proofs about SimpleQueue, for any number of threads and packets.  The   *)
(* inductive invariant says what a thread knows at each point of its use   *)
(* of the queue, and that only the thread with the lock is past the wait.  *)
(***************************************************************************)
EXTENDS SimpleQueue, SequenceTheorems, TLAPS

Places == {"out", "asleep", "awake", "ready", "pop", "done"}

QueueTypes ==
  /\ items \in Seq(Items) /\ taken \in Seq(Items) /\ emplaced \in Seq(Items)
  /\ at \in [Consumers -> Places]
  /\ front \in [Consumers -> Seq(Items)]

(* Who is between the lock and its release is the one that holds it. *)
OneInside == \A c \in Consumers : at[c] \in {"ready", "pop", "done"} => lock = c

(* What front() gave is what pop() will remove. *)
FrontIsNext ==
  \A c \in Consumers : at[c] = "pop" => items # <<>> /\ front[c] = <<Head(items)>>

QueueInv ==
  /\ QueueTypes /\ OneInside /\ FrontIsNext
  /\ ReturnsNotEmpty /\ NobodySleepsOnItems /\ FirstInFirstOut

-----------------------------------------------------------------------------
(* The initial state satisfies the invariant. *)
LEMMA QueueInit == Init => QueueInv
<1> SUFFICES ASSUME Init PROVE QueueInv
  OBVIOUS
<1>1. QueueTypes
  BY DEF Init, QueueTypes, Places
<1>2. OneInside /\ FrontIsNext /\ ReturnsNotEmpty /\ NobodySleepsOnItems
  BY QueueAssumption DEF Init, OneInside, FrontIsNext, ReturnsNotEmpty, NobodySleepsOnItems
<1>3. FirstInFirstOut
  BY ConcatEmptySeq DEF Init, FirstInFirstOut
<1> QED
  BY <1>1, <1>2, <1>3 DEF QueueInv

(* A packet that goes in: every sleeper is woken, and the order is kept.   *)
LEMMA EmplaceStep ==
  ASSUME QueueInv, NEW x \in Items, Emplace(x)
  PROVE  QueueInv'
<1>1. /\ items \in Seq(Items) /\ taken \in Seq(Items) /\ emplaced \in Seq(Items)
      /\ items' = Append(items, x) /\ taken' = taken /\ emplaced' = Append(emplaced, x)
      /\ lock = "free" /\ lock' = lock /\ front' = front
  BY DEF Emplace, LockFree, QueueInv, QueueTypes
<1>2. items' \in Seq(Items) /\ emplaced' \in Seq(Items) /\ items' # <<>>
  BY <1>1, AppendProperties
<1>3. /\ at' \in [Consumers -> Places]
      /\ \A c \in Consumers : at'[c] # "asleep" /\ (at[c] # "asleep" => at'[c] = at[c])
                              /\ (at[c] = "asleep" => at'[c] = "awake")
  <2>1. /\ at \in [Consumers -> Places]
        /\ at' = [c \in Consumers |-> IF at[c] = "asleep" THEN "awake" ELSE at[c]]
    BY DEF Emplace, NotifyAll, QueueInv, QueueTypes
  <2>2. \A c \in Consumers : at'[c] = IF at[c] = "asleep" THEN "awake" ELSE at[c]
    BY <2>1
  <2>3. at' \in [Consumers -> Places]
    BY <2>1 DEF Places
  <2> QED
    BY <2>2, <2>3
<1>4. \A c \in Consumers : at[c] \notin {"ready", "pop", "done"}
  BY <1>1, QueueAssumption DEF QueueInv, OneInside
<1>5. \A c \in Consumers : at'[c] \notin {"ready", "pop", "done"}
  BY <1>3, <1>4
<1>6. taken' \o items' = emplaced'
  <2>1. <<x>> \in Seq(Items) /\ taken \o items = emplaced
    BY DEF QueueInv, FirstInFirstOut
  <2>2. items' = items \o <<x>> /\ emplaced' = emplaced \o <<x>>
    BY <1>1, AppendIsConcat
  <2>3. ASSUME NEW s \in Seq(Items)
        PROVE  (taken \o items) \o s = taken \o (items \o s)
    <3>1. taken \in Seq(Items) /\ items \in Seq(Items)
      BY <1>1
    <3> QED
      BY <3>1, ConcatAssociative
  <2> QED
    BY <1>1, <2>1, <2>2, <2>3
<1>7. QueueTypes'
  BY <1>1, <1>2, <1>3 DEF QueueInv, QueueTypes
<1>8. OneInside' /\ FrontIsNext' /\ ReturnsNotEmpty' /\ NobodySleepsOnItems'
  BY <1>3, <1>5, QueueAssumption
  DEF OneInside, FrontIsNext, ReturnsNotEmpty, NobodySleepsOnItems
<1> QED
  BY <1>6, <1>7, <1>8 DEF QueueInv, FirstInFirstOut

(* A thread that gets the lock finds it free, and sleeps only if there is  *)
(* nothing to take.                                                        *)
LEMMA GetLockStep ==
  ASSUME QueueInv, NEW c \in Consumers, GetLock(c)
  PROVE  QueueInv'
<1>1. /\ lock = "free" /\ UNCHANGED <<items, front, emplaced, taken>>
      /\ \A d \in Consumers \ {c} : at'[d] = at[d]
  BY DEF GetLock, LockFree, QueueInv, QueueTypes
<1>2. \A d \in Consumers : at[d] \notin {"ready", "pop", "done"}
  BY <1>1, QueueAssumption DEF QueueInv, OneInside
<1>3. \/ at'[c] = "asleep" /\ items = <<>> /\ at' = [at EXCEPT ![c] = "asleep"]
      \/ /\ at'[c] = "ready" /\ lock' = c /\ at' = [at EXCEPT ![c] = "ready"]
         /\ (items # <<>> \/ c \notin Patient)
  BY DEF GetLock, WaitAgain, QueueInv, QueueTypes
<1>4. QueueTypes'
  BY <1>1, <1>3 DEF QueueInv, QueueTypes, Places
<1>5. OneInside' /\ FrontIsNext'
  BY <1>1, <1>2, <1>3 DEF OneInside, FrontIsNext
<1>6. ReturnsNotEmpty' /\ NobodySleepsOnItems'
  BY <1>1, <1>2, <1>3, QueueAssumption DEF QueueInv, ReturnsNotEmpty, NobodySleepsOnItems
<1> QED
  BY <1>1, <1>4, <1>5, <1>6 DEF QueueInv, FirstInFirstOut

(* A thread that wakes up has learnt nothing. *)
LEMMA WakeUpStep ==
  ASSUME QueueInv, NEW c \in Consumers, WakeUp(c)
  PROVE  QueueInv'
<1>1. /\ at' = [at EXCEPT ![c] = "awake"]
      /\ UNCHANGED <<items, lock, front, emplaced, taken>>
  BY DEF WakeUp
<1>2. QueueTypes'
  BY <1>1 DEF QueueInv, QueueTypes, Places
<1> QED
  BY <1>1, <1>2, QueueAssumption
  DEF QueueInv, QueueTypes, OneInside, FrontIsNext, ReturnsNotEmpty, NobodySleepsOnItems,
      FirstInFirstOut

(* front(): the other threads are not inside. *)
LEMMA FrontStep ==
  ASSUME QueueInv, NEW c \in Consumers, Front(c)
  PROVE  QueueInv'
<1>1. /\ at[c] = "ready" /\ items # <<>> /\ items \in Seq(Items)
      /\ at' = [at EXCEPT ![c] = "pop"] /\ front' = [front EXCEPT ![c] = <<Head(items)>>]
      /\ UNCHANGED <<items, lock, emplaced, taken>>
  BY DEF Front, QueueInv, QueueTypes
<1>2. <<Head(items)>> \in Seq(Items)
  BY <1>1, HeadTailProperties
<1>3. QueueTypes'
  BY <1>1, <1>2 DEF QueueInv, QueueTypes, Places
<1>4. OneInside' /\ FrontIsNext'
  BY <1>1 DEF QueueInv, QueueTypes, OneInside, FrontIsNext
<1>5. ReturnsNotEmpty' /\ NobodySleepsOnItems'
  BY <1>1, QueueAssumption DEF QueueInv, QueueTypes, ReturnsNotEmpty, NobodySleepsOnItems
<1> QED
  BY <1>1, <1>3, <1>4, <1>5 DEF QueueInv, FirstInFirstOut

(* pop(): the packet that goes is the one that was read, and no other      *)
(* thread has seen the front.                                              *)
LEMMA PopStep ==
  ASSUME QueueInv, NEW c \in Consumers, Pop(c)
  PROVE  QueueInv'
<1>1. /\ at[c] = "pop" /\ items # <<>> /\ items \in Seq(Items) /\ taken \in Seq(Items)
      /\ front[c] = <<Head(items)>>
      /\ at' = [at EXCEPT ![c] = "done"] /\ front' = [front EXCEPT ![c] = <<>>]
      /\ items' = Tail(items) /\ taken' = taken \o front[c]
      /\ UNCHANGED <<lock, emplaced>>
  BY DEF Pop, QueueInv, QueueTypes, FrontIsNext
<1>2. /\ <<Head(items)>> \in Seq(Items) /\ Tail(items) \in Seq(Items)
      /\ items = <<Head(items)>> \o Tail(items)
  <2>1. /\ Head(items) \in Items /\ Tail(items) \in Seq(Items)
        /\ Len(Tail(items)) = Len(items) - 1
        /\ \A i \in 1..Len(Tail(items)) : Tail(items)[i] = items[i + 1]
    BY <1>1, HeadTailProperties
  <2> DEFINE t == <<Head(items)>> \o Tail(items)
  <2>2. <<Head(items)>> \in Seq(Items)
    BY <2>1
  <2>3. /\ t \in Seq(Items) /\ Len(t) = 1 + Len(Tail(items))
        /\ \A i \in 1..1 + Len(Tail(items)) :
             t[i] = IF i <= 1 THEN <<Head(items)>>[i] ELSE Tail(items)[i - 1]
    BY <2>1, <2>2, ConcatProperties
  <2>4. Len(t) = Len(items) /\ \A i \in 1..Len(items) : items[i] = t[i]
    BY <1>1, <2>1, <2>3
  <2> QED
    BY <1>1, <2>1, <2>2, <2>3, <2>4, SeqEqual
<1>3. taken' \in Seq(Items) /\ taken' \o items' = taken \o items
  BY <1>1, <1>2, ConcatProperties, ConcatAssociative
<1>4. QueueTypes'
  BY <1>1, <1>2, <1>3 DEF QueueInv, QueueTypes, Places
<1>5. \A d \in Consumers \ {c} : at'[d] = at[d] /\ at[d] \notin {"ready", "pop", "done"}
  BY <1>1 DEF QueueInv, QueueTypes, OneInside
<1>6. OneInside' /\ FrontIsNext' /\ ReturnsNotEmpty' /\ NobodySleepsOnItems'
  BY <1>1, <1>5, QueueAssumption
  DEF QueueInv, QueueTypes, OneInside, FrontIsNext, ReturnsNotEmpty, NobodySleepsOnItems
<1> QED
  BY <1>1, <1>3, <1>4, <1>6 DEF QueueInv, FirstInFirstOut

(* The lock is given up by the only thread that is inside. *)
LEMMA UnlockStep ==
  ASSUME QueueInv, NEW c \in Consumers, Unlock(c)
  PROVE  QueueInv'
<1>1. /\ at[c] \in {"done", "ready"} /\ at' = [at EXCEPT ![c] = "out"]
      /\ UNCHANGED <<items, front, emplaced, taken>>
  BY DEF Unlock
<1>2. QueueTypes'
  BY <1>1 DEF QueueInv, QueueTypes, Places
<1>3. \A d \in Consumers \ {c} : at'[d] = at[d] /\ at[d] \notin {"ready", "pop", "done"}
  BY <1>1 DEF QueueInv, QueueTypes, OneInside
<1> QED
  BY <1>1, <1>2, <1>3, QueueAssumption
  DEF QueueInv, QueueTypes, OneInside, FrontIsNext, ReturnsNotEmpty, NobodySleepsOnItems,
      FirstInFirstOut

-----------------------------------------------------------------------------
(* The invariant of the queue. *)
THEOREM QueueInvariant == Spec => []QueueInv
<1>1. QueueInv /\ [Next]_vars => QueueInv'
  <2> SUFFICES ASSUME QueueInv, [Next]_vars PROVE QueueInv'
    OBVIOUS
  <2>1. CASE \E x \in Items : Emplace(x)
    BY <2>1, EmplaceStep
  <2>2. CASE \E c \in Consumers : GetLock(c)
    BY <2>2, GetLockStep
  <2>3. CASE \E c \in Consumers : WakeUp(c)
    BY <2>3, WakeUpStep
  <2>4. CASE \E c \in Consumers : Front(c)
    BY <2>4, FrontStep
  <2>5. CASE \E c \in Consumers : Pop(c)
    BY <2>5, PopStep
  <2>6. CASE \E c \in Consumers : Unlock(c)
    BY <2>6, UnlockStep
  <2>7. CASE UNCHANGED vars
    BY <2>7 DEF vars, QueueInv, QueueTypes, OneInside, FrontIsNext, ReturnsNotEmpty,
                NobodySleepsOnItems, FirstInFirstOut
  <2> QED
    BY <2>1, <2>2, <2>3, <2>4, <2>5, <2>6, <2>7 DEF Next, Consumer
<1> QED
  BY <1>1, QueueInit, PTL DEF Spec

(* waitNotempty (SimpleQueue.h:43) returns with a packet there, however    *)
(* many consumers were woken for it.                                       *)
THEOREM WaitKeepsItsWord == Spec => []ReturnsNotEmpty
BY QueueInvariant, PTL DEF QueueInv

(* No consumer is asleep in the queue (SimpleQueue.h:67) while there is a  *)
(* packet to take.                                                         *)
THEOREM NoLostNotification == Spec => []NobodySleepsOnItems
BY QueueInvariant, PTL DEF QueueInv

(* What consumers take with front() and pop() (SimpleQueue.h:80), all of   *)
(* them together, is what was emplaced, once each and in order.            *)
THEOREM QueueIsFifo == Spec => []FirstInFirstOut
BY QueueInvariant, PTL DEF QueueInv
=============================================================================
