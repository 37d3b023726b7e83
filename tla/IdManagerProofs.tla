-------------------------- MODULE IdManagerProofs ---------------------------
(***************************************************************************)
(* Proofs about IdManager, for lists of any length.                        *)
(***************************************************************************)
EXTENDS IdManager, WellFoundedInduction, TLAPS

-----------------------------------------------------------------------------
(* The loop of the constructor.                                            *)

Turn(list, f, i) == IF i = 0 THEN Reserved ELSE AddName(f[i - 1], list[i])
LoopTo(list, f, n) == f = [i \in 0..n |-> Turn(list, f, i)]

(* A non-empty set of numbers has a least element. *)
LEMMA LeastNumber ==
  ASSUME NEW T \in SUBSET Nat, T # {}
  PROVE  \E n \in T : \A m \in T : m >= n
<1>1. PICK n \in T : \A m \in T : ~(<<m, n>> \in OpToRel(<, Nat))
  BY NatLessThanWellFounded, WFMin
<1>2. ASSUME NEW m \in T PROVE m >= n
  <2>1. m \in Nat /\ n \in Nat
    OBVIOUS
  <2>2. m < n => <<m, n>> \in OpToRel(<, Nat)
    BY <2>1 DEF OpToRel
  <2>3. ~(m < n)
    BY <1>1, <2>2
  <2> QED
    BY <2>1, <2>3
<1> QED
  BY <1>1, <1>2

(* The loop ends: there are tables after each turn. *)
LEMMA LoopEnds ==
  ASSUME NEW list, NEW n \in Nat
  PROVE  \E f : LoopTo(list, f, n)
<1> DEFINE T == {k \in Nat : ~\E f : LoopTo(list, f, k)}
<1> SUFFICES ASSUME T # {} PROVE FALSE
  OBVIOUS
<1>1. PICK k \in T : \A m \in T : m >= k
  <2>1. T \in SUBSET Nat
    OBVIOUS
  <2> HIDE DEF T
  <2> QED
    BY <2>1, LeastNumber
<1>2. k \in Nat /\ ~\E f : LoopTo(list, f, k)
  OBVIOUS
<1>3. CASE k = 0
  <2> DEFINE f == [i \in 0..0 |-> Reserved]
  <2>1. f = [i \in 0..0 |-> Turn(list, f, i)]
    BY DEF Turn
  <2> QED
    BY <1>2, <1>3, <2>1 DEF LoopTo
<1>4. CASE k > 0
  <2>1. k - 1 \in Nat /\ k - 1 \notin T
    BY <1>1, <1>2, <1>4
  <2>2. PICK g : g = [i \in 0..k - 1 |-> Turn(list, g, i)]
    BY <2>1 DEF LoopTo
  <2> DEFINE f == [i \in 0..k |-> IF i = k THEN AddName(g[k - 1], list[k]) ELSE g[i]]
  <2>3. ASSUME NEW i \in 0..k PROVE f[i] = Turn(list, f, i)
    <3>1. CASE i = 0
      BY <1>2, <1>4, <2>2, <3>1 DEF Turn
    <3>2. CASE i > 0 /\ i < k
      <4>1. i \in 0..k - 1 /\ i - 1 \in 0..k - 1 /\ i - 1 # k
        BY <1>2, <3>2
      <4>2. f[i] = g[i] /\ f[i - 1] = g[i - 1]
        BY <3>2, <4>1
      <4>3. g[i] = Turn(list, g, i)
        BY <2>2, <4>1
      <4> QED
        BY <3>2, <4>2, <4>3 DEF Turn
    <3>3. CASE i = k
      <4>1. k - 1 \in 0..k /\ k - 1 # k /\ k # 0
        BY <1>2, <1>4
      <4> QED
        BY <3>3, <4>1 DEF Turn
    <3> QED
      BY <1>2, <3>1, <3>2, <3>3
  <2>4. f = [i \in 0..k |-> Turn(list, f, i)]
    BY <2>3
  <2> QED
    BY <1>2, <2>4 DEF LoopTo
<1> QED
  BY <1>2, <1>3, <1>4

(* So they are those of the definition. *)
LEMMA LoopTurns ==
  ASSUME NEW S, NEW list \in Seq(S)
  PROVE  /\ Turns(list)[0] = Reserved
         /\ \A i \in 1..Len(list) : Turns(list)[i] = AddName(Turns(list)[i - 1], list[i])
<1>1. Len(list) \in Nat
  OBVIOUS
<1>2. PICK f : LoopTo(list, f, Len(list))
  BY <1>1, LoopEnds
<1>3. LoopTo(list, Turns(list), Len(list))
  BY <1>2 DEF LoopTo, Turn, Turns
<1>4. \A i \in 0..Len(list) : Turns(list)[i] = Turn(list, Turns(list), i)
  BY <1>3 DEF LoopTo
<1>5. 0 \in 0..Len(list) /\ \A i \in 1..Len(list) : i \in 0..Len(list) /\ i # 0
  BY <1>1
<1> QED
  BY <1>4, <1>5 DEF Turn
(* What holds before the loop and is kept by each turn holds after all. *)
LEMMA ByTurns ==
  ASSUME NEW n \in Nat, NEW G, 0 \in G,
         \A i \in 1..n : i - 1 \in G => i \in G
  PROVE  \A i \in 0..n : i \in G
<1> DEFINE T == {i \in 0..n : i \notin G}
<1> SUFFICES ASSUME T # {} PROVE FALSE
  OBVIOUS
<1>1. PICK i \in T : \A m \in T : m >= i
  <2>1. T \in SUBSET Nat
    OBVIOUS
  <2> HIDE DEF T
  <2> QED
    BY <2>1, LeastNumber
<1>2. i \in 1..n /\ i \notin G /\ i - 1 \in 0..n /\ ~(i - 1 >= i)
  OBVIOUS
<1>3. i - 1 \in G
  BY <1>1, <1>2
<1> QED
  BY <1>2, <1>3

-----------------------------------------------------------------------------
(* The two tables.                                                         *)

(* The name of the id k - 1. *)
Place(list, k) ==
  IF k = 1 THEN InvalidString ELSE IF k = 2 THEN ControlString ELSE list[k - 2]

(* After i turns each name in m_map has an id, at which m_reverse has it. *)
Right(list, t, i) ==
  /\ t.id = i + 1
  /\ t.reverse = [k \in 1..i + 2 |-> Place(list, k)]
  /\ DOMAIN t.map = {Place(list, k) : k \in 1..i + 2}
  /\ \A n \in DOMAIN t.map : t.map[n] \in 0..i + 1 /\ Place(list, t.map[n] + 1) = n

LEMMA TurnsRight ==
  ASSUME NEW S, NEW list \in Seq(S)
  PROVE  \A i \in 0..Len(list) : Right(list, Turns(list)[i], i)
<1> DEFINE G == {i \in 0..Len(list) : Right(list, Turns(list)[i], i)}
<1>1. Len(list) \in Nat
  OBVIOUS
<1>2. 0 \in G
  <2>1. Right(list, Reserved, 0)
    <3>1. 0 + 2 = 2 /\ 1..2 = {1, 2}
      OBVIOUS
    <3>2. Reserved.reverse = [k \in 1..0 + 2 |-> Place(list, k)]
      BY <3>1 DEF Reserved, Place
    <3>3. {Place(list, k) : k \in 1..0 + 2} = {InvalidString, ControlString}
      BY <3>1 DEF Place
    <3>4. \A n \in DOMAIN Reserved.map :
            Reserved.map[n] \in 0..0 + 1 /\ Place(list, Reserved.map[n] + 1) = n
      BY DEF Reserved, Place, InvalidPacket, ControlPacket
    <3>5. Reserved.id = 0 + 1 /\ DOMAIN Reserved.map = {InvalidString, ControlString}
      BY DEF Reserved, ControlPacket
    <3> QED
      BY <3>2, <3>3, <3>4, <3>5 DEF Right
  <2> QED
    BY <1>1, <2>1, LoopTurns
<1>3. ASSUME NEW i \in 1..Len(list), i - 1 \in G PROVE i \in G
  <2> DEFINE t == Turns(list)[i - 1]
             u == Turns(list)[i]
  <2>1. Right(list, t, i - 1) /\ i \in 0..Len(list) /\ i \in Nat
    BY <1>1, <1>3
  <2>2. u = AddName(t, list[i])
    BY LoopTurns
  <2> HIDE DEF t, u
  <2>3. Place(list, i + 2) = list[i]
    BY <2>1 DEF Place
  <2>4. u.id = i + 1
    BY <2>1, <2>2 DEF Right, AddName
  <2>5. u.reverse = [k \in 1..i + 2 |-> Place(list, k)]
    BY <2>1, <2>2, <2>3 DEF Right, AddName
  <2>6. \A n : n \in DOMAIN u.map <=> n \in DOMAIN t.map \/ n = list[i]
    BY <2>2 DEF AddName
  <2>7. DOMAIN u.map = {Place(list, k) : k \in 1..i + 2}
    BY <2>1, <2>3, <2>6 DEF Right
  <2>8. \A n \in DOMAIN u.map : u.map[n] = IF n = list[i] THEN i + 1 ELSE t.map[n]
    BY <2>1, <2>2 DEF Right, AddName
  <2>9. \A n \in DOMAIN u.map : u.map[n] \in 0..i + 1 /\ Place(list, u.map[n] + 1) = n
    <3>1. ASSUME NEW n \in DOMAIN u.map, n = list[i]
          PROVE  u.map[n] \in 0..i + 1 /\ Place(list, u.map[n] + 1) = n
      <4>1. u.map[n] = i + 1 /\ i + 1 + 1 = i + 2 /\ i + 1 \in 0..i + 1
        BY <2>1, <2>8, <3>1
      <4> QED
        BY <2>3, <3>1, <4>1
    <3>2. ASSUME NEW n \in DOMAIN u.map, n # list[i]
          PROVE  u.map[n] \in 0..i + 1 /\ Place(list, u.map[n] + 1) = n
      <4>1. u.map[n] = t.map[n] /\ n \in DOMAIN t.map
        BY <2>6, <2>8, <3>2
      <4>2. t.map[n] \in 0..i - 1 + 1 /\ Place(list, t.map[n] + 1) = n
        BY <2>1, <4>1 DEF Right
      <4> QED
        BY <2>1, <4>1, <4>2
    <3> QED
      BY <3>1, <3>2
  <2>10. Right(list, u, i)
    BY <2>4, <2>5, <2>7, <2>9 DEF Right
  <2> QED
    BY <2>1, <2>10 DEF u
<1> HIDE DEF G
<1>4. \A i \in 0..Len(list) : i \in G
  BY <1>1, <1>2, <1>3, ByTurns
<1> QED
  BY <1>4 DEF G

(* Where the assertion holds no entry of m_map is overwritten. *)
LEMMA TurnsDistinct ==
  ASSUME NEW S, NEW list \in Seq(S), AssertionHolds(list), InvalidString # ControlString
  PROVE  \A i \in 0..Len(list) : \A k \in 1..i + 2 : Turns(list)[i].map[Place(list, k)] = k - 1
<1> DEFINE Known(i) == \A k \in 1..i + 2 : Turns(list)[i].map[Place(list, k)] = k - 1
           G == {i \in 0..Len(list) : Known(i)}
<1>1. Len(list) \in Nat
  OBVIOUS
<1>2. 0 \in G
  <2>1. \A k \in 1..2 : Reserved.map[Place(list, k)] = k - 1
    <3>1. 1..2 = {1, 2}
      OBVIOUS
    <3> QED
      BY <3>1 DEF Reserved, Place, InvalidPacket, ControlPacket
  <2> QED
    BY <1>1, <2>1, LoopTurns
<1>3. ASSUME NEW i \in 1..Len(list), i - 1 \in G PROVE i \in G
  <2>1. /\ i \in 0..Len(list) /\ i - 1 \in 0..Len(list) /\ i \in Nat
        /\ \A k \in 1..i + 1 : Turns(list)[i - 1].map[Place(list, k)] = k - 1
    BY <1>1, <1>3
  <2>2. Turns(list)[i] = AddName(Turns(list)[i - 1], list[i])
    BY LoopTurns
  <2>3. /\ Turns(list)[i - 1].id = i
        /\ DOMAIN Turns(list)[i - 1].map = {Place(list, k) : k \in 1..i + 1}
    <3>1. Right(list, Turns(list)[i - 1], i - 1)
      BY <2>1, TurnsRight
    <3>2. i - 1 + 1 = i /\ i - 1 + 2 = i + 1
      BY <2>1
    <3> QED
      BY <3>1, <3>2 DEF Right
  <2>4. list[i] \notin DOMAIN Turns(list)[i - 1].map
    BY DEF AssertionHolds
  <2>5. Place(list, i + 2) = list[i]
    BY <2>1 DEF Place
  <2>6. ASSUME NEW k \in 1..i + 2 PROVE Turns(list)[i].map[Place(list, k)] = k - 1
    <3>1. CASE k = i + 2
      BY <2>1, <2>2, <2>3, <2>5, <3>1 DEF AddName
    <3>2. CASE k # i + 2
      <4>1. k \in 1..i + 1
        BY <2>1, <3>2
      <4>2. Place(list, k) \in DOMAIN Turns(list)[i - 1].map /\ Place(list, k) # list[i]
        BY <4>1, <2>3, <2>4
      <4> QED
        BY <2>1, <2>2, <4>1, <4>2 DEF AddName
    <3> QED
      BY <3>1, <3>2
  <2> QED
    BY <2>1, <2>6
<1> HIDE DEF G
<1>4. \A i \in 0..Len(list) : i \in G
  BY <1>1, <1>2, <1>3, ByTurns
<1> QED
  BY <1>4 DEF G

(* So at the end of the loop. *)
LEMMA TableRight ==
  ASSUME NEW S, NEW list \in Seq(S)
  PROVE  /\ Len(list) \in Nat
         /\ Right(list, Table(list), Len(list))
         /\ AssertionHolds(list) /\ InvalidString # ControlString =>
              \A k \in 1..Len(list) + 2 : Table(list).map[Place(list, k)] = k - 1
<1>1. Len(list) \in Nat /\ Len(list) \in 0..Len(list)
  OBVIOUS
<1> QED
  BY <1>1, TurnsRight, TurnsDistinct DEF Table

-----------------------------------------------------------------------------
(* What the tables answer.                                                 *)

(* IdManager.h:35: at finds the reserved names and those of the list, and  *)
(* throws for any other.                                                   *)
THEOREM KnownNames ==
  ASSUME NEW S, NEW list \in Seq(S), NEW name
  PROVE  ToId(Table(list), name) # OutOfRange
           <=> name \in {InvalidString, ControlString} \cup Names(list)
<1>1. Right(list, Table(list), Len(list)) /\ Len(list) \in Nat
  BY TableRight
<1>2. name \in DOMAIN Table(list).map <=> ToId(Table(list), name) # OutOfRange
  BY <1>1 DEF Right, ToId, OutOfRange
<1>3. \A i \in 1..Len(list) : i + 2 \in 1..Len(list) + 2 /\ Place(list, i + 2) = list[i]
  BY <1>1 DEF Place
<1>4. /\ 1 \in 1..Len(list) + 2 /\ Place(list, 1) = InvalidString
      /\ 2 \in 1..Len(list) + 2 /\ Place(list, 2) = ControlString
  BY <1>1 DEF Place
<1>5. \A k \in 1..Len(list) + 2 :
        k > 2 => k - 2 \in 1..Len(list) /\ Place(list, k) = list[k - 2]
  BY <1>1 DEF Place
<1>6. {Place(list, k) : k \in 1..Len(list) + 2}
        = {InvalidString, ControlString} \cup Names(list)
  BY <1>1, <1>3, <1>4, <1>5 DEF Names, Place
<1> QED
  BY <1>1, <1>2, <1>6 DEF Right

(* IdManager.h:36: the id of a known name is a place of m_reverse, and     *)
(* that name is there, with or without the assertion of line 26.           *)
THEOREM NameOfId ==
  ASSUME NEW S, NEW list \in Seq(S), NEW name, ToId(Table(list), name) # OutOfRange
  PROVE  /\ ToId(Table(list), name) + 1 \in DOMAIN Table(list).reverse
         /\ ToString(Table(list), ToId(Table(list), name)) = name
<1>1. Right(list, Table(list), Len(list)) /\ Len(list) \in Nat
  BY TableRight
<1>2. name \in DOMAIN Table(list).map /\ ToId(Table(list), name) = Table(list).map[name]
  BY DEF ToId
<1>3. /\ Table(list).map[name] \in 0..Len(list) + 1
      /\ Place(list, Table(list).map[name] + 1) = name
  BY <1>1, <1>2 DEF Right
<1>4. /\ Table(list).map[name] + 1 \in 1..Len(list) + 2
      /\ Table(list).reverse = [k \in 1..Len(list) + 2 |-> Place(list, k)]
  BY <1>1, <1>3 DEF Right
<1> QED
  BY <1>2, <1>3, <1>4 DEF ToString

(* IdManager.h:26: where the assertion holds no two ids share a name, so   *)
(* an id read from the line comes back from its name.                      *)
THEOREM IdOfId ==
  ASSUME NEW S, NEW list \in Seq(S), AssertionHolds(list), InvalidString # ControlString,
         NEW id \in 0..Len(list) + 1
  PROVE  ToId(Table(list), ToString(Table(list), id)) = id
<1>1. /\ Right(list, Table(list), Len(list)) /\ Len(list) \in Nat
      /\ \A k \in 1..Len(list) + 2 : Table(list).map[Place(list, k)] = k - 1
  BY TableRight
<1>2. id + 1 \in 1..Len(list) + 2 /\ id + 1 - 1 = id
  BY <1>1
<1>3. ToString(Table(list), id) = Place(list, id + 1)
  BY <1>1, <1>2 DEF Right, ToString
<1>4. Place(list, id + 1) \in DOMAIN Table(list).map
  BY <1>1, <1>2 DEF Right
<1> QED
  BY <1>1, <1>2, <1>3, <1>4 DEF ToId

(* Two ends whose lists agree as far as both go give a name that both know *)
(* the same id, so what one writes (PacketMuxer.cpp:167) the other reads   *)
(* back (PacketDemuxer.cpp:172), although either list may be longer.       *)
THEOREM EndsAgree ==
  ASSUME NEW S, NEW ours \in Seq(S), NEW theirs \in Seq(S),
         AssertionHolds(ours), AssertionHolds(theirs), InvalidString # ControlString,
         \A i \in 1..Len(ours) : i <= Len(theirs) => ours[i] = theirs[i],
         NEW name,
         ToId(Table(ours), name) # OutOfRange, ToId(Table(theirs), name) # OutOfRange
  PROVE  /\ ToId(Table(ours), name) = ToId(Table(theirs), name)
         /\ ToString(Table(theirs), ToId(Table(ours), name)) = name
<1>1. /\ Right(ours, Table(ours), Len(ours)) /\ Len(ours) \in Nat
      /\ \A k \in 1..Len(ours) + 2 : Table(ours).map[Place(ours, k)] = k - 1
  BY TableRight
<1>2. /\ Right(theirs, Table(theirs), Len(theirs)) /\ Len(theirs) \in Nat
      /\ \A k \in 1..Len(theirs) + 2 : Table(theirs).map[Place(theirs, k)] = k - 1
  BY TableRight
<1>3. PICK i \in 0..Len(ours) + 1 :
        i = ToId(Table(ours), name) /\ i = Table(ours).map[name] /\ Place(ours, i + 1) = name
  BY <1>1 DEF Right, ToId
<1>4. PICK j \in 0..Len(theirs) + 1 :
        j = ToId(Table(theirs), name) /\ j = Table(theirs).map[name]
          /\ Place(theirs, j + 1) = name
  BY <1>2 DEF Right, ToId
<1>5. \A k \in 1..Len(ours) + 2 :
        k <= Len(theirs) + 2 => Place(ours, k) = Place(theirs, k)
  <2> SUFFICES ASSUME NEW k \in 1..Len(ours) + 2, k <= Len(theirs) + 2, k > 2
               PROVE  ours[k - 2] = theirs[k - 2]
    BY <1>1, <1>2 DEF Place
  <2> QED
    BY <1>1, <1>2
<1>6. ASSUME i <= j PROVE i = j
  <2>1. i + 1 \in 1..Len(ours) + 2 /\ i + 1 \in 1..Len(theirs) + 2 /\ i + 1 - 1 = i
    BY <1>1, <1>2, <1>6
  <2> QED
    BY <2>1, <1>2, <1>3, <1>4, <1>5
<1>7. ASSUME j <= i PROVE i = j
  <2>1. j + 1 \in 1..Len(ours) + 2 /\ j + 1 <= Len(theirs) + 2 /\ j + 1 - 1 = j
    BY <1>1, <1>2, <1>7
  <2> QED
    BY <2>1, <1>1, <1>3, <1>4, <1>5
<1>8. i \in Nat /\ j \in Nat
  BY <1>1, <1>2
<1>9. i = j
  BY <1>6, <1>7, <1>8
<1> QED
  BY <1>3, <1>4, <1>9, NameOfId
=============================================================================
