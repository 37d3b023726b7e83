----------------------------- MODULE IdManager ------------------------------
(***************************************************************************)
(* The numbers that stand for packet types on the line.  Each end makes    *)
(* its own two tables from a list of names: m_map for the ids of names,    *)
(* m_reverse for the names of ids.  0 and 1 are the reserved names.        *)
(***************************************************************************)
EXTENDS Integers, Sequences

CONSTANTS InvalidString, ControlString

InvalidPacket == 0
ControlPacket == 1

Names(list) == {list[i] : i \in 1..Len(list)}

(* The members, and the constructor's local id, before its loop. *)
Reserved ==
  [map |-> [name \in {InvalidString, ControlString} |->
              IF name = ControlString THEN ControlPacket ELSE InvalidPacket],
   reverse |-> <<InvalidString, ControlString>>,
   id |-> ControlPacket]

(* m_map[name] = id, which overwrites an earlier entry, and push_back. *)
AddName(table, name) ==
  [map |-> [n \in DOMAIN table.map \cup {name} |->
              IF n = name THEN table.id + 1 ELSE table.map[n]],
   reverse |-> Append(table.reverse, name),
   id |-> table.id + 1]

(* The tables after each turn of the loop, and at its end. *)
Turns(list) ==
  LET after[i \in 0..Len(list)] ==
        IF i = 0 THEN Reserved ELSE AddName(after[i - 1], list[i])
  IN  after
Table(list) == Turns(list)[Len(list)]

(* The assertion in the loop; builds without it go on. *)
AssertionHolds(list) ==
  \A i \in 1..Len(list) : list[i] \notin DOMAIN Turns(list)[i - 1].map

(* map::at throws for a name that has no entry. *)
OutOfRange == -1
ToId(table, name) == IF name \in DOMAIN table.map THEN table.map[name] ELSE OutOfRange

(* vector::operator[], for ids below its size only. *)
ToString(table, id) == table.reverse[id + 1]

=============================================================================
