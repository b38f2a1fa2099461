---- MODULE KeySet ----
(***************************************************************************)
(* contracts/setTypes/{Address,Uint,Bytes32,String}Set.sol: one algorithm  *)
(* for four key types.  A set is an array of its keys (keyList) and a      *)
(* mapping from every key to its row (keyPointers), zero for a key that    *)
(* was never inserted.  Rows count from zero as in Solidity, so row r is   *)
(* keyList[r + 1].  A call whose require fails reverts: it is no step.     *)
(***************************************************************************)
EXTENDS Naturals, Sequences

CONSTANT Key

VARIABLES keyList, keyPointers

keySetVars == <<keyList, keyPointers>>

----
\* The view functions of the library, on any list and pointers.

count(list) == Len(list)

keyAtIndex(list, row) == list[row + 1]

\* The code reads the row without comparing it to the length: a row beyond the
\* array would fail the call.  PointersAgree shows that no pointer leads there.
exists(list, pointers, k) ==
  /\ pointers[k] < count(list)
  /\ keyAtIndex(list, pointers[k]) = k

----

KeySetInit ==
  /\ keyList = <<>>
  /\ keyPointers = [k \in Key |-> 0]

insert(k) ==
  /\ ~exists(keyList, keyPointers, k)
  /\ keyList' = Append(keyList, k)
  /\ keyPointers' = [keyPointers EXCEPT ![k] = count(keyList)]

lastKey == keyList[Len(keyList)]

\* The last key moves into the row of the removed one, and its pointer with it.
\* The code skips both assignments when the removed key is the last: pop and
\* delete would undo them.
MovedList(k) == [keyList EXCEPT ![keyPointers[k] + 1] = lastKey]

\* A mutation: the removed key keeps a pointer.
PointerNotDeleted(k) == [keyPointers EXCEPT ![lastKey] = keyPointers[k]]

MovedPointers(k) ==
  [[keyPointers EXCEPT ![lastKey] = keyPointers[k]] EXCEPT ![k] = 0]

\* A mutation: the array is cut at the removed row.
RemoveTruncating(k) ==
  /\ exists(keyList, keyPointers, k)
  /\ keyList' = SubSeq(keyList, 1, keyPointers[k])
  /\ keyPointers' = MovedPointers(k)

remove(k) ==
  /\ exists(keyList, keyPointers, k)
  /\ keyList' = SubSeq(MovedList(k), 1, Len(keyList) - 1)
  /\ keyPointers' = MovedPointers(k)

KeySetNext == \E k \in Key : insert(k) \/ remove(k)

KeySetSpec == KeySetInit /\ [][KeySetNext]_keySetVars

----

members == {keyList[i] : i \in 1 .. Len(keyList)}

KeySetTypeOK ==
  /\ keyList \in Seq(Key)
  /\ keyPointers \in [Key -> Nat]

(***************************************************************************)
(* The two structures agree.  The pointer of the key in a row is that row  *)
(* (so no key has two rows), and a key that is not in the list points to   *)
(* row zero: after any series of insertions and removals exists() reads    *)
(* inside the array, which it does not verify itself.                      *)
(***************************************************************************)
RowsPointBack ==
  \A row \in 0 .. count(keyList) - 1 : keyPointers[keyAtIndex(keyList, row)] = row

AbsentPointsToZero == \A k \in Key \ members : keyPointers[k] = 0

PointersAgree == RowsPointBack /\ AbsentPointsToZero

(***************************************************************************)
(* exists(), which looks at one row, answers for every key as a search of  *)
(* the whole list would.                                                   *)
(***************************************************************************)
ExistsIsMembership ==
  \A k \in Key : exists(keyList, keyPointers, k) <=> k \in members

(***************************************************************************)
(* The row swap loses no bystander: a removal takes exactly its own key    *)
(* out of the enumeration, whichever row the key was in.                   *)
(***************************************************************************)
RemoveTakesItsKey == [][\A k \in Key : remove(k) => members' = members \ {k}]_keySetVars

(***************************************************************************)
(* The list with its pointers implements a set of keys: every step adds or *)
(* drops one key, and only when the set allows it.                         *)
(***************************************************************************)
A == INSTANCE AbstractSet WITH members <- members

ImplementsSet == A!Spec
====
