---- MODULE Registry_proof ----
(***************************************************************************)
(* Proofs about the set libraries, for every set of keys, and about the    *)
(* registry, for every set of names and addresses.                         *)
(***************************************************************************)
EXTENDS KeySet, Registry, SequenceTheorems, TLAPS

----
(***************************************************************************)
(* The set libraries.  The inductive invariant is type correctness with    *)
(* the agreement of the list and its pointers.  From it follow that        *)
(* exists() decides membership and that the list implements a set.         *)
(***************************************************************************)
KeySetInv == KeySetTypeOK /\ PointersAgree

\* In a list whose pointers agree, exists() decides membership.
LEMMA ExistsDecides ==
  ASSUME KeySetInv
  PROVE  ExistsIsMembership
<1> SUFFICES ASSUME NEW k \in Key
             PROVE  exists(keyList, keyPointers, k) <=> k \in members
  BY DEF ExistsIsMembership
<1> USE DEF KeySetInv, KeySetTypeOK, PointersAgree, RowsPointBack, AbsentPointsToZero,
            exists, keyAtIndex, count, members
<1>1. ASSUME exists(keyList, keyPointers, k) PROVE k \in members
  <2>1. keyPointers[k] + 1 \in 1 .. Len(keyList)
    BY <1>1
  <2> QED BY <1>1, <2>1
<1>2. ASSUME k \in members PROVE exists(keyList, keyPointers, k)
  <2>1. PICK i \in 1 .. Len(keyList) : k = keyList[i]
    BY <1>2
  <2>2. i - 1 \in 0 .. Len(keyList) - 1 /\ (i - 1) + 1 = i
    OBVIOUS
  <2>3. keyPointers[k] = i - 1
    BY <2>1, <2>2
  <2> QED BY <2>1, <2>2, <2>3
<1> QED BY <1>1, <1>2

\* No key has two rows.
LEMMA RowsDistinct ==
  ASSUME KeySetInv, NEW i \in 1 .. Len(keyList), NEW j \in 1 .. Len(keyList),
         keyList[i] = keyList[j]
  PROVE  i = j
<1>1. i - 1 \in 0 .. Len(keyList) - 1 /\ j - 1 \in 0 .. Len(keyList) - 1
  BY DEF KeySetInv, KeySetTypeOK
<1>2. keyPointers[keyList[i]] = i - 1 /\ keyPointers[keyList[j]] = j - 1
  BY <1>1 DEF KeySetInv, PointersAgree, RowsPointBack, keyAtIndex, count
<1> QED BY <1>2

\* The rows after a removal: the list is one shorter, and the last key stands
\* where the removed one stood.
LEMMA RemovedRows ==
  ASSUME KeySetInv, NEW k \in Key, remove(k)
  PROVE  /\ keyList' \in Seq(Key)
         /\ Len(keyList') = Len(keyList) - 1
         /\ keyPointers[k] + 1 \in 1 .. Len(keyList)
         /\ keyList[keyPointers[k] + 1] = k
         /\ lastKey \in Key
         /\ keyPointers[lastKey] = Len(keyList) - 1
         /\ \A i \in 1 .. Len(keyList') :
              keyList'[i] = IF i = keyPointers[k] + 1 THEN lastKey ELSE keyList[i]
<1> USE DEF KeySetInv, KeySetTypeOK
<1>1. /\ keyPointers[k] + 1 \in 1 .. Len(keyList)
      /\ keyList[keyPointers[k] + 1] = k
  BY DEF remove, exists, keyAtIndex, count
<1>2. lastKey \in Key /\ Len(keyList) \in Nat \ {0}
  BY <1>1 DEF lastKey
<1>3. keyPointers[lastKey] = Len(keyList) - 1
  <2>1. Len(keyList) - 1 \in 0 .. Len(keyList) - 1 /\ (Len(keyList) - 1) + 1 = Len(keyList)
    BY <1>2
  <2> QED BY <2>1 DEF PointersAgree, RowsPointBack, keyAtIndex, count, lastKey
<1>4. /\ MovedList(k) \in Seq(Key)
      /\ Len(MovedList(k)) = Len(keyList)
      /\ \A i \in 1 .. Len(keyList) :
           MovedList(k)[i] = IF i = keyPointers[k] + 1 THEN lastKey ELSE keyList[i]
  BY <1>1, <1>2 DEF MovedList
<1>5. /\ keyList' \in Seq(Key)
      /\ Len(keyList') = Len(keyList) - 1
      /\ \A i \in 1 .. Len(keyList) - 1 : keyList'[i] = MovedList(k)[i]
  BY <1>2, <1>4 DEF remove
<1> QED BY <1>1, <1>2, <1>3, <1>4, <1>5

\* A removal takes exactly its own key out of the set.
LEMMA RemoveDrops ==
  ASSUME KeySetInv, NEW k \in Key, remove(k)
  PROVE  k \in members /\ members' = members \ {k}
<1>1. k \in members
  BY RemovedRows DEF members
<1>2. ASSUME NEW x \in members' PROVE x \in members \ {k}
  <2>1. PICK i \in 1 .. Len(keyList') : x = keyList'[i]
    BY <1>2 DEF members
  <2>2. i \in 1 .. Len(keyList) /\ i # Len(keyList) /\ Len(keyList) \in 1 .. Len(keyList)
    BY RemovedRows DEF KeySetInv, KeySetTypeOK
  <2>3. CASE i = keyPointers[k] + 1
    <3>1. x = keyList[Len(keyList)]
      BY <2>1, <2>3, RemovedRows DEF lastKey
    <3>2. x # k
      BY <2>2, <2>3, <3>1, RemovedRows, RowsDistinct
    <3> QED BY <2>2, <3>1, <3>2 DEF members
  <2>4. CASE i # keyPointers[k] + 1
    <3>1. x = keyList[i]
      BY <2>1, <2>4, RemovedRows
    <3>2. x # k
      BY <2>2, <2>4, <3>1, RemovedRows, RowsDistinct
    <3> QED BY <2>2, <3>1, <3>2 DEF members
  <2> QED BY <2>3, <2>4
<1>3. ASSUME NEW x \in members \ {k} PROVE x \in members'
  <2>1. PICK i \in 1 .. Len(keyList) : x = keyList[i]
    BY DEF members
  <2>2. i # keyPointers[k] + 1
    BY <2>1, RemovedRows
  <2>3. CASE i = Len(keyList)
    <3>1. keyPointers[k] + 1 \in 1 .. Len(keyList')
      BY <2>2, <2>3, RemovedRows DEF KeySetInv, KeySetTypeOK
    <3>2. keyList'[keyPointers[k] + 1] = x
      BY <2>1, <2>3, <3>1, RemovedRows DEF lastKey
    <3> QED BY <3>1, <3>2 DEF members
  <2>4. CASE i # Len(keyList)
    <3>1. i \in 1 .. Len(keyList')
      BY <2>4, RemovedRows DEF KeySetInv, KeySetTypeOK
    <3>2. keyList'[i] = x
      BY <2>1, <2>2, <3>1, RemovedRows
    <3> QED BY <3>1, <3>2 DEF members
  <2> QED BY <2>3, <2>4
<1> QED BY <1>1, <1>2, <1>3

\* An insertion adds its key, which the set did not hold.
LEMMA InsertAdds ==
  ASSUME KeySetInv, NEW k \in Key, insert(k)
  PROVE  k \notin members /\ members' = members \cup {k}
<1>1. k \notin members
  BY ExistsDecides DEF insert, ExistsIsMembership
<1>2. /\ Len(keyList') = Len(keyList) + 1
      /\ \A i \in 1 .. Len(keyList) : keyList'[i] = keyList[i]
      /\ keyList'[Len(keyList) + 1] = k
      /\ Len(keyList) \in Nat
  BY DEF insert, KeySetInv, KeySetTypeOK
<1>3. ASSUME NEW x \in members' PROVE x \in members \cup {k}
  <2>1. PICK i \in 1 .. Len(keyList) + 1 : x = keyList'[i]
    BY <1>2 DEF members
  <2>2. CASE i = Len(keyList) + 1 BY <1>2, <2>1, <2>2
  <2>3. CASE i \in 1 .. Len(keyList) BY <1>2, <2>1, <2>3 DEF members
  <2> QED BY <1>2, <2>2, <2>3
<1>4. ASSUME NEW x \in members PROVE x \in members'
  <2>1. PICK i \in 1 .. Len(keyList) : x = keyList[i]
    BY DEF members
  <2>2. i \in 1 .. Len(keyList') /\ x = keyList'[i]
    BY <1>2, <2>1
  <2> QED BY <2>2 DEF members
<1>5. k \in members'
  <2>1. Len(keyList) + 1 \in 1 .. Len(keyList')
    BY <1>2
  <2> QED BY <1>2, <2>1 DEF members
<1> QED BY <1>1, <1>3, <1>4, <1>5

\* The invariant holds at first.
LEMMA KeySetInitInvariant == KeySetInit => KeySetInv
<1> SUFFICES ASSUME KeySetInit PROVE KeySetInv
  OBVIOUS
<1>1. KeySetTypeOK
  BY DEF KeySetInit, KeySetTypeOK
<1>2. RowsPointBack
  BY DEF KeySetInit, RowsPointBack, count
<1>3. AbsentPointsToZero
  BY DEF KeySetInit, AbsentPointsToZero
<1> QED BY <1>1, <1>2, <1>3 DEF KeySetInv, PointersAgree

\* An insertion preserves the invariant.
LEMMA InsertKeepsKeys ==
  ASSUME KeySetInv, NEW k \in Key, insert(k)
  PROVE  KeySetInv'
<1> USE DEF KeySetInv, KeySetTypeOK
<1>1. k \notin members /\ members' = members \cup {k}
  BY InsertAdds
<1>2. KeySetTypeOK'
  BY DEF insert, count
<1>3. RowsPointBack'
  <2> SUFFICES ASSUME NEW row \in 0 .. Len(keyList') - 1
               PROVE  keyPointers'[keyList'[row + 1]] = row
    BY DEF RowsPointBack, count, keyAtIndex
  <2>1. CASE row = Len(keyList)
    BY <2>1 DEF insert, count
  <2>2. CASE row # Len(keyList)
    <3>1. row \in 0 .. Len(keyList) - 1 /\ row + 1 \in 1 .. Len(keyList)
      BY <2>2 DEF insert
    <3>2. keyList'[row + 1] = keyList[row + 1] /\ keyList[row + 1] \in Key
      BY <3>1 DEF insert
    <3>3. keyList[row + 1] # k
      BY <1>1, <3>1 DEF members
    <3>4. keyPointers[keyList[row + 1]] = row
      BY <3>1 DEF PointersAgree, RowsPointBack, count, keyAtIndex
    <3> QED BY <3>2, <3>3, <3>4 DEF insert
  <2> QED BY <2>1, <2>2
<1>4. AbsentPointsToZero'
  BY <1>1 DEF insert, PointersAgree, AbsentPointsToZero
<1> QED BY <1>2, <1>3, <1>4 DEF PointersAgree

\* A removal preserves the invariant.
LEMMA RemoveKeepsKeys ==
  ASSUME KeySetInv, NEW k \in Key, remove(k)
  PROVE  KeySetInv'
<1> USE DEF KeySetInv, KeySetTypeOK
<1>1. k \in members /\ members' = members \ {k}
  BY RemoveDrops
<1>2. /\ keyPointers' \in [Key -> Nat]
      /\ keyPointers'[k] = 0
      /\ lastKey # k => keyPointers'[lastKey] = keyPointers[k]
      /\ \A j \in Key \ {k, lastKey} : keyPointers'[j] = keyPointers[j]
  BY RemovedRows DEF remove, MovedPointers
<1>3. KeySetTypeOK'
  BY <1>2, RemovedRows
<1>4. RowsPointBack'
  <2> SUFFICES ASSUME NEW row \in 0 .. Len(keyList') - 1
               PROVE  keyPointers'[keyList'[row + 1]] = row
    BY DEF RowsPointBack, count, keyAtIndex
  <2>1. /\ row + 1 \in 1 .. Len(keyList')
        /\ row + 1 \in 1 .. Len(keyList)
        /\ row + 1 # Len(keyList)
        /\ Len(keyList) \in 1 .. Len(keyList)
    BY RemovedRows
  <2>2. CASE row = keyPointers[k]
    <3>1. keyList'[row + 1] = lastKey
      BY <2>1, <2>2, RemovedRows
    <3>2. lastKey # k
      BY <2>1, <2>2, RemovedRows
    <3> QED BY <1>2, <2>2, <3>1, <3>2
  <2>3. CASE row # keyPointers[k]
    <3>0. row + 1 # keyPointers[k] + 1 /\ row # Len(keyList) - 1
      BY <2>1, <2>3
    <3>1. keyList'[row + 1] = keyList[row + 1] /\ keyList[row + 1] \in Key
      <4>1. keyList'[row + 1] = keyList[row + 1]
        BY <2>1, <3>0, RemovedRows
      <4>2. keyList[row + 1] \in Key
        BY <2>1
      <4> QED BY <4>1, <4>2
    <3>2. keyPointers[keyList[row + 1]] = row
      BY <2>1 DEF PointersAgree, RowsPointBack, count, keyAtIndex
    <3>3. keyList[row + 1] # k /\ keyList[row + 1] # lastKey
      BY <2>3, <3>0, <3>2, RemovedRows
    <3> QED BY <1>2, <3>1, <3>2, <3>3
  <2> QED BY <2>2, <2>3
<1>5. AbsentPointsToZero'
  <2> SUFFICES ASSUME NEW j \in Key \ members' PROVE keyPointers'[j] = 0
    BY DEF AbsentPointsToZero
  <2>1. CASE j = k
    BY <1>2, <2>1
  <2>2. CASE j # k
    <3>1. j \notin members
      BY <1>1, <2>2
    <3>2. j # lastKey
      <4>1. Len(keyList) \in 1 .. Len(keyList)
        BY RemovedRows
      <4> QED BY <3>1, <4>1 DEF lastKey, members
    <3> QED BY <1>2, <2>2, <3>1, <3>2 DEF PointersAgree, AbsentPointsToZero
  <2> QED BY <2>1, <2>2
<1> QED BY <1>3, <1>4, <1>5 DEF PointersAgree

\* Every step preserves the invariant.
LEMMA KeySetNextInvariant == KeySetInv /\ [KeySetNext]_keySetVars => KeySetInv'
<1> SUFFICES ASSUME KeySetInv, [KeySetNext]_keySetVars PROVE KeySetInv'
  OBVIOUS
<1>1. CASE UNCHANGED keySetVars
  BY <1>1 DEF keySetVars, KeySetInv, KeySetTypeOK, PointersAgree, RowsPointBack, AbsentPointsToZero,
              members, count, keyAtIndex
<1>2. ASSUME NEW k \in Key, insert(k) PROVE KeySetInv'
  BY <1>2, InsertKeepsKeys
<1>3. ASSUME NEW k \in Key, remove(k) PROVE KeySetInv'
  BY <1>3, RemoveKeepsKeys
<1> QED BY <1>1, <1>2, <1>3 DEF KeySetNext

(***************************************************************************)
(* Type correctness and agreement of list and pointers, after any series   *)
(* of insertions and removals.                                             *)
(***************************************************************************)
THEOREM KeySetInvariantHolds == KeySetSpec => []KeySetInv
<1>1. KeySetInit => KeySetInv BY KeySetInitInvariant
<1>2. KeySetInv /\ [KeySetNext]_keySetVars => KeySetInv' BY KeySetNextInvariant
<1> QED BY <1>1, <1>2, PTL DEF KeySetSpec

\* The list and the pointers agree in every reachable state.
THEOREM PointersAgreeHolds == KeySetSpec => []PointersAgree
<1>1. KeySetInv => PointersAgree BY DEF KeySetInv
<1> QED BY <1>1, KeySetInvariantHolds, PTL

(***************************************************************************)
(* exists() decides membership in every reachable state.                   *)
(***************************************************************************)
THEOREM ExistsIsMembershipHolds == KeySetSpec => []ExistsIsMembership
<1>1. KeySetInv => ExistsIsMembership BY ExistsDecides
<1> QED BY <1>1, KeySetInvariantHolds, PTL

(***************************************************************************)
(* A removal drops its own key and no other.                               *)
(***************************************************************************)
THEOREM RemoveTakesItsKeyHolds == KeySetSpec => RemoveTakesItsKey
<1>1. KeySetInv => (\A k \in Key : remove(k) => members' = members \ {k})
  BY RemoveDrops
<1>2. KeySetInv /\ [KeySetNext]_keySetVars
        => [\A k \in Key : remove(k) => members' = members \ {k}]_keySetVars
  BY <1>1
<1> QED BY <1>2, KeySetInvariantHolds, PTL DEF KeySetSpec, RemoveTakesItsKey

(***************************************************************************)
(* The libraries implement a set of keys: the empty array is the empty     *)
(* set, and every step is an addition, a removal or no change of the set.  *)
(***************************************************************************)
THEOREM Implements == KeySetSpec => ImplementsSet
<1>1. KeySetInit => A!Init
  BY DEF KeySetInit, A!Init, members
<1>2. KeySetInv /\ [KeySetNext]_keySetVars => [A!Next]_members
  <2> SUFFICES ASSUME KeySetInv, [KeySetNext]_keySetVars PROVE [A!Next]_members
    OBVIOUS
  <2>1. CASE UNCHANGED keySetVars
    BY <2>1 DEF keySetVars, members
  <2>2. ASSUME NEW k \in Key, insert(k) PROVE A!Next
    BY <2>2, InsertAdds DEF A!Next, A!Add
  <2>3. ASSUME NEW k \in Key, remove(k) PROVE A!Next
    BY <2>3, RemoveDrops DEF A!Next, A!Drop
  <2> QED BY <2>1, <2>2, <2>3 DEF KeySetNext
<1> QED BY <1>1, <1>2, KeySetInvariantHolds, PTL DEF KeySetSpec, ImplementsSet, A!Spec

----
(***************************************************************************)
(* The registry.  The labels lead back because a name is registered only   *)
(* while it means no address: it is then the label of no contract, so      *)
(* giving it to one disturbs no other.  The lists are named because an     *)
(* address gets its label in the transaction that lists it, and labels are *)
(* only replaced.                                                          *)
(***************************************************************************)
RegistryInv == RegistryTypeOK /\ LabelsLeadBack /\ ListedContractsAreNamed

\* What a list holds after an address was appended.
LEMMA ListedAppend ==
  ASSUME NEW list \in Seq(AnyAddress), NEW a \in AnyAddress
  PROVE  /\ Append(list, a) \in Seq(AnyAddress)
         /\ Listed(Append(list, a)) = Listed(list) \cup {a}
<1>1. /\ Append(list, a) \in Seq(AnyAddress)
      /\ Len(Append(list, a)) = Len(list) + 1
      /\ \A i \in 1 .. Len(list) : Append(list, a)[i] = list[i]
      /\ Append(list, a)[Len(list) + 1] = a
  BY AppendProperties
<1>2. Len(list) \in Nat
  BY LenProperties
<1>3. 1 .. Len(list) + 1 = (1 .. Len(list)) \cup {Len(list) + 1}
  BY <1>2
<1> QED BY <1>1, <1>3 DEF Listed

\* The initial state satisfies the invariant.
LEMMA InitInvariant == RegistryInit => RegistryInv
<1> SUFFICES ASSUME RegistryInit PROVE RegistryInv
  OBVIOUS
<1> USE RegistryAssumption DEF RegistryInit
<1>1. RegistryTypeOK
  BY DEF RegistryTypeOK, AnyAddress
<1>2. LabelsLeadBack
  BY DEF LabelsLeadBack, AnyAddress
<1>3. ListedContractsAreNamed
  BY DEF ListedContractsAreNamed, Listed
<1> QED BY <1>1, <1>2, <1>3 DEF RegistryInv

\* Registering a name that means no address keeps the mappings' part of it.
LEMMA RegisteringKeepsLabels ==
  ASSUME RegistryTypeOK, LabelsLeadBack, NEW name \in Name, NEW a \in AnyAddress,
         nameAvaliable(name), nameRegistered(name, a)
  PROVE  /\ nameAddressMapping' \in [Name -> AnyAddress]
         /\ addressNameMapping' \in [AnyAddress -> Name \cup {NoName}]
         /\ LabelsLeadBack'
<1> USE RegistryAssumption DEF RegistryTypeOK, nameRegistered, nameAvaliable
<1>1. nameAddressMapping' \in [Name -> AnyAddress]
  OBVIOUS
<1>2. addressNameMapping' \in [AnyAddress -> Name \cup {NoName}]
  OBVIOUS
<1>3. LabelsLeadBack'
  <2> SUFFICES ASSUME NEW b \in Contract, addressNameMapping'[b] # NoName
               PROVE  nameAddressMapping'[addressNameMapping'[b]] = b
    BY DEF LabelsLeadBack
  <2>1. CASE b = a
    BY <2>1
  <2>2. CASE b # a
    <3>1. addressNameMapping'[b] = addressNameMapping[b]
      BY <2>2 DEF AnyAddress
    <3>2. nameAddressMapping[addressNameMapping[b]] = b
      BY <3>1 DEF LabelsLeadBack
    <3>3. addressNameMapping[b] # name
      BY <3>2
    <3>4. addressNameMapping[b] \in Name
      BY <3>1 DEF AnyAddress
    <3> QED BY <3>1, <3>2, <3>3, <3>4
  <2> QED BY <2>1, <2>2
<1> QED BY <1>1, <1>2, <1>3

\* Every address that has a label keeps one, and a gets one.
LEMMA RegisteringNames ==
  ASSUME RegistryTypeOK, NEW name \in Name, NEW a \in AnyAddress, nameRegistered(name, a),
         NEW b \in AnyAddress, addressNameMapping[b] # NoName \/ b = a
  PROVE  addressNameMapping'[b] # NoName
BY RegistryAssumption DEF RegistryTypeOK, nameRegistered

\* Every step keeps the invariant.
LEMMA NextInvariant == RegistryInv /\ [RegistryNext]_registryVars => RegistryInv'
<1> SUFFICES ASSUME RegistryInv, [RegistryNext]_registryVars PROVE RegistryInv'
  OBVIOUS
<1> USE DEF RegistryInv
<1>1. ASSUME NEW name \in Name, NEW a \in AnyAddress, registerName(name, a)
      PROVE  RegistryInv'
  <2>1. nameAvaliable(name) /\ nameRegistered(name, a)
    BY <1>1 DEF registerName
  <2>2. machinesContracts' = machinesContracts /\ processesContracts' = processesContracts
    BY <1>1 DEF registerName
  <2>3. RegistryTypeOK' /\ LabelsLeadBack'
    BY <2>1, <2>2, RegisteringKeepsLabels DEF RegistryTypeOK
  <2>4. ListedContractsAreNamed'
    <3>1. Listed(machinesContracts) \cup Listed(processesContracts) \subseteq AnyAddress
      BY DEF RegistryTypeOK, Listed
    <3> QED BY <2>1, <2>2, <3>1, RegisteringNames DEF ListedContractsAreNamed, Listed
  <2> QED BY <2>3, <2>4
<1>2. ASSUME NEW name \in Name, NEW a \in AnyAddress, registerMachine(name, a)
      PROVE  RegistryInv'
  <2>1. nameAvaliable(name) /\ nameRegistered(name, a)
    BY <1>2 DEF registerMachine
  <2>2. machinesContracts' = Append(machinesContracts, a) /\ processesContracts' = processesContracts
    BY <1>2 DEF registerMachine
  <2>3. /\ machinesContracts' \in Seq(AnyAddress)
        /\ Listed(machinesContracts') = Listed(machinesContracts) \cup {a}
    BY <2>2, ListedAppend DEF RegistryTypeOK
  <2>4. RegistryTypeOK' /\ LabelsLeadBack'
    BY <2>1, <2>2, <2>3, RegisteringKeepsLabels DEF RegistryTypeOK
  <2>5. ListedContractsAreNamed'
    <3>1. Listed(machinesContracts) \cup Listed(processesContracts) \subseteq AnyAddress
      BY DEF RegistryTypeOK, Listed
    <3>2. Listed(processesContracts') = Listed(processesContracts)
      BY <2>2
    <3>3. ASSUME NEW b \in Listed(machinesContracts') \cup Listed(processesContracts')
          PROVE  addressNameMapping'[b] # NoName
      <4>1. b \in AnyAddress /\ (addressNameMapping[b] # NoName \/ b = a)
        BY <2>3, <3>1, <3>2, <3>3 DEF ListedContractsAreNamed
      <4> QED BY <2>1, <4>1, RegisteringNames
    <3> QED BY <3>3 DEF ListedContractsAreNamed, Listed
  <2> QED BY <2>4, <2>5
<1>3. ASSUME NEW name \in Name, NEW a \in AnyAddress, registerProcess(name, a)
      PROVE  RegistryInv'
  <2>1. nameAvaliable(name) /\ nameRegistered(name, a)
    BY <1>3 DEF registerProcess
  <2>2. processesContracts' = Append(processesContracts, a) /\ machinesContracts' = machinesContracts
    BY <1>3 DEF registerProcess
  <2>3. /\ processesContracts' \in Seq(AnyAddress)
        /\ Listed(processesContracts') = Listed(processesContracts) \cup {a}
    BY <2>2, ListedAppend DEF RegistryTypeOK
  <2>4. RegistryTypeOK' /\ LabelsLeadBack'
    BY <2>1, <2>2, <2>3, RegisteringKeepsLabels DEF RegistryTypeOK
  <2>5. ListedContractsAreNamed'
    <3>1. Listed(machinesContracts) \cup Listed(processesContracts) \subseteq AnyAddress
      BY DEF RegistryTypeOK, Listed
    <3>2. Listed(machinesContracts') = Listed(machinesContracts)
      BY <2>2
    <3>3. ASSUME NEW b \in Listed(machinesContracts') \cup Listed(processesContracts')
          PROVE  addressNameMapping'[b] # NoName
      <4>1. b \in AnyAddress /\ (addressNameMapping[b] # NoName \/ b = a)
        BY <2>3, <3>1, <3>2, <3>3 DEF ListedContractsAreNamed
      <4> QED BY <2>1, <4>1, RegisteringNames
    <3> QED BY <3>3 DEF ListedContractsAreNamed, Listed
  <2> QED BY <2>4, <2>5
<1>4. CASE UNCHANGED registryVars
  BY <1>4 DEF registryVars, RegistryTypeOK, LabelsLeadBack, ListedContractsAreNamed, Listed
<1> QED BY <1>1, <1>2, <1>3, <1>4 DEF RegistryNext

\* The registry keeps its type, its labels lead back and its lists are named.
THEOREM RegistryInvariantHolds == RegistrySpec => []RegistryInv
<1> QED BY InitInvariant, NextInvariant, PTL DEF RegistrySpec

\* The label of a contract leads back to it, whatever anyone registers.
THEOREM LabelsLeadBackHolds == RegistrySpec => []LabelsLeadBack
<1>1. RegistryInv => LabelsLeadBack
  BY DEF RegistryInv
<1> QED BY <1>1, RegistryInvariantHolds, PTL

\* Every machine and process in the registry's lists has a label.
THEOREM ListedContractsAreNamedHolds == RegistrySpec => []ListedContractsAreNamed
<1>1. RegistryInv => ListedContractsAreNamed
  BY DEF RegistryInv
<1> QED BY <1>1, RegistryInvariantHolds, PTL

\* A name that was registered for an address means that address forever.
THEOREM NamesAreForeverHolds == RegistrySpec => NamesAreForever
<1>1. ASSUME RegistryInv, [RegistryNext]_registryVars PROVE [NamesKept]_registryVars
  <2>1. ASSUME NEW name \in Name, NEW a \in AnyAddress, nameAvaliable(name), nameRegistered(name, a)
        PROVE  NamesKept
    BY <1>1, <2>1 DEF RegistryInv, RegistryTypeOK, NamesKept, nameAvaliable, nameRegistered
  <2>2. ASSUME RegistryNext PROVE NamesKept
    BY <2>1, <2>2 DEF RegistryNext, registerName, registerMachine, registerProcess
  <2> QED BY <1>1, <2>2
<1> QED BY <1>1, RegistryInvariantHolds, PTL DEF RegistrySpec, NamesAreForever
====
