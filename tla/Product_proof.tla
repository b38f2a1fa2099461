---- MODULE Product_proof ----
(***************************************************************************)
(* Proofs about the product contract, for every set of products, callers,  *)
(* operation names and values.                                             *)
(*                                                                         *)
(* The types, the bijection of IDs and the agreement of the histories are  *)
(* inductive together.  The actions are of four kinds: a creation, a save  *)
(* of operations, the same with an identifier, and the rest, which touches *)
(* neither IDs nor histories.  The lemmas about saves are for any number of*)
(* operations, as the machine contracts save several in one transaction.   *)
(***************************************************************************)
EXTENDS Product, SequenceTheorems, TLAPS

HistoryVars == <<operations, productsOperations, productsOperationsNames>>

----
\* The parts of HistoriesAgree, for one product.
InOrder(p) ==
  \A i \in 1 .. Len(productsOperations[p]) :
    /\ productsOperations[p][i] \in 1 .. Len(operations)
    /\ i > 1 => productsOperations[p][i - 1] < productsOperations[p][i]

Apart(p) == \A q \in ProductID \ {p} : IDsOf(p) \cap IDsOf(q) = {}

IndexGivesNewest(p) ==
  \A n \in OpName :
    IF Named(p, n) = {}
      THEN productsOperationsNames[p][n] = 0
      ELSE /\ productsOperationsNames[p][n] \in Named(p, n)
           /\ \A id \in Named(p, n) : id <= productsOperationsNames[p][n]

Identified(p) ==
  \A v \in Value :
    productPhysicalIDMapping[v] = p =>
      \E id \in Named(p, Identification) : operations[id].result = v

LEMMA HistoryParts ==
  HistoriesAgree <=>
    \A p \in ProductID : InOrder(p) /\ Apart(p) /\ IndexGivesNewest(p) /\ Identified(p)
BY DEF HistoriesAgree, InOrder, Apart, IndexGivesNewest, Identified

LEMMA HistoryPartsPrimed ==
  HistoriesAgree' <=>
    \A p \in ProductID : InOrder(p)' /\ Apart(p)' /\ IndexGivesNewest(p)' /\ Identified(p)'
BY DEF HistoriesAgree, InOrder, Apart, IndexGivesNewest, Identified

IInv == TypeOK /\ IDsAreBijective /\ HistoriesAgree

\* The operations that one transaction may save for a product, no two under one name.
Several(ops) ==
  /\ ops \in Seq(OperationRecord)
  /\ \A i, j \in 1 .. Len(ops) : ops[i].name = ops[j].name => i = j

LEMMA SeveralTyped ==
  ASSUME NEW ops, Several(ops)
  PROVE  /\ DOMAIN ops = 1 .. Len(ops) /\ Len(ops) \in Nat
         /\ \A i \in 1 .. Len(ops) :
              ops[i] \in OperationRecord /\ ops[i].name \in OpName /\ ops[i].result \in Value
<1>1. ops \in Seq(OperationRecord)
  BY DEF Several
<1>2. DOMAIN ops = 1 .. Len(ops) /\ Len(ops) \in Nat
  BY <1>1, LenProperties
<1>3. \A i \in 1 .. Len(ops) : ops[i] \in OperationRecord
  BY <1>1, ElementOfSeq
<1>4. \A op \in OperationRecord : op.name \in OpName /\ op.result \in Value
  BY DEF OperationRecord
<1> QED BY <1>2, <1>3, <1>4

\* What the functions that save operations do to the histories.
SavedAll(p, ops) ==
  /\ Len(operations') = Len(operations) + Len(ops)
  /\ \A i \in 1 .. Len(ops) : operations'[Len(operations) + i] = ops[i]
  /\ \A id \in 1 .. Len(operations) : operations'[id] = operations[id]
  /\ Len(productsOperations'[p]) = Len(productsOperations[p]) + Len(ops)
  /\ \A i \in 1 .. Len(productsOperations[p]) : productsOperations'[p][i] = productsOperations[p][i]
  /\ \A i \in 1 .. Len(ops) :
       productsOperations'[p][Len(productsOperations[p]) + i] = Len(operations) + i
  /\ \A q \in ProductID \ {p} : productsOperations'[q] = productsOperations[q]
  /\ \A i \in 1 .. Len(ops) : productsOperationsNames'[p][ops[i].name] = Len(operations) + i
  /\ \A n \in OpName : (\A i \in 1 .. Len(ops) : ops[i].name # n) =>
       productsOperationsNames'[p][n] = productsOperationsNames[p][n]
  /\ \A q \in ProductID \ {p} : productsOperationsNames'[q] = productsOperationsNames[q]

HistoryTyped ==
  /\ operations \in Seq(OperationRecord)
  /\ productsOperations \in [ProductID -> Seq(Nat)]
  /\ productsOperationsNames \in [ProductID -> [OpName -> Nat]]

LEMMA OperationsSaved ==
  ASSUME TypeOK, NEW p \in ProductID, NEW ops, Several(ops), operationsSaved(p, ops)
  PROVE  SavedAll(p, ops) /\ HistoryTyped'
<1> DEFINE news == [i \in DOMAIN ops |-> Len(operations) + i]
           s == productsOperations[p]
<1>1. /\ operations \in Seq(OperationRecord) /\ ops \in Seq(OperationRecord)
      /\ DOMAIN ops = 1 .. Len(ops)
      /\ Len(operations) \in Nat /\ Len(ops) \in Nat
  BY LenProperties DEF TypeOK, Several
<1>2. s \in Seq(Nat) /\ Len(s) \in Nat
  BY LenProperties DEF TypeOK
<1>3. /\ operations' \in Seq(OperationRecord)
      /\ Len(operations') = Len(operations) + Len(ops)
      /\ \A i \in 1 .. Len(ops) : operations'[Len(operations) + i] = ops[i]
      /\ \A id \in 1 .. Len(operations) : operations'[id] = operations[id]
  <2>1. operations' = operations \o ops
    BY DEF operationsSaved
  <2>2. /\ operations \o ops \in Seq(OperationRecord)
        /\ Len(operations \o ops) = Len(operations) + Len(ops)
        /\ \A i \in 1 .. Len(operations) + Len(ops) :
             (operations \o ops)[i] = IF i <= Len(operations) THEN operations[i]
                                                              ELSE ops[i - Len(operations)]
    BY <1>1, ConcatProperties
  <2> QED BY <1>1, <2>1, <2>2
<1>4. news \in Seq(Nat) /\ Len(news) = Len(ops)
  BY <1>1
<1>5. /\ s \o news \in Seq(Nat)
      /\ Len(s \o news) = Len(s) + Len(ops)
      /\ \A i \in 1 .. Len(s) : (s \o news)[i] = s[i]
      /\ \A i \in 1 .. Len(ops) : (s \o news)[Len(s) + i] = Len(operations) + i
  <2>1. /\ s \o news \in Seq(Nat)
        /\ Len(s \o news) = Len(s) + Len(news)
        /\ \A i \in 1 .. Len(s) + Len(news) :
             (s \o news)[i] = IF i <= Len(s) THEN s[i] ELSE news[i - Len(s)]
    BY <1>2, <1>4, ConcatProperties
  <2>2. \A i \in 1 .. Len(ops) : news[i] = Len(operations) + i
    BY <1>1
  <2> HIDE DEF news, s
  <2> QED BY <1>1, <1>2, <1>4, <2>1, <2>2
<1>6. /\ productsOperations' \in [ProductID -> Seq(Nat)]
      /\ productsOperations'[p] = s \o news
      /\ \A q \in ProductID \ {p} : productsOperations'[q] = productsOperations[q]
  <2>1. productsOperations' = [productsOperations EXCEPT ![p] = s \o news]
    BY DEF operationsSaved, TypeOK
  <2> HIDE DEF news, s
  <2> QED BY <1>5, <2>1 DEF TypeOK
<1>7. ASSUME NEW n \in OpName
      PROVE  /\ LatestNames(p, ops)[n] \in Nat
             /\ \A i \in 1 .. Len(ops) : ops[i].name = n => LatestNames(p, ops)[n] = Len(operations) + i
             /\ (\A i \in 1 .. Len(ops) : ops[i].name # n) =>
                  LatestNames(p, ops)[n] = productsOperationsNames[p][n]
  <2>1. productsOperationsNames[p][n] \in Nat
    BY DEF TypeOK
  <2>2. CASE \A i \in 1 .. Len(ops) : ops[i].name # n
    BY <1>1, <2>1, <2>2 DEF LatestNames
  <2>3. ASSUME NEW i \in 1 .. Len(ops), ops[i].name = n
        PROVE  LatestNames(p, ops)[n] = Len(operations) + i
    <3>1. \A j \in DOMAIN ops : ops[j].name = n => j = i
      BY <1>1, <2>3 DEF Several
    <3>2. (CHOOSE j \in DOMAIN ops : ops[j].name = n /\ \A l \in DOMAIN ops : ops[l].name = n => l <= j) = i
      BY <1>1, <2>3, <3>1
    <3> QED BY <1>1, <2>3, <3>2 DEF LatestNames
  <2> QED BY <1>1, <2>2, <2>3
<1>8. /\ productsOperationsNames' \in [ProductID -> [OpName -> Nat]]
      /\ productsOperationsNames'[p] = LatestNames(p, ops)
      /\ \A q \in ProductID \ {p} : productsOperationsNames'[q] = productsOperationsNames[q]
  <2>1. LatestNames(p, ops) = [n \in OpName |-> LatestNames(p, ops)[n]]
    BY DEF LatestNames
  <2>2. LatestNames(p, ops) \in [OpName -> Nat]
    BY <1>7, <2>1
  <2>3. productsOperationsNames' = [productsOperationsNames EXCEPT ![p] = LatestNames(p, ops)]
    BY DEF operationsSaved
  <2> QED BY <2>2, <2>3 DEF TypeOK
<1>9. \A i \in 1 .. Len(ops) : ops[i].name \in OpName
  BY SeveralTyped
<1> HIDE DEF news, s
<1>10. HistoryTyped'
  BY <1>3, <1>6, <1>8 DEF HistoryTyped
<1>11. /\ \A i \in 1 .. Len(ops) : productsOperationsNames'[p][ops[i].name] = Len(operations) + i
       /\ \A n \in OpName : (\A i \in 1 .. Len(ops) : ops[i].name # n) =>
            productsOperationsNames'[p][n] = productsOperationsNames[p][n]
       /\ \A q \in ProductID \ {p} : productsOperationsNames'[q] = productsOperationsNames[q]
  BY <1>7, <1>8, <1>9
<1>12. /\ Len(productsOperations'[p]) = Len(productsOperations[p]) + Len(ops)
       /\ \A i \in 1 .. Len(productsOperations[p]) : productsOperations'[p][i] = productsOperations[p][i]
       /\ \A i \in 1 .. Len(ops) :
            productsOperations'[p][Len(productsOperations[p]) + i] = Len(operations) + i
       /\ \A q \in ProductID \ {p} : productsOperations'[q] = productsOperations[q]
  BY <1>5, <1>6 DEF s
<1> QED BY <1>3, <1>10, <1>11, <1>12 DEF SavedAll

----
\* The histories after some operations were saved.

\* The IDs in the lists are those of recorded operations.
LEMMA IDsAreRecorded ==
  ASSUME TypeOK, HistoriesAgree, NEW p \in ProductID
  PROVE  IDsOf(p) \subseteq 1 .. Len(operations) /\ Len(operations) \in Nat
<1>1. Len(operations) \in Nat
  BY LenProperties DEF TypeOK
<1>2. InOrder(p)
  BY HistoryParts
<1> QED BY <1>1, <1>2 DEF InOrder, IDsOf

\* The IDs that a save hands out.
NewIDs(ops) == {Len(operations) + i : i \in 1 .. Len(ops)}

NewIDsNamed(ops, n) == {Len(operations) + i : i \in {j \in 1 .. Len(ops) : ops[j].name = n}}

\* The lists, seen as sets of IDs, and the names under the IDs.
LEMMA SavedIDs ==
  ASSUME TypeOK, HistoriesAgree, NEW p \in ProductID, NEW ops, Several(ops), SavedAll(p, ops)
  PROVE  /\ IDsOf(p)' = IDsOf(p) \cup NewIDs(ops)
         /\ \A q \in ProductID \ {p} : IDsOf(q)' = IDsOf(q)
         /\ \A q \in ProductID, n \in OpName :
              Named(q, n)' = IF q = p THEN Named(q, n) \cup NewIDsNamed(ops, n) ELSE Named(q, n)
<1> DEFINE s == productsOperations[p]
           r == productsOperations'[p]
<1>1. Len(operations) \in Nat /\ Len(ops) \in Nat
  BY LenProperties DEF TypeOK, Several
<1>2. s \in Seq(Nat) /\ Len(s) \in Nat
  BY LenProperties DEF TypeOK
<1>3. /\ Len(r) = Len(s) + Len(ops)
      /\ \A i \in 1 .. Len(s) : r[i] = s[i]
      /\ \A i \in 1 .. Len(ops) : r[Len(s) + i] = Len(operations) + i
  BY DEF SavedAll
<1>5. IDsOf(p)' = IDsOf(p) \cup NewIDs(ops)
  <2>1. IDsOf(p)' = {r[i] : i \in 1 .. Len(r)} /\ IDsOf(p) = {s[i] : i \in 1 .. Len(s)}
    BY DEF IDsOf
  <2>2. ASSUME NEW id \in IDsOf(p)' PROVE id \in IDsOf(p) \cup NewIDs(ops)
    <3>1. PICK i \in 1 .. Len(r) : id = r[i]
      BY <2>1, <2>2
    <3>2. CASE i \in 1 .. Len(s)
      BY <1>3, <2>1, <3>1, <3>2
    <3>3. CASE i \notin 1 .. Len(s)
      <4>1. i - Len(s) \in 1 .. Len(ops) /\ i = Len(s) + (i - Len(s))
        BY <1>1, <1>2, <1>3, <3>3
      <4>2. r[i] = Len(operations) + (i - Len(s))
        BY <1>3, <4>1
      <4> QED BY <3>1, <4>1, <4>2 DEF NewIDs
    <3> QED BY <3>2, <3>3
  <2>3. ASSUME NEW id \in IDsOf(p) PROVE id \in IDsOf(p)'
    <3>1. PICK i \in 1 .. Len(s) : id = s[i]
      BY <2>1, <2>3
    <3>2. i \in 1 .. Len(r)
      BY <1>1, <1>2, <1>3
    <3> QED BY <1>3, <2>1, <3>1, <3>2
  <2>4. ASSUME NEW id \in NewIDs(ops) PROVE id \in IDsOf(p)'
    <3>1. PICK i \in 1 .. Len(ops) : id = Len(operations) + i
      BY <2>4 DEF NewIDs
    <3>2. Len(s) + i \in 1 .. Len(r)
      BY <1>1, <1>2, <1>3
    <3> QED BY <1>3, <2>1, <3>1, <3>2
  <2> QED BY <2>2, <2>3, <2>4
<1>6. \A q \in ProductID \ {p} : IDsOf(q)' = IDsOf(q)
  BY DEF IDsOf, SavedAll
<1>7. ASSUME NEW q \in ProductID, NEW n \in OpName
      PROVE  Named(q, n)' = IF q = p THEN Named(q, n) \cup NewIDsNamed(ops, n) ELSE Named(q, n)
  <2>1. IDsOf(q) \subseteq 1 .. Len(operations)
    BY IDsAreRecorded
  <2>2. /\ \A i \in 1 .. Len(ops) : operations'[Len(operations) + i] = ops[i]
        /\ \A id \in IDsOf(q) : operations'[id] = operations[id]
    BY <2>1 DEF SavedAll
  <2>3. CASE q = p
    <3>1. Named(p, n)' = {id \in IDsOf(p) \cup NewIDs(ops) : operations'[id].name = n}
      BY <1>5 DEF Named
    <3>2. Named(p, n) = {id \in IDsOf(p) : operations[id].name = n}
      BY DEF Named
    <3>3. {id \in NewIDs(ops) : operations'[id].name = n} = NewIDsNamed(ops, n)
      BY <2>2 DEF NewIDs, NewIDsNamed
    <3> QED BY <2>2, <2>3, <3>1, <3>2, <3>3
  <2>4. CASE q # p
    <3>1. Named(q, n)' = {id \in IDsOf(q) : operations'[id].name = n}
      BY <1>6, <2>4 DEF Named
    <3>2. Named(q, n) = {id \in IDsOf(q) : operations[id].name = n}
      BY DEF Named
    <3> QED BY <2>2, <2>4, <3>1, <3>2
  <2> QED BY <2>3, <2>4
<1> QED BY <1>5, <1>6, <1>7

\* A save keeps the histories in agreement, when the identifiers agree as well.
LEMMA SavedHistories ==
  ASSUME TypeOK, HistoriesAgree, NEW p \in ProductID, NEW ops, Several(ops), SavedAll(p, ops),
         \A v \in Value : \/ productPhysicalIDMapping'[v] = productPhysicalIDMapping[v]
                          \/ /\ productPhysicalIDMapping'[v] = p
                             /\ \E i \in 1 .. Len(ops) :
                                  ops[i].name = Identification /\ ops[i].result = v
  PROVE  HistoriesAgree'
<1>1. /\ Len(operations) \in Nat /\ Len(ops) \in Nat
      /\ Len(operations') = Len(operations) + Len(ops)
  BY LenProperties DEF TypeOK, SavedAll, Several
<1>2. \A i \in 1 .. Len(ops) : ops[i].name \in OpName
  BY SeveralTyped
<1> SUFFICES ASSUME NEW q \in ProductID
             PROVE  InOrder(q)' /\ Apart(q)' /\ IndexGivesNewest(q)' /\ Identified(q)'
  BY HistoryPartsPrimed
<1>3. InOrder(q) /\ Apart(q) /\ IndexGivesNewest(q) /\ Identified(q)
  BY HistoryParts
<1>4. InOrder(q)'
  <2>1. CASE q = p
    <3> DEFINE s == productsOperations[p]
               r == productsOperations'[p]
    <3>1. s \in Seq(Nat) /\ Len(s) \in Nat
      BY LenProperties DEF TypeOK
    <3>2. /\ Len(r) = Len(s) + Len(ops)
          /\ \A i \in 1 .. Len(s) : r[i] = s[i]
          /\ \A i \in 1 .. Len(ops) : r[Len(s) + i] = Len(operations) + i
      BY DEF SavedAll
    <3>3. \A i \in 1 .. Len(s) : s[i] \in 1 .. Len(operations) /\ (i > 1 => s[i - 1] < s[i])
      BY <1>3, <2>1 DEF InOrder
    <3>4. ASSUME NEW i \in 1 .. Len(r)
          PROVE  r[i] \in 1 .. Len(operations') /\ (i > 1 => r[i - 1] < r[i])
      <4> HIDE DEF s, r
      <4>1. CASE i \in 1 .. Len(s)
        <5>1. i > 1 => i - 1 \in 1 .. Len(s)
          BY <3>1, <4>1
        <5>2. r[i] \in 1 .. Len(operations) /\ (i > 1 => r[i - 1] < r[i])
          BY <3>2, <3>3, <4>1, <5>1
        <5> QED BY <1>1, <5>2
      <4>2. CASE i \notin 1 .. Len(s)
        <5>1. i - Len(s) \in 1 .. Len(ops) /\ i = Len(s) + (i - Len(s))
          BY <1>1, <3>1, <3>2, <4>2
        <5>2. r[i] = Len(operations) + (i - Len(s))
          BY <3>2, <5>1
        <5>3. r[i] \in 1 .. Len(operations')
          BY <1>1, <3>1, <5>1, <5>2
        <5>4. CASE i - 1 \in 1 .. Len(s)
          <6>1. r[i - 1] \in 1 .. Len(operations)
            BY <3>2, <3>3, <5>4
          <6> QED BY <1>1, <3>1, <5>1, <5>2, <5>3, <6>1
        <5>5. CASE i > 1 /\ i - 1 \notin 1 .. Len(s)
          <6>1. i - 1 - Len(s) \in 1 .. Len(ops) /\ i - 1 = Len(s) + (i - 1 - Len(s))
            BY <1>1, <3>1, <3>2, <5>1, <5>5
          <6>2. r[i - 1] = Len(operations) + (i - 1 - Len(s))
            BY <3>2, <6>1
          <6> QED BY <1>1, <3>1, <5>2, <5>3, <6>2
        <5> QED BY <1>1, <3>1, <3>2, <5>3, <5>4, <5>5
      <4> QED BY <4>1, <4>2
    <3> QED BY <2>1, <3>4 DEF InOrder
  <2>2. CASE q # p
    <3>1. productsOperations'[q] = productsOperations[q]
      BY <2>2 DEF SavedAll
    <3>2. \A i \in 1 .. Len(operations) : i \in 1 .. Len(operations')
      BY <1>1
    <3> QED BY <1>3, <3>1, <3>2 DEF InOrder
  <2> QED BY <2>1, <2>2
<1>5. Apart(q)'
  <2> SUFFICES ASSUME NEW r \in ProductID \ {q} PROVE (IDsOf(q) \cap IDsOf(r))' = {}
    BY DEF Apart
  <2>1. IDsOf(q) \cap IDsOf(r) = {}
    BY <1>3 DEF Apart
  <2>2. \A id \in NewIDs(ops) : id \notin IDsOf(q) /\ id \notin IDsOf(r)
    BY <1>1, IDsAreRecorded DEF NewIDs
  <2>3. /\ IDsOf(q)' = IF q = p THEN IDsOf(q) \cup NewIDs(ops) ELSE IDsOf(q)
        /\ IDsOf(r)' = IF r = p THEN IDsOf(r) \cup NewIDs(ops) ELSE IDsOf(r)
    BY SavedIDs
  <2> QED BY <2>1, <2>2, <2>3
<1>6. IndexGivesNewest(q)'
  <2> SUFFICES ASSUME NEW n \in OpName
               PROVE  IF Named(q, n)' = {}
                        THEN productsOperationsNames'[q][n] = 0
                        ELSE /\ productsOperationsNames'[q][n] \in Named(q, n)'
                             /\ \A id \in Named(q, n)' : id <= productsOperationsNames'[q][n]
    BY DEF IndexGivesNewest
  <2>1. ASSUME q = p, NEW i \in 1 .. Len(ops), ops[i].name = n
        PROVE  /\ productsOperationsNames'[q][n] \in Named(q, n)'
               /\ \A id \in Named(q, n)' : id <= productsOperationsNames'[q][n]
    <3>1. productsOperationsNames'[q][n] = Len(operations) + i
      BY <2>1 DEF SavedAll
    <3>2. NewIDsNamed(ops, n) = {Len(operations) + i}
      BY <2>1 DEF NewIDsNamed, Several
    <3>3. Named(q, n)' = Named(q, n) \cup {Len(operations) + i}
      BY <2>1, <3>2, SavedIDs
    <3>4. Named(q, n) \subseteq 1 .. Len(operations)
      BY IDsAreRecorded DEF Named
    <3> QED BY <1>1, <3>1, <3>3, <3>4
  <2>2. CASE q # p \/ \A i \in 1 .. Len(ops) : ops[i].name # n
    <3>1. productsOperationsNames'[q][n] = productsOperationsNames[q][n]
      BY <2>2 DEF SavedAll
    <3>2. q = p => NewIDsNamed(ops, n) = {}
      BY <2>2 DEF NewIDsNamed
    <3>3. Named(q, n)' = IF q = p THEN Named(q, n) \cup NewIDsNamed(ops, n) ELSE Named(q, n)
      BY SavedIDs
    <3>4. Named(q, n)' = Named(q, n)
      BY <3>2, <3>3
    <3> QED BY <1>3, <3>1, <3>4 DEF IndexGivesNewest
  <2> QED BY <2>1, <2>2
<1>7. Identified(q)'
  <2> SUFFICES ASSUME NEW v \in Value, productPhysicalIDMapping'[v] = q
               PROVE  \E id \in Named(q, Identification)' : operations'[id].result = v
    BY DEF Identified
  <2>0. Identification \in OpName
    BY ProductAssumption
  <2>1. CASE productPhysicalIDMapping[v] = q
    <3>1. PICK id \in Named(q, Identification) : operations[id].result = v
      BY <1>3, <2>1 DEF Identified
    <3>2. id \in Named(q, Identification)'
      BY <2>0, SavedIDs
    <3>3. id \in 1 .. Len(operations)
      BY IDsAreRecorded DEF Named
    <3>4. operations'[id] = operations[id]
      BY <3>3 DEF SavedAll
    <3> QED BY <3>1, <3>2, <3>4
  <2>2. CASE productPhysicalIDMapping[v] # q
    <3>1. q = p
      BY <2>2
    <3>2. PICK i \in 1 .. Len(ops) : ops[i].name = Identification /\ ops[i].result = v
      BY <2>2
    <3>3. Len(operations) + i \in Named(q, Identification)'
      BY <2>0, <3>1, <3>2, SavedIDs DEF NewIDsNamed
    <3>4. operations'[Len(operations) + i] = ops[i]
      BY DEF SavedAll
    <3> QED BY <3>2, <3>3, <3>4
  <2> QED BY <2>1, <2>2
<1> QED BY <1>4, <1>5, <1>6, <1>7

----
\* The steps of the contract, sorted by what they do to IDs and histories.

\* A function that leaves the IDs, the owners and the histories alone.
Elsewhere == UNCHANGED <<productsOwners, idVars, opVars>>

LEMMA InitInvariant == Init => IInv
<1> SUFFICES ASSUME Init PROVE IInv
  OBVIOUS
<1>1. TypeOK
  <2>1. <<>> \in Seq(ProductID) /\ <<>> \in Seq(OperationRecord) /\ <<>> \in Seq(Nat) /\ <<>> \in Seq(InfoName)
    BY EmptySeq
  <2> QED BY <2>1 DEF Init, TypeOK
<1>2. IDsAreBijective
  BY DEF Init, IDsAreBijective, productExists
<1>3. HistoriesAgree
  <2>0. ASSUME NEW p \in ProductID
        PROVE  productsOperations[p] = <<>> /\ 1 .. Len(productsOperations[p]) = {}
    <3>1. productsOperations[p] = <<>>
      BY DEF Init
    <3>2. Len(productsOperations[p]) = 0
      BY <3>1
    <3> QED BY <3>1, <3>2
  <2>1. \A p \in ProductID : IDsOf(p) = {}
    BY <2>0 DEF IDsOf
  <2>2. \A p \in ProductID, n \in OpName : Named(p, n) = {} /\ productsOperationsNames[p][n] = 0
    BY <2>1 DEF Init, Named
  <2>3. \A p \in ProductID : InOrder(p) /\ Apart(p)
    BY <2>0, <2>1 DEF InOrder, Apart
  <2>4. \A p \in ProductID : IndexGivesNewest(p)
    BY <2>2 DEF IndexGivesNewest
  <2>5. \A p \in ProductID : Identified(p)
    BY ProductAssumption DEF Init, Identified
  <2> QED BY <2>3, <2>4, <2>5, HistoryParts
<1> QED BY <1>1, <1>2, <1>3 DEF IInv

LEMMA HistoriesUntouched ==
  ASSUME HistoriesAgree, UNCHANGED opVars
  PROVE  HistoriesAgree'
<1> SUFFICES ASSUME NEW p \in ProductID
             PROVE  InOrder(p)' /\ Apart(p)' /\ IndexGivesNewest(p)' /\ Identified(p)'
  BY HistoryPartsPrimed
<1>1. InOrder(p) /\ Apart(p) /\ IndexGivesNewest(p) /\ Identified(p)
  BY HistoryParts
<1>2. /\ operations' = operations /\ productsOperations' = productsOperations
      /\ productsOperationsNames' = productsOperationsNames
      /\ productPhysicalIDMapping' = productPhysicalIDMapping
  BY DEF opVars
<1>3. \A q \in ProductID : IDsOf(q)' = IDsOf(q)
  BY <1>2 DEF IDsOf
<1>4. \A n : Named(p, n)' = Named(p, n)
  BY <1>2, <1>3 DEF Named
<1>5. InOrder(p)'
  BY <1>1, <1>2 DEF InOrder
<1>6. Apart(p)'
  BY <1>1, <1>3 DEF Apart
<1>7. IndexGivesNewest(p)'
  BY <1>1, <1>2, <1>4 DEF IndexGivesNewest
<1>8. Identified(p)'
  BY <1>1, <1>2, <1>4 DEF Identified
<1> QED BY <1>5, <1>6, <1>7, <1>8

\* Owners, IDs and histories after the functions that do not save an operation.
LEMMA ElsewhereKeeps ==
  ASSUME IDsAreBijective, HistoriesAgree, Elsewhere
  PROVE  IDsAreBijective' /\ HistoriesAgree'
<1>1. IDsAreBijective'
  BY DEF Elsewhere, IDsAreBijective, productExists, idVars
<1>2. HistoriesAgree'
  BY HistoriesUntouched DEF Elsewhere
<1> QED BY <1>1, <1>2

\* What a creation does.
LEMMA Creation ==
  ASSUME IInv, NEW p \in ProductID, NEW sender \in Address, createProduct(p, sender)
  PROVE  IInv'
<1> DEFINE s == productIDMapping
           new == Len(productIDMapping) + 1
<1>1. s \in Seq(ProductID) /\ Len(s) \in Nat
  BY LenProperties DEF IInv, TypeOK
<1>2. /\ productIDMapping' = Append(s, p)
      /\ Append(s, p) \in Seq(ProductID)
      /\ Len(Append(s, p)) = new
      /\ \A i \in 1 .. Len(s) : Append(s, p)[i] = s[i]
      /\ Append(s, p)[new] = p
  BY <1>1, AppendProperties DEF createProduct
<1>3. TypeOK'
  BY <1>1, <1>2 DEF IInv, TypeOK, createProduct, opVars, infoVars
<1>4. /\ productIDReverseMapping'[p] = new
      /\ \A q \in ProductID \ {p} : productIDReverseMapping'[q] = productIDReverseMapping[q]
      /\ productExists(p)'
      /\ \A q \in ProductID \ {p} : productExists(q)' <=> productExists(q)
  BY ProductAssumption DEF IInv, TypeOK, createProduct, productExists
<1>5. productIDReverseMapping[p] = 0
  BY DEF IInv, IDsAreBijective, createProduct
<1>6. \A id \in 1 .. Len(s) : s[id] \in ProductID /\ s[id] # p /\ productIDReverseMapping[s[id]] = id
  BY <1>1, <1>5, ElementOfSeq DEF IInv, IDsAreBijective
<1>7. IDsAreBijective'
  <2>1. ASSUME NEW id \in 1 .. new PROVE productIDReverseMapping'[productIDMapping'[id]] = id
    <3>1. CASE id = new BY <1>2, <1>4, <3>1
    <3>2. CASE id # new
      <4>1. id \in 1 .. Len(s)
        BY <1>1, <3>2
      <4> QED BY <1>2, <1>4, <1>6, <4>1
    <3> QED BY <3>1, <3>2
  <2>2. ASSUME NEW q \in ProductID
        PROVE  IF productExists(q)'
                 THEN /\ productIDReverseMapping'[q] \in 1 .. new
                      /\ productIDMapping'[productIDReverseMapping'[q]] = q
                 ELSE productIDReverseMapping'[q] = 0
    <3>1. CASE q = p BY <1>1, <1>2, <1>4, <3>1
    <3>2. CASE q # p
      <4>1. IF productExists(q)
              THEN /\ productIDReverseMapping[q] \in 1 .. Len(s)
                   /\ s[productIDReverseMapping[q]] = q
              ELSE productIDReverseMapping[q] = 0
        BY DEF IInv, IDsAreBijective
      <4> QED BY <1>1, <1>2, <1>4, <3>2, <4>1
    <3> QED BY <3>1, <3>2
  <2> QED BY <1>2, <2>1, <2>2 DEF IDsAreBijective
<1>8. HistoriesAgree'
  BY HistoriesUntouched DEF IInv, createProduct
<1> QED BY <1>3, <1>7, <1>8 DEF IInv

\* What a save does, with or without an identifier.
LEMMA Saving ==
  ASSUME IInv, NEW p \in ProductID, NEW ops, Several(ops),
         operationsSaved(p, ops), UNCHANGED <<authVars, idVars, infoVars>>,
         \/ UNCHANGED productPhysicalIDMapping
         \/ \E i \in 1 .. Len(ops) :
              /\ productPhysicalIDMapping' = [productPhysicalIDMapping EXCEPT ![ops[i].result] = p]
              /\ ops[i].name = Identification
  PROVE  IInv'
<1>1. SavedAll(p, ops) /\ HistoryTyped'
  BY OperationsSaved DEF IInv
<1>2. \A i \in 1 .. Len(ops) : ops[i].result \in Value
  BY SeveralTyped
<1>3. productPhysicalIDMapping' \in [Value -> ProductID \cup {None}]
  BY <1>2 DEF IInv, TypeOK
<1>4. TypeOK'
  BY <1>1, <1>3 DEF IInv, TypeOK, HistoryTyped, authVars, idVars, infoVars
<1>5. IDsAreBijective'
  BY DEF IInv, IDsAreBijective, productExists, authVars, idVars
<1>6. \A v \in Value : \/ productPhysicalIDMapping'[v] = productPhysicalIDMapping[v]
                       \/ /\ productPhysicalIDMapping'[v] = p
                          /\ \E i \in 1 .. Len(ops) :
                               ops[i].name = Identification /\ ops[i].result = v
  BY <1>2 DEF IInv, TypeOK
<1>7. HistoriesAgree'
  BY <1>1, <1>6, SavedHistories DEF IInv
<1> QED BY <1>4, <1>5, <1>7 DEF IInv

LEMMA OperationTyped ==
  ASSUME NEW name \in OpName, NEW v \in Value, NEW taskID \in Nat, NEW origin \in Account
  PROVE  /\ Operation(name, v, taskID, origin) \in OperationRecord
         /\ Several(<<Operation(name, v, taskID, origin)>>)
<1> DEFINE op == Operation(name, v, taskID, origin)
<1>1. op \in OperationRecord
  BY DEF Operation, OperationRecord
<1> HIDE DEF op
<1>2. <<op>> \in Seq(OperationRecord) /\ Len(<<op>>) = 1
  BY <1>1
<1>3. Several(<<op>>)
  BY <1>2 DEF Several
<1> QED BY <1>1, <1>3 DEF op

\* Authorisations and information.
LEMMA OtherSteps ==
  ASSUME IInv, NEW p \in ProductID, NEW sender \in Address, NEW origin \in Account,
         \/ unauthorizeCurrentMachine(p, sender)
         \/ unauthorizeCurrentProcess(p, origin)
         \/ \E a \in Address : authorizeProcess(a, p, origin) \/ authorizeMachine(a, p, sender)
         \/ \E name \in InfoName, v \in Value : saveProductInfo(p, name, v, origin)
  PROVE  Elsewhere /\ TypeOK'
<1>1. ASSUME NEW a \in Address \cup {None}, setProcess(p, a, origin) PROVE Elsewhere /\ TypeOK'
  BY <1>1 DEF setProcess, Elsewhere, IInv, TypeOK, idVars, opVars, infoVars
<1>2. ASSUME NEW a \in Address \cup {None}, setMachine(p, a, sender) PROVE Elsewhere /\ TypeOK'
  BY <1>2 DEF setMachine, Elsewhere, IInv, TypeOK, idVars, opVars, infoVars
<1>3. ASSUME NEW name \in InfoName, NEW v \in Value, saveProductInfo(p, name, v, origin)
      PROVE  Elsewhere /\ TypeOK'
  <2>1. \A s \in Seq(InfoName) : Append(s, name) \in Seq(InfoName)
    BY AppendProperties
  <2>2. productsInfoNames' \in [ProductID -> Seq(InfoName)]
    BY <1>3, <2>1 DEF saveProductInfo, IInv, TypeOK
  <2>3. proudctsInfo' \in [ProductID -> [InfoName -> Value \cup {None}]]
    BY <1>3 DEF saveProductInfo, IInv, TypeOK
  <2> QED BY <1>3, <2>2, <2>3 DEF saveProductInfo, Elsewhere, IInv, TypeOK, authVars, idVars, opVars
<1> QED BY <1>1, <1>2, <1>3
      DEF unauthorizeCurrentMachine, unauthorizeCurrentProcess, authorizeProcess, authorizeMachine

LEMMA NextInvariant == IInv /\ [Next]_vars => IInv'
<1> SUFFICES ASSUME IInv, [Next]_vars PROVE IInv'
  OBVIOUS
<1>1. CASE UNCHANGED vars
  <2>1. TypeOK'
    BY <1>1 DEF IInv, TypeOK, vars, authVars, idVars, opVars, infoVars
  <2>2. Elsewhere
    BY <1>1 DEF Elsewhere, vars, authVars
  <2> QED BY <2>1, <2>2, ElsewhereKeeps DEF IInv
<1>2. CASE Next
  <2> PICK p \in ProductID, sender \in Address, origin \in Account :
        \/ createProduct(p, sender)
        \/ unauthorizeCurrentMachine(p, sender)
        \/ unauthorizeCurrentProcess(p, origin)
        \/ \E a \in Address : authorizeProcess(a, p, origin) \/ authorizeMachine(a, p, sender)
        \/ \E name \in OpName, v \in Value : saveProductOperation(p, 0, name, v, sender, origin)
        \/ \E v \in Value : saveIdentificationOperation(p, 0, v, sender, origin)
        \/ \E name \in InfoName, v \in Value : saveProductInfo(p, name, v, origin)
    BY <1>2 DEF Next
  <2>1. CASE createProduct(p, sender)
    BY <2>1, Creation
  <2>2. ASSUME NEW name \in OpName, NEW v \in Value, saveProductOperation(p, 0, name, v, sender, origin)
        PROVE  IInv'
    <3>1. Several(<<Operation(name, v, 0, origin)>>)
      BY OperationTyped
    <3> QED BY <2>2, <3>1, Saving DEF saveProductOperation
  <2>3. ASSUME NEW v \in Value, saveIdentificationOperation(p, 0, v, sender, origin)
        PROVE  IInv'
    <3> DEFINE op == Operation(Identification, v, 0, origin)
    <3>1. Several(<<op>>)
      BY ProductAssumption, OperationTyped
    <3>2. op.name = Identification /\ op.result = v
      BY DEF Operation
    <3>3. /\ operationsSaved(p, <<op>>)
          /\ UNCHANGED <<authVars, idVars, infoVars>>
          /\ productPhysicalIDMapping' = [productPhysicalIDMapping EXCEPT ![op.result] = p]
      BY <2>3, <3>2 DEF saveIdentificationOperation
    <3> HIDE DEF op
    <3>4. 1 \in 1 .. Len(<<op>>) /\ <<op>>[1] = op
      OBVIOUS
    <3> QED BY <3>1, <3>2, <3>3, <3>4, Saving
  <2>4. CASE \/ unauthorizeCurrentMachine(p, sender)
             \/ unauthorizeCurrentProcess(p, origin)
             \/ \E a \in Address : authorizeProcess(a, p, origin) \/ authorizeMachine(a, p, sender)
             \/ \E name \in InfoName, v \in Value : saveProductInfo(p, name, v, origin)
    <3>1. Elsewhere /\ TypeOK'
      BY <2>4, OtherSteps
    <3> QED BY <3>1, ElsewhereKeeps DEF IInv
  <2> QED BY <2>1, <2>2, <2>3, <2>4
<1> QED BY <1>1, <1>2

----

\* What a save does to the list of a product, and to what it lists.
LEMMA SaveKeeps ==
  ASSUME IInv, NEW p \in ProductID, NEW ops, Several(ops), operationsSaved(p, ops),
         NEW q \in ProductID
  PROVE  /\ Extends(productsOperations[q], productsOperations'[q])
         /\ \A id \in IDsOf(q) : operations'[id] = operations[id]
<1>1. SavedAll(p, ops)
  BY OperationsSaved DEF IInv
<1>2. \A id \in IDsOf(q) : operations'[id] = operations[id]
  BY <1>1, IDsAreRecorded DEF IInv, SavedAll
<1>3. Len(productsOperations[q]) \in Nat /\ Len(productsOperations[p]) \in Nat /\ Len(ops) \in Nat
  BY LenProperties DEF IInv, TypeOK, Several
<1>4. Extends(productsOperations[q], productsOperations'[q])
  <2>1. CASE q = p
    <3>1. /\ Len(productsOperations'[p]) = Len(productsOperations[p]) + Len(ops)
          /\ \A i \in 1 .. Len(productsOperations[p]) :
               productsOperations'[p][i] = productsOperations[p][i]
      BY <1>1 DEF SavedAll
    <3> QED BY <1>3, <2>1, <3>1 DEF Extends
  <2>2. CASE q # p
    <3>1. productsOperations'[q] = productsOperations[q]
      BY <1>1, <2>2 DEF SavedAll
    <3> QED BY <1>3, <3>1 DEF Extends
  <2> QED BY <2>1, <2>2
<1> QED BY <1>2, <1>4

\* A product that exists keeps what the other functions do not touch.
LEMMA NothingTouched ==
  ASSUME IInv, NEW q \in ProductID, UNCHANGED opVars
  PROVE  /\ Extends(productsOperations[q], productsOperations'[q])
         /\ \A id \in IDsOf(q) : operations'[id] = operations[id]
<1>1. productsOperations[q] \in Seq(Nat) /\ Len(productsOperations[q]) \in Nat
  BY LenProperties DEF IInv, TypeOK
<1> QED BY <1>1 DEF Extends, opVars

LEMMA ProvenanceStep == IInv /\ [Next]_vars => [ProvenanceKept]_vars
<1> SUFFICES ASSUME IInv, Next, NEW q \in ProductID, productExists(q)
             PROVE  /\ productsOwners'[q] = productsOwners[q]
                    /\ productIDReverseMapping'[q] = productIDReverseMapping[q]
                    /\ Extends(productsOperations[q], productsOperations'[q])
                    /\ \A id \in IDsOf(q) : operations'[id] = operations[id]
  BY DEF ProvenanceKept
<1> PICK p \in ProductID, sender \in Address, origin \in Account :
      \/ createProduct(p, sender)
      \/ unauthorizeCurrentMachine(p, sender)
      \/ unauthorizeCurrentProcess(p, origin)
      \/ \E a \in Address : authorizeProcess(a, p, origin) \/ authorizeMachine(a, p, sender)
      \/ \E name \in OpName, v \in Value : saveProductOperation(p, 0, name, v, sender, origin)
      \/ \E v \in Value : saveIdentificationOperation(p, 0, v, sender, origin)
      \/ \E name \in InfoName, v \in Value : saveProductInfo(p, name, v, origin)
  BY DEF Next
<1>1. CASE createProduct(p, sender)
  <2>1. q # p
    BY <1>1 DEF createProduct
  <2>2. /\ productsOwners'[q] = productsOwners[q]
        /\ productIDReverseMapping'[q] = productIDReverseMapping[q]
    BY <1>1, <2>1 DEF createProduct, IInv, TypeOK
  <2> QED BY <1>1, <2>2, NothingTouched DEF createProduct
<1>2. ASSUME NEW name \in OpName, NEW v \in Value, saveProductOperation(p, 0, name, v, sender, origin)
      PROVE  /\ productsOwners'[q] = productsOwners[q]
             /\ productIDReverseMapping'[q] = productIDReverseMapping[q]
             /\ Extends(productsOperations[q], productsOperations'[q])
             /\ \A id \in IDsOf(q) : operations'[id] = operations[id]
  <2>1. Several(<<Operation(name, v, 0, origin)>>)
    BY OperationTyped
  <2>2. operationsSaved(p, <<Operation(name, v, 0, origin)>>)
    BY <1>2 DEF saveProductOperation
  <2> QED BY <1>2, <2>1, <2>2, SaveKeeps DEF saveProductOperation, authVars, idVars
<1>3. ASSUME NEW v \in Value, saveIdentificationOperation(p, 0, v, sender, origin)
      PROVE  /\ productsOwners'[q] = productsOwners[q]
             /\ productIDReverseMapping'[q] = productIDReverseMapping[q]
             /\ Extends(productsOperations[q], productsOperations'[q])
             /\ \A id \in IDsOf(q) : operations'[id] = operations[id]
  <2>1. Several(<<Operation(Identification, v, 0, origin)>>)
    BY ProductAssumption, OperationTyped
  <2>2. operationsSaved(p, <<Operation(Identification, v, 0, origin)>>)
    BY <1>3 DEF saveIdentificationOperation
  <2> QED BY <1>3, <2>1, <2>2, SaveKeeps DEF saveIdentificationOperation, authVars, idVars
<1>4. CASE \/ unauthorizeCurrentMachine(p, sender)
           \/ unauthorizeCurrentProcess(p, origin)
           \/ \E a \in Address : authorizeProcess(a, p, origin) \/ authorizeMachine(a, p, sender)
           \/ \E name \in InfoName, v \in Value : saveProductInfo(p, name, v, origin)
  <2>1. Elsewhere
    BY <1>4, OtherSteps
  <2> QED BY <2>1, NothingTouched DEF Elsewhere, idVars
<1> QED BY <1>1, <1>2, <1>3, <1>4

----
(***************************************************************************)
(* The invariant: the types, the bijection of products and IDs, and the    *)
(* agreement of a product's list, operations, index and identifiers.       *)
(***************************************************************************)
THEOREM InvariantHolds == Spec => []IInv
BY InitInvariant, NextInvariant, PTL DEF Spec

(***************************************************************************)
(* Type correctness of the product contract.                               *)
(***************************************************************************)
THEOREM TypeOKHolds == Spec => []TypeOK
<1>1. IInv => TypeOK
  BY DEF IInv
<1> QED BY <1>1, InvariantHolds, PTL

(***************************************************************************)
(* Product IDs and products name each other, whoever creates products in   *)
(* whatever order.                                                         *)
(***************************************************************************)
THEOREM IDsAreBijectiveHolds == Spec => []IDsAreBijective
<1>1. IInv => IDsAreBijective
  BY DEF IInv
<1> QED BY <1>1, InvariantHolds, PTL

(***************************************************************************)
(* The list of a product's operations, the index by name and the physical  *)
(* identifiers agree with the recorded operations, whoever saves what.     *)
(***************************************************************************)
THEOREM HistoriesAgreeHolds == Spec => []HistoriesAgree
<1>1. IInv => HistoriesAgree
  BY DEF IInv
<1> QED BY <1>1, InvariantHolds, PTL

(***************************************************************************)
(* No call changes the owner, the ID or the recorded history of a product. *)
(***************************************************************************)
THEOREM ProvenanceIsPermanentHolds == Spec => ProvenanceIsPermanent
BY InvariantHolds, ProvenanceStep, PTL DEF Spec, ProvenanceIsPermanent
====
