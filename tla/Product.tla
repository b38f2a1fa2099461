---- MODULE Product ----
(***************************************************************************)
(* contracts/Product.sol: the digital twins of the products.  A product    *)
(* has an owner, at most one authorised process and at most one authorised *)
(* machine; the process (or the owner) authorises machines, and the        *)
(* authorised machine (or the owner) records operations.                   *)
(*                                                                         *)
(* Every state-changing function is an operator whose first conjuncts are  *)
(* its modifiers and requires: a call that fails one of them reverts and   *)
(* is no step.  Each takes the sender of the call (msg.sender, the         *)
(* contract or account one call up) and, where the code reads it, the      *)
(* account that signed the transaction (tx.origin).  A mapping that was    *)
(* never written reads as zero: None for addresses, 0 for counters.        *)
(***************************************************************************)
EXTENDS Naturals, Sequences

CONSTANTS
  ProductID,      \* product DIDs
  Address,        \* accounts and contracts that may call or be authorised
  Account,        \* the addresses that sign transactions (tx.origin)
  OpName,         \* operation names
  Value,          \* operation results, physical identifiers, info values
  InfoName,       \* names of product information
  Identification, \* the operation name "PhysicalIdentification"
  None            \* address(0), and a value never written

ASSUME ProductAssumption ==
  /\ None \notin Address \cup ProductID \cup Value
  /\ Account \subseteq Address
  /\ Identification \in OpName

VARIABLES
  productsOwners,
  productsAuthorizedProcesses,
  productsAuthorizedMachines,
  productIDMapping,         \* the product of every ID, IDs counting from one
  productIDReverseMapping,
  operations,               \* every operation by its ID, IDs counting from one
  productsOperations,       \* the IDs of a product's operations
  productsOperationsNames,  \* a product's latest operation of every name
  productPhysicalIDMapping,
  productsInfoNames,
  proudctsInfo

authVars == <<productsOwners, productsAuthorizedProcesses, productsAuthorizedMachines>>
idVars == <<productIDMapping, productIDReverseMapping>>
opVars == <<operations, productsOperations, productsOperationsNames, productPhysicalIDMapping>>
infoVars == <<productsInfoNames, proudctsInfo>>
vars == <<authVars, idVars, opVars, infoVars>>

----
\* The modifiers.  The sender of a call is an address other than zero, so the
\* comparison with an absent authorisation fails as the code's != address(0) does.

productExists(p) == productsOwners[p] # None

onlyProductOwner(p, origin) == productExists(p) /\ origin = productsOwners[p]

onlyAuthorizeProcessOrOwner(p, sender) ==
  sender \in {productsOwners[p], productsAuthorizedProcesses[p]}

onlyAuthorizeMachine(p, sender) ==
  sender \in {productsOwners[p], productsAuthorizedMachines[p]}

----

Init ==
  /\ productsOwners = [p \in ProductID |-> None]
  /\ productsAuthorizedProcesses = [p \in ProductID |-> None]
  /\ productsAuthorizedMachines = [p \in ProductID |-> None]
  /\ productIDMapping = <<>>
  /\ productIDReverseMapping = [p \in ProductID |-> 0]
  /\ operations = <<>>
  /\ productsOperations = [p \in ProductID |-> <<>>]
  /\ productsOperationsNames = [p \in ProductID |-> [n \in OpName |-> 0]]
  /\ productPhysicalIDMapping = [v \in Value |-> None]
  /\ productsInfoNames = [p \in ProductID |-> <<>>]
  /\ proudctsInfo = [p \in ProductID |-> [n \in InfoName |-> None]]

\* A mutation: a product may be created again, by anyone.
createProductAgain(p, sender) ==
  /\ productsOwners' = [productsOwners EXCEPT ![p] = sender]
  /\ productIDMapping' = Append(productIDMapping, p)
  /\ productIDReverseMapping' = [productIDReverseMapping EXCEPT ![p] = Len(productIDMapping) + 1]
  /\ UNCHANGED <<productsAuthorizedProcesses, productsAuthorizedMachines, opVars, infoVars>>

createProduct(p, sender) ==
  /\ ~productExists(p)
  /\ productsOwners' = [productsOwners EXCEPT ![p] = sender]
  /\ productIDMapping' = Append(productIDMapping, p)
  /\ productIDReverseMapping' = [productIDReverseMapping EXCEPT ![p] = Len(productIDMapping) + 1]
  /\ UNCHANGED <<productsAuthorizedProcesses, productsAuthorizedMachines, opVars, infoVars>>

setProcess(p, process, origin) ==
  /\ productExists(p)
  /\ onlyProductOwner(p, origin)
  /\ productsAuthorizedProcesses' = [productsAuthorizedProcesses EXCEPT ![p] = process]
  /\ UNCHANGED <<productsOwners, productsAuthorizedMachines, idVars, opVars, infoVars>>

authorizeProcess(process, p, origin) == setProcess(p, process, origin)

unauthorizeCurrentProcess(p, origin) == setProcess(p, None, origin)

setMachine(p, machine, sender) ==
  /\ productExists(p)
  /\ onlyAuthorizeProcessOrOwner(p, sender)
  /\ productsAuthorizedMachines' = [productsAuthorizedMachines EXCEPT ![p] = machine]
  /\ UNCHANGED <<productsOwners, productsAuthorizedProcesses, idVars, opVars, infoVars>>

authorizeMachine(machine, p, sender) == setMachine(p, machine, sender)

unauthorizeCurrentMachine(p, sender) == setMachine(p, None, sender)

Operation(name, result, taskID, origin) ==
  [machineDID |-> origin, taskID |-> taskID, name |-> name, result |-> result]

\* A mutation: a name keeps the first operation saved under it.
FirstNames(p, ops) ==
  [n \in OpName |->
     IF productsOperationsNames[p][n] = 0 /\ \E i \in DOMAIN ops : ops[i].name = n
       THEN Len(operations) + (CHOOSE i \in DOMAIN ops : ops[i].name = n)
       ELSE productsOperationsNames[p][n]]

\* The latest operation of a name replaces the earlier one in the index.
LatestNames(p, ops) ==
  [n \in OpName |->
     IF \E i \in DOMAIN ops : ops[i].name = n
       THEN Len(operations) + (CHOOSE i \in DOMAIN ops :
              ops[i].name = n /\ \A j \in DOMAIN ops : ops[j].name = n => j <= i)
       ELSE productsOperationsNames[p][n]]

\* What one transaction saves for p: one operation, or the three of GetInfo.
operationsSaved(p, ops) ==
  /\ operations' = operations \o ops
  /\ productsOperations' =
       [productsOperations EXCEPT ![p] = @ \o [i \in DOMAIN ops |-> Len(operations) + i]]
  /\ productsOperationsNames' = [productsOperationsNames EXCEPT ![p] = LatestNames(p, ops)]

saveProductOperation(p, taskID, name, result, sender, origin) ==
  /\ productExists(p)
  /\ onlyAuthorizeMachine(p, sender)
  /\ operationsSaved(p, <<Operation(name, result, taskID, origin)>>)
  /\ UNCHANGED <<authVars, idVars, productPhysicalIDMapping, infoVars>>

\* The identifier is written before saveProductOperation checks the sender; the
\* check that fails takes the write back with the whole transaction.
saveIdentificationOperation(p, taskID, physicalID, sender, origin) ==
  /\ productExists(p)
  /\ productPhysicalIDMapping' = [productPhysicalIDMapping EXCEPT ![physicalID] = p]
  /\ onlyAuthorizeMachine(p, sender)
  /\ operationsSaved(p, <<Operation(Identification, physicalID, taskID, origin)>>)
  /\ UNCHANGED <<authVars, idVars, infoVars>>

saveProductInfo(p, name, value, origin) ==
  /\ productExists(p)
  /\ onlyProductOwner(p, origin)
  /\ productsInfoNames' = [productsInfoNames EXCEPT ![p] = Append(@, name)]
  /\ proudctsInfo' = [proudctsInfo EXCEPT ![p][name] = value]
  /\ UNCHANGED <<authVars, idVars, opVars>>

----
\* The view functions that other contracts call.

hasOperation(p, name) == productsOperationsNames[p][name] # 0

getProductOperationResult(p, name) == operations[productsOperationsNames[p][name]].result

----
\* Any address may call any function, directly or through a contract that some
\* account (origin) called.

Next ==
  \E p \in ProductID, sender \in Address, origin \in Account :
    \/ createProduct(p, sender)
    \/ unauthorizeCurrentMachine(p, sender)
    \/ unauthorizeCurrentProcess(p, origin)
    \/ \E a \in Address : authorizeProcess(a, p, origin) \/ authorizeMachine(a, p, sender)
    \/ \E name \in OpName, v \in Value :
         saveProductOperation(p, 0, name, v, sender, origin)
    \/ \E v \in Value : saveIdentificationOperation(p, 0, v, sender, origin)
    \/ \E name \in InfoName, v \in Value : saveProductInfo(p, name, v, origin)

Spec == Init /\ [][Next]_vars

----

OperationRecord == [machineDID : Account, taskID : Nat, name : OpName, result : Value]

TypeOK ==
  /\ productsOwners \in [ProductID -> Address \cup {None}]
  /\ productsAuthorizedProcesses \in [ProductID -> Address \cup {None}]
  /\ productsAuthorizedMachines \in [ProductID -> Address \cup {None}]
  /\ productIDMapping \in Seq(ProductID)
  /\ productIDReverseMapping \in [ProductID -> Nat]
  /\ operations \in Seq(OperationRecord)
  /\ productsOperations \in [ProductID -> Seq(Nat)]
  /\ productsOperationsNames \in [ProductID -> [OpName -> Nat]]
  /\ productPhysicalIDMapping \in [Value -> ProductID \cup {None}]
  /\ productsInfoNames \in [ProductID -> Seq(InfoName)]
  /\ proudctsInfo \in [ProductID -> [InfoName -> Value \cup {None}]]

(***************************************************************************)
(* Product IDs and products name each other: getProductDID(getProductID(p))*)
(* is p for every product created, every ID handed out leads to a product  *)
(* that leads back, and a product not created has no ID.                   *)
(***************************************************************************)
IDsAreBijective ==
  /\ \A id \in 1 .. Len(productIDMapping) :
       productIDReverseMapping[productIDMapping[id]] = id
  /\ \A p \in ProductID :
       IF productExists(p)
         THEN /\ productIDReverseMapping[p] \in 1 .. Len(productIDMapping)
              /\ productIDMapping[productIDReverseMapping[p]] = p
         ELSE productIDReverseMapping[p] = 0

(***************************************************************************)
(* The three views of a product's history agree: a product's list holds    *)
(* IDs of recorded operations in ascending order, no operation is in two   *)
(* lists, and the index by name gives the newest of the product's          *)
(* operations of that name, zero exactly if there is none.  A machine that *)
(* reads "Sorting" or "ColorDetection" through the index relies on it.  A  *)
(* physical identifier names a product only if that product's history      *)
(* holds the identification that says so: the identifier is written before *)
(* the sender is checked, and a failed check must take it back.            *)
(***************************************************************************)
IDsOf(p) == {productsOperations[p][i] : i \in 1 .. Len(productsOperations[p])}

Named(p, n) == {id \in IDsOf(p) : operations[id].name = n}

HistoriesAgree ==
  \A p \in ProductID :
    /\ \A i \in 1 .. Len(productsOperations[p]) :
         /\ productsOperations[p][i] \in 1 .. Len(operations)
         /\ i > 1 => productsOperations[p][i - 1] < productsOperations[p][i]
    /\ \A q \in ProductID \ {p} : IDsOf(p) \cap IDsOf(q) = {}
    /\ \A n \in OpName :
         IF Named(p, n) = {}
           THEN productsOperationsNames[p][n] = 0
           ELSE /\ productsOperationsNames[p][n] \in Named(p, n)
                /\ \A id \in Named(p, n) : id <= productsOperationsNames[p][n]
    /\ \A v \in Value :
         productPhysicalIDMapping[v] = p =>
           \E id \in Named(p, Identification) : operations[id].result = v

(***************************************************************************)
(* Provenance is permanent: whatever is called in whatever order, a        *)
(* product keeps its owner and its ID, and no operation leaves or changes  *)
(* in its history.                                                         *)
(***************************************************************************)
Extends(s, t) == Len(s) <= Len(t) /\ \A i \in 1 .. Len(s) : t[i] = s[i]

ProvenanceKept ==
  \A p \in ProductID :
    productExists(p) =>
      /\ productsOwners'[p] = productsOwners[p]
      /\ productIDReverseMapping'[p] = productIDReverseMapping[p]
      /\ Extends(productsOperations[p], productsOperations'[p])
      /\ \A id \in IDsOf(p) : operations'[id] = operations[id]

ProvenanceIsPermanent == [][ProvenanceKept]_vars
====
