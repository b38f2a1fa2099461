---- MODULE Contracts ----
(***************************************************************************)
(* The contracts of the factory on one chain: contracts/Process.sol with   *)
(* SupplyingProcess.sol and ProductionProcess.sol, and the overrides of    *)
(* VGR.sol, HBW.sol, MPO.sol and SLD.sol that call the product contract.   *)
(* A process contract calls the product contract to authorise machines and *)
(* the machine contracts to assign tasks; a machine contract calls the     *)
(* product contract to read and save operations.                           *)
(*                                                                         *)
(* A transaction is one step, with every call it makes: the first          *)
(* conjuncts are the requires of all of them, and if one fails the whole   *)
(* transaction reverts.  The contracts and accounts are those that the     *)
(* migration deploys and scripts/seed.js uses, one account for each role.  *)
(***************************************************************************)
EXTENDS Naturals, Sequences, FiniteSets

CONSTANTS
  ProductID,        \* product DIDs
  ProcessContract,  \* the deployed processes, a subset of {"SP", "PP"}
  Color, Tag,       \* colours the sensors detect, NFC tags
  Note, InfoName,
  None

VARIABLES
  productsOwners, productsAuthorizedProcesses, productsAuthorizedMachines,
  productIDMapping, productIDReverseMapping,
  operations, productsOperations, productsOperationsNames, productPhysicalIDMapping,
  productsInfoNames, proudctsInfo,
  tasks, productsTasks, authorizedProcesses, readings, alerts, info,
  instances,              \* every process instance of a contract by its ID
  productProcessMapping,  \* the latest instance started for a product
  machines                \* the machine contract of every machine number

----
\* Accounts, contracts and names.

MachineContract == {"VGR", "HBW", "MPO", "SLD"}

machineDID == [VGR |-> "VGR_DID", HBW |-> "HBW_DID", MPO |-> "MPO_DID", SLD |-> "SLD_DID"]

Account ==
  {"productOwner", "processOwner", "machineOwner", "VGR_DID", "HBW_DID", "MPO_DID", "SLD_DID"}

Address == Account \cup MachineContract \cup {"SP", "PP"}

OpName ==
  {"NFCTagReading", "ColorDetection", "PhysicalIdentification", "Melting", "Milling", "Sorting"}

\* The results of MPO's operations.
MPOResult == [Melting |-> "Melted", Milling |-> "ISO 1701-2"]

Value == Color \cup Tag \cup {MPOResult[name] : name \in DOMAIN MPOResult}

TaskNames ==
  {"GetInfo", "DropToHBW", "PickSorted", "MoveHBW2MPO", "FetchContainer", "StoreContainer",
   "StoreProduct", "FetchProduct", "Processing", "Sorting"}

ParamName == {"id", "color"}

ReadingType == {"Temperature", "Brightness"}

P == INSTANCE Product WITH Identification <- "PhysicalIdentification"

M == INSTANCE Machine WITH
       machineOwner <- [m \in MachineContract |-> "machineOwner"],
       Caller <- Address, Process <- {"SP", "PP"}, TaskName <- TaskNames,
       Param <- Value, Info <- Value,
       AlertReading <- [m \in MachineContract |-> IF m = "SLD" THEN "Brightness" ELSE None],
       AlertReadingType <- [m \in MachineContract |-> "Major"]

\* The deployment has some of the two processes and finitely many products.  The
\* zero address is nobody's, and GetInfo ends with an empty note.
ASSUME ContractsAssumption ==
  /\ ProcessContract \subseteq {"SP", "PP"}
  /\ IsFiniteSet(ProductID)
  /\ None \notin Address \cup ProductID \cup Value \cup ReadingType
  /\ "" \in Note

authVars == <<productsOwners, productsAuthorizedProcesses, productsAuthorizedMachines>>
idVars == <<productIDMapping, productIDReverseMapping>>
opVars == <<operations, productsOperations, productsOperationsNames, productPhysicalIDMapping>>
infoVars == <<productsInfoNames, proudctsInfo>>
productVars == <<authVars, idVars, opVars, infoVars>>
taskVars == <<tasks, productsTasks>>
machineVars == <<taskVars, authorizedProcesses, readings, alerts, info>>
processVars == <<instances, productProcessMapping, machines>>
vars == <<productVars, machineVars, processVars>>

----
\* The tables of the subclasses.

\* getTaskTypeName: the task types of a machine by number.
getTaskTypeName ==
  [VGR |-> <<"GetInfo", "DropToHBW", "PickSorted", "MoveHBW2MPO">>,
   HBW |-> <<"FetchContainer", "StoreContainer", "StoreProduct", "FetchProduct">>,
   MPO |-> <<"Processing">>,
   SLD |-> <<"Sorting">>]

\* The inputs an overridden assignTask takes from the product's operations.
taskInputs(name) ==
  CASE name = "StoreProduct" -> [id |-> "NFCTagReading", color |-> "ColorDetection"]
    [] name = "PickSorted" -> [color |-> "Sorting"]
    [] OTHER -> <<>>

\* getMachineNumber and getStepTaskType by step.
getMachineNumber == [SP |-> <<1, 2, 1, 2>>, PP |-> <<1, 2, 3, 4, 2>>]

getStepTaskType == [SP |-> <<1, 1, 2, 3>>, PP |-> <<4, 4, 1, 1, 3>>]

getNumberOfSteps(k) == Len(getStepTaskType[k])

getNumberOfMachines == [SP |-> 2, PP |-> 4]

\* What scripts/seed.js sets with setMachineAddress.
SeededMachines == [SP |-> <<"VGR", "HBW">>, PP |-> <<"HBW", "VGR", "MPO", "SLD">>]

\* Step 3 of production also puts the empty container back.
StepAssignments(k, s) ==
  IF k = "PP" /\ s = 3
    THEN <<[number |-> 1, type |-> 2], [number |-> 3, type |-> 1]>>
    ELSE <<[number |-> getMachineNumber[k][s], type |-> getStepTaskType[k][s]]>>

----
\* The state after the migration and the seed: the products exist, the
\* processes know their machines, and the machines accept both processes.

Init ==
  /\ productsOwners = [p \in ProductID |-> "productOwner"]
  /\ productsAuthorizedProcesses = [p \in ProductID |-> None]
  /\ productsAuthorizedMachines = [p \in ProductID |-> None]
  /\ \E order \in [1 .. Cardinality(ProductID) -> ProductID] :
       /\ \A i, j \in DOMAIN order : order[i] = order[j] => i = j
       /\ productIDMapping = order
       /\ productIDReverseMapping =
            [p \in ProductID |-> CHOOSE i \in DOMAIN order : order[i] = p]
  /\ operations = <<>>
  /\ productsOperations = [p \in ProductID |-> <<>>]
  /\ productsOperationsNames = [p \in ProductID |-> [n \in OpName |-> 0]]
  /\ productPhysicalIDMapping = [v \in Value |-> None]
  /\ productsInfoNames = [p \in ProductID |-> <<>>]
  /\ proudctsInfo = [p \in ProductID |-> [n \in InfoName |-> None]]
  /\ tasks = [m \in MachineContract |-> <<>>]
  /\ productsTasks = [m \in MachineContract |-> [p \in ProductID |-> <<>>]]
  /\ authorizedProcesses =
       [m \in MachineContract |-> {k \in ProcessContract : \E i \in DOMAIN SeededMachines[k] :
                                     SeededMachines[k][i] = m}]
  /\ readings = [m \in MachineContract |-> <<>>]
  /\ alerts = [m \in MachineContract |-> <<>>]
  /\ info = [m \in MachineContract |-> [n \in InfoName |-> None]]
  /\ instances = [k \in ProcessContract |-> <<>>]
  /\ productProcessMapping = [k \in ProcessContract |-> [p \in ProductID |-> 0]]
  /\ machines = [k \in ProcessContract |-> SeededMachines[k]]

----
\* Process.sol.

processInstanceExists(k, n) == n \in DOMAIN instances[k]

onlyProcessOwner(sender) == sender = "processOwner"

getProductDID(k, n) == instances[k][n].productDID

getMachineAddress(k, number) == machines[k][number]

NewInstance(p) == [productDID |-> p, currentStep |-> 0, finished |-> FALSE, status |-> "Started"]

\* A mutation: the ID is read before the counter is incremented.
startProcessCountingLate(k, p, origin) ==
  /\ P!authorizeProcess(k, p, origin)
  /\ instances' = [instances EXCEPT ![k] = Append(@, NewInstance(p))]
  /\ productProcessMapping' = [productProcessMapping EXCEPT ![k][p] = Len(instances[k])]
  /\ UNCHANGED <<machineVars, machines>>

\* authorizeProcess asks for the account that signed the transaction, which must
\* be the product's owner.
startProcess(k, p, origin) ==
  /\ P!authorizeProcess(k, p, origin)
  /\ instances' = [instances EXCEPT ![k] = Append(@, NewInstance(p))]
  /\ productProcessMapping' = [productProcessMapping EXCEPT ![k][p] = Len(instances[k]) + 1]
  /\ UNCHANGED <<machineVars, machines>>

\* A mutation: a step may be started again.
nextStepFromOrBefore(k, n, s) == instances[k][n].currentStep \in {s - 1, s}

isNextStep(k, n, s) == instances[k][n].currentStep = s - 1

stepMarked(k, n, s) == [instances EXCEPT ![k][n].currentStep = s]

markStepAsStarted(k, n, s, sender) ==
  /\ processInstanceExists(k, n)
  /\ onlyProcessOwner(sender)
  /\ isNextStep(k, n, s)
  /\ instances' = stepMarked(k, n, s)
  /\ UNCHANGED <<productVars, machineVars, productProcessMapping, machines>>

\* A mutation: the last writer decides how an instance ended.
endAgain(k, n, status, sender) ==
  /\ processInstanceExists(k, n)
  /\ onlyProcessOwner(sender)
  /\ instances' = [instances EXCEPT ![k][n].finished = TRUE, ![k][n].status = status]
  /\ UNCHANGED <<productVars, machineVars, productProcessMapping, machines>>

end(k, n, status, sender) ==
  /\ processInstanceExists(k, n)
  /\ onlyProcessOwner(sender)
  /\ ~instances[k][n].finished
  /\ instances' = [instances EXCEPT ![k][n].finished = TRUE, ![k][n].status = status]
  /\ UNCHANGED <<productVars, machineVars, productProcessMapping, machines>>

finishProcess(k, n, status, sender) == end(k, n, status, sender)

killProcess(k, n, sender) == end(k, n, "Killed", sender)

\* Anyone may have the process contract authorise one of its machines, or none,
\* for the product of an instance, as long as the product allows the contract.
authorizeMachine(k, number, n) ==
  /\ processInstanceExists(k, n)
  /\ P!authorizeMachine(getMachineAddress(k, number), getProductDID(k, n), k)
  /\ UNCHANGED <<machineVars, processVars>>

unauthorizeCurrentMachine(k, n) ==
  /\ processInstanceExists(k, n)
  /\ P!unauthorizeCurrentMachine(getProductDID(k, n), k)
  /\ UNCHANGED <<machineVars, processVars>>

setMachineAddress(k, number, m) ==
  /\ machines' = [machines EXCEPT ![k][number] = m]
  /\ UNCHANGED <<productVars, machineVars, instances, productProcessMapping>>

----
\* assignTask of the process contracts and of the machines.

knownType(m, type) == type \in DOMAIN getTaskTypeName[m]

canAssign(k, n, number, type) ==
  LET m == getMachineAddress(k, number) IN
    knownType(m, type) =>
      /\ M!onlyProcess(m, k)
      /\ LET inputs == taskInputs(getTaskTypeName[m][type])
         IN \A i \in DOMAIN inputs : P!hasOperation(getProductDID(k, n), inputs[i])

\* A mutation: the inputs of StoreProduct are swapped.
SwappedInputs(name, p) ==
  LET inputs == taskInputs(name)
  IN [i \in ParamName |->
        IF i \notin DOMAIN inputs THEN None
        ELSE P!getProductOperationResult(p,
               IF name = "StoreProduct" THEN inputs[IF i = "id" THEN "color" ELSE "id"]
                                        ELSE inputs[i])]

taskParams(name, p) ==
  LET inputs == taskInputs(name)
  IN [i \in ParamName |->
        IF i \in DOMAIN inputs THEN P!getProductOperationResult(p, inputs[i]) ELSE None]

\* A mutation: the machine number is passed as the process ID.
assignedToNumber(book, k, n, number, type) ==
  LET m == getMachineAddress(k, number)
      p == getProductDID(k, n)
      name == getTaskTypeName[m][type]
  IN IF knownType(m, type)
       THEN <<M!TasksWith(book[1], m, M!NewTask(p, name, number, k, taskParams(name, p))),
              M!IndexWith(book[2], book[1], m, p)>>
       ELSE book

\* A mutation: the product's index gets the ID of the next task.
assignedIndexedLate(book, k, n, number, type) ==
  LET m == getMachineAddress(k, number)
      p == getProductDID(k, n)
      name == getTaskTypeName[m][type]
      ts == M!TasksWith(book[1], m, M!NewTask(p, name, n, k, taskParams(name, p)))
  IN IF knownType(m, type) THEN <<ts, M!IndexWith(book[2], ts, m, p)>> ELSE book

\* The machines' books <<tasks, productsTasks>> after one assignment.  The
\* overrides fall through for a type they do not know: nothing is assigned.
assigned(book, k, n, number, type) ==
  LET m == getMachineAddress(k, number)
      p == getProductDID(k, n)
      name == getTaskTypeName[m][type]
  IN IF knownType(m, type)
       THEN <<M!TasksWith(book[1], m, M!NewTask(p, name, n, k, taskParams(name, p))),
              M!IndexWith(book[2], book[1], m, p)>>
       ELSE book

booksAre(book) == tasks' = book[1] /\ productsTasks' = book[2]

assignTask(k, number, n, type) ==
  /\ processInstanceExists(k, n)
  /\ canAssign(k, n, number, type)
  /\ booksAre(assigned(taskVars, k, n, number, type))
  /\ UNCHANGED <<productVars, authorizedProcesses, readings, alerts, info, processVars>>

(***************************************************************************)
(* step1 ... step5: authorise the step's machine for the product, assign   *)
(* the step's task (production's step 3 assigns StoreContainer first, to a *)
(* machine it does not authorise), and mark the step as started.           *)
(***************************************************************************)
canStep(k, n, s, sender) ==
  /\ onlyProcessOwner(sender)
  /\ processInstanceExists(k, n)
  /\ P!productExists(getProductDID(k, n))
  /\ P!onlyAuthorizeProcessOrOwner(getProductDID(k, n), k)
  /\ \A i \in DOMAIN StepAssignments(k, s) :
       canAssign(k, n, StepAssignments(k, s)[i].number, StepAssignments(k, s)[i].type)
  /\ isNextStep(k, n, s)

\* A mutation: the first machine that gets a task is authorised.
stepMachineFirst(k, s) == StepAssignments(k, s)[1].number

\* A mutation: the machine of the step before is authorised.
stepMachineBefore(k, s) == StepAssignments(k, IF s = 1 THEN 1 ELSE s - 1)[1].number

stepMachine(k, s) == StepAssignments(k, s)[Len(StepAssignments(k, s))].number

step(k, n, s, sender) ==
  LET todo == StepAssignments(k, s)
      first == assigned(taskVars, k, n, todo[1].number, todo[1].type)
  IN /\ canStep(k, n, s, sender)
     /\ P!authorizeMachine(getMachineAddress(k, stepMachine(k, s)), getProductDID(k, n), k)
     /\ booksAre(IF Len(todo) = 1 THEN first
                 ELSE assigned(first, k, n, todo[2].number, todo[2].type))
     /\ instances' = stepMarked(k, n, s)
     /\ UNCHANGED <<authorizedProcesses, readings, alerts, info, productProcessMapping, machines>>

----
\* The machine contracts' calls to the product contract.

\* A mutation: the operation is saved without asking the product contract.
canSaveAnyOperation(m, t, sender) ==
  /\ M!taskExists(m, t)
  /\ M!onlyMachine(m, sender)

canSaveOperation(m, t, sender) ==
  /\ M!taskExists(m, t)
  /\ M!onlyMachine(m, sender)
  /\ tasks[m][t].productDID # None
  /\ P!productExists(tasks[m][t].productDID)
  /\ P!onlyAuthorizeMachine(tasks[m][t].productDID, m)

saveProductOperation(m, t, name, result, sender) ==
  /\ canSaveOperation(m, t, sender)
  /\ P!operationsSaved(tasks[m][t].productDID, <<P!Operation(name, result, t, sender)>>)
  /\ UNCHANGED <<authVars, idVars, productPhysicalIDMapping, infoVars, machineVars, processVars>>

saveIdentificationOperation(m, t, tag, sender) ==
  /\ canSaveOperation(m, t, sender)
  /\ P!operationsSaved(tasks[m][t].productDID,
       <<P!Operation("PhysicalIdentification", tag, t, sender)>>)
  /\ productPhysicalIDMapping' =
       [productPhysicalIDMapping EXCEPT ![tag] = tasks[m][t].productDID]
  /\ UNCHANGED <<authVars, idVars, infoVars, machineVars, processVars>>

\* VGR.finishGetInfoTask: three operations and the end of the task, or nothing.
finishGetInfoTask(t, tag, color, sender) ==
  /\ canSaveOperation("VGR", t, sender)
  /\ P!operationsSaved(tasks["VGR"][t].productDID,
       <<P!Operation("NFCTagReading", tag, t, sender),
         P!Operation("ColorDetection", color, t, sender),
         P!Operation("PhysicalIdentification", tag, t, sender)>>)
  /\ productPhysicalIDMapping' =
       [productPhysicalIDMapping EXCEPT ![tag] = tasks["VGR"][t].productDID]
  /\ M!finishTask("VGR", t, "FinishedSuccessfully", "", sender)
  /\ UNCHANGED <<authVars, idVars, infoVars, processVars>>

\* SLD.finishSorting.
finishSorting(t, color, sender) ==
  /\ canSaveOperation("SLD", t, sender)
  /\ P!operationsSaved(tasks["SLD"][t].productDID, <<P!Operation("Sorting", color, t, sender)>>)
  /\ M!finishTask("SLD", t, "FinishedSuccessfully", "", sender)
  /\ UNCHANGED <<authVars, idVars, productPhysicalIDMapping, infoVars, processVars>>

----
\* The calls of each role.  A call by anyone else reverts.  The owner of the
\* machines, who may also assign tasks directly, only kills them here: Machine has
\* the calls of its owner.

ProductOwnerCalls ==
  \E p \in ProductID :
    \/ \E k \in ProcessContract : startProcess(k, p, "productOwner")
    \/ P!unauthorizeCurrentProcess(p, "productOwner") /\ UNCHANGED <<machineVars, processVars>>

ProcessOwnerCalls ==
  \E k \in ProcessContract : \E n \in DOMAIN instances[k] :
    \/ \E s \in 1 .. getNumberOfSteps(k) :
         step(k, n, s, "processOwner") \/ markStepAsStarted(k, n, s, "processOwner")
    \/ \E status \in M!Finished : finishProcess(k, n, status, "processOwner")
    \/ killProcess(k, n, "processOwner")

AnyonesCalls ==
  \E k \in ProcessContract : \E n \in DOMAIN instances[k] :
    \/ unauthorizeCurrentMachine(k, n)
    \/ \E number \in 1 .. getNumberOfMachines[k] :
         \/ authorizeMachine(k, number, n)
         \/ \E type \in 1 .. 4 : assignTask(k, number, n, type)
         \/ \E m \in MachineContract : setMachineAddress(k, number, m)

MachineCalls ==
  \E m \in MachineContract : \E t \in DOMAIN tasks[m] :
    \/ M!startTask(m, t, machineDID[m]) /\ UNCHANGED <<productVars, processVars>>
    \/ /\ \E status \in M!Finished, note \in Note :
            M!finishTask(m, t, status, note, machineDID[m])
       /\ UNCHANGED <<productVars, processVars>>
    \/ M!killTask(m, t, "machineOwner") /\ UNCHANGED <<productVars, processVars>>
    \/ \E v \in Tag : saveIdentificationOperation(m, t, v, machineDID[m])
    \/ \E name \in DOMAIN MPOResult : saveProductOperation(m, t, name, MPOResult[name], machineDID[m])
    \/ m = "VGR" /\ \E v \in Tag, c \in Color : finishGetInfoTask(t, v, c, machineDID[m])
    \/ m = "SLD" /\ \E c \in Color : finishSorting(t, c, machineDID[m])

Next == ProductOwnerCalls \/ ProcessOwnerCalls \/ AnyonesCalls \/ MachineCalls

Spec == Init /\ [][Next]_vars

----

Instance ==
  [productDID : ProductID, currentStep : Nat, finished : BOOLEAN,
   status : {"Started", "Killed"} \cup M!Finished]

TypeOK ==
  /\ P!TypeOK
  /\ M!TypeOK
  /\ instances \in [ProcessContract -> Seq(Instance)]
  /\ productProcessMapping \in [ProcessContract -> [ProductID -> Nat]]
  /\ \A k \in ProcessContract : machines[k] \in Seq(MachineContract)

(***************************************************************************)
(* What the product and machine contracts promise of their own state holds *)
(* when the process and machine contracts call them, several times in one  *)
(* transaction: two assignments in production's step 3, three operations   *)
(* in the end of GetInfo.                                                  *)
(***************************************************************************)
ComponentsKeepTheirPromises ==
  /\ TypeOK
  /\ P!HistoriesAgree
  /\ M!StatusMatchesTimestamps
  /\ M!IndexedTasksMatch

(***************************************************************************)
(* The tag and the colour given to a StoreProduct task, which HBW writes   *)
(* on the workpiece it stores, were read by one GetInfo task of that       *)
(* product: not from another product, not the tag of one reading with the  *)
(* colour of another, and not one for the other.                           *)
(***************************************************************************)
ReadBy(t, p, name, v) ==
  \E id \in P!Named(p, name) : operations[id].taskID = t /\ operations[id].result = v

StoredInputsWereReadTogether ==
  \A t \in DOMAIN tasks["HBW"] :
    LET task == tasks["HBW"][t] IN
    task.taskName = "StoreProduct" =>
      \E g \in DOMAIN tasks["VGR"] :
        /\ tasks["VGR"][g].productDID = task.productDID
        /\ tasks["VGR"][g].finished
        /\ ReadBy(g, task.productDID, "NFCTagReading", task.params["id"])
        /\ ReadBy(g, task.productDID, "ColorDetection", task.params["color"])

(***************************************************************************)
(* A product that was in a process leads to the latest instance started    *)
(* for it (getProcessID), and one that never was leads to none, however    *)
(* the instances of several products interleave.                           *)
(***************************************************************************)
ProductsLeadToTheirLatestProcess ==
  \A k \in ProcessContract, p \in ProductID :
    LET latest == productProcessMapping[k][p] IN
    /\ latest # 0 => processInstanceExists(k, latest) /\ getProductDID(k, latest) = p
    /\ \A n \in DOMAIN instances[k] : getProductDID(k, n) = p => n <= latest

(***************************************************************************)
(* Every task that the process contracts assign, in a step or for anyone   *)
(* who calls assignTask, names an existing instance and that instance's    *)
(* product, also after the machines were rewired: the work of a machine is *)
(* not attributed to a process it was not done for.                        *)
(***************************************************************************)
TasksBelongToTheirInstance ==
  \A m \in MachineContract : \A t \in DOMAIN tasks[m] :
    LET k == tasks[m][t].processContractAddress
        n == tasks[m][t].processID
    IN /\ processInstanceExists(k, n)
       /\ tasks[m][t].productDID = getProductDID(k, n)

(***************************************************************************)
(* An instance keeps its product, its step never goes back or skips one,   *)
(* and how it ended never changes, whatever the owner calls afterwards.    *)
(***************************************************************************)
InstanceKept ==
  \A k \in ProcessContract : \A n \in DOMAIN instances[k] :
    LET before == instances[k][n]
        after == instances'[k][n]
    IN /\ after.productDID = before.productDID
       /\ after.currentStep \in {before.currentStep, before.currentStep + 1}
       /\ before.finished => after.finished /\ after.status = before.status

InstancesAreLedgers == [][InstanceKept]_vars

(***************************************************************************)
(* A product's history grows only by the machine the product allows at     *)
(* that moment, and only for a task of that machine that names the product.*)
(***************************************************************************)
RecordedByTheAuthorised ==
  \A p \in ProductID :
    \A i \in DOMAIN productsOperations'[p] \ DOMAIN productsOperations[p] :
      LET op == operations'[productsOperations'[p][i]] IN
      \E m \in MachineContract :
        /\ op.machineDID = machineDID[m]
        /\ productsAuthorizedMachines[p] = m
        /\ op.taskID \in DOMAIN tasks[m]
        /\ tasks[m][op.taskID].productDID = p

OnlyTheAuthorisedRecord == [][RecordedByTheAuthorised]_vars
====
