---- MODULE Contracts_proof ----
(***************************************************************************)
(* Proofs about the contracts of the factory together, for every finite    *)
(* set of products and every set of colours, tags and notes.               *)
(***************************************************************************)
EXTENDS Contracts, SequenceTheorems, FiniteSetTheorems, TLAPS

\* The lemmas about the product contract and the machine contracts, as they stand here.
PP == INSTANCE Product_proof WITH Identification <- "PhysicalIdentification"

MM == INSTANCE Machine_proof WITH
        machineOwner <- [m \in MachineContract |-> "machineOwner"],
        Caller <- Address, Process <- {"SP", "PP"}, TaskName <- TaskNames,
        Param <- Value, Info <- Value,
        AlertReading <- [m \in MachineContract |-> IF m = "SLD" THEN "Brightness" ELSE None],
        AlertReadingType <- [m \in MachineContract |-> "Major"]

LEMMA ProductAssumed == PP!ProductAssumption
BY ContractsAssumption DEF PP!ProductAssumption, Address, OpName

LEMMA MachineAssumed == MM!MachineAssumption
<1>1. machineDID \in [MachineContract -> Address]
  BY DEF machineDID, MachineContract, Address, Account
<1>2. {"SP", "PP"} \subseteq Address /\ "machineOwner" \in Address /\ "Brightness" \in ReadingType
  BY DEF Address, Account, ReadingType
<1> QED BY <1>1, <1>2, ContractsAssumption DEF MM!MachineAssumption

----
\* Both instances of a component's module say the same.

LEMMA SameProduct ==
  /\ P!TypeOK <=> PP!TypeOK
  /\ P!HistoriesAgree <=> PP!HistoriesAgree
  /\ P!TypeOK' <=> PP!TypeOK'
  /\ P!HistoriesAgree' <=> PP!HistoriesAgree'
<1>1. \A p : P!IDsOf(p) = PP!IDsOf(p) /\ P!IDsOf(p)' = PP!IDsOf(p)'
  BY DEF P!IDsOf, PP!IDsOf
<1>2. \A p, n : P!Named(p, n) = PP!Named(p, n) /\ P!Named(p, n)' = PP!Named(p, n)'
  BY <1>1 DEF P!Named, PP!Named
<1> QED BY <1>1, <1>2 DEF P!TypeOK, PP!TypeOK, P!OperationRecord, PP!OperationRecord, P!HistoriesAgree, PP!HistoriesAgree

LEMMA SameMachine ==
  /\ M!TypeOK <=> MM!TypeOK
  /\ M!StatusMatchesTimestamps <=> MM!StatusMatchesTimestamps
  /\ M!IndexedTasksMatch <=> MM!IndexedTasksMatch
  /\ M!TypeOK' <=> MM!TypeOK'
  /\ M!StatusMatchesTimestamps' <=> MM!StatusMatchesTimestamps'
  /\ M!IndexedTasksMatch' <=> MM!IndexedTasksMatch'
BY DEF M!TypeOK, MM!TypeOK, M!Task, MM!Task, M!TaskStatus, MM!TaskStatus, M!Finished, MM!Finished,
       M!Reading, MM!Reading, M!Alert, MM!Alert,
       M!StatusMatchesTimestamps, MM!StatusMatchesTimestamps, M!StatusFits, MM!StatusFits,
       M!IndexedTasksMatch, MM!IndexedTasksMatch, M!taskExists, MM!taskExists

----
(***************************************************************************)
(* The inductive invariant.  Beside what the components promise and the    *)
(* properties of the composition it says that a process knows as many      *)
(* machines as it has numbers for (setMachineAddress replaces, it never    *)
(* adds), that the owner of the products stays the account of the seed,    *)
(* that a task names a process contract, and that the newest tag and the   *)
(* newest colour of a product were read by one task: it is from these two  *)
(* that a StoreProduct task takes its inputs.                              *)
(***************************************************************************)
MachinesKnown ==
  /\ machines \in [ProcessContract -> Seq(MachineContract)]
  /\ \A k \in ProcessContract : DOMAIN machines[k] = 1 .. getNumberOfMachines[k]

ProductsOwned == \A p \in ProductID : productsOwners[p] = "productOwner"

TasksNameProcesses ==
  \A m \in MachineContract : \A t \in DOMAIN tasks[m] :
    tasks[m][t].processContractAddress \in ProcessContract

\* The operations a and c of p were saved by one GetInfo task of p that ended.
ReadTogether(p, a, c) ==
  \E g \in DOMAIN tasks["VGR"] :
    /\ tasks["VGR"][g].productDID = p
    /\ tasks["VGR"][g].finished
    /\ operations[a].taskID = g
    /\ operations[c].taskID = g

LatestReadTogether ==
  \A p \in ProductID :
    LET a == productsOperationsNames[p]["NFCTagReading"]
        c == productsOperationsNames[p]["ColorDetection"]
    IN a # 0 /\ c # 0 => ReadTogether(p, a, c)

InstancesTyped ==
  /\ instances \in [ProcessContract -> Seq(Instance)]
  /\ productProcessMapping \in [ProcessContract -> [ProductID -> Nat]]

IInv ==
  /\ PP!IInv
  /\ MM!IInv
  /\ InstancesTyped
  /\ MachinesKnown
  /\ ProductsOwned
  /\ TasksNameProcesses
  /\ TasksBelongToTheirInstance
  /\ ProductsLeadToTheirLatestProcess
  /\ LatestReadTogether
  /\ StoredInputsWereReadTogether

----
\* The calls of the machines' clients either change a task, or save operations of the
\* task's product, or both.

TaskCall(m, t) ==
  \/ M!startTask(m, t, machineDID[m])
  \/ \E status \in M!Finished, note \in Note : M!finishTask(m, t, status, note, machineDID[m])
  \/ M!killTask(m, t, "machineOwner")

\* The operations of one save: either none of the two readings, or the three of GetInfo.
SavedFor(m, t, ops) ==
  /\ PP!Several(ops)
  /\ \A i \in 1 .. Len(ops) : ops[i].taskID = t /\ ops[i].machineDID = machineDID[m]
  /\ \/ \A i \in 1 .. Len(ops) : ops[i].name \notin {"NFCTagReading", "ColorDetection"}
     \/ /\ m = "VGR" /\ Len(ops) = 3
        /\ ops[1].name = "NFCTagReading" /\ ops[2].name = "ColorDetection"
        /\ TaskCall(m, t)
        /\ tasks' = M!TaskFinishedWith(m, t, "FinishedSuccessfully", "")

SaveCall(m, t, ops) ==
  /\ canSaveOperation(m, t, machineDID[m])
  /\ SavedFor(m, t, ops)
  /\ P!operationsSaved(tasks[m][t].productDID, ops)
  /\ \/ UNCHANGED productPhysicalIDMapping
     \/ \E i \in 1 .. Len(ops) :
          /\ productPhysicalIDMapping' =
               [productPhysicalIDMapping EXCEPT ![ops[i].result] = tasks[m][t].productDID]
          /\ ops[i].name = "PhysicalIdentification"
  /\ UNCHANGED <<authVars, idVars, infoVars>>
  /\ UNCHANGED machineVars \/ TaskCall(m, t)

MachineStep ==
  /\ UNCHANGED processVars
  /\ \E m \in MachineContract : \E t \in DOMAIN tasks[m] :
       \/ TaskCall(m, t) /\ UNCHANGED productVars
       \/ \E ops : SaveCall(m, t, ops)

LEMMA OperationTyped ==
  ASSUME NEW m \in MachineContract, NEW t \in Nat, NEW name \in OpName, NEW v \in Value
  PROVE  /\ P!Operation(name, v, t, machineDID[m]) \in PP!OperationRecord
         /\ P!Operation(name, v, t, machineDID[m]).name = name
         /\ P!Operation(name, v, t, machineDID[m]).result = v
         /\ P!Operation(name, v, t, machineDID[m]).taskID = t
         /\ P!Operation(name, v, t, machineDID[m]).machineDID = machineDID[m]
<1>1. machineDID[m] \in Account
  BY DEF machineDID, MachineContract, Account
<1> QED BY <1>1 DEF P!Operation, PP!OperationRecord

LEMMA OneSaved ==
  ASSUME NEW m \in MachineContract, NEW t \in Nat, NEW v \in Value,
         NEW name \in OpName \ {"NFCTagReading", "ColorDetection"}
  PROVE  SavedFor(m, t, <<P!Operation(name, v, t, machineDID[m])>>)
<1> DEFINE op == P!Operation(name, v, t, machineDID[m])
<1>1. /\ op \in PP!OperationRecord /\ op.name = name
      /\ op.taskID = t /\ op.machineDID = machineDID[m]
  BY OperationTyped
<1> HIDE DEF op
<1>2. <<op>> \in Seq(PP!OperationRecord) /\ Len(<<op>>) = 1 /\ <<op>>[1] = op
  BY <1>1
<1>3. PP!Several(<<op>>)
  BY <1>2 DEF PP!Several
<1> QED BY <1>1, <1>2, <1>3 DEF SavedFor, op

LEMMA MachineTaskTyped ==
  ASSUME MM!IInv, NEW m \in MachineContract, NEW t \in DOMAIN tasks[m]
  PROVE  t \in Nat /\ tasks[m][t] \in MM!Task
<1>1. tasks[m] \in Seq(MM!Task)
  BY DEF MM!IInv, MM!TypeOK
<1> QED BY <1>1, ElementOfSeq, LenProperties

\* What the parts of the machines' calls amount to.
LEMMA ResultsTyped ==
  /\ Tag \subseteq Value /\ Color \subseteq Value
  /\ \A name \in DOMAIN MPOResult : MPOResult[name] \in Value /\ name \in {"Melting", "Milling"}
BY DEF Value, MPOResult

LEMMA GetInfoSaves ==
  ASSUME MM!IInv, NEW t \in DOMAIN tasks["VGR"], NEW tag \in Tag, NEW color \in Color,
         finishGetInfoTask(t, tag, color, machineDID["VGR"])
  PROVE  \E ops : SaveCall("VGR", t, ops)
<1> DEFINE sender == machineDID["VGR"]
           a == P!Operation("NFCTagReading", tag, t, sender)
           b == P!Operation("ColorDetection", color, t, sender)
           c == P!Operation("PhysicalIdentification", tag, t, sender)
           ops == <<a, b, c>>
<1>0. "VGR" \in MachineContract /\ t \in Nat /\ tag \in Value /\ color \in Value
  BY MachineTaskTyped, ResultsTyped DEF MachineContract
<1>1. /\ a \in PP!OperationRecord /\ a.name = "NFCTagReading"
      /\ a.taskID = t /\ a.machineDID = sender
      /\ b \in PP!OperationRecord /\ b.name = "ColorDetection"
      /\ b.taskID = t /\ b.machineDID = sender
      /\ c \in PP!OperationRecord /\ c.name = "PhysicalIdentification"
      /\ c.result = tag /\ c.taskID = t /\ c.machineDID = sender
  BY <1>0, OperationTyped DEF OpName
<1>2. /\ P!operationsSaved(tasks["VGR"][t].productDID, ops)
      /\ canSaveOperation("VGR", t, sender)
      /\ productPhysicalIDMapping' =
           [productPhysicalIDMapping EXCEPT ![tag] = tasks["VGR"][t].productDID]
      /\ M!finishTask("VGR", t, "FinishedSuccessfully", "", sender)
      /\ UNCHANGED <<authVars, idVars, infoVars>>
  BY DEF finishGetInfoTask
<1> HIDE DEF a, b, c
<1>3. /\ ops \in Seq(PP!OperationRecord) /\ Len(ops) = 3
      /\ ops[1] = a /\ ops[2] = b /\ ops[3] = c
  BY <1>1
<1>4. \A i \in 1 .. 3 : i = 1 \/ i = 2 \/ i = 3
  OBVIOUS
<1> HIDE DEF ops
<1>5. PP!Several(ops)
  BY <1>1, <1>3, <1>4 DEF PP!Several
<1>6. TaskCall("VGR", t)
  BY <1>2, ContractsAssumption DEF TaskCall, M!Finished
<1>7. tasks' = M!TaskFinishedWith("VGR", t, "FinishedSuccessfully", "")
  BY <1>2 DEF M!finishTask
<1>8. SavedFor("VGR", t, ops)
  BY <1>1, <1>3, <1>4, <1>5, <1>6, <1>7 DEF SavedFor
<1>9. ops[3].name = "PhysicalIdentification" /\ ops[3].result = tag
  BY <1>1, <1>3
<1>10. productPhysicalIDMapping' =
         [productPhysicalIDMapping EXCEPT ![ops[3].result] = tasks["VGR"][t].productDID]
  BY <1>2, <1>9
<1>11. 3 \in 1 .. Len(ops)
  BY <1>3
<1> QED BY <1>2, <1>6, <1>8, <1>9, <1>10, <1>11 DEF SaveCall

LEMMA MachineSteps ==
  ASSUME MM!IInv, MachineCalls
  PROVE  MachineStep
<1>1. PICK m \in MachineContract : \E t \in DOMAIN tasks[m] :
        \/ M!startTask(m, t, machineDID[m]) /\ UNCHANGED <<productVars, processVars>>
        \/ /\ \E status \in M!Finished, note \in Note :
                M!finishTask(m, t, status, note, machineDID[m])
           /\ UNCHANGED <<productVars, processVars>>
        \/ M!killTask(m, t, "machineOwner") /\ UNCHANGED <<productVars, processVars>>
        \/ \E v \in Tag : saveIdentificationOperation(m, t, v, machineDID[m])
        \/ \E name \in DOMAIN MPOResult :
             saveProductOperation(m, t, name, MPOResult[name], machineDID[m])
        \/ m = "VGR" /\ \E v \in Tag, c \in Color : finishGetInfoTask(t, v, c, machineDID[m])
        \/ m = "SLD" /\ \E c \in Color : finishSorting(t, c, machineDID[m])
  BY DEF MachineCalls
<1>2. PICK t \in DOMAIN tasks[m] :
        \/ TaskCall(m, t) /\ UNCHANGED <<productVars, processVars>>
        \/ \E v \in Tag : saveIdentificationOperation(m, t, v, machineDID[m])
        \/ \E name \in DOMAIN MPOResult :
             saveProductOperation(m, t, name, MPOResult[name], machineDID[m])
        \/ m = "VGR" /\ \E v \in Tag, c \in Color : finishGetInfoTask(t, v, c, machineDID[m])
        \/ m = "SLD" /\ \E c \in Color : finishSorting(t, c, machineDID[m])
  BY <1>1 DEF TaskCall
<1>3. t \in Nat
  BY MachineTaskTyped
<1>4. CASE TaskCall(m, t) /\ UNCHANGED <<productVars, processVars>>
  BY <1>4 DEF MachineStep
<1>5. ASSUME NEW v \in Tag, saveIdentificationOperation(m, t, v, machineDID[m])
      PROVE  MachineStep
  <2> DEFINE op == P!Operation("PhysicalIdentification", v, t, machineDID[m])
  <2>1. v \in Value /\ "PhysicalIdentification" \in OpName \ {"NFCTagReading", "ColorDetection"}
    BY ResultsTyped DEF OpName
  <2>2. SavedFor(m, t, <<op>>)
    BY <1>3, <2>1, OneSaved
  <2>3. op.name = "PhysicalIdentification" /\ op.result = v
    BY <1>3, <2>1, OperationTyped
  <2>4. /\ canSaveOperation(m, t, machineDID[m])
        /\ P!operationsSaved(tasks[m][t].productDID, <<op>>)
        /\ productPhysicalIDMapping' =
             [productPhysicalIDMapping EXCEPT ![op.result] = tasks[m][t].productDID]
        /\ UNCHANGED <<authVars, idVars, infoVars, machineVars, processVars>>
    BY <1>5, <2>3 DEF saveIdentificationOperation
  <2> HIDE DEF op
  <2>5. 1 \in 1 .. Len(<<op>>) /\ <<op>>[1] = op
    OBVIOUS
  <2>6. SaveCall(m, t, <<op>>)
    BY <2>2, <2>3, <2>4, <2>5 DEF SaveCall
  <2> QED BY <2>4, <2>6 DEF MachineStep
<1>6. ASSUME NEW name \in DOMAIN MPOResult,
             saveProductOperation(m, t, name, MPOResult[name], machineDID[m])
      PROVE  MachineStep
  <2> DEFINE op == P!Operation(name, MPOResult[name], t, machineDID[m])
  <2>1. MPOResult[name] \in Value /\ name \in OpName \ {"NFCTagReading", "ColorDetection"}
    BY ResultsTyped DEF OpName
  <2>2. SavedFor(m, t, <<op>>)
    BY <1>3, <2>1, OneSaved
  <2>3. /\ canSaveOperation(m, t, machineDID[m])
        /\ P!operationsSaved(tasks[m][t].productDID, <<op>>)
        /\ UNCHANGED <<authVars, idVars, productPhysicalIDMapping, infoVars, machineVars, processVars>>
    BY <1>6 DEF saveProductOperation
  <2> HIDE DEF op
  <2>4. SaveCall(m, t, <<op>>)
    BY <2>2, <2>3 DEF SaveCall
  <2> QED BY <2>3, <2>4 DEF MachineStep
<1>7. ASSUME m = "VGR", NEW v \in Tag, NEW c \in Color, finishGetInfoTask(t, v, c, machineDID[m])
      PROVE  MachineStep
  <2>1. \E ops : SaveCall(m, t, ops)
    BY <1>7, GetInfoSaves
  <2> QED BY <1>7, <2>1 DEF MachineStep, finishGetInfoTask
<1>8. ASSUME m = "SLD", NEW c \in Color, finishSorting(t, c, machineDID[m])
      PROVE  MachineStep
  <2> DEFINE op == P!Operation("Sorting", c, t, machineDID[m])
  <2>1. c \in Value /\ "Sorting" \in OpName \ {"NFCTagReading", "ColorDetection"}
    BY ResultsTyped DEF OpName
  <2>2. SavedFor(m, t, <<op>>)
    BY <1>3, <2>1, OneSaved
  <2>3. /\ canSaveOperation(m, t, machineDID[m])
        /\ P!operationsSaved(tasks[m][t].productDID, <<op>>)
        /\ M!finishTask(m, t, "FinishedSuccessfully", "", machineDID[m])
        /\ UNCHANGED <<authVars, idVars, productPhysicalIDMapping, infoVars, processVars>>
    BY <1>8 DEF finishSorting
  <2>4. TaskCall(m, t)
    BY <2>3, ContractsAssumption DEF TaskCall, M!Finished
  <2> HIDE DEF op
  <2>5. SaveCall(m, t, <<op>>)
    BY <2>2, <2>3, <2>4 DEF SaveCall
  <2> QED BY <2>3, <2>5 DEF MachineStep
<1> QED BY <1>2, <1>4, <1>5, <1>6, <1>7, <1>8

----
\* The instances.  A step starts one, updates one or leaves them alone.

UpdatedInstance(k, n, inst) ==
  /\ instances' = [instances EXCEPT ![k] = [@ EXCEPT ![n] = inst]]
  /\ productProcessMapping' = productProcessMapping

\* What a call may do to an instance.
InstanceMoved(before, after) ==
  /\ after.productDID = before.productDID
  /\ after.currentStep \in {before.currentStep, before.currentStep + 1}
  /\ before.finished => after.finished /\ after.status = before.status

StartStep == \E k \in ProcessContract, p \in ProductID : startProcess(k, p, "productOwner")

MoveStep ==
  \E k \in ProcessContract : \E n \in DOMAIN instances[k], inst \in Instance :
    UpdatedInstance(k, n, inst) /\ InstanceMoved(instances[k][n], inst)

LEMMA InstanceTyped ==
  ASSUME InstancesTyped, NEW k \in ProcessContract, NEW n \in DOMAIN instances[k]
  PROVE  /\ instances[k] \in Seq(Instance) /\ n \in Nat /\ n >= 1 /\ n <= Len(instances[k])
         /\ instances[k][n] \in Instance
         /\ instances[k][n].productDID \in ProductID
<1>1. instances[k] \in Seq(Instance)
  BY DEF InstancesTyped
<1>2. DOMAIN instances[k] = 1 .. Len(instances[k]) /\ Len(instances[k]) \in Nat
  BY <1>1, LenProperties
<1>3. instances[k][n] \in Instance
  BY <1>1, <1>2, ElementOfSeq
<1> QED BY <1>1, <1>2, <1>3 DEF Instance

LEMMA MarkMoves ==
  ASSUME InstancesTyped, NEW k \in ProcessContract, NEW n \in DOMAIN instances[k], NEW s \in Nat,
         isNextStep(k, n, s), instances' = stepMarked(k, n, s),
         UNCHANGED productProcessMapping
  PROVE  MoveStep
<1> DEFINE old == instances[k][n]
           inst == [old EXCEPT !.currentStep = s]
<1>1. old \in Instance /\ instances[k] \in Seq(Instance)
  BY InstanceTyped
<1>2. inst \in Instance /\ InstanceMoved(old, inst)
  <2>1. old.currentStep \in Nat /\ s = old.currentStep + 1
    BY <1>1 DEF isNextStep, Instance
  <2> QED BY <1>1, <2>1 DEF Instance, InstanceMoved
<1>3. UpdatedInstance(k, n, inst)
  BY <1>1 DEF stepMarked, UpdatedInstance, InstancesTyped
<1> HIDE DEF inst
<1> QED BY <1>2, <1>3 DEF MoveStep

LEMMA EndMoves ==
  ASSUME InstancesTyped, NEW k \in ProcessContract, NEW n \in DOMAIN instances[k],
         NEW status \in {"Killed"} \cup M!Finished, NEW sender, end(k, n, status, sender)
  PROVE  MoveStep
<1> DEFINE old == instances[k][n]
           inst == [old EXCEPT !.finished = TRUE, !.status = status]
<1>1. old \in Instance /\ instances[k] \in Seq(Instance)
  BY InstanceTyped
<1>2. inst \in Instance /\ InstanceMoved(old, inst)
  BY <1>1 DEF Instance, InstanceMoved, end
<1>3. UpdatedInstance(k, n, inst)
  BY <1>1 DEF UpdatedInstance, InstancesTyped, end
<1> HIDE DEF inst
<1> QED BY <1>2, <1>3 DEF MoveStep

LEMMA InstanceSteps ==
  ASSUME InstancesTyped, MM!IInv, [Next]_vars
  PROVE  StartStep \/ MoveStep \/ UNCHANGED <<instances, productProcessMapping>>
<1>1. CASE UNCHANGED vars
  BY <1>1 DEF vars, processVars
<1>2. CASE ProductOwnerCalls
  BY <1>2 DEF ProductOwnerCalls, StartStep, processVars
<1>3. CASE ProcessOwnerCalls
  <2>1. PICK k \in ProcessContract : \E n \in DOMAIN instances[k] :
          \/ \E s \in 1 .. getNumberOfSteps(k) :
               step(k, n, s, "processOwner") \/ markStepAsStarted(k, n, s, "processOwner")
          \/ \E status \in M!Finished : finishProcess(k, n, status, "processOwner")
          \/ killProcess(k, n, "processOwner")
    BY <1>3 DEF ProcessOwnerCalls
  <2>2. PICK n \in DOMAIN instances[k] :
          \/ \E s \in 1 .. getNumberOfSteps(k) :
               step(k, n, s, "processOwner") \/ markStepAsStarted(k, n, s, "processOwner")
          \/ \E status \in M!Finished : finishProcess(k, n, status, "processOwner")
          \/ killProcess(k, n, "processOwner")
    BY <2>1
  <2>3. ASSUME NEW s \in 1 .. getNumberOfSteps(k),
               step(k, n, s, "processOwner") \/ markStepAsStarted(k, n, s, "processOwner")
        PROVE  MoveStep
    <3>1. /\ isNextStep(k, n, s)
          /\ instances' = stepMarked(k, n, s)
          /\ UNCHANGED productProcessMapping
      BY <2>3 DEF step, canStep, markStepAsStarted
    <3>2. s \in Nat
      BY <2>3
    <3> QED BY <3>1, <3>2, MarkMoves
  <2>4. ASSUME NEW status \in M!Finished, finishProcess(k, n, status, "processOwner")
        PROVE  MoveStep
    BY <2>4, EndMoves DEF finishProcess
  <2>5. ASSUME killProcess(k, n, "processOwner") PROVE MoveStep
    BY <2>5, EndMoves DEF killProcess
  <2> QED BY <2>2, <2>3, <2>4, <2>5
<1>4. CASE AnyonesCalls
  BY <1>4 DEF AnyonesCalls, unauthorizeCurrentMachine, authorizeMachine, assignTask,
              setMachineAddress, processVars
<1>5. CASE MachineCalls
  BY <1>5, MachineSteps DEF MachineStep, processVars
<1> QED BY <1>1, <1>2, <1>3, <1>4, <1>5 DEF Next

\* The instances after a step.
InstancesGrown ==
  /\ InstancesTyped'
  /\ \A k \in ProcessContract : DOMAIN instances[k] \subseteq DOMAIN instances'[k]
  /\ InstanceKept

LEMMA StartGrows ==
  ASSUME InstancesTyped, NEW k \in ProcessContract, NEW p \in ProductID,
         startProcess(k, p, "productOwner")
  PROVE  /\ InstancesGrown
         /\ \A j \in ProcessContract \ {k} : instances'[j] = instances[j]
         /\ \A j \in ProcessContract : \A n \in DOMAIN instances[j] : instances'[j][n] = instances[j][n]
         /\ Len(instances'[k]) = Len(instances[k]) + 1
         /\ instances'[k][Len(instances[k]) + 1].productDID = p
         /\ productProcessMapping'[k][p] = Len(instances[k]) + 1
         /\ \A j \in ProcessContract, q \in ProductID :
              j # k \/ q # p => productProcessMapping'[j][q] = productProcessMapping[j][q]
<1> DEFINE inst == NewInstance(p)
<1>1. inst \in Instance /\ inst.productDID = p
  BY DEF NewInstance, Instance
<1>2. instances' = [instances EXCEPT ![k] = Append(instances[k], inst)]
  BY DEF startProcess
<1>3. /\ instances \in [ProcessContract -> Seq(Instance)]
      /\ productProcessMapping \in [ProcessContract -> [ProductID -> Nat]]
  BY DEF InstancesTyped
<1> HIDE DEF inst
<1>4. /\ Append(instances[k], inst) \in Seq(Instance)
      /\ Len(Append(instances[k], inst)) = Len(instances[k]) + 1
      /\ Append(instances[k], inst)[Len(instances[k]) + 1] = inst
      /\ \A n \in 1 .. Len(instances[k]) : Append(instances[k], inst)[n] = instances[k][n]
  BY <1>1, <1>3, AppendProperties
<1>5. \A j \in ProcessContract :
        instances'[j] = IF j = k THEN Append(instances[k], inst) ELSE instances[j]
  BY <1>2, <1>3
<1>6. instances' \in [ProcessContract -> Seq(Instance)]
  BY <1>2, <1>3, <1>4
<1>7. \A j \in ProcessContract :
        /\ DOMAIN instances[j] = 1 .. Len(instances[j]) /\ Len(instances[j]) \in Nat
        /\ DOMAIN instances'[j] = 1 .. Len(instances'[j])
  BY <1>3, <1>6, LenProperties
<1>8. productProcessMapping' = [productProcessMapping EXCEPT ![k][p] = Len(instances[k]) + 1]
  BY DEF startProcess
<1>9. /\ productProcessMapping' \in [ProcessContract -> [ProductID -> Nat]]
      /\ productProcessMapping'[k][p] = Len(instances[k]) + 1
      /\ \A j \in ProcessContract, q \in ProductID :
           j # k \/ q # p => productProcessMapping'[j][q] = productProcessMapping[j][q]
  BY <1>3, <1>7, <1>8
<1>10. \A j \in ProcessContract : \A n \in DOMAIN instances[j] :
         n \in DOMAIN instances'[j] /\ instances'[j][n] = instances[j][n]
  <2> SUFFICES ASSUME NEW j \in ProcessContract, NEW n \in DOMAIN instances[j]
               PROVE  n \in DOMAIN instances'[j] /\ instances'[j][n] = instances[j][n]
    OBVIOUS
  <2>1. CASE j = k
    <3>1. instances'[k] = Append(instances[k], inst)
      BY <1>5
    <3>2. n \in 1 .. Len(instances[k])
      BY <1>7, <2>1
    <3>3. n \in 1 .. Len(instances[k]) + 1 /\ DOMAIN instances'[k] = 1 .. Len(instances[k]) + 1
      BY <1>4, <1>7, <3>1, <3>2
    <3> QED BY <1>4, <2>1, <3>1, <3>2, <3>3
  <2>2. CASE j # k
    BY <1>5, <2>2
  <2> QED BY <2>1, <2>2
<1>11. InstanceKept
  <2> SUFFICES ASSUME NEW j \in ProcessContract, NEW n \in DOMAIN instances[j]
               PROVE  InstanceMoved(instances[j][n], instances'[j][n])
    BY DEF InstanceKept, InstanceMoved
  <2> QED BY <1>10 DEF InstanceMoved
<1>12. InstancesTyped'
  BY <1>6, <1>9 DEF InstancesTyped
<1> QED BY <1>1, <1>4, <1>5, <1>9, <1>10, <1>11, <1>12 DEF InstancesGrown

LEMMA MoveKeeps ==
  ASSUME InstancesTyped, MoveStep
  PROVE  /\ InstancesGrown
         /\ \A k \in ProcessContract : DOMAIN instances'[k] = DOMAIN instances[k]
         /\ productProcessMapping' = productProcessMapping
<1>1. PICK k \in ProcessContract : \E n \in DOMAIN instances[k], inst \in Instance :
        UpdatedInstance(k, n, inst) /\ InstanceMoved(instances[k][n], inst)
  BY DEF MoveStep
<1>2. PICK n \in DOMAIN instances[k], inst \in Instance :
        UpdatedInstance(k, n, inst) /\ InstanceMoved(instances[k][n], inst)
  BY <1>1
<1>3. /\ instances' = [instances EXCEPT ![k] = [@ EXCEPT ![n] = inst]]
      /\ productProcessMapping' = productProcessMapping
      /\ InstanceMoved(instances[k][n], inst)
  BY <1>2 DEF UpdatedInstance
<1>4. instances \in [ProcessContract -> Seq(Instance)]
  BY DEF InstancesTyped
<1>5. /\ [instances[k] EXCEPT ![n] = inst] \in Seq(Instance)
      /\ DOMAIN [instances[k] EXCEPT ![n] = inst] = DOMAIN instances[k]
      /\ \A i \in DOMAIN instances[k] :
           [instances[k] EXCEPT ![n] = inst][i] = IF i = n THEN inst ELSE instances[k][i]
  BY <1>4, ExceptSeq
<1>6. \A j \in ProcessContract :
        instances'[j] = IF j = k THEN [instances[k] EXCEPT ![n] = inst] ELSE instances[j]
  BY <1>3, <1>4
<1>7. instances' \in [ProcessContract -> Seq(Instance)]
  BY <1>3, <1>4, <1>5
<1>8. \A j \in ProcessContract : DOMAIN instances'[j] = DOMAIN instances[j]
  BY <1>5, <1>6
<1>9. InstanceKept
  <2> SUFFICES ASSUME NEW j \in ProcessContract, NEW i \in DOMAIN instances[j]
               PROVE  InstanceMoved(instances[j][i], instances'[j][i])
    BY DEF InstanceKept, InstanceMoved
  <2>1. CASE j = k /\ i = n
    BY <1>3, <1>5, <1>6, <2>1
  <2>2. CASE ~(j = k /\ i = n)
    <3>1. instances'[j][i] = instances[j][i]
      BY <1>5, <1>6, <2>2
    <3>2. instances[j][i] \in Instance
      BY InstanceTyped
    <3> QED BY <3>1, <3>2 DEF InstanceMoved
  <2> QED BY <2>1, <2>2
<1>10. InstancesTyped'
  BY <1>3, <1>7 DEF InstancesTyped
<1> QED BY <1>3, <1>8, <1>9, <1>10 DEF InstancesGrown

LEMMA InstancesGrow ==
  ASSUME InstancesTyped, MM!IInv, [Next]_vars
  PROVE  InstancesGrown
<1>1. CASE StartStep
  BY <1>1, StartGrows DEF StartStep
<1>2. CASE MoveStep
  BY <1>2, MoveKeeps
<1>3. CASE UNCHANGED <<instances, productProcessMapping>>
  BY <1>3 DEF InstancesGrown, InstancesTyped, InstanceKept
<1> QED BY <1>1, <1>2, <1>3, InstanceSteps

\* The newest instance of a product has the largest ID.
LEMMA LatestStays ==
  ASSUME InstancesTyped, MM!IInv, ProductsLeadToTheirLatestProcess, [Next]_vars
  PROVE  ProductsLeadToTheirLatestProcess'
<1> SUFFICES ASSUME NEW j \in ProcessContract, NEW q \in ProductID
             PROVE  /\ productProcessMapping'[j][q] # 0 =>
                         /\ productProcessMapping'[j][q] \in DOMAIN instances'[j]
                         /\ instances'[j][productProcessMapping'[j][q]].productDID = q
                    /\ \A n \in DOMAIN instances'[j] :
                         instances'[j][n].productDID = q => n <= productProcessMapping'[j][q]
  BY DEF ProductsLeadToTheirLatestProcess, processInstanceExists, getProductDID
<1>1. /\ productProcessMapping[j][q] # 0 =>
           /\ productProcessMapping[j][q] \in DOMAIN instances[j]
           /\ instances[j][productProcessMapping[j][q]].productDID = q
      /\ \A n \in DOMAIN instances[j] :
           instances[j][n].productDID = q => n <= productProcessMapping[j][q]
  BY DEF ProductsLeadToTheirLatestProcess, processInstanceExists, getProductDID
<1>2. InstancesGrown
  BY InstancesGrow
<1>3. \A n \in DOMAIN instances[j] :
        n \in DOMAIN instances'[j] /\ instances'[j][n].productDID = instances[j][n].productDID
  BY <1>2 DEF InstancesGrown, InstanceKept
<1>4. /\ instances[j] \in Seq(Instance) /\ instances'[j] \in Seq(Instance)
      /\ DOMAIN instances[j] = 1 .. Len(instances[j]) /\ Len(instances[j]) \in Nat
      /\ DOMAIN instances'[j] = 1 .. Len(instances'[j])
  BY <1>2, LenProperties DEF InstancesGrown, InstancesTyped
<1>5. ASSUME DOMAIN instances'[j] = DOMAIN instances[j],
             productProcessMapping'[j][q] = productProcessMapping[j][q]
      PROVE  /\ productProcessMapping'[j][q] # 0 =>
                  /\ productProcessMapping'[j][q] \in DOMAIN instances'[j]
                  /\ instances'[j][productProcessMapping'[j][q]].productDID = q
             /\ \A n \in DOMAIN instances'[j] :
                  instances'[j][n].productDID = q => n <= productProcessMapping'[j][q]
  BY <1>1, <1>3, <1>5
<1>6. CASE StartStep
  <2>1. PICK k \in ProcessContract, p \in ProductID : startProcess(k, p, "productOwner")
    BY <1>6 DEF StartStep
  <2>2. /\ \A i \in ProcessContract \ {k} : instances'[i] = instances[i]
        /\ Len(instances'[k]) = Len(instances[k]) + 1
        /\ instances'[k][Len(instances[k]) + 1].productDID = p
        /\ productProcessMapping'[k][p] = Len(instances[k]) + 1
        /\ \A i \in ProcessContract, r \in ProductID :
             i # k \/ r # p => productProcessMapping'[i][r] = productProcessMapping[i][r]
    BY <2>1, StartGrows
  <2>3. CASE j # k
    BY <1>5, <2>2, <2>3
  <2>4. CASE j = k /\ q = p
    BY <1>4, <2>2, <2>4
  <2>5. CASE j = k /\ q # p
    <3>1. productProcessMapping'[j][q] = productProcessMapping[j][q]
      BY <2>2, <2>5
    <3>2. \A n \in DOMAIN instances'[j] : n \in DOMAIN instances[j] \/ instances'[j][n].productDID = p
      BY <1>4, <2>2, <2>5
    <3> QED BY <1>1, <1>3, <2>5, <3>1, <3>2
  <2> QED BY <2>3, <2>4, <2>5
<1>7. CASE MoveStep
  BY <1>5, <1>7, MoveKeeps
<1>8. CASE UNCHANGED <<instances, productProcessMapping>>
  BY <1>5, <1>8
<1> QED BY <1>6, <1>7, <1>8, InstanceSteps

----
\* The tables: the machines a step is about are machines the process has numbers for.

LEMMA StepAssigned ==
  ASSUME NEW k \in ProcessContract, NEW s \in 1 .. getNumberOfSteps(k)
  PROVE  /\ Len(StepAssignments(k, s)) \in {1, 2}
         /\ DOMAIN StepAssignments(k, s) = 1 .. Len(StepAssignments(k, s))
         /\ \A i \in 1 .. Len(StepAssignments(k, s)) :
              /\ StepAssignments(k, s)[i].number \in 1 .. getNumberOfMachines[k]
              /\ StepAssignments(k, s)[i].type \in 1 .. 4
<1>1. k = "SP" \/ k = "PP"
  BY ContractsAssumption
<1>2. CASE k = "SP"
  <2>1. s \in 1 .. 4 /\ k # "PP"
    BY <1>2 DEF getNumberOfSteps, getStepTaskType
  <2>2. s = 1 \/ s = 2 \/ s = 3 \/ s = 4
    BY <2>1
  <2>3. /\ getMachineNumber["SP"][s] \in 1 .. 2
        /\ getStepTaskType["SP"][s] \in 1 .. 4
    BY <2>2 DEF getMachineNumber, getStepTaskType
  <2>4. getNumberOfMachines["SP"] = 2
    BY DEF getNumberOfMachines
  <2>5. StepAssignments(k, s) =
          <<[number |-> getMachineNumber["SP"][s], type |-> getStepTaskType["SP"][s]]>>
    BY <1>2, <2>1 DEF StepAssignments
  <2> QED BY <1>2, <2>3, <2>4, <2>5
<1>3. CASE k = "PP"
  <2>1. s \in 1 .. 5
    BY <1>3 DEF getNumberOfSteps, getStepTaskType
  <2>2. s = 1 \/ s = 2 \/ s = 3 \/ s = 4 \/ s = 5
    BY <2>1
  <2>3. /\ getMachineNumber["PP"][s] \in 1 .. 4
        /\ getStepTaskType["PP"][s] \in 1 .. 4
    BY <2>2 DEF getMachineNumber, getStepTaskType
  <2>4. getNumberOfMachines["PP"] = 4
    BY DEF getNumberOfMachines
  <2>5. CASE s # 3
    <3>1. StepAssignments(k, s) =
            <<[number |-> getMachineNumber["PP"][s], type |-> getStepTaskType["PP"][s]]>>
      BY <1>3, <2>5 DEF StepAssignments
    <3> QED BY <1>3, <2>3, <2>4, <3>1
  <2>6. CASE s = 3
    <3>1. StepAssignments(k, s) = <<[number |-> 1, type |-> 2], [number |-> 3, type |-> 1]>>
      BY <1>3, <2>6 DEF StepAssignments
    <3>2. /\ Len(StepAssignments(k, s)) = 2
          /\ DOMAIN StepAssignments(k, s) = 1 .. 2
          /\ StepAssignments(k, s)[1] = [number |-> 1, type |-> 2]
          /\ StepAssignments(k, s)[2] = [number |-> 3, type |-> 1]
      BY <3>1
    <3>3. \A i \in 1 .. 2 : i = 1 \/ i = 2
      OBVIOUS
    <3> QED BY <1>3, <2>4, <3>2, <3>3
  <2> QED BY <2>5, <2>6
<1> QED BY <1>1, <1>2, <1>3

LEMMA MachineOf ==
  ASSUME MachinesKnown, NEW k \in ProcessContract, NEW number \in 1 .. getNumberOfMachines[k]
  PROVE  getMachineAddress(k, number) \in MachineContract
<1>1. machines[k] \in Seq(MachineContract) /\ number \in DOMAIN machines[k]
  BY DEF MachinesKnown
<1>2. number \in 1 .. Len(machines[k])
  BY <1>1, LenProperties
<1> QED BY <1>1, <1>2, ElementOfSeq DEF getMachineAddress

LEMMA StepMachineOf ==
  ASSUME MachinesKnown, NEW k \in ProcessContract, NEW s \in 1 .. getNumberOfSteps(k)
  PROVE  getMachineAddress(k, stepMachine(k, s)) \in MachineContract
<1>1. stepMachine(k, s) \in 1 .. getNumberOfMachines[k]
  BY StepAssigned DEF stepMachine
<1> QED BY <1>1, MachineOf

----
\* The product contract: a step saves operations, or leaves the histories alone.

LEMMA ProductUntouched ==
  ASSUME PP!IInv, UNCHANGED productVars
  PROVE  PP!Elsewhere /\ PP!TypeOK'
BY DEF productVars, authVars, idVars, opVars, infoVars, PP!Elsewhere, PP!idVars, PP!opVars,
       PP!IInv, PP!TypeOK

LEMMA AuthorisationSteps ==
  ASSUME PP!IInv, NEW p \in ProductID, NEW sender \in Address, NEW a \in Address,
         \/ P!authorizeMachine(a, p, sender)
         \/ P!unauthorizeCurrentMachine(p, sender)
         \/ P!authorizeProcess(a, p, "productOwner")
         \/ P!unauthorizeCurrentProcess(p, "productOwner")
  PROVE  PP!Elsewhere /\ PP!TypeOK'
<1>1. "productOwner" \in Account
  BY DEF Account
<1>2. \/ PP!authorizeMachine(a, p, sender)
      \/ PP!unauthorizeCurrentMachine(p, sender)
      \/ PP!authorizeProcess(a, p, "productOwner")
      \/ PP!unauthorizeCurrentProcess(p, "productOwner")
  BY DEF P!authorizeMachine, P!unauthorizeCurrentMachine, P!authorizeProcess,
         P!unauthorizeCurrentProcess, P!setMachine, P!setProcess, P!productExists,
         P!onlyProductOwner, P!onlyAuthorizeProcessOrOwner, P!idVars, P!opVars, P!infoVars,
         PP!authorizeMachine, PP!unauthorizeCurrentMachine, PP!authorizeProcess,
         PP!unauthorizeCurrentProcess, PP!setMachine, PP!setProcess, PP!productExists,
         PP!onlyProductOwner, PP!onlyAuthorizeProcessOrOwner, PP!idVars, PP!opVars, PP!infoVars
<1> QED BY <1>1, <1>2, ProductAssumed, PP!OtherSteps

SaveStep ==
  \E m \in MachineContract : \E t \in DOMAIN tasks[m] : \E ops :
    SaveCall(m, t, ops) /\ UNCHANGED processVars

LEMMA ProductSteps ==
  ASSUME IInv, [Next]_vars
  PROVE  (PP!Elsewhere /\ PP!TypeOK') \/ SaveStep
<1>0. /\ PP!IInv /\ MM!IInv /\ InstancesTyped /\ MachinesKnown
      /\ ProcessContract \subseteq Address /\ MachineContract \subseteq Address
      /\ {"productOwner", "processOwner"} \subseteq Address
  BY ContractsAssumption DEF IInv, Address, Account
<1>1. CASE UNCHANGED productVars
  BY <1>0, <1>1, ProductUntouched
<1>2. CASE ProductOwnerCalls
  <2>1. PICK p \in ProductID :
          \/ \E k \in ProcessContract : P!authorizeProcess(k, p, "productOwner")
          \/ P!unauthorizeCurrentProcess(p, "productOwner")
    BY <1>2 DEF ProductOwnerCalls, startProcess
  <2>2. PICK a \in Address :
          P!authorizeProcess(a, p, "productOwner") \/ P!unauthorizeCurrentProcess(p, "productOwner")
    BY <1>0, <2>1
  <2> QED BY <1>0, <2>2, AuthorisationSteps
<1>3. CASE ProcessOwnerCalls
  <2>1. PICK k \in ProcessContract : \E n \in DOMAIN instances[k] :
          \/ \E s \in 1 .. getNumberOfSteps(k) : step(k, n, s, "processOwner")
          \/ UNCHANGED productVars
    BY <1>3 DEF ProcessOwnerCalls, markStepAsStarted, finishProcess, killProcess, end
  <2>2. PICK n \in DOMAIN instances[k] :
          \/ \E s \in 1 .. getNumberOfSteps(k) : step(k, n, s, "processOwner")
          \/ UNCHANGED productVars
    BY <2>1
  <2>3. ASSUME NEW s \in 1 .. getNumberOfSteps(k), step(k, n, s, "processOwner")
        PROVE  PP!Elsewhere /\ PP!TypeOK'
    <3>1. P!authorizeMachine(getMachineAddress(k, stepMachine(k, s)), getProductDID(k, n), k)
      BY <2>3 DEF step
    <3>2. /\ getMachineAddress(k, stepMachine(k, s)) \in Address
          /\ getProductDID(k, n) \in ProductID
          /\ k \in Address
      BY <1>0, StepMachineOf, InstanceTyped DEF getProductDID
    <3> QED BY <1>0, <3>1, <3>2, AuthorisationSteps
  <2> QED BY <1>1, <2>2, <2>3
<1>4. CASE AnyonesCalls
  <2>1. PICK k \in ProcessContract : \E n \in DOMAIN instances[k] :
          \/ P!unauthorizeCurrentMachine(getProductDID(k, n), k)
          \/ \E number \in 1 .. getNumberOfMachines[k] :
               P!authorizeMachine(getMachineAddress(k, number), getProductDID(k, n), k)
          \/ UNCHANGED productVars
    BY <1>4 DEF AnyonesCalls, unauthorizeCurrentMachine, authorizeMachine, assignTask,
                setMachineAddress
  <2>2. PICK n \in DOMAIN instances[k] :
          \/ P!unauthorizeCurrentMachine(getProductDID(k, n), k)
          \/ \E number \in 1 .. getNumberOfMachines[k] :
               P!authorizeMachine(getMachineAddress(k, number), getProductDID(k, n), k)
          \/ UNCHANGED productVars
    BY <2>1
  <2>3. getProductDID(k, n) \in ProductID /\ k \in Address
    BY <1>0, InstanceTyped DEF getProductDID
  <2>4. CASE P!unauthorizeCurrentMachine(getProductDID(k, n), k)
    BY <1>0, <2>3, <2>4, AuthorisationSteps
  <2>5. ASSUME NEW number \in 1 .. getNumberOfMachines[k],
               P!authorizeMachine(getMachineAddress(k, number), getProductDID(k, n), k)
        PROVE  PP!Elsewhere /\ PP!TypeOK'
    <3>1. getMachineAddress(k, number) \in Address
      BY <1>0, MachineOf
    <3> QED BY <1>0, <2>3, <2>5, <3>1, AuthorisationSteps
  <2> QED BY <1>1, <2>2, <2>4, <2>5
<1>5. CASE MachineCalls
  BY <1>0, <1>1, <1>5, MachineSteps DEF MachineStep, SaveStep
<1> QED BY <1>1, <1>2, <1>3, <1>4, <1>5 DEF Next, vars

\* Operations are saved for a product that exists, by a machine for its task.
LEMMA SavedForProduct ==
  ASSUME IInv, NEW m \in MachineContract, NEW t \in DOMAIN tasks[m], NEW ops, SaveCall(m, t, ops)
  PROVE  /\ tasks[m][t].productDID \in ProductID
         /\ PP!Several(ops) /\ PP!operationsSaved(tasks[m][t].productDID, ops)
         /\ productsAuthorizedMachines[tasks[m][t].productDID] = m
<1>1. tasks[m][t] \in MM!Task
  BY MachineTaskTyped DEF IInv
<1>2. tasks[m][t].productDID \in ProductID
  BY <1>1 DEF SaveCall, canSaveOperation, MM!Task
<1>3. productsOwners[tasks[m][t].productDID] = "productOwner"
  BY <1>2 DEF IInv, ProductsOwned
<1>4. m # "productOwner"
  BY DEF MachineContract
<1>5. m \in {"productOwner", productsAuthorizedMachines[tasks[m][t].productDID]}
  BY <1>3 DEF SaveCall, canSaveOperation, P!onlyAuthorizeMachine
<1>6. PP!operationsSaved(tasks[m][t].productDID, ops)
  BY DEF SaveCall, P!operationsSaved, PP!operationsSaved, P!LatestNames, PP!LatestNames
<1> QED BY <1>2, <1>4, <1>5, <1>6 DEF SaveCall, SavedFor

LEMMA ProductInvariant ==
  ASSUME IInv, [Next]_vars
  PROVE  PP!IInv' /\ ProductsOwned'
<1>0. PP!IInv
  BY DEF IInv
<1>1. CASE PP!Elsewhere /\ PP!TypeOK'
  <2>1. PP!IDsAreBijective' /\ PP!HistoriesAgree'
    BY <1>0, <1>1, ProductAssumed, PP!ElsewhereKeeps DEF PP!IInv
  <2>2. ProductsOwned'
    BY <1>1 DEF PP!Elsewhere, IInv, ProductsOwned
  <2> QED BY <1>1, <2>1, <2>2 DEF PP!IInv
<1>2. CASE SaveStep
  <2>1. PICK m \in MachineContract : \E t \in DOMAIN tasks[m] : \E ops : SaveCall(m, t, ops)
    BY <1>2 DEF SaveStep
  <2>2. PICK t \in DOMAIN tasks[m] : \E ops : SaveCall(m, t, ops)
    BY <2>1
  <2>3. PICK ops : SaveCall(m, t, ops)
    BY <2>2
  <2> DEFINE p == tasks[m][t].productDID
  <2>4. p \in ProductID /\ PP!Several(ops) /\ PP!operationsSaved(p, ops)
    BY <2>3, SavedForProduct
  <2>5. /\ UNCHANGED <<PP!authVars, PP!idVars, PP!infoVars>>
        /\ \/ UNCHANGED productPhysicalIDMapping
           \/ \E i \in 1 .. Len(ops) :
                /\ productPhysicalIDMapping' = [productPhysicalIDMapping EXCEPT ![ops[i].result] = p]
                /\ ops[i].name = "PhysicalIdentification"
    BY <2>3 DEF SaveCall, authVars, idVars, infoVars, PP!authVars, PP!idVars, PP!infoVars
  <2>6. ProductsOwned'
    BY <2>3 DEF SaveCall, authVars, IInv, ProductsOwned
  <2> HIDE DEF p
  <2> QED BY <1>0, <2>4, <2>5, <2>6, ProductAssumed, PP!Saving
<1> QED BY <1>1, <1>2, ProductSteps

----
\* The tasks.  What a client or an owner does to a task leaves its job as it was.

SameJob(old, task) ==
  /\ task.productDID = old.productDID /\ task.taskName = old.taskName
  /\ task.processID = old.processID /\ task.params = old.params
  /\ task.processContractAddress = old.processContractAddress
  /\ old.finished => task.finished

TasksKept ==
  \A m \in MachineContract : \A t \in DOMAIN tasks[m] :
    t \in DOMAIN tasks'[m] /\ SameJob(tasks[m][t], tasks'[m][t])

LEMMA TaskCallUpdates ==
  ASSUME MM!IInv, NEW m \in MachineContract, NEW t \in DOMAIN tasks[m], TaskCall(m, t)
  PROVE  \E task \in MM!Task : MM!Updated(m, t, task) /\ SameJob(tasks[m][t], task)
<1> DEFINE old == tasks[m][t]
<1>0. old \in MM!Task
  BY MachineTaskTyped
<1>1. tasks \in [MachineContract -> Seq(MM!Task)]
  BY DEF MM!IInv, MM!TypeOK
<1>2. CASE M!startTask(m, t, machineDID[m])
  <2> DEFINE task == [old EXCEPT !.status = "Started", !.started = TRUE]
  <2>1. task \in MM!Task /\ SameJob(old, task)
    BY <1>0 DEF MM!Task, MM!TaskStatus, SameJob
  <2>2. MM!Updated(m, t, task)
    BY <1>1, <1>2 DEF M!startTask, MM!Updated
  <2> QED BY <2>1, <2>2
<1>3. ASSUME NEW status \in M!Finished, NEW note \in Note,
             M!finishTask(m, t, status, note, machineDID[m])
      PROVE  \E task \in MM!Task : MM!Updated(m, t, task) /\ SameJob(old, task)
  <2> DEFINE task == [old EXCEPT !.status = status, !.finished = TRUE, !.finishNote = note]
  <2>1. task \in MM!Task /\ SameJob(old, task)
    BY <1>0 DEF MM!Task, MM!TaskStatus, MM!Finished, M!Finished, SameJob
  <2>2. MM!Updated(m, t, task)
    BY <1>1, <1>3 DEF M!finishTask, M!TaskFinishedWith, MM!Updated
  <2> QED BY <2>1, <2>2
<1>4. CASE M!killTask(m, t, "machineOwner")
  <2> DEFINE task == [old EXCEPT !.status = "Killed", !.finished = TRUE]
  <2>1. task \in MM!Task /\ SameJob(old, task)
    BY <1>0 DEF MM!Task, MM!TaskStatus, SameJob
  <2>2. MM!Updated(m, t, task)
    BY <1>1, <1>4 DEF M!killTask, MM!Updated
  <2> QED BY <2>1, <2>2
<1> QED BY <1>2, <1>3, <1>4 DEF TaskCall

LEMMA TaskCallSteps ==
  ASSUME MM!IInv, NEW m \in MachineContract, NEW t \in DOMAIN tasks[m], TaskCall(m, t)
  PROVE  MM!Next
<1>1. machineDID[m] \in Address /\ "machineOwner" \in Address
  BY DEF machineDID, MachineContract, Address, Account
<1>2. CASE M!startTask(m, t, machineDID[m])
  <2>1. MM!startTask(m, t, machineDID[m])
    BY <1>2 DEF M!startTask, MM!startTask, M!taskExists, MM!taskExists, M!onlyMachine, MM!onlyMachine,
                M!sensorVars, MM!sensorVars
  <2> QED BY <1>1, <2>1 DEF MM!Next, MM!TaskStep
<1>3. ASSUME NEW status \in M!Finished, NEW note \in Note,
             M!finishTask(m, t, status, note, machineDID[m])
      PROVE  MM!Next
  <2>1. MM!finishTask(m, t, status, note, machineDID[m]) /\ status \in MM!Finished
    BY <1>3 DEF M!finishTask, MM!finishTask, M!taskExists, MM!taskExists, M!onlyMachine, MM!onlyMachine,
                M!TaskFinishedWith, MM!TaskFinishedWith, M!AlertsWith, MM!AlertsWith,
                M!Finished, MM!Finished
  <2> QED BY <1>1, <2>1 DEF MM!Next, MM!TaskStep
<1>4. CASE M!killTask(m, t, "machineOwner")
  <2>1. MM!killTask(m, t, "machineOwner")
    BY <1>4 DEF M!killTask, MM!killTask, M!taskExists, MM!taskExists, M!onlyMachineOwner,
                MM!onlyMachineOwner, M!sensorVars, MM!sensorVars
  <2> QED BY <1>1, <2>1 DEF MM!Next, MM!TaskStep
<1> QED BY <1>2, <1>3, <1>4 DEF TaskCall

\* What the tasks are after such a call.
LEMMA TaskCallKeeps ==
  ASSUME MM!IInv, NEW m \in MachineContract, NEW t \in DOMAIN tasks[m], TaskCall(m, t)
  PROVE  /\ MM!IInv' /\ TasksKept
         /\ \A n \in MachineContract : DOMAIN tasks'[n] = DOMAIN tasks[n]
<1>1. PICK task \in MM!Task : MM!Updated(m, t, task) /\ SameJob(tasks[m][t], task)
  BY TaskCallUpdates
<1>2. /\ \A n \in MachineContract : DOMAIN tasks'[n] = DOMAIN tasks[n]
      /\ \A n \in MachineContract : \A u \in DOMAIN tasks[n] :
           tasks'[n][u] = IF n = m /\ u = t THEN task ELSE tasks[n][u]
  BY <1>1, MachineAssumed, MM!UpdatedTasks DEF MM!IInv
<1>3. TasksKept
  <2> SUFFICES ASSUME NEW n \in MachineContract, NEW u \in DOMAIN tasks[n]
               PROVE  u \in DOMAIN tasks'[n] /\ SameJob(tasks[n][u], tasks'[n][u])
    BY DEF TasksKept
  <2>1. CASE n = m /\ u = t
    BY <1>1, <1>2, <2>1
  <2>2. CASE ~(n = m /\ u = t)
    BY <1>2, <2>2 DEF SameJob
  <2> QED BY <2>1, <2>2
<1>4. MM!IInv'
  BY MachineAssumed, MM!NextInvariant, TaskCallSteps
<1> QED BY <1>2, <1>3, <1>4

----
\* What a task promises of its process and, if it stores a product, of its inputs.

BelongsToInstance(task) ==
  /\ task.processContractAddress \in ProcessContract
  /\ task.processID \in DOMAIN instances[task.processContractAddress]
  /\ task.productDID = instances[task.processContractAddress][task.processID].productDID

InputsReadTogether(task) ==
  task.taskName = "StoreProduct" =>
    \E g \in DOMAIN tasks["VGR"] :
      /\ tasks["VGR"][g].productDID = task.productDID
      /\ tasks["VGR"][g].finished
      /\ ReadBy(g, task.productDID, "NFCTagReading", task.params["id"])
      /\ ReadBy(g, task.productDID, "ColorDetection", task.params["color"])

Good(m, task) == BelongsToInstance(task) /\ (m = "HBW" => InputsReadTogether(task))

AllGood == \A m \in MachineContract : \A t \in DOMAIN tasks[m] : Good(m, tasks[m][t])

LEMMA TasksGood ==
  AllGood <=> TasksNameProcesses /\ TasksBelongToTheirInstance /\ StoredInputsWereReadTogether
<1>1. TasksBelongToTheirInstance <=>
        \A m \in MachineContract : \A t \in DOMAIN tasks[m] :
          /\ tasks[m][t].processID \in DOMAIN instances[tasks[m][t].processContractAddress]
          /\ tasks[m][t].productDID =
               instances[tasks[m][t].processContractAddress][tasks[m][t].processID].productDID
  BY DEF TasksBelongToTheirInstance, processInstanceExists, getProductDID
<1>2. StoredInputsWereReadTogether <=>
        \A t \in DOMAIN tasks["HBW"] : InputsReadTogether(tasks["HBW"][t])
  BY DEF StoredInputsWereReadTogether, InputsReadTogether
<1>3. (\A m \in MachineContract : \A t \in DOMAIN tasks[m] : BelongsToInstance(tasks[m][t])) <=>
        TasksNameProcesses /\ TasksBelongToTheirInstance
  BY <1>1 DEF TasksNameProcesses, BelongsToInstance
<1>4. AllGood <=>
        /\ \A m \in MachineContract : \A t \in DOMAIN tasks[m] : BelongsToInstance(tasks[m][t])
        /\ \A t \in DOMAIN tasks["HBW"] : InputsReadTogether(tasks["HBW"][t])
  <2>1. "HBW" \in MachineContract
    BY DEF MachineContract
  <2> QED BY <2>1 DEF AllGood, Good
<1> QED BY <1>2, <1>3, <1>4

\* The state after a step: every task, as a value, is good then.
LEMMA TasksGoodAfter ==
  ASSUME \A m \in MachineContract : \A t \in DOMAIN tasks'[m] :
           \E task : task = tasks'[m][t] /\ Good(m, task)'
  PROVE  (TasksNameProcesses /\ TasksBelongToTheirInstance /\ StoredInputsWereReadTogether)'
<1>1. AllGood'
  <2> SUFFICES ASSUME NEW m \in MachineContract, NEW t \in DOMAIN tasks'[m]
               PROVE  Good(m, tasks[m][t])'
    BY DEF AllGood
  <2>1. PICK task : task = tasks'[m][t] /\ Good(m, task)'
    OBVIOUS
  <2>2. BelongsToInstance(tasks[m][t])'
    BY <2>1 DEF Good, BelongsToInstance
  <2>3. ASSUME m = "HBW" PROVE InputsReadTogether(tasks[m][t])'
    <3>1. InputsReadTogether(task)'
      BY <2>1, <2>3 DEF Good
    <3>2. task.taskName = "StoreProduct" =>
            \E g \in DOMAIN tasks'["VGR"] :
              /\ tasks'["VGR"][g].productDID = task.productDID
              /\ tasks'["VGR"][g].finished
              /\ ReadBy(g, task.productDID, "NFCTagReading", task.params["id"])'
              /\ ReadBy(g, task.productDID, "ColorDetection", task.params["color"])'
      BY <3>1 DEF InputsReadTogether
    <3> QED BY <2>1, <3>2 DEF InputsReadTogether, ReadBy, P!Named, P!IDsOf
  <2> QED BY <2>2, <2>3 DEF Good
<1> QED BY <1>1, TasksGood, PTL

----
\* The tasks that a process assigns, one or two of them in a transaction.

\* The index by name leads to a recorded operation of the product with that name.
LEMMA LatestOperation ==
  ASSUME PP!IInv, NEW p \in ProductID, NEW name \in OpName, productsOperationsNames[p][name] # 0
  PROVE  /\ productsOperationsNames[p][name] \in P!Named(p, name)
         /\ productsOperationsNames[p][name] \in PP!IDsOf(p)
         /\ productsOperationsNames[p][name] \in 1 .. Len(operations)
         /\ P!getProductOperationResult(p, name) \in Value
<1> DEFINE id == productsOperationsNames[p][name]
<1>1. id \in PP!Named(p, name)
  BY DEF PP!IInv, PP!HistoriesAgree
<1>2. PP!Named(p, name) = P!Named(p, name) /\ id \in PP!IDsOf(p)
  BY <1>1 DEF PP!Named, P!Named, PP!IDsOf, P!IDsOf
<1>3. id \in 1 .. Len(operations)
  BY <1>2, ProductAssumed, PP!IDsAreRecorded DEF PP!IInv
<1>4. operations[id] \in PP!OperationRecord
  BY <1>3, ElementOfSeq DEF PP!IInv, PP!TypeOK
<1> QED BY <1>1, <1>2, <1>3, <1>4 DEF P!getProductOperationResult, PP!OperationRecord

LEMMA TypeNamed ==
  ASSUME NEW m \in MachineContract, NEW type, knownType(m, type)
  PROVE  getTaskTypeName[m][type] \in TaskNames
<1>1. CASE m = "VGR"
  <2>1. getTaskTypeName["VGR"] = <<"GetInfo", "DropToHBW", "PickSorted", "MoveHBW2MPO">>
    BY DEF getTaskTypeName
  <2>2. type \in 1 .. 4
    BY <1>1, <2>1 DEF knownType
  <2>3. type = 1 \/ type = 2 \/ type = 3 \/ type = 4
    BY <2>2
  <2> QED BY <1>1, <2>1, <2>3 DEF TaskNames
<1>2. CASE m = "HBW"
  <2>1. getTaskTypeName["HBW"] = <<"FetchContainer", "StoreContainer", "StoreProduct", "FetchProduct">>
    BY DEF getTaskTypeName
  <2>2. type \in 1 .. 4
    BY <1>2, <2>1 DEF knownType
  <2>3. type = 1 \/ type = 2 \/ type = 3 \/ type = 4
    BY <2>2
  <2> QED BY <1>2, <2>1, <2>3 DEF TaskNames
<1>3. CASE m = "MPO"
  BY <1>3 DEF knownType, getTaskTypeName, TaskNames
<1>4. CASE m = "SLD"
  BY <1>4 DEF knownType, getTaskTypeName, TaskNames
<1> QED BY <1>1, <1>2, <1>3, <1>4 DEF MachineContract

\* The inputs of a task are names of operations.
LEMMA InputsNamed ==
  ASSUME NEW name, NEW i \in DOMAIN taskInputs(name)
  PROVE  taskInputs(name)[i] \in OpName
<1>1. CASE name = "StoreProduct"
  BY <1>1 DEF taskInputs, OpName
<1>2. CASE name = "PickSorted"
  BY <1>2 DEF taskInputs, OpName
<1>3. CASE name \notin {"StoreProduct", "PickSorted"}
  <2>1. taskInputs(name) = <<>>
    BY <1>3 DEF taskInputs
  <2> QED BY <2>1
<1> QED BY <1>1, <1>2, <1>3

LEMMA ParamsTyped ==
  ASSUME PP!IInv, NEW p \in ProductID, NEW name,
         \A i \in DOMAIN taskInputs(name) : P!hasOperation(p, taskInputs(name)[i])
  PROVE  taskParams(name, p) \in [ParamName -> Value \cup {None}]
<1> SUFFICES ASSUME NEW i \in ParamName, i \in DOMAIN taskInputs(name)
             PROVE  P!getProductOperationResult(p, taskInputs(name)[i]) \in Value
  BY DEF taskParams
<1>1. taskInputs(name)[i] \in OpName /\ productsOperationsNames[p][taskInputs(name)[i]] # 0
  BY InputsNamed DEF P!hasOperation
<1> QED BY <1>1, LatestOperation

\* The inputs of a StoreProduct task are the newest readings of the product.
LEMMA StoreInputs ==
  ASSUME PP!IInv, LatestReadTogether, NEW p \in ProductID,
         \A i \in DOMAIN taskInputs("StoreProduct") : P!hasOperation(p, taskInputs("StoreProduct")[i])
  PROVE  \E g \in DOMAIN tasks["VGR"] :
           /\ tasks["VGR"][g].productDID = p
           /\ tasks["VGR"][g].finished
           /\ ReadBy(g, p, "NFCTagReading", taskParams("StoreProduct", p)["id"])
           /\ ReadBy(g, p, "ColorDetection", taskParams("StoreProduct", p)["color"])
<1> DEFINE a == productsOperationsNames[p]["NFCTagReading"]
           c == productsOperationsNames[p]["ColorDetection"]
<1>1. taskInputs("StoreProduct") = [id |-> "NFCTagReading", color |-> "ColorDetection"]
  BY DEF taskInputs
<1>2. a # 0 /\ c # 0
  BY <1>1 DEF P!hasOperation
<1>3. PICK g \in DOMAIN tasks["VGR"] :
        /\ tasks["VGR"][g].productDID = p
        /\ tasks["VGR"][g].finished
        /\ operations[a].taskID = g
        /\ operations[c].taskID = g
  BY <1>2 DEF LatestReadTogether, ReadTogether
<1>4. a \in P!Named(p, "NFCTagReading") /\ c \in P!Named(p, "ColorDetection")
  BY <1>2, LatestOperation DEF OpName
<1>5. /\ taskParams("StoreProduct", p)["id"] = operations[a].result
      /\ taskParams("StoreProduct", p)["color"] = operations[c].result
  BY <1>1 DEF taskParams, ParamName, P!getProductOperationResult
<1> QED BY <1>3, <1>4, <1>5 DEF ReadBy

\* The books of the machines after some assignments of the transaction: they match, the
\* tasks of before are in them as they were, and every task is good.
BookGood(ts, ix) ==
  /\ MM!BookMatches(ts, ix)
  /\ \A m \in MachineContract : \A t \in DOMAIN tasks[m] : t \in DOMAIN ts[m] /\ ts[m][t] = tasks[m][t]
  /\ \A m \in MachineContract : \A t \in DOMAIN ts[m] : Good(m, ts[m][t])

LEMMA BookAtFirst ==
  ASSUME IInv
  PROVE  BookGood(tasks, productsTasks)
<1>1. MM!BookMatches(tasks, productsTasks)
  BY MachineAssumed, MM!BookParts DEF IInv
<1>2. AllGood
  BY TasksGood DEF IInv
<1> QED BY <1>1, <1>2 DEF BookGood, AllGood

LEMMA NewTaskGood ==
  ASSUME IInv, NEW k \in ProcessContract, NEW n \in DOMAIN instances[k], NEW m \in MachineContract,
         NEW name \in TaskNames,
         \A i \in DOMAIN taskInputs(name) : P!hasOperation(getProductDID(k, n), taskInputs(name)[i])
  PROVE  LET task == M!NewTask(getProductDID(k, n), name, n, k, taskParams(name, getProductDID(k, n)))
         IN /\ task \in MM!Task
            /\ task.productDID = getProductDID(k, n)
            /\ task.status = "Assigned" /\ ~task.started /\ ~task.finished
            /\ Good(m, task)
<1> DEFINE p == getProductDID(k, n)
           params == taskParams(name, p)
           task == M!NewTask(p, name, n, k, params)
<1>0. PP!IInv /\ InstancesTyped /\ LatestReadTogether
  BY DEF IInv
<1>1. p \in ProductID /\ n \in Nat /\ p = instances[k][n].productDID
  BY <1>0, InstanceTyped DEF getProductDID
<1>2. params \in [ParamName -> Value \cup {None}]
  BY <1>0, <1>1, ParamsTyped
<1>3. k \in Address
  BY ContractsAssumption DEF Address
<1>4. name = "StoreProduct" =>
        \E g \in DOMAIN tasks["VGR"] :
           /\ tasks["VGR"][g].productDID = p
           /\ tasks["VGR"][g].finished
           /\ ReadBy(g, p, "NFCTagReading", params["id"])
           /\ ReadBy(g, p, "ColorDetection", params["color"])
  BY <1>0, <1>1, StoreInputs
<1> HIDE DEF p, params
<1>5. /\ task.productDID = p /\ task.taskName = name /\ task.processID = n
      /\ task.processContractAddress = k /\ task.params = params
      /\ task.status = "Assigned" /\ ~task.started /\ ~task.finished
  BY DEF M!NewTask
<1>6. task \in MM!Task
  BY <1>1, <1>2, <1>3 DEF M!NewTask, MM!Task, MM!TaskStatus
<1> HIDE DEF task
<1>7. Good(m, task)
  BY <1>1, <1>4, <1>5 DEF Good, BelongsToInstance, InputsReadTogether
<1> QED BY <1>5, <1>6, <1>7 DEF task, params, p

LEMMA Assigning ==
  ASSUME IInv, NEW k \in ProcessContract, NEW n \in DOMAIN instances[k],
         NEW number \in 1 .. getNumberOfMachines[k], NEW type, canAssign(k, n, number, type),
         NEW book, BookGood(book[1], book[2])
  PROVE  BookGood(assigned(book, k, n, number, type)[1], assigned(book, k, n, number, type)[2])
<1> DEFINE m == getMachineAddress(k, number)
           p == getProductDID(k, n)
           name == getTaskTypeName[m][type]
           task == M!NewTask(p, name, n, k, taskParams(name, p))
<1>1. m \in MachineContract
  BY MachineOf DEF IInv
<1>2. CASE ~knownType(m, type)
  BY <1>2 DEF assigned
<1>3. CASE knownType(m, type)
  <2>1. name \in TaskNames
    BY <1>1, <1>3, TypeNamed
  <2>2. \A i \in DOMAIN taskInputs(name) : P!hasOperation(p, taskInputs(name)[i])
    BY <1>3 DEF canAssign
  <2>3. /\ task \in MM!Task /\ task.productDID = p
        /\ task.status = "Assigned" /\ ~task.started /\ ~task.finished
        /\ Good(m, task)
    BY <1>1, <2>1, <2>2, NewTaskGood
  <2>4. /\ assigned(book, k, n, number, type)[1] = M!TasksWith(book[1], m, task)
        /\ assigned(book, k, n, number, type)[2] = M!IndexWith(book[2], book[1], m, p)
    BY <1>3 DEF assigned
  <2> HIDE DEF m, p, name, task
  <2> DEFINE ts == book[1]
             ix == book[2]
             us == M!TasksWith(ts, m, task)
  <2>5. /\ M!TasksWith(ts, m, task) = MM!TasksWith(ts, m, task)
        /\ M!IndexWith(ix, ts, m, p) = MM!IndexWith(ix, ts, m, p)
    BY DEF M!TasksWith, MM!TasksWith, M!IndexWith, MM!IndexWith
  <2>6. MM!BookMatches(us, M!IndexWith(ix, ts, m, p))
    BY <1>1, <2>3, <2>5, MachineAssumed, MM!BookGrown DEF BookGood
  <2>7. MM!Grown(ts, us, m, task)
    <3>1. ts \in [MachineContract -> Seq(MM!Task)]
      BY DEF BookGood, MM!BookMatches
    <3> QED BY <1>1, <2>3, <2>5, <3>1, MachineAssumed, MM!TasksGrown
  <2> HIDE DEF us
  <2>8. \A i \in MachineContract : \A t \in DOMAIN tasks[i] : t \in DOMAIN us[i] /\ us[i][t] = tasks[i][t]
    BY <2>7 DEF MM!Grown, BookGood
  <2>9. \A i \in MachineContract : \A t \in DOMAIN us[i] : Good(i, us[i][t])
    <3> SUFFICES ASSUME NEW i \in MachineContract, NEW t \in DOMAIN us[i]
                 PROVE  Good(i, us[i][t])
      OBVIOUS
    <3>1. CASE t \in DOMAIN ts[i]
      BY <2>7, <3>1 DEF MM!Grown, BookGood
    <3>2. CASE i = m /\ us[i][t] = task
      BY <2>3, <3>2
    <3> QED BY <2>7, <3>1, <3>2 DEF MM!Grown
  <2> QED BY <2>4, <2>6, <2>8, <2>9 DEF BookGood, us
<1> QED BY <1>2, <1>3

----
\* The tasks after a step: in order, kept, and good for the state before the step.

TasksStepped ==
  /\ MM!IInv'
  /\ TasksKept
  /\ \A m \in MachineContract : \A t \in DOMAIN tasks'[m] : Good(m, tasks'[m][t])

LEMMA SameJobGood ==
  ASSUME NEW m, NEW old, NEW task, SameJob(old, task), Good(m, old)
  PROVE  Good(m, task)
<1>1. BelongsToInstance(task)
  BY DEF SameJob, Good, BelongsToInstance
<1>2. ASSUME m = "HBW" PROVE InputsReadTogether(task)
  BY <1>2 DEF SameJob, Good, InputsReadTogether
<1> QED BY <1>1, <1>2 DEF Good

LEMMA TasksUntouched ==
  ASSUME IInv, UNCHANGED machineVars
  PROVE  TasksStepped
<1>1. MM!IInv'
  <2>1. UNCHANGED MM!vars
    BY DEF machineVars, taskVars, MM!vars, MM!taskVars, MM!sensorVars
  <2> QED BY <2>1, MachineAssumed, MM!NextInvariant DEF IInv
<1>2. tasks' = tasks
  BY DEF machineVars, taskVars
<1>3. AllGood
  BY TasksGood DEF IInv
<1> QED BY <1>1, <1>2, <1>3 DEF TasksStepped, TasksKept, SameJob, AllGood

LEMMA TasksCalled ==
  ASSUME IInv, NEW m \in MachineContract, NEW t \in DOMAIN tasks[m], TaskCall(m, t)
  PROVE  TasksStepped
<1>1. /\ MM!IInv' /\ TasksKept
      /\ \A n \in MachineContract : DOMAIN tasks'[n] = DOMAIN tasks[n]
  BY TaskCallKeeps DEF IInv
<1>2. AllGood
  BY TasksGood DEF IInv
<1>3. ASSUME NEW n \in MachineContract, NEW u \in DOMAIN tasks'[n]
      PROVE  Good(n, tasks'[n][u])
  <2>1. u \in DOMAIN tasks[n] /\ SameJob(tasks[n][u], tasks'[n][u]) /\ Good(n, tasks[n][u])
    BY <1>1, <1>2, <1>3 DEF TasksKept, AllGood
  <2> QED BY <2>1, SameJobGood
<1> QED BY <1>1, <1>3 DEF TasksStepped

LEMMA TasksAssigned ==
  ASSUME IInv, NEW book, BookGood(book[1], book[2]), booksAre(book),
         UNCHANGED <<authorizedProcesses, readings, alerts, info>>
  PROVE  TasksStepped
<1>1. tasks' = book[1] /\ productsTasks' = book[2]
  BY DEF booksAre
<1>2. MM!BookMatches(tasks', productsTasks')
  BY <1>1 DEF BookGood
<1>3. /\ tasks' \in [MachineContract -> Seq(MM!Task)]
      /\ productsTasks' \in [MachineContract -> [ProductID -> Seq(Nat)]]
      /\ MM!StatusMatchesTimestamps'
      /\ MM!IndexedTasksMatch'
  BY <1>2, MachineAssumed, MM!BookParts
<1>4. MM!IInv'
  BY <1>3 DEF MM!IInv, MM!TypeOK, IInv
<1> QED BY <1>1, <1>4 DEF TasksStepped, TasksKept, SameJob, BookGood

LEMMA StepAssigns ==
  ASSUME IInv, NEW k \in ProcessContract, NEW n \in DOMAIN instances[k],
         NEW s \in 1 .. getNumberOfSteps(k), NEW sender, step(k, n, s, sender)
  PROVE  TasksStepped
<1> DEFINE todo == StepAssignments(k, s)
           first == assigned(taskVars, k, n, todo[1].number, todo[1].type)
           second == assigned(first, k, n, todo[2].number, todo[2].type)
<1>1. /\ Len(todo) \in {1, 2}
      /\ \A i \in 1 .. Len(todo) : todo[i].number \in 1 .. getNumberOfMachines[k]
      /\ \A i \in 1 .. Len(todo) : canAssign(k, n, todo[i].number, todo[i].type)
  BY StepAssigned DEF step, canStep
<1>2. booksAre(IF Len(todo) = 1 THEN first ELSE second)
  BY DEF step
<1>3. UNCHANGED <<authorizedProcesses, readings, alerts, info>>
  BY DEF step
<1> HIDE DEF todo
<1>4. BookGood(taskVars[1], taskVars[2])
  BY BookAtFirst DEF taskVars
<1>5. 1 \in 1 .. Len(todo)
  BY <1>1
<1>6. BookGood(first[1], first[2])
  BY <1>1, <1>4, <1>5, Assigning
<1> HIDE DEF first
<1>7. CASE Len(todo) = 1
  BY <1>2, <1>3, <1>6, <1>7, TasksAssigned
<1>8. CASE Len(todo) = 2
  <2>1. 2 \in 1 .. Len(todo)
    BY <1>8
  <2>2. BookGood(second[1], second[2])
    BY <1>1, <1>6, <2>1, Assigning
  <2> HIDE DEF second
  <2>3. booksAre(second)
    BY <1>2, <1>8
  <2> QED BY <1>3, <2>2, <2>3, TasksAssigned
<1> QED BY <1>1, <1>7, <1>8

LEMMA TasksInvariant ==
  ASSUME IInv, [Next]_vars
  PROVE  TasksStepped
<1>0. MM!IInv
  BY DEF IInv
<1>1. CASE UNCHANGED machineVars
  BY <1>1, TasksUntouched
<1>2. CASE ProductOwnerCalls
  BY <1>1, <1>2 DEF ProductOwnerCalls, startProcess
<1>3. CASE ProcessOwnerCalls
  <2>1. PICK k \in ProcessContract : \E n \in DOMAIN instances[k] :
          \/ \E s \in 1 .. getNumberOfSteps(k) : step(k, n, s, "processOwner")
          \/ UNCHANGED machineVars
    BY <1>3 DEF ProcessOwnerCalls, markStepAsStarted, finishProcess, killProcess, end
  <2>2. PICK n \in DOMAIN instances[k] :
          \/ \E s \in 1 .. getNumberOfSteps(k) : step(k, n, s, "processOwner")
          \/ UNCHANGED machineVars
    BY <2>1
  <2> QED BY <1>1, <2>2, StepAssigns
<1>4. CASE AnyonesCalls
  <2>1. PICK k \in ProcessContract : \E n \in DOMAIN instances[k] :
          \/ \E number \in 1 .. getNumberOfMachines[k], type \in 1 .. 4 : assignTask(k, number, n, type)
          \/ UNCHANGED machineVars
    BY <1>4 DEF AnyonesCalls, unauthorizeCurrentMachine, authorizeMachine, setMachineAddress
  <2>2. PICK n \in DOMAIN instances[k] :
          \/ \E number \in 1 .. getNumberOfMachines[k], type \in 1 .. 4 : assignTask(k, number, n, type)
          \/ UNCHANGED machineVars
    BY <2>1
  <2>3. ASSUME NEW number \in 1 .. getNumberOfMachines[k], NEW type \in 1 .. 4,
               assignTask(k, number, n, type)
        PROVE  TasksStepped
    <3>1. BookGood(taskVars[1], taskVars[2])
      BY BookAtFirst DEF taskVars
    <3>2. canAssign(k, n, number, type)
      BY <2>3 DEF assignTask
    <3> DEFINE book == assigned(taskVars, k, n, number, type)
    <3>3. BookGood(book[1], book[2])
      BY <3>1, <3>2, Assigning
    <3>4. booksAre(book) /\ UNCHANGED <<authorizedProcesses, readings, alerts, info>>
      BY <2>3 DEF assignTask
    <3> HIDE DEF book
    <3> QED BY <3>3, <3>4, TasksAssigned
  <2> QED BY <1>1, <2>2, <2>3
<1>5. CASE MachineCalls
  <2>1. MachineStep
    BY <1>0, <1>5, MachineSteps
  <2>2. PICK m \in MachineContract : \E t \in DOMAIN tasks[m] : TaskCall(m, t) \/ UNCHANGED machineVars
    BY <2>1 DEF MachineStep, SaveCall
  <2> QED BY <1>1, <2>2, TasksCalled
<1> QED BY <1>1, <1>2, <1>3, <1>4, <1>5 DEF Next, vars

----
\* What was recorded stays recorded, so a task that was good stays good.

LEMMA RecordsStay ==
  ASSUME IInv, [Next]_vars, NEW p \in ProductID
  PROVE  /\ \A id \in PP!IDsOf(p) : operations'[id] = operations[id]
         /\ \A t, name, v : ReadBy(t, p, name, v) => ReadBy(t, p, name, v)'
<1>0. PP!IInv
  BY DEF IInv
<1>1. /\ PP!Extends(productsOperations[p], productsOperations'[p])
      /\ \A id \in PP!IDsOf(p) : operations'[id] = operations[id]
  <2>1. CASE PP!Elsewhere
    BY <1>0, <2>1, ProductAssumed, PP!NothingTouched DEF PP!Elsewhere
  <2>2. CASE SaveStep
    <3>1. PICK m \in MachineContract : \E t \in DOMAIN tasks[m] : \E ops : SaveCall(m, t, ops)
      BY <2>2 DEF SaveStep
    <3>2. PICK t \in DOMAIN tasks[m] : \E ops : SaveCall(m, t, ops)
      BY <3>1
    <3>3. PICK ops : SaveCall(m, t, ops)
      BY <3>2
    <3> DEFINE q == tasks[m][t].productDID
    <3>4. q \in ProductID /\ PP!Several(ops) /\ PP!operationsSaved(q, ops)
      BY <3>3, SavedForProduct
    <3> HIDE DEF q
    <3> QED BY <1>0, <3>4, ProductAssumed, PP!SaveKeeps
  <2> QED BY <2>1, <2>2, ProductSteps
<1>2. productsOperations[p] \in Seq(Nat) /\ Len(productsOperations[p]) \in Nat
  BY <1>0, LenProperties DEF PP!IInv, PP!TypeOK
<1>3. PP!IInv'
  BY ProductInvariant
<1>4. Len(productsOperations'[p]) \in Nat
  BY <1>3, LenProperties DEF PP!IInv, PP!TypeOK
<1>5. ASSUME NEW t, NEW name, NEW v, ReadBy(t, p, name, v)
      PROVE  ReadBy(t, p, name, v)'
  <2>1. PICK i \in 1 .. Len(productsOperations[p]) :
          /\ operations[productsOperations[p][i]].name = name
          /\ operations[productsOperations[p][i]].taskID = t
          /\ operations[productsOperations[p][i]].result = v
    BY <1>5 DEF ReadBy, P!Named, P!IDsOf
  <2>2. i \in 1 .. Len(productsOperations'[p]) /\ productsOperations'[p][i] = productsOperations[p][i]
    BY <1>1, <1>2, <1>4 DEF PP!Extends
  <2>3. operations'[productsOperations[p][i]] = operations[productsOperations[p][i]]
    BY <1>1 DEF PP!IDsOf
  <2> QED BY <2>1, <2>2, <2>3 DEF ReadBy, P!Named, P!IDsOf
<1> QED BY <1>1, <1>5

\* The task that read an input keeps its product, and stays finished.
LEMMA ReadersStay ==
  ASSUME TasksKept, NEW g \in DOMAIN tasks["VGR"], tasks["VGR"][g].finished
  PROVE  /\ g \in DOMAIN tasks'["VGR"]
         /\ tasks'["VGR"][g].productDID = tasks["VGR"][g].productDID
         /\ tasks'["VGR"][g].finished
BY DEF TasksKept, SameJob, MachineContract

LEMMA GoodKept ==
  ASSUME IInv, [Next]_vars, NEW m, NEW task, Good(m, task)
  PROVE  Good(m, task)'
<1> DEFINE k == task.processContractAddress
           n == task.processID
           p == task.productDID
<1>0. TasksKept /\ InstancesTyped /\ MM!IInv
  BY TasksInvariant DEF TasksStepped, IInv
<1>1. k \in ProcessContract /\ n \in DOMAIN instances[k] /\ p = instances[k][n].productDID
  BY DEF Good, BelongsToInstance
<1>2. p \in ProductID
  BY <1>0, <1>1, InstanceTyped
<1>3. InstancesGrown
  BY <1>0, InstancesGrow
<1>4. n \in DOMAIN instances'[k] /\ instances'[k][n].productDID = p
  BY <1>1, <1>3 DEF InstancesGrown, InstanceKept
<1>5. BelongsToInstance(task)'
  BY <1>1, <1>4 DEF BelongsToInstance
<1>6. ASSUME m = "HBW" PROVE InputsReadTogether(task)'
  <2> SUFFICES ASSUME task.taskName = "StoreProduct"
               PROVE  \E g \in DOMAIN tasks'["VGR"] :
                        /\ tasks'["VGR"][g].productDID = p
                        /\ tasks'["VGR"][g].finished
                        /\ ReadBy(g, p, "NFCTagReading", task.params["id"])'
                        /\ ReadBy(g, p, "ColorDetection", task.params["color"])'
    BY DEF InputsReadTogether
  <2>1. PICK g \in DOMAIN tasks["VGR"] :
          /\ tasks["VGR"][g].productDID = p
          /\ tasks["VGR"][g].finished
          /\ ReadBy(g, p, "NFCTagReading", task.params["id"])
          /\ ReadBy(g, p, "ColorDetection", task.params["color"])
    BY <1>6 DEF Good, InputsReadTogether
  <2>2. /\ ReadBy(g, p, "NFCTagReading", task.params["id"])'
        /\ ReadBy(g, p, "ColorDetection", task.params["color"])'
    BY <1>2, <2>1, RecordsStay
  <2> QED BY <1>0, <2>1, <2>2, ReadersStay
<1> QED BY <1>5, <1>6 DEF Good

LEMMA GoodInvariant ==
  ASSUME IInv, [Next]_vars
  PROVE  (TasksNameProcesses /\ TasksBelongToTheirInstance /\ StoredInputsWereReadTogether)'
<1>1. \A m \in MachineContract : \A t \in DOMAIN tasks'[m] :
        \E task : task = tasks'[m][t] /\ Good(m, task)'
  <2> SUFFICES ASSUME NEW m \in MachineContract, NEW t \in DOMAIN tasks'[m]
               PROVE  \E task : task = tasks'[m][t] /\ Good(m, task)'
    OBVIOUS
  <2>1. PICK task : task = tasks'[m][t]
    OBVIOUS
  <2>2. Good(m, tasks'[m][t])
    BY TasksInvariant DEF TasksStepped
  <2>3. Good(m, task)
    BY <2>1, <2>2
  <2>4. Good(m, task)'
    BY <2>3, GoodKept
  <2> QED BY <2>1, <2>4
<1> QED BY <1>1, TasksGoodAfter

----
\* The newest tag and the newest colour of a product come from one GetInfo task: the two
\* are saved together or not at all.

\* The newest operations a and c of p are still those of one task.
LEMMA ReadTogetherStays ==
  ASSUME TasksKept, NEW p \in ProductID, NEW a, NEW c, ReadTogether(p, a, c),
         operations'[a] = operations[a], operations'[c] = operations[c]
  PROVE  ReadTogether(p, a, c)'
<1>1. PICK g \in DOMAIN tasks["VGR"] :
        /\ tasks["VGR"][g].productDID = p /\ tasks["VGR"][g].finished
        /\ operations[a].taskID = g /\ operations[c].taskID = g
  BY DEF ReadTogether
<1>2. /\ g \in DOMAIN tasks'["VGR"]
      /\ tasks'["VGR"][g].productDID = tasks["VGR"][g].productDID
      /\ tasks'["VGR"][g].finished
  BY <1>1, ReadersStay
<1> QED BY <1>1, <1>2 DEF ReadTogether

LEMMA NewestStay ==
  ASSUME IInv, [Next]_vars, NEW p \in ProductID,
         \A name \in {"NFCTagReading", "ColorDetection"} :
           productsOperationsNames'[p][name] = productsOperationsNames[p][name],
         productsOperationsNames[p]["NFCTagReading"] # 0,
         productsOperationsNames[p]["ColorDetection"] # 0
  PROVE  ReadTogether(p, productsOperationsNames[p]["NFCTagReading"],
                         productsOperationsNames[p]["ColorDetection"])'
<1> DEFINE a == productsOperationsNames[p]["NFCTagReading"]
           c == productsOperationsNames[p]["ColorDetection"]
<1>0. PP!IInv
  BY DEF IInv
<1>1. ReadTogether(p, a, c)
  BY DEF IInv, LatestReadTogether
<1>2. a \in PP!IDsOf(p) /\ c \in PP!IDsOf(p)
  BY <1>0, LatestOperation DEF OpName
<1>3. operations'[a] = operations[a] /\ operations'[c] = operations[c]
  BY <1>2, RecordsStay
<1>4. a' = a /\ c' = c
  OBVIOUS
<1>5. TasksKept
  BY TasksInvariant DEF TasksStepped
<1>6. PICK b, d : b = a /\ d = c
  OBVIOUS
<1>7. ReadTogether(p, b, d)'
  BY <1>1, <1>3, <1>5, <1>6, ReadTogetherStays
<1> QED BY <1>4, <1>6, <1>7 DEF ReadTogether

LEMMA FirstAndSecond == 1 \in 1 .. 3 /\ 2 \in 1 .. 3
OBVIOUS

\* GetInfo saves both for a task that it finishes.
LEMMA GetInfoReads ==
  ASSUME IInv, [Next]_vars, NEW t \in DOMAIN tasks["VGR"], NEW ops, PP!Several(ops), Len(ops) = 3,
         \A i \in 1 .. Len(ops) : ops[i].taskID = t,
         ops[1].name = "NFCTagReading", ops[2].name = "ColorDetection",
         tasks' = M!TaskFinishedWith("VGR", t, "FinishedSuccessfully", ""),
         NEW p \in ProductID, p = tasks["VGR"][t].productDID, PP!SavedAll(p, ops)
  PROVE  ReadTogether(p, productsOperationsNames[p]["NFCTagReading"],
                         productsOperationsNames[p]["ColorDetection"])'
<1>1. TasksKept /\ "VGR" \in MachineContract /\ MM!IInv
  BY TasksInvariant DEF TasksStepped, MachineContract, IInv
<1>2. t \in DOMAIN tasks'["VGR"] /\ tasks'["VGR"][t].productDID = p
  BY <1>1 DEF TasksKept, SameJob
<1>3. tasks'["VGR"][t].finished
  <2>1. tasks \in [MachineContract -> Seq(MM!Task)] /\ tasks["VGR"][t] \in MM!Task
    BY <1>1, MachineTaskTyped DEF MM!IInv, MM!TypeOK
  <2>2. tasks'["VGR"][t] = [tasks["VGR"][t] EXCEPT !.status = "FinishedSuccessfully",
                              !.finished = TRUE, !.finishNote = ""]
    BY <1>1, <2>1 DEF M!TaskFinishedWith
  <2> QED BY <2>1, <2>2 DEF MM!Task
<1>4. 1 \in 1 .. Len(ops) /\ 2 \in 1 .. Len(ops)
  BY FirstAndSecond, Zenon
<1>5. /\ productsOperationsNames'[p]["NFCTagReading"] = Len(operations) + 1
      /\ productsOperationsNames'[p]["ColorDetection"] = Len(operations) + 2
  BY <1>4 DEF PP!SavedAll
<1>6. operations'[Len(operations) + 1] = ops[1] /\ operations'[Len(operations) + 2] = ops[2]
  BY <1>4 DEF PP!SavedAll
<1>7. operations'[Len(operations) + 1].taskID = t /\ operations'[Len(operations) + 2].taskID = t
  BY <1>4, <1>6
<1> QED BY <1>2, <1>3, <1>5, <1>7 DEF ReadTogether

LEMMA NewestReadTogether ==
  ASSUME IInv, [Next]_vars
  PROVE  LatestReadTogether'
<1> SUFFICES ASSUME NEW p \in ProductID,
                    productsOperationsNames'[p]["NFCTagReading"] # 0,
                    productsOperationsNames'[p]["ColorDetection"] # 0
             PROVE  ReadTogether(p, productsOperationsNames[p]["NFCTagReading"],
                                    productsOperationsNames[p]["ColorDetection"])'
  BY DEF LatestReadTogether
<1>0. PP!IInv
  BY DEF IInv
<1>1. ASSUME \A name \in {"NFCTagReading", "ColorDetection"} :
               productsOperationsNames'[p][name] = productsOperationsNames[p][name]
      PROVE  ReadTogether(p, productsOperationsNames[p]["NFCTagReading"],
                             productsOperationsNames[p]["ColorDetection"])'
  BY <1>1, NewestStay
<1>2. CASE PP!Elsewhere
  BY <1>1, <1>2 DEF PP!Elsewhere, PP!opVars
<1>3. CASE SaveStep
  <2>1. PICK m \in MachineContract : \E t \in DOMAIN tasks[m] : \E ops : SaveCall(m, t, ops)
    BY <1>3 DEF SaveStep
  <2>2. PICK t \in DOMAIN tasks[m] : \E ops : SaveCall(m, t, ops)
    BY <2>1
  <2>3. PICK ops : SaveCall(m, t, ops)
    BY <2>2
  <2> DEFINE q == tasks[m][t].productDID
  <2>4. q \in ProductID /\ PP!Several(ops) /\ PP!operationsSaved(q, ops)
    BY <2>3, SavedForProduct
  <2>5. PP!SavedAll(q, ops)
    BY <1>0, <2>4, ProductAssumed, PP!OperationsSaved DEF PP!IInv
  <2>6. CASE p # q
    BY <1>1, <2>5, <2>6 DEF PP!SavedAll
  <2>7. CASE p = q /\ \A i \in 1 .. Len(ops) : ops[i].name \notin {"NFCTagReading", "ColorDetection"}
    BY <1>1, <2>5, <2>7 DEF PP!SavedAll, OpName
  <2>8. CASE /\ p = q /\ m = "VGR" /\ Len(ops) = 3
             /\ ops[1].name = "NFCTagReading" /\ ops[2].name = "ColorDetection"
             /\ tasks' = M!TaskFinishedWith(m, t, "FinishedSuccessfully", "")
    <3>1. \A i \in 1 .. Len(ops) : ops[i].taskID = t
      BY <2>3 DEF SaveCall, SavedFor
    <3>2. t \in DOMAIN tasks["VGR"] /\ p = tasks["VGR"][t].productDID /\ PP!SavedAll(p, ops)
      BY <2>5, <2>8
    <3> QED BY <2>4, <2>8, <3>1, <3>2, GetInfoReads
  <2> QED BY <2>3, <2>6, <2>7, <2>8 DEF SaveCall, SavedFor
<1> QED BY <1>2, <1>3, ProductSteps

LEMMA MachinesStayKnown ==
  ASSUME IInv, [Next]_vars
  PROVE  MachinesKnown'
<1>0. MachinesKnown /\ MM!IInv
  BY DEF IInv
<1>1. CASE UNCHANGED machines
  BY <1>0, <1>1 DEF MachinesKnown
<1>2. CASE AnyonesCalls
  <2>1. PICK k \in ProcessContract : \E n \in DOMAIN instances[k] :
          \/ UNCHANGED machines
          \/ \E number \in 1 .. getNumberOfMachines[k], m \in MachineContract :
               setMachineAddress(k, number, m)
    BY <1>2 DEF AnyonesCalls, unauthorizeCurrentMachine, authorizeMachine, assignTask, processVars
  <2>2. ASSUME NEW number \in 1 .. getNumberOfMachines[k], NEW m \in MachineContract,
               setMachineAddress(k, number, m)
        PROVE  MachinesKnown'
    <3>1. machines[k] \in Seq(MachineContract) /\ number \in 1 .. Len(machines[k])
      BY <1>0, LenProperties DEF MachinesKnown
    <3>2. machines' = [machines EXCEPT ![k] = [machines[k] EXCEPT ![number] = m]]
      BY <1>0, <2>2 DEF setMachineAddress, MachinesKnown
    <3>3. /\ [machines[k] EXCEPT ![number] = m] \in Seq(MachineContract)
          /\ DOMAIN [machines[k] EXCEPT ![number] = m] = DOMAIN machines[k]
      BY <3>1, ExceptSeq
    <3> QED BY <1>0, <3>2, <3>3 DEF MachinesKnown
  <2> QED BY <1>1, <2>1, <2>2
<1>3. CASE ProductOwnerCalls
  BY <1>1, <1>3 DEF ProductOwnerCalls, startProcess, processVars
<1>4. CASE ProcessOwnerCalls
  <2>1. PICK k \in ProcessContract : \E n \in DOMAIN instances[k] :
          \/ UNCHANGED machines
          \/ \E s \in 1 .. getNumberOfSteps(k) : step(k, n, s, "processOwner")
    BY <1>4 DEF ProcessOwnerCalls, markStepAsStarted, finishProcess, killProcess, end
  <2>2. UNCHANGED machines
    BY <2>1 DEF step
  <2> QED BY <1>1, <2>2
<1>5. CASE MachineCalls
  BY <1>0, <1>1, <1>5, MachineSteps DEF MachineStep, processVars
<1> QED BY <1>1, <1>2, <1>3, <1>4, <1>5 DEF Next, vars, processVars

LEMMA NextInvariant == IInv /\ [Next]_vars => IInv'
<1> SUFFICES ASSUME IInv, [Next]_vars PROVE IInv'
  OBVIOUS
<1>1. PP!IInv' /\ ProductsOwned'
  BY ProductInvariant
<1>2. MM!IInv'
  BY TasksInvariant DEF TasksStepped
<1>3. InstancesTyped' /\ ProductsLeadToTheirLatestProcess'
  BY InstancesGrow, LatestStays DEF InstancesGrown, IInv
<1>4. TasksNameProcesses' /\ TasksBelongToTheirInstance' /\ StoredInputsWereReadTogether'
  BY GoodInvariant
<1> QED BY <1>1, <1>2, <1>3, <1>4, NewestReadTogether, MachinesStayKnown DEF IInv

----
\* The state after the migration and the seed.

\* The products got their IDs in some order, which is one to one.
LEMMA SeededIDs ==
  ASSUME NEW order \in [1 .. Cardinality(ProductID) -> ProductID],
         \A i, j \in DOMAIN order : order[i] = order[j] => i = j
  PROVE  /\ order \in Seq(ProductID) /\ Len(order) = Cardinality(ProductID)
         /\ DOMAIN order = 1 .. Len(order)
         /\ \A p \in ProductID : \E i \in DOMAIN order : order[i] = p
<1>1. Cardinality(ProductID) \in Nat
  BY ContractsAssumption, FS_CardinalityType
<1>2. order \in Seq(ProductID) /\ Len(order) = Cardinality(ProductID)
  BY <1>1
<1>3. order \in Injection(1 .. Cardinality(ProductID), ProductID)
  BY DEF Injection, IsInjective
<1>4. Cardinality(1 .. Cardinality(ProductID)) = Cardinality(ProductID)
  <2> DEFINE c == Cardinality(ProductID)
  <2>1. c \in Nat
    BY <1>1
  <2> HIDE DEF c
  <2>2. Cardinality(1 .. c) = IF 1 > c THEN 0 ELSE c - 1 + 1
    BY <2>1, FS_Interval
  <2>3. Cardinality(1 .. c) = c
    BY <2>1, <2>2
  <2> QED BY <2>3 DEF c
<1>5. order \in Surjection(1 .. Cardinality(ProductID), ProductID)
  BY <1>3, <1>4, ContractsAssumption, FS_Injection
<1> QED BY <1>2, <1>5 DEF Surjection

LEMMA InitProducts == Init => PP!IInv
<1> SUFFICES ASSUME Init PROVE PP!IInv
  OBVIOUS
<1>1. PICK order \in [1 .. Cardinality(ProductID) -> ProductID] :
        /\ \A i, j \in DOMAIN order : order[i] = order[j] => i = j
        /\ productIDMapping = order
        /\ productIDReverseMapping = [p \in ProductID |-> CHOOSE i \in DOMAIN order : order[i] = p]
  BY DEF Init
<1>2. /\ order \in Seq(ProductID) /\ DOMAIN order = 1 .. Len(order) /\ Len(order) \in Nat
      /\ \A p \in ProductID : \E i \in DOMAIN order : order[i] = p
  BY <1>1, SeededIDs, LenProperties
<1>3. \A p \in ProductID :
        productIDReverseMapping[p] \in DOMAIN order /\ order[productIDReverseMapping[p]] = p
  BY <1>1, <1>2
<1>4. "productOwner" \in Address /\ None \notin Address /\ None \notin ProductID
  BY ContractsAssumption DEF Address, Account
<1>5. PP!TypeOK
  <2>1. /\ productsOwners \in [ProductID -> Address \cup {None}]
        /\ productsAuthorizedProcesses \in [ProductID -> Address \cup {None}]
        /\ productsAuthorizedMachines \in [ProductID -> Address \cup {None}]
    BY <1>4 DEF Init
  <2>2. productIDMapping \in Seq(ProductID) /\ productIDReverseMapping \in [ProductID -> Nat]
    BY <1>1, <1>2, <1>3
  <2>3. /\ operations \in Seq(PP!OperationRecord)
        /\ productsOperations \in [ProductID -> Seq(Nat)]
        /\ productsOperationsNames \in [ProductID -> [OpName -> Nat]]
        /\ productPhysicalIDMapping \in [Value -> ProductID \cup {None}]
    BY DEF Init
  <2>4. /\ productsInfoNames \in [ProductID -> Seq(InfoName)]
        /\ proudctsInfo \in [ProductID -> [InfoName -> Value \cup {None}]]
    BY DEF Init
  <2> QED BY <2>1, <2>2, <2>3, <2>4 DEF PP!TypeOK
<1>6. PP!IDsAreBijective
  <2>1. \A p \in ProductID : PP!productExists(p)
    BY <1>4 DEF Init, PP!productExists
  <2>2. \A id \in 1 .. Len(productIDMapping) : productIDReverseMapping[productIDMapping[id]] = id
    <3> SUFFICES ASSUME NEW id \in DOMAIN order
                 PROVE  productIDReverseMapping[order[id]] = id
      BY <1>1, <1>2
    <3>1. order[id] \in ProductID
      OBVIOUS
    <3> QED BY <1>1, <1>3, <3>1
  <2> QED BY <1>1, <1>2, <1>3, <2>1, <2>2 DEF PP!IDsAreBijective
<1>7. PP!HistoriesAgree
  <2>1. \A p \in ProductID : productsOperations[p] = <<>> /\ Len(productsOperations[p]) = 0
    BY DEF Init
  <2>2. \A p \in ProductID : PP!IDsOf(p) = {}
    BY <2>1 DEF PP!IDsOf
  <2>3. \A p \in ProductID : \A n \in OpName : PP!Named(p, n) = {} /\ productsOperationsNames[p][n] = 0
    BY <2>2 DEF PP!Named, Init
  <2>4. \A v \in Value : productPhysicalIDMapping[v] = None
    BY DEF Init
  <2> QED BY <1>4, <2>1, <2>2, <2>3, <2>4 DEF PP!HistoriesAgree
<1> QED BY <1>5, <1>6, <1>7 DEF PP!IInv

LEMMA InitMachines == Init => MM!IInv
<1> SUFFICES ASSUME Init PROVE MM!IInv
  OBVIOUS
<1>1. /\ tasks \in [MachineContract -> Seq(MM!Task)]
      /\ productsTasks \in [MachineContract -> [ProductID -> Seq(Nat)]]
      /\ readings \in [MachineContract -> Seq(MM!Reading)]
      /\ alerts \in [MachineContract -> Seq(MM!Alert)]
      /\ info \in [MachineContract -> [InfoName -> Value \cup {None}]]
  BY DEF Init
<1>2. authorizedProcesses \in [MachineContract -> SUBSET {"SP", "PP"}]
  BY ContractsAssumption DEF Init
<1>3. \A m \in MachineContract : tasks[m] = <<>> /\ DOMAIN tasks[m] = {}
  BY DEF Init
<1>4. \A m \in MachineContract, p \in ProductID : DOMAIN productsTasks[m][p] = {}
  BY DEF Init
<1> QED BY <1>1, <1>2, <1>3, <1>4 DEF MM!IInv, MM!TypeOK, MM!StatusMatchesTimestamps, MM!IndexedTasksMatch

LEMMA InitInvariant == Init => IInv
<1> SUFFICES ASSUME Init PROVE IInv
  OBVIOUS
<1>1. \A m \in MachineContract : DOMAIN tasks[m] = {}
  BY DEF Init
<1>2. /\ InstancesTyped
      /\ \A k \in ProcessContract : DOMAIN instances[k] = {}
      /\ \A k \in ProcessContract, p \in ProductID : productProcessMapping[k][p] = 0
  BY DEF Init, InstancesTyped
<1>3. MachinesKnown
  <2>1. \A k \in ProcessContract : k = "SP" \/ k = "PP"
    BY ContractsAssumption
  <2>2. /\ SeededMachines["SP"] = <<"VGR", "HBW">> /\ getNumberOfMachines["SP"] = 2
        /\ SeededMachines["PP"] = <<"HBW", "VGR", "MPO", "SLD">> /\ getNumberOfMachines["PP"] = 4
    BY DEF SeededMachines, getNumberOfMachines
  <2>3. /\ SeededMachines["SP"] \in Seq(MachineContract) /\ DOMAIN SeededMachines["SP"] = 1 .. 2
        /\ SeededMachines["PP"] \in Seq(MachineContract) /\ DOMAIN SeededMachines["PP"] = 1 .. 4
    BY <2>2 DEF MachineContract
  <2>4. machines = [k \in ProcessContract |-> SeededMachines[k]]
    BY DEF Init
  <2>5. \A k \in ProcessContract :
          /\ SeededMachines[k] \in Seq(MachineContract)
          /\ DOMAIN SeededMachines[k] = 1 .. getNumberOfMachines[k]
    BY <2>1, <2>2, <2>3
  <2> HIDE DEF SeededMachines, getNumberOfMachines
  <2> QED BY <2>4, <2>5 DEF MachinesKnown
<1>4. ProductsOwned
  BY DEF Init, ProductsOwned
<1>5. TasksNameProcesses /\ TasksBelongToTheirInstance /\ StoredInputsWereReadTogether
  <2>1. "HBW" \in MachineContract
    BY DEF MachineContract
  <2> QED BY <1>1, <2>1 DEF TasksNameProcesses, TasksBelongToTheirInstance, StoredInputsWereReadTogether
<1>6. ProductsLeadToTheirLatestProcess
  BY <1>2 DEF ProductsLeadToTheirLatestProcess
<1>7. LatestReadTogether
  BY DEF Init, LatestReadTogether, OpName
<1> QED BY <1>2, <1>3, <1>4, <1>5, <1>6, <1>7, InitProducts, InitMachines DEF IInv

----
(***************************************************************************)
(* The invariant: the promises of the components, and beside them that     *)
(* tasks name the instance they are for, that products lead to their       *)
(* latest instance, and that the newest readings of a product were taken   *)
(* together.                                                               *)
(***************************************************************************)
THEOREM InvariantHolds == Spec => []IInv
<1>1. Init => IInv
  BY InitInvariant
<1>2. IInv /\ [Next]_vars => IInv'
  BY NextInvariant
<1> QED BY <1>1, <1>2, PTL DEF Spec

(***************************************************************************)
(* What the product and machine contracts promise of their own state holds *)
(* when the contracts call each other, several times in a transaction.     *)
(***************************************************************************)
THEOREM ComponentsKeepTheirPromisesHolds == Spec => []ComponentsKeepTheirPromises
<1>1. IInv => ComponentsKeepTheirPromises
  <2> SUFFICES ASSUME IInv PROVE ComponentsKeepTheirPromises
    OBVIOUS
  <2>1. P!TypeOK /\ P!HistoriesAgree
    BY SameProduct DEF IInv, PP!IInv
  <2>2. M!TypeOK /\ M!StatusMatchesTimestamps /\ M!IndexedTasksMatch
    BY SameMachine DEF IInv, MM!IInv
  <2>3. TypeOK
    BY <2>1, <2>2 DEF TypeOK, IInv, InstancesTyped, MachinesKnown
  <2> QED BY <2>1, <2>2, <2>3 DEF ComponentsKeepTheirPromises
<1> QED BY <1>1, InvariantHolds, PTL

(***************************************************************************)
(* Every task names an existing instance of a process and that instance's  *)
(* product, whoever had it assigned and however the machines were rewired. *)
(***************************************************************************)
THEOREM TasksBelongToTheirInstanceHolds == Spec => []TasksBelongToTheirInstance
<1>1. IInv => TasksBelongToTheirInstance
  BY DEF IInv
<1> QED BY <1>1, InvariantHolds, PTL

(***************************************************************************)
(* The tag and the colour given to a StoreProduct task were read by one    *)
(* GetInfo task of that product, whoever assigns the task and when.        *)
(***************************************************************************)
THEOREM StoredInputsWereReadTogetherHolds == Spec => []StoredInputsWereReadTogether
<1>1. IInv => StoredInputsWereReadTogether
  BY DEF IInv
<1> QED BY <1>1, InvariantHolds, PTL

(***************************************************************************)
(* A product leads to the latest instance started for it in each process.  *)
(***************************************************************************)
THEOREM ProductsLeadToTheirLatestProcessHolds == Spec => []ProductsLeadToTheirLatestProcess
<1>1. IInv => ProductsLeadToTheirLatestProcess
  BY DEF IInv
<1> QED BY <1>1, InvariantHolds, PTL

(***************************************************************************)
(* No call changes the product of an instance, takes its step back, skips  *)
(* one, or changes how it ended.                                           *)
(***************************************************************************)
THEOREM InstancesAreLedgersHolds == Spec => InstancesAreLedgers
<1>1. IInv /\ [Next]_vars => [InstanceKept]_vars
  BY InstancesGrow DEF IInv, InstancesGrown
<1> QED BY <1>1, InvariantHolds, PTL DEF Spec, InstancesAreLedgers

(***************************************************************************)
(* A product's history grows only by the machine it allows at that moment, *)
(* for a task of that machine that names the product.                      *)
(***************************************************************************)
THEOREM OnlyTheAuthorisedRecordHolds == Spec => OnlyTheAuthorisedRecord
<1>1. ASSUME IInv, [Next]_vars PROVE RecordedByTheAuthorised
  <2>0. PP!IInv
    BY <1>1 DEF IInv
  <2>1. CASE PP!Elsewhere
    BY <2>1 DEF PP!Elsewhere, PP!opVars, RecordedByTheAuthorised
  <2>2. CASE SaveStep
    <3>1. PICK m \in MachineContract : \E t \in DOMAIN tasks[m] : \E ops : SaveCall(m, t, ops)
      BY <2>2 DEF SaveStep
    <3>2. PICK t \in DOMAIN tasks[m] : \E ops : SaveCall(m, t, ops)
      BY <3>1
    <3>3. PICK ops : SaveCall(m, t, ops)
      BY <3>2
    <3> DEFINE q == tasks[m][t].productDID
    <3>4. /\ q \in ProductID /\ PP!Several(ops) /\ PP!operationsSaved(q, ops)
          /\ productsAuthorizedMachines[q] = m
      BY <1>1, <3>3, SavedForProduct
    <3>5. PP!SavedAll(q, ops) /\ PP!HistoryTyped'
      BY <2>0, <3>4, ProductAssumed, PP!OperationsSaved DEF PP!IInv
    <3>6. \A i \in 1 .. Len(ops) : ops[i].taskID = t /\ ops[i].machineDID = machineDID[m]
      BY <3>3 DEF SaveCall, SavedFor
    <3> SUFFICES ASSUME NEW p \in ProductID,
                        NEW i \in DOMAIN productsOperations'[p] \ DOMAIN productsOperations[p]
                 PROVE  LET op == operations'[productsOperations'[p][i]] IN
                        /\ op.machineDID = machineDID[m]
                        /\ productsAuthorizedMachines[p] = m
                        /\ op.taskID \in DOMAIN tasks[m]
                        /\ tasks[m][op.taskID].productDID = p
      BY DEF RecordedByTheAuthorised
    <3>7. p = q
      BY <3>5 DEF PP!SavedAll
    <3>8. /\ DOMAIN productsOperations'[p] = 1 .. Len(productsOperations'[p])
          /\ DOMAIN productsOperations[p] = 1 .. Len(productsOperations[p])
          /\ Len(productsOperations[p]) \in Nat /\ Len(productsOperations'[p]) \in Nat
      BY <2>0, <3>5, LenProperties DEF PP!HistoryTyped, PP!IInv, PP!TypeOK
    <3>9. Len(ops) \in Nat /\ Len(productsOperations'[p]) = Len(productsOperations[p]) + Len(ops)
      BY <3>4, <3>5, <3>7, ProductAssumed, PP!SeveralTyped DEF PP!SavedAll
    <3>10. PICK j \in 1 .. Len(ops) : i = Len(productsOperations[p]) + j
      <4>1. i - Len(productsOperations[p]) \in 1 .. Len(ops)
        BY <3>8, <3>9
      <4> QED BY <3>8, <4>1
    <3>11. operations'[productsOperations'[p][i]] = ops[j]
      BY <3>5, <3>7, <3>10 DEF PP!SavedAll
    <3> QED BY <3>4, <3>6, <3>7, <3>11
  <2> QED BY <1>1, <2>1, <2>2, ProductSteps
<1>2. IInv /\ [Next]_vars => [RecordedByTheAuthorised]_vars
  BY <1>1
<1> QED BY <1>2, InvariantHolds, PTL DEF Spec, OnlyTheAuthorisedRecord
====
