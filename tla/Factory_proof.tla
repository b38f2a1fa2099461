---- MODULE Factory_proof ----
(***************************************************************************)
(* Proofs about the gateway, for every number of reconnections, instances, *)
(* products and lost messages, and whichever tasks fail.                   *)
(***************************************************************************)
EXTENDS Factory, Contracts_proof

----
\* The tables: every step of a process has a task name of its own, and the end of a
\* task leads to the step after its own.

LEMMA SupplyingNames ==
  /\ getNumberOfSteps("SP") = 4
  /\ StepName("SP", 1) = "GetInfo" /\ StepName("SP", 2) = "FetchContainer"
  /\ StepName("SP", 3) = "DropToHBW" /\ StepName("SP", 4) = "StoreProduct"
<1>1. getNumberOfSteps("SP") = 4
  BY DEF getNumberOfSteps, getStepTaskType
<1>2. /\ SeededMachines["SP"] = <<"VGR", "HBW">>
      /\ getMachineNumber["SP"] = <<1, 2, 1, 2>>
      /\ getStepTaskType["SP"] = <<1, 1, 2, 3>>
  BY DEF SeededMachines, getMachineNumber, getStepTaskType
<1>3. /\ getTaskTypeName["VGR"] = <<"GetInfo", "DropToHBW", "PickSorted", "MoveHBW2MPO">>
      /\ getTaskTypeName["HBW"] = <<"FetchContainer", "StoreContainer", "StoreProduct", "FetchProduct">>
  BY DEF getTaskTypeName
<1> QED BY <1>1, <1>2, <1>3 DEF StepName

LEMMA ProductionNames ==
  /\ getNumberOfSteps("PP") = 5
  /\ StepName("PP", 1) = "FetchProduct" /\ StepName("PP", 2) = "MoveHBW2MPO"
  /\ StepName("PP", 3) = "Processing" /\ StepName("PP", 4) = "Sorting"
  /\ StepName("PP", 5) = "PickSorted"
<1>1. getNumberOfSteps("PP") = 5
  BY DEF getNumberOfSteps, getStepTaskType
<1>2. /\ SeededMachines["PP"] = <<"HBW", "VGR", "MPO", "SLD">>
      /\ getMachineNumber["PP"] = <<1, 2, 3, 4, 2>>
      /\ getStepTaskType["PP"] = <<4, 4, 1, 1, 3>>
  BY DEF SeededMachines, getMachineNumber, getStepTaskType
<1>3. /\ getTaskTypeName["VGR"] = <<"GetInfo", "DropToHBW", "PickSorted", "MoveHBW2MPO">>
      /\ getTaskTypeName["HBW"] = <<"FetchContainer", "StoreContainer", "StoreProduct", "FetchProduct">>
      /\ getTaskTypeName["MPO"] = <<"Processing">>
      /\ getTaskTypeName["SLD"] = <<"Sorting">>
  BY DEF getTaskTypeName
<1>4. StepName("PP", 1) = "FetchProduct" /\ StepName("PP", 2) = "MoveHBW2MPO"
  BY <1>2, <1>3 DEF StepName
<1>5. StepName("PP", 3) = "Processing" /\ StepName("PP", 4) = "Sorting"
  BY <1>2, <1>3 DEF StepName
<1>6. StepName("PP", 5) = "PickSorted"
  BY <1>2, <1>3 DEF StepName
<1> QED BY <1>1, <1>4, <1>5, <1>6

LEMMA Processes == \A k \in ProcessContract : k = "SP" \/ k = "PP"
BY ContractsAssumption

LEMMA FourOrFive ==
  /\ \A s \in 1 .. 4 : s = 1 \/ s = 2 \/ s = 3 \/ s = 4
  /\ \A s \in 1 .. 5 : s = 1 \/ s = 2 \/ s = 3 \/ s = 4 \/ s = 5
OBVIOUS

\* A name tells the process and the step.
LEMMA NamesTell ==
  ASSUME NEW k \in ProcessContract, NEW s \in 1 .. getNumberOfSteps(k)
  PROVE  /\ s \in Nat /\ getNumberOfSteps(k) \in Nat
         /\ StepName(k, s) # "StoreContainer"
         /\ \A j \in ProcessContract : \A r \in 1 .. getNumberOfSteps(j) :
              StepName(j, r) = StepName(k, s) => j = k /\ r = s
<1>1. CASE k = "SP"
  <2>1. s \in 1 .. 4
    BY <1>1, SupplyingNames
  <2>2. s = 1 \/ s = 2 \/ s = 3 \/ s = 4
    BY <2>1
  <2>3. ASSUME NEW j \in ProcessContract, NEW r \in 1 .. getNumberOfSteps(j),
               StepName(j, r) = StepName(k, s)
        PROVE  j = k /\ r = s
    <3>1. CASE j = "SP"
      BY <1>1, <2>2, <2>3, <3>1, SupplyingNames, FourOrFive
    <3>2. CASE j = "PP"
      BY <1>1, <2>2, <2>3, <3>2, SupplyingNames, ProductionNames, FourOrFive
    <3> QED BY <3>1, <3>2, Processes
  <2> QED BY <1>1, <2>1, <2>2, <2>3, SupplyingNames
<1>2. CASE k = "PP"
  <2>1. s \in 1 .. 5
    BY <1>2, ProductionNames
  <2>2. s = 1 \/ s = 2 \/ s = 3 \/ s = 4 \/ s = 5
    BY <2>1
  <2>3. ASSUME NEW j \in ProcessContract, NEW r \in 1 .. getNumberOfSteps(j),
               StepName(j, r) = StepName(k, s)
        PROVE  j = k /\ r = s
    <3>1. CASE j = "SP"
      BY <1>2, <2>2, <2>3, <3>1, SupplyingNames, ProductionNames, FourOrFive
    <3>2. CASE j = "PP"
      BY <1>2, <2>2, <2>3, <3>2, ProductionNames, FourOrFive
    <3> QED BY <3>1, <3>2, Processes
  <2> QED BY <1>2, <2>1, <2>2, <2>3, ProductionNames
<1> QED BY <1>1, <1>2, Processes

\* The step that the end of a task leads to follows the step of that task.
LEMMA NextSteps ==
  ASSUME NEW k \in ProcessContract
  PROVE  /\ getNumberOfSteps(k) \in Nat /\ getNumberOfSteps(k) >= 1
         /\ StepName(k, getNumberOfSteps(k)) = lastTask[k]
         /\ lastTask[k] \notin DOMAIN nextStep[k]
         /\ \A name \in DOMAIN nextStep[k] :
              /\ nextStep[k][name] \in 1 .. getNumberOfSteps(k)
              /\ nextStep[k][name] - 1 \in 1 .. getNumberOfSteps(k)
              /\ StepName(k, nextStep[k][name] - 1) = name
<1>1. CASE k = "SP"
  <2>1. nextStep[k] = [GetInfo |-> 2, FetchContainer |-> 3, DropToHBW |-> 4]
    BY <1>1 DEF nextStep, supplyingSteps
  <2>2. DOMAIN nextStep[k] = {"GetInfo", "FetchContainer", "DropToHBW"}
    BY <2>1
  <2>3. lastTask[k] = "StoreProduct"
    BY <1>1 DEF lastTask
  <2>4. /\ nextStep[k]["GetInfo"] = 2 /\ nextStep[k]["FetchContainer"] = 3
        /\ nextStep[k]["DropToHBW"] = 4
    BY <2>1
  <2> QED BY <1>1, <2>2, <2>3, <2>4, SupplyingNames
<1>2. CASE k = "PP"
  <2>1. nextStep[k] = [FetchProduct |-> 2, MoveHBW2MPO |-> 3, Processing |-> 4, Sorting |-> 5]
    BY <1>2 DEF nextStep, productionSteps
  <2>2. DOMAIN nextStep[k] = {"FetchProduct", "MoveHBW2MPO", "Processing", "Sorting"}
    BY <2>1
  <2>3. lastTask[k] = "PickSorted"
    BY <1>2 DEF lastTask
  <2>4. /\ nextStep[k]["FetchProduct"] = 2 /\ nextStep[k]["MoveHBW2MPO"] = 3
        /\ nextStep[k]["Processing"] = 4 /\ nextStep[k]["Sorting"] = 5
    BY <2>1
  <2> QED BY <1>2, <2>2, <2>3, <2>4, ProductionNames
<1> QED BY <1>1, <1>2, Processes

\* What a step assigns, once the processes are wired as the seed does it.
Wired == machines = [k \in ProcessContract |-> SeededMachines[k]]

TodoNames(k, a) ==
  getTaskTypeName[SeededMachines[k][a.number]][a.type]

LEMMA StepTables ==
  ASSUME NEW k \in ProcessContract, NEW s \in 1 .. getNumberOfSteps(k)
  PROVE  \/ /\ Len(StepAssignments(k, s)) = 1
            /\ TodoNames(k, StepAssignments(k, s)[1]) = StepName(k, s)
            /\ knownType(SeededMachines[k][StepAssignments(k, s)[1].number],
                         StepAssignments(k, s)[1].type)
         \/ /\ Len(StepAssignments(k, s)) = 2
            /\ TodoNames(k, StepAssignments(k, s)[1]) = "StoreContainer"
            /\ TodoNames(k, StepAssignments(k, s)[2]) = StepName(k, s)
            /\ \A i \in 1 .. 2 : knownType(SeededMachines[k][StepAssignments(k, s)[i].number],
                                           StepAssignments(k, s)[i].type)
<1> DEFINE number == getMachineNumber[k][s]
           type == getStepTaskType[k][s]
<1>1. CASE ~(k = "PP" /\ s = 3)
  <2>1. StepAssignments(k, s) = <<[number |-> number, type |-> type]>>
    BY <1>1 DEF StepAssignments
  <2>2. /\ Len(StepAssignments(k, s)) = 1
        /\ StepAssignments(k, s)[1].number = number /\ StepAssignments(k, s)[1].type = type
    BY <2>1
  <2>3. TodoNames(k, StepAssignments(k, s)[1]) = StepName(k, s)
    BY <2>2 DEF TodoNames, StepName
  <2>4. knownType(SeededMachines[k][number], type)
    <3>0. /\ getTaskTypeName["VGR"] = <<"GetInfo", "DropToHBW", "PickSorted", "MoveHBW2MPO">>
          /\ getTaskTypeName["HBW"] = <<"FetchContainer", "StoreContainer", "StoreProduct", "FetchProduct">>
          /\ getTaskTypeName["MPO"] = <<"Processing">>
          /\ getTaskTypeName["SLD"] = <<"Sorting">>
      BY DEF getTaskTypeName
    <3>1. /\ DOMAIN getTaskTypeName["VGR"] = 1 .. 4 /\ DOMAIN getTaskTypeName["HBW"] = 1 .. 4
          /\ DOMAIN getTaskTypeName["MPO"] = 1 .. 1 /\ DOMAIN getTaskTypeName["SLD"] = 1 .. 1
      BY <3>0
    <3>2. CASE k = "SP"
      <4>1. s = 1 \/ s = 2 \/ s = 3 \/ s = 4
        BY <3>2, SupplyingNames, FourOrFive
      <4>2. /\ SeededMachines["SP"] = <<"VGR", "HBW">>
            /\ getMachineNumber["SP"] = <<1, 2, 1, 2>>
            /\ getStepTaskType["SP"] = <<1, 1, 2, 3>>
        BY DEF SeededMachines, getMachineNumber, getStepTaskType
      <4>3. SeededMachines[k][number] \in {"VGR", "HBW"} /\ type \in 1 .. 4
        BY <3>2, <4>1, <4>2
      <4> QED BY <3>1, <4>3 DEF knownType
    <3>3. CASE k = "PP"
      <4>1. s = 1 \/ s = 2 \/ s = 4 \/ s = 5
        BY <1>1, <3>3, ProductionNames, FourOrFive
      <4>2. /\ SeededMachines["PP"] = <<"HBW", "VGR", "MPO", "SLD">>
            /\ getMachineNumber["PP"] = <<1, 2, 3, 4, 2>>
            /\ getStepTaskType["PP"] = <<4, 4, 1, 1, 3>>
        BY DEF SeededMachines, getMachineNumber, getStepTaskType
      <4>3. \/ SeededMachines[k][number] \in {"VGR", "HBW"} /\ type \in 1 .. 4
            \/ SeededMachines[k][number] = "SLD" /\ type = 1
        BY <3>3, <4>1, <4>2
      <4> QED BY <3>1, <4>3 DEF knownType
    <3> QED BY <3>2, <3>3, Processes
  <2> QED BY <2>2, <2>3, <2>4
<1>2. CASE k = "PP" /\ s = 3
  <2>1. StepAssignments(k, s) = <<[number |-> 1, type |-> 2], [number |-> 3, type |-> 1]>>
    BY <1>2 DEF StepAssignments
  <2>2. /\ Len(StepAssignments(k, s)) = 2
        /\ StepAssignments(k, s)[1] = [number |-> 1, type |-> 2]
        /\ StepAssignments(k, s)[2] = [number |-> 3, type |-> 1]
    BY <2>1
  <2>3. SeededMachines["PP"][1] = "HBW" /\ SeededMachines["PP"][3] = "MPO"
    BY DEF SeededMachines
  <2>4. /\ getTaskTypeName["HBW"] = <<"FetchContainer", "StoreContainer", "StoreProduct", "FetchProduct">>
        /\ getTaskTypeName["MPO"] = <<"Processing">>
    BY DEF getTaskTypeName
  <2>5. TodoNames(k, StepAssignments(k, s)[1]) = "StoreContainer"
    BY <1>2, <2>2, <2>3, <2>4 DEF TodoNames
  <2>6. TodoNames(k, StepAssignments(k, s)[2]) = StepName(k, s)
    BY <1>2, <2>2, <2>3, <2>4, ProductionNames DEF TodoNames
  <2>7. /\ knownType(SeededMachines[k][StepAssignments(k, s)[1].number], StepAssignments(k, s)[1].type)
        /\ knownType(SeededMachines[k][StepAssignments(k, s)[2].number], StepAssignments(k, s)[2].type)
    BY <1>2, <2>2, <2>3, <2>4 DEF knownType
  <2>8. \A i \in 1 .. 2 : i = 1 \/ i = 2
    OBVIOUS
  <2> QED BY <2>2, <2>5, <2>6, <2>7, <2>8
<1> QED BY <1>1, <1>2

\* The names of the tasks a machine knows, and the machine a step authorises: the one
\* that knows its task.
NamesOf(m) == {getTaskTypeName[m][i] : i \in DOMAIN getTaskTypeName[m]}

LEMMA NamesOfMachines ==
  /\ NamesOf("VGR") = {"GetInfo", "DropToHBW", "PickSorted", "MoveHBW2MPO"}
  /\ NamesOf("HBW") = {"FetchContainer", "StoreContainer", "StoreProduct", "FetchProduct"}
  /\ NamesOf("MPO") = {"Processing"}
  /\ NamesOf("SLD") = {"Sorting"}
<1>1. /\ getTaskTypeName["VGR"] = <<"GetInfo", "DropToHBW", "PickSorted", "MoveHBW2MPO">>
      /\ getTaskTypeName["HBW"] = <<"FetchContainer", "StoreContainer", "StoreProduct", "FetchProduct">>
      /\ getTaskTypeName["MPO"] = <<"Processing">>
      /\ getTaskTypeName["SLD"] = <<"Sorting">>
  BY DEF getTaskTypeName
<1>2. ASSUME NEW a, NEW b, NEW c, NEW d
      PROVE  {<<a, b, c, d>>[i] : i \in DOMAIN <<a, b, c, d>>} = {a, b, c, d}
  OBVIOUS
<1>3. ASSUME NEW a PROVE {<<a>>[i] : i \in DOMAIN <<a>>} = {a}
  OBVIOUS
<1> QED BY <1>1, <1>2, <1>3 DEF NamesOf

LEMMA StepMachines ==
  ASSUME NEW k \in ProcessContract, NEW s \in 1 .. getNumberOfSteps(k)
  PROVE  stepMachine(k, s) = getMachineNumber[k][s]
<1> DEFINE number == getMachineNumber[k][s]
           type == getStepTaskType[k][s]
<1>1. CASE ~(k = "PP" /\ s = 3)
  <2>1. StepAssignments(k, s) = <<[number |-> number, type |-> type]>>
    BY <1>1 DEF StepAssignments
  <2>2. Len(StepAssignments(k, s)) = 1 /\ StepAssignments(k, s)[1].number = number
    BY <2>1
  <2> QED BY <2>2 DEF stepMachine
<1>2. CASE k = "PP" /\ s = 3
  <2>1. StepAssignments(k, s) = <<[number |-> 1, type |-> 2], [number |-> 3, type |-> 1]>>
    BY <1>2 DEF StepAssignments
  <2>2. Len(StepAssignments(k, s)) = 2 /\ StepAssignments(k, s)[2].number = 3
    BY <2>1
  <2>3. number = 3
    BY <1>2 DEF getMachineNumber
  <2> QED BY <2>2, <2>3 DEF stepMachine
<1> QED BY <1>1, <1>2

LEMMA NamesTellMachine ==
  ASSUME NEW k \in ProcessContract, NEW s \in 1 .. getNumberOfSteps(k), NEW m \in MachineContract,
         StepName(k, s) \in NamesOf(m)
  PROVE  m = SeededMachines[k][stepMachine(k, s)]
<1>0. m = "VGR" \/ m = "HBW" \/ m = "MPO" \/ m = "SLD"
  BY DEF MachineContract
<1>1. CASE k = "SP"
  <2>1. /\ SeededMachines["SP"] = <<"VGR", "HBW">>
        /\ getMachineNumber["SP"] = <<1, 2, 1, 2>>
    BY DEF SeededMachines, getMachineNumber
  <2>2. s = 1 \/ s = 2 \/ s = 3 \/ s = 4
    BY <1>1, SupplyingNames, FourOrFive
  <2>3. \/ SeededMachines[k][stepMachine(k, s)] = "VGR" /\ StepName(k, s) \in {"GetInfo", "DropToHBW"}
        \/ SeededMachines[k][stepMachine(k, s)] = "HBW" /\ StepName(k, s) \in {"FetchContainer", "StoreProduct"}
    BY <1>1, <2>1, <2>2, SupplyingNames, StepMachines
  <2> QED BY <1>0, <2>3, NamesOfMachines
<1>2. CASE k = "PP"
  <2>1. /\ SeededMachines["PP"] = <<"HBW", "VGR", "MPO", "SLD">>
        /\ getMachineNumber["PP"] = <<1, 2, 3, 4, 2>>
    BY DEF SeededMachines, getMachineNumber
  <2>2. s = 1 \/ s = 2 \/ s = 3 \/ s = 4 \/ s = 5
    BY <1>2, ProductionNames, FourOrFive
  <2>3. \/ SeededMachines[k][stepMachine(k, s)] = "HBW" /\ StepName(k, s) = "FetchProduct"
        \/ SeededMachines[k][stepMachine(k, s)] = "VGR" /\ StepName(k, s) \in {"MoveHBW2MPO", "PickSorted"}
        \/ SeededMachines[k][stepMachine(k, s)] = "MPO" /\ StepName(k, s) = "Processing"
        \/ SeededMachines[k][stepMachine(k, s)] = "SLD" /\ StepName(k, s) = "Sorting"
    BY <1>2, <2>1, <2>2, ProductionNames, StepMachines
  <2> QED BY <1>0, <2>3, NamesOfMachines
<1> QED BY <1>1, <1>2, Processes

----
\* The tasks of an instance by name, in the tasks ts of the machines.

Named(ts, k, n, name, m, t) ==
  /\ m \in MachineContract /\ t \in DOMAIN ts[m]
  /\ ts[m][t].processContractAddress = k
  /\ ts[m][t].processID = n
  /\ ts[m][t].taskName = name

AllNamed(ts, k, n, name) ==
  {i \in UNION {{<<m, t>> : t \in DOMAIN ts[m]} : m \in MachineContract} :
     Named(ts, k, n, name, i[1], i[2])}

LEMMA InAllNamed ==
  ASSUME NEW ts, NEW k, NEW n, NEW name
  PROVE  /\ \A i \in AllNamed(ts, k, n, name) :
              Named(ts, k, n, name, i[1], i[2]) /\ i = <<i[1], i[2]>>
         /\ \A m, t : Named(ts, k, n, name, m, t) => <<m, t>> \in AllNamed(ts, k, n, name)
<1>1. ASSUME NEW i \in AllNamed(ts, k, n, name)
      PROVE  Named(ts, k, n, name, i[1], i[2]) /\ i = <<i[1], i[2]>>
  <2>1. PICK m \in MachineContract : \E t \in DOMAIN ts[m] : i = <<m, t>>
    BY DEF AllNamed
  <2>2. PICK t \in DOMAIN ts[m] : i = <<m, t>>
    BY <2>1
  <2> QED BY <2>2 DEF AllNamed
<1>2. ASSUME NEW m, NEW t, Named(ts, k, n, name, m, t)
      PROVE  <<m, t>> \in AllNamed(ts, k, n, name)
  <2>1. <<m, t>> \in UNION {{<<o, u>> : u \in DOMAIN ts[o]} : o \in MachineContract}
    BY <1>2 DEF Named
  <2> QED BY <1>2, <2>1 DEF AllNamed
<1> QED BY <1>1, <1>2

LEMMA TasksOfNamed ==
  ASSUME NEW k, NEW n, NEW name
  PROVE  /\ TasksOf(k, n, name) = AllNamed(tasks, k, n, name)
         /\ TasksOf(k, n, name)' = AllNamed(tasks', k, n, name)
<1>1. TasksOf(k, n, name) = AllNamed(tasks, k, n, name)
  <2>1. ASSUME NEW i \in TasksOf(k, n, name) PROVE i \in AllNamed(tasks, k, n, name)
    <3>1. PICK m \in MachineContract :
            \E t \in DOMAIN tasks[m] : i = <<m, t>> /\ Named(tasks, k, n, name, m, t)
      BY DEF TasksOf, Task, Named
    <3> QED BY <3>1, InAllNamed
  <2>2. ASSUME NEW i \in AllNamed(tasks, k, n, name) PROVE i \in TasksOf(k, n, name)
    <3>1. Named(tasks, k, n, name, i[1], i[2]) /\ i = <<i[1], i[2]>>
      BY InAllNamed
    <3> QED BY <3>1 DEF Named, TasksOf, Task
  <2> QED BY <2>1, <2>2
<1>2. TasksOf(k, n, name)' = AllNamed(tasks', k, n, name)
  <2>1. ASSUME NEW i \in TasksOf(k, n, name)' PROVE i \in AllNamed(tasks', k, n, name)
    <3>1. PICK m \in MachineContract :
            \E t \in DOMAIN tasks'[m] : i = <<m, t>> /\ Named(tasks', k, n, name, m, t)
      BY DEF TasksOf, Task, Named
    <3> QED BY <3>1, InAllNamed
  <2>2. ASSUME NEW i \in AllNamed(tasks', k, n, name) PROVE i \in TasksOf(k, n, name)'
    <3>1. Named(tasks', k, n, name, i[1], i[2]) /\ i = <<i[1], i[2]>>
      BY InAllNamed
    <3> QED BY <3>1 DEF Named, TasksOf, Task
  <2> QED BY <2>1, <2>2
<1> QED BY <1>1, <1>2

\* The tasks us are ts with one more, newly assigned for step or container of an instance.
Adds(ts, us, k, n, name) ==
  \E m \in MachineContract, task \in MM!Task :
    /\ MM!Grown(ts, us, m, task) /\ name \in NamesOf(m)
    /\ task.processContractAddress = k /\ task.processID = n /\ task.taskName = name
    /\ task.status = "Assigned" /\ ~task.finished

Added(ts, us, k, n, name) ==
  /\ us \in [MachineContract -> Seq(MM!Task)]
  /\ \A m \in MachineContract : \A t \in DOMAIN ts[m] : t \in DOMAIN us[m] /\ us[m][t] = ts[m][t]
  /\ \A m \in MachineContract : \A t \in DOMAIN us[m] :
       \/ t \in DOMAIN ts[m]
       \/ /\ us[m][t].processContractAddress = k /\ us[m][t].taskName = name
          /\ us[m][t].status = "Assigned" /\ ~us[m][t].finished /\ name \in NamesOf(m)
  /\ \A j, o, x : j # k \/ o # n \/ x # name => AllNamed(us, j, o, x) = AllNamed(ts, j, o, x)
  /\ \E new : AllNamed(us, k, n, name) = AllNamed(ts, k, n, name) \cup {new}

LEMMA AddsNamed ==
  ASSUME NEW ts \in [MachineContract -> Seq(MM!Task)], NEW us, NEW k, NEW n, NEW name,
         Adds(ts, us, k, n, name)
  PROVE  Added(ts, us, k, n, name)
<1>1. PICK m \in MachineContract, task \in MM!Task :
        /\ MM!Grown(ts, us, m, task) /\ name \in NamesOf(m)
        /\ task.processContractAddress = k /\ task.processID = n /\ task.taskName = name
        /\ task.status = "Assigned" /\ ~task.finished
  BY DEF Adds
<1> DEFINE last == Len(ts[m]) + 1
<1>2. /\ us \in [MachineContract -> Seq(MM!Task)]
      /\ \A o \in MachineContract : \A u \in DOMAIN ts[o] : u \in DOMAIN us[o] /\ us[o][u] = ts[o][u]
      /\ \A o \in MachineContract : \A u \in DOMAIN us[o] :
           u \in DOMAIN ts[o] \/ (o = m /\ u = last /\ us[o][u] = task)
      /\ last \in DOMAIN us[m] /\ us[m][last] = task
  BY <1>1 DEF MM!Grown
<1> HIDE DEF last
<1>3. \A j, o, x, l, u : Named(ts, j, o, x, l, u) => Named(us, j, o, x, l, u)
  BY <1>2 DEF Named
<1>4. \A j, o, x, l, u : Named(us, j, o, x, l, u) =>
        Named(ts, j, o, x, l, u) \/ (j = k /\ o = n /\ x = name /\ l = m /\ u = last)
  BY <1>1, <1>2 DEF Named
<1>5. Named(us, k, n, name, m, last)
  BY <1>1, <1>2 DEF Named
<1>6. \A j, o, x : AllNamed(ts, j, o, x) \subseteq AllNamed(us, j, o, x)
  <2> SUFFICES ASSUME NEW j, NEW o, NEW x, NEW i \in AllNamed(ts, j, o, x)
               PROVE  i \in AllNamed(us, j, o, x)
    OBVIOUS
  <2>1. Named(ts, j, o, x, i[1], i[2]) /\ i = <<i[1], i[2]>>
    BY InAllNamed
  <2>2. Named(us, j, o, x, i[1], i[2])
    BY <1>3, <2>1
  <2> QED BY <2>1, <2>2, InAllNamed
<1>7. ASSUME NEW j, NEW o, NEW x, NEW i \in AllNamed(us, j, o, x)
      PROVE  i \in AllNamed(ts, j, o, x) \/ (j = k /\ o = n /\ x = name /\ i = <<m, last>>)
  <2>1. Named(us, j, o, x, i[1], i[2]) /\ i = <<i[1], i[2]>>
    BY InAllNamed
  <2>2. CASE Named(ts, j, o, x, i[1], i[2])
    BY <2>1, <2>2, InAllNamed
  <2>3. CASE j = k /\ o = n /\ x = name /\ i[1] = m /\ i[2] = last
    BY <2>1, <2>3
  <2> QED BY <1>4, <2>1, <2>2, <2>3
<1>8. \A j, o, x : j # k \/ o # n \/ x # name => AllNamed(us, j, o, x) = AllNamed(ts, j, o, x)
  <2> SUFFICES ASSUME NEW j, NEW o, NEW x, j # k \/ o # n \/ x # name
               PROVE  AllNamed(us, j, o, x) = AllNamed(ts, j, o, x)
    OBVIOUS
  <2>1. AllNamed(ts, j, o, x) \subseteq AllNamed(us, j, o, x)
    BY <1>6
  <2>2. \A i \in AllNamed(us, j, o, x) : i \in AllNamed(ts, j, o, x)
    BY <1>7
  <2> HIDE DEF AllNamed
  <2> QED BY <2>1, <2>2
<1>9. AllNamed(us, k, n, name) = AllNamed(ts, k, n, name) \cup {<<m, last>>}
  <2>1. <<m, last>> \in AllNamed(us, k, n, name)
    BY <1>5, InAllNamed
  <2>2. AllNamed(ts, k, n, name) \subseteq AllNamed(us, k, n, name)
    BY <1>6
  <2>3. \A i \in AllNamed(us, k, n, name) : i \in AllNamed(ts, k, n, name) \/ i = <<m, last>>
    BY <1>7
  <2> QED BY <2>1, <2>2, <2>3
<1>10. \A o \in MachineContract : \A t \in DOMAIN us[o] :
        \/ t \in DOMAIN ts[o]
        \/ /\ us[o][t].processContractAddress = k /\ us[o][t].taskName = name
           /\ us[o][t].status = "Assigned" /\ ~us[o][t].finished /\ name \in NamesOf(o)
  BY <1>1, <1>2
<1> QED BY <1>2, <1>8, <1>9, <1>10 DEF Added

\* One assignment adds a task to a machine's book.
LEMMA AssigningAdds ==
  ASSUME IInv, Wired, NEW k \in ProcessContract, NEW n \in DOMAIN instances[k],
         NEW a, a.number \in 1 .. getNumberOfMachines[k],
         knownType(SeededMachines[k][a.number], a.type),
         canAssign(k, n, a.number, a.type),
         NEW book, book[1] \in [MachineContract -> Seq(MM!Task)]
  PROVE  Adds(book[1], assigned(book, k, n, a.number, a.type)[1], k, n, TodoNames(k, a))
<1> DEFINE m == getMachineAddress(k, a.number)
           p == getProductDID(k, n)
           name == getTaskTypeName[m][a.type]
           task == M!NewTask(p, name, n, k, taskParams(name, p))
<1>1. m \in MachineContract /\ m = SeededMachines[k][a.number]
  BY MachineOf DEF IInv, Wired, getMachineAddress
<1>2. knownType(m, a.type) /\ name = TodoNames(k, a)
  BY <1>1 DEF TodoNames
<1>3. name \in TaskNames /\ \A i \in DOMAIN taskInputs(name) : P!hasOperation(p, taskInputs(name)[i])
  BY <1>1, <1>2, TypeNamed DEF canAssign
<1>4. task \in MM!Task
  BY <1>1, <1>3, NewTaskGood
<1>5. /\ task.taskName = name /\ task.processID = n /\ task.processContractAddress = k
      /\ task.status = "Assigned" /\ ~task.finished
  BY DEF M!NewTask
<1>6. assigned(book, k, n, a.number, a.type)[1] = M!TasksWith(book[1], m, task)
  BY <1>2 DEF assigned
<1>9. name \in NamesOf(m)
  BY <1>2 DEF knownType, NamesOf
<1> HIDE DEF m, p, name, task
<1>7. M!TasksWith(book[1], m, task) = MM!TasksWith(book[1], m, task)
  BY DEF M!TasksWith, MM!TasksWith
<1>8. MM!Grown(book[1], MM!TasksWith(book[1], m, task), m, task)
  BY <1>1, <1>4, MachineAssumed, MM!TasksGrown
<1> QED BY <1>1, <1>2, <1>4, <1>5, <1>6, <1>7, <1>8, <1>9 DEF Adds

LEMMA OneOrTwo == 1 \in 1 .. 2 /\ 2 \in 1 .. 2 /\ \A l \in {1, 2} : 1 \in 1 .. l
OBVIOUS

LEMMA StepAdds ==
  ASSUME IInv, Wired, NEW k \in ProcessContract, NEW n \in DOMAIN instances[k],
         NEW s \in 1 .. getNumberOfSteps(k), NEW sender, step(k, n, s, sender)
  PROVE  \/ Adds(tasks, tasks', k, n, StepName(k, s))
         \/ \E ts \in [MachineContract -> Seq(MM!Task)] :
              /\ Adds(tasks, ts, k, n, "StoreContainer")
              /\ Adds(ts, tasks', k, n, StepName(k, s))
<1> DEFINE todo == StepAssignments(k, s)
           first == assigned(taskVars, k, n, todo[1].number, todo[1].type)
           second == assigned(first, k, n, todo[2].number, todo[2].type)
<1>1. /\ Len(todo) \in {1, 2}
      /\ \A i \in 1 .. Len(todo) : todo[i].number \in 1 .. getNumberOfMachines[k]
      /\ \A i \in 1 .. Len(todo) : canAssign(k, n, todo[i].number, todo[i].type)
  BY StepAssigned DEF step, canStep
<1>2. tasks' = (IF Len(todo) = 1 THEN first ELSE second)[1]
  BY DEF step, booksAre
<1>3. taskVars[1] = tasks /\ tasks \in [MachineContract -> Seq(MM!Task)]
  BY DEF taskVars, IInv, MM!IInv, MM!TypeOK
<1>4. \/ /\ Len(todo) = 1
         /\ TodoNames(k, todo[1]) = StepName(k, s)
         /\ knownType(SeededMachines[k][todo[1].number], todo[1].type)
      \/ /\ Len(todo) = 2
         /\ TodoNames(k, todo[1]) = "StoreContainer"
         /\ TodoNames(k, todo[2]) = StepName(k, s)
         /\ \A i \in 1 .. 2 : knownType(SeededMachines[k][todo[i].number], todo[i].type)
  BY StepTables
<1> HIDE DEF todo
<1>5. 1 \in 1 .. Len(todo) /\ 1 \in 1 .. 2 /\ 2 \in 1 .. 2
  BY <1>1, OneOrTwo, Zenon
<1>6. Adds(tasks, first[1], k, n, TodoNames(k, todo[1]))
  <2>1. knownType(SeededMachines[k][todo[1].number], todo[1].type)
    BY <1>4, <1>5
  <2>2. taskVars[1] \in [MachineContract -> Seq(MM!Task)]
    BY <1>3
  <2>3. Adds(taskVars[1], first[1], k, n, TodoNames(k, todo[1]))
    BY <1>1, <1>5, <2>1, <2>2, AssigningAdds
  <2> QED BY <1>3, <2>3
<1> HIDE DEF first
<1>7. CASE Len(todo) = 1
  BY <1>2, <1>4, <1>6, <1>7
<1>8. CASE Len(todo) = 2
  <2>1. first[1] \in [MachineContract -> Seq(MM!Task)]
    BY <1>3, <1>6, AddsNamed DEF Added
  <2>2. knownType(SeededMachines[k][todo[2].number], todo[2].type) /\ 2 \in 1 .. Len(todo)
    BY <1>4, <1>5, <1>8
  <2>3. Adds(first[1], second[1], k, n, TodoNames(k, todo[2]))
    BY <1>1, <2>1, <2>2, AssigningAdds
  <2>4. tasks' = second[1]
    BY <1>2, <1>8
  <2> HIDE DEF second
  <2> QED BY <1>4, <1>6, <1>8, <2>1, <2>3, <2>4
<1> QED BY <1>1, <1>7, <1>8

\* The step's effect on the tasks of every instance.
StepShows(k, n, name) ==
  /\ \A m \in MachineContract : \A t \in DOMAIN tasks[m] :
       t \in DOMAIN tasks'[m] /\ tasks'[m][t] = tasks[m][t]
  /\ \A m \in MachineContract : \A t \in DOMAIN tasks'[m] :
       \/ t \in DOMAIN tasks[m]
       \/ /\ tasks'[m][t].processContractAddress = k
          /\ tasks'[m][t].taskName \in {"StoreContainer", name} \cap NamesOf(m)
          /\ tasks'[m][t].status = "Assigned" /\ ~tasks'[m][t].finished
  /\ \A j, o, x : x # "StoreContainer" /\ (j # k \/ o # n \/ x # name) =>
       AllNamed(tasks', j, o, x) = AllNamed(tasks, j, o, x)
  /\ \E new : AllNamed(tasks', k, n, name) = AllNamed(tasks, k, n, name) \cup {new}

LEMMA StepTasks ==
  ASSUME IInv, Wired, NEW k \in ProcessContract, NEW n \in DOMAIN instances[k],
         NEW s \in 1 .. getNumberOfSteps(k), NEW sender, step(k, n, s, sender)
  PROVE  StepShows(k, n, StepName(k, s))
<1> DEFINE name == StepName(k, s)
<1>0. tasks \in [MachineContract -> Seq(MM!Task)] /\ name # "StoreContainer"
  BY NamesTell DEF IInv, MM!IInv, MM!TypeOK
<1>1. \/ Adds(tasks, tasks', k, n, name)
      \/ \E ts \in [MachineContract -> Seq(MM!Task)] :
           Adds(tasks, ts, k, n, "StoreContainer") /\ Adds(ts, tasks', k, n, name)
  BY StepAdds
<1> HIDE DEF name
<1>2. CASE Adds(tasks, tasks', k, n, name)
  <2>1. Added(tasks, tasks', k, n, name)
    BY <1>0, <1>2, AddsNamed
  <2>2. \A m \in MachineContract : \A t \in DOMAIN tasks'[m] :
          \/ t \in DOMAIN tasks[m]
          \/ /\ tasks'[m][t].processContractAddress = k
             /\ tasks'[m][t].taskName \in {"StoreContainer", name} \cap NamesOf(m)
             /\ tasks'[m][t].status = "Assigned" /\ ~tasks'[m][t].finished
    BY <2>1 DEF Added
  <2>3. \A j, o, x : x # "StoreContainer" /\ (j # k \/ o # n \/ x # name) =>
          AllNamed(tasks', j, o, x) = AllNamed(tasks, j, o, x)
    BY <2>1 DEF Added
  <2>4. StepShows(k, n, name)
    BY <2>1, <2>2, <2>3 DEF Added, StepShows
  <2> QED BY <2>4 DEF name
<1>3. ASSUME NEW ts \in [MachineContract -> Seq(MM!Task)],
             Adds(tasks, ts, k, n, "StoreContainer"), Adds(ts, tasks', k, n, name)
      PROVE  StepShows(k, n, name)
  <2>1. Added(tasks, ts, k, n, "StoreContainer")
    BY <1>0, <1>3, AddsNamed
  <2>2. Added(ts, tasks', k, n, name)
    BY <1>3, AddsNamed
  <2>3. \A j, o, x : x # "StoreContainer" /\ (j # k \/ o # n \/ x # name) =>
          AllNamed(tasks', j, o, x) = AllNamed(tasks, j, o, x)
    BY <2>1, <2>2 DEF Added
  <2>4. \E new : AllNamed(tasks', k, n, name) = AllNamed(tasks, k, n, name) \cup {new}
    <3>1. AllNamed(ts, k, n, name) = AllNamed(tasks, k, n, name)
      BY <1>0, <2>1 DEF Added
    <3>2. \E new : AllNamed(tasks', k, n, name) = AllNamed(ts, k, n, name) \cup {new}
      BY <2>2 DEF Added
    <3> QED BY <3>1, <3>2
  <2>5. \A m \in MachineContract : \A t \in DOMAIN tasks[m] :
          t \in DOMAIN tasks'[m] /\ tasks'[m][t] = tasks[m][t]
    BY <2>1, <2>2 DEF Added
  <2>6. ASSUME NEW m \in MachineContract, NEW t \in DOMAIN tasks'[m], t \notin DOMAIN tasks[m]
        PROVE  /\ tasks'[m][t].processContractAddress = k
               /\ tasks'[m][t].taskName \in {"StoreContainer", name} \cap NamesOf(m)
               /\ tasks'[m][t].status = "Assigned" /\ ~tasks'[m][t].finished
    <3>1. CASE t \in DOMAIN ts[m]
      BY <2>1, <2>2, <2>6, <3>1 DEF Added
    <3>2. CASE t \notin DOMAIN ts[m]
      BY <2>2, <3>2 DEF Added
    <3> QED BY <3>1, <3>2
  <2> QED BY <2>3, <2>4, <2>5, <2>6 DEF StepShows
<1> QED BY <1>1, <1>2, <1>3 DEF name

----
(***************************************************************************)
(* The part of the invariant that is about the contracts: the processes    *)
(* stay wired as the seed does it; every task is of a step of its process, *)
(* or takes the empty container back, and was started if its client        *)
(* finished it; and an instance's tasks are those of the steps it made.    *)
(***************************************************************************)
OfStep(task) ==
  \/ task.taskName = "StoreContainer"
  \/ \E s \in 1 .. getNumberOfSteps(task.processContractAddress) :
       task.taskName = StepName(task.processContractAddress, s)

TaskFits(task) == OfStep(task) /\ (task.status \in M!Finished => task.started)

TasksFit == \A m \in MachineContract : \A t \in DOMAIN tasks[m] : TaskFits(tasks[m][t])

OfStepIn(ts, k, n, s) == AllNamed(ts, k, n, StepName(k, s))

StepsFit(ts, k, n, c) ==
  /\ c <= getNumberOfSteps(k)
  /\ \A s \in 1 .. getNumberOfSteps(k) :
       /\ s > c => OfStepIn(ts, k, n, s) = {}
       /\ s <= c => \E i : OfStepIn(ts, k, n, s) = {i}
       /\ s < c => \A i \in OfStepIn(ts, k, n, s) : ts[i[1]][i[2]].status = "FinishedSuccessfully"

EndFits(ts, k, n, inst) ==
  /\ inst.status = "FinishedSuccessfully" =>
       /\ inst.currentStep = getNumberOfSteps(k)
       /\ \A i \in OfStepIn(ts, k, n, getNumberOfSteps(k)) : ts[i[1]][i[2]].finished
  /\ inst.status = "FinishedUnsuccessfully" =>
       /\ inst.currentStep \in 1 .. getNumberOfSteps(k)
       /\ \E i \in OfStepIn(ts, k, n, inst.currentStep) :
            ts[i[1]][i[2]].status = "FinishedUnsuccessfully"

InstanceFits(ts, k, n, inst) == StepsFit(ts, k, n, inst.currentStep) /\ EndFits(ts, k, n, inst)

InstancesFit ==
  \A k \in ProcessContract : \A n \in DOMAIN instances[k] :
    InstanceFits(tasks, k, n, instances[k][n])

ChainInv == IInv /\ Wired /\ TasksFit /\ InstancesFit

\* The state after a step, with every instance as a value.
LEMMA FitAfter ==
  ASSUME \A k \in ProcessContract : \A n \in DOMAIN instances'[k] :
           \E inst, ts : ts = tasks' /\ inst = instances'[k][n] /\ InstanceFits(ts, k, n, inst)
  PROVE  InstancesFit'
<1> SUFFICES ASSUME NEW k \in ProcessContract, NEW n \in DOMAIN instances'[k]
             PROVE  InstanceFits(tasks, k, n, instances[k][n])'
  BY DEF InstancesFit
<1>1. PICK inst, ts : ts = tasks' /\ inst = instances'[k][n] /\ InstanceFits(ts, k, n, inst)
  OBVIOUS
<1>2. InstanceFits(tasks', k, n, instances'[k][n])
  BY <1>1
<1>3. \A s : OfStepIn(tasks, k, n, s)' = OfStepIn(tasks', k, n, s)
  BY DEF OfStepIn, AllNamed, Named
<1>4. StepsFit(tasks, k, n, instances[k][n].currentStep)'
  BY <1>2, <1>3 DEF InstanceFits, StepsFit
<1>5. EndFits(tasks, k, n, instances[k][n])'
  BY <1>2, <1>3 DEF InstanceFits, EndFits
<1> QED BY <1>4, <1>5 DEF InstanceFits

\* What a step that is not about an instance leaves true of it.
KeptFor(ts, us, k, n) ==
  \A s \in 1 .. getNumberOfSteps(k) :
    /\ OfStepIn(us, k, n, s) = OfStepIn(ts, k, n, s)
    /\ \A i \in OfStepIn(ts, k, n, s) :
         /\ ts[i[1]][i[2]].status \in M!Finished => us[i[1]][i[2]].status = ts[i[1]][i[2]].status
         /\ ts[i[1]][i[2]].finished => us[i[1]][i[2]].finished

LEMMA KeptFits ==
  ASSUME NEW ts, NEW us, NEW k \in ProcessContract, NEW n, NEW inst,
         KeptFor(ts, us, k, n), InstanceFits(ts, k, n, inst)
  PROVE  InstanceFits(us, k, n, inst)
<1>1. getNumberOfSteps(k) \in 1 .. getNumberOfSteps(k)
  BY NextSteps
<1>2. "FinishedSuccessfully" \in M!Finished /\ "FinishedUnsuccessfully" \in M!Finished
  BY DEF M!Finished
<1>3. StepsFit(us, k, n, inst.currentStep)
  <2> SUFFICES ASSUME NEW s \in 1 .. getNumberOfSteps(k)
               PROVE  /\ s > inst.currentStep => OfStepIn(us, k, n, s) = {}
                      /\ s <= inst.currentStep => \E i : OfStepIn(us, k, n, s) = {i}
                      /\ s < inst.currentStep =>
                           \A i \in OfStepIn(us, k, n, s) : us[i[1]][i[2]].status = "FinishedSuccessfully"
    BY DEF StepsFit, InstanceFits
  <2>1. /\ OfStepIn(us, k, n, s) = OfStepIn(ts, k, n, s)
        /\ \A i \in OfStepIn(ts, k, n, s) :
             ts[i[1]][i[2]].status \in M!Finished => us[i[1]][i[2]].status = ts[i[1]][i[2]].status
    BY DEF KeptFor
  <2>2. /\ s > inst.currentStep => OfStepIn(ts, k, n, s) = {}
        /\ s <= inst.currentStep => \E i : OfStepIn(ts, k, n, s) = {i}
        /\ s < inst.currentStep =>
             \A i \in OfStepIn(ts, k, n, s) : ts[i[1]][i[2]].status = "FinishedSuccessfully"
    BY DEF InstanceFits, StepsFit
  <2> QED BY <1>2, <2>1, <2>2
<1>4. EndFits(us, k, n, inst)
  <2>1. CASE inst.status = "FinishedSuccessfully"
    BY <1>1, <2>1 DEF InstanceFits, EndFits, KeptFor
  <2>2. CASE inst.status = "FinishedUnsuccessfully"
    <3>1. /\ inst.currentStep \in 1 .. getNumberOfSteps(k)
          /\ \E i \in OfStepIn(ts, k, n, inst.currentStep) :
               ts[i[1]][i[2]].status = "FinishedUnsuccessfully"
      BY <2>2 DEF InstanceFits, EndFits
    <3>2. \E i \in OfStepIn(us, k, n, inst.currentStep) :
               us[i[1]][i[2]].status = "FinishedUnsuccessfully"
      BY <1>2, <3>1 DEF KeptFor
    <3> QED BY <2>2, <3>1, <3>2 DEF EndFits
  <2> QED BY <2>1, <2>2 DEF EndFits
<1> QED BY <1>3, <1>4 DEF InstanceFits

----
\* What a transaction may do to a task that there is.
TaskMoved(old, task) ==
  /\ SameJob(old, task)
  /\ old.started => task.started
  /\ old.started /\ old.finished => task.status = old.status

TasksMoved ==
  \A m \in MachineContract : \A t \in DOMAIN tasks[m] :
    t \in DOMAIN tasks'[m] /\ TaskMoved(tasks[m][t], tasks'[m][t])

\* A client's or an owner's call.  A client finishes only tasks that were started.
FinishesStarted(m, t) == tasks'[m][t].status \in M!Finished => tasks'[m][t].started

CallStep ==
  /\ \E m \in MachineContract : \E t \in DOMAIN tasks[m] : TaskCall(m, t) /\ FinishesStarted(m, t)
  /\ UNCHANGED processVars

LEMMA CallUpdates ==
  ASSUME MM!IInv, NEW m \in MachineContract, NEW t \in DOMAIN tasks[m], TaskCall(m, t)
  PROVE  \E task \in MM!Task : MM!Updated(m, t, task) /\ TaskMoved(tasks[m][t], task)
<1> DEFINE old == tasks[m][t]
<1>0. old \in MM!Task
  BY MachineTaskTyped
<1>1. tasks \in [MachineContract -> Seq(MM!Task)]
  BY DEF MM!IInv, MM!TypeOK
<1>2. CASE M!startTask(m, t, machineDID[m])
  <2> DEFINE task == [old EXCEPT !.status = "Started", !.started = TRUE]
  <2>1. task \in MM!Task /\ TaskMoved(old, task)
    BY <1>0, <1>2 DEF MM!Task, MM!TaskStatus, TaskMoved, SameJob, M!startTask
  <2>2. MM!Updated(m, t, task)
    BY <1>1, <1>2 DEF M!startTask, MM!Updated
  <2> QED BY <2>1, <2>2
<1>3. ASSUME NEW status \in M!Finished, NEW note \in Note,
             M!finishTask(m, t, status, note, machineDID[m])
      PROVE  \E task \in MM!Task : MM!Updated(m, t, task) /\ TaskMoved(old, task)
  <2> DEFINE task == [old EXCEPT !.status = status, !.finished = TRUE, !.finishNote = note]
  <2>1. task \in MM!Task /\ TaskMoved(old, task)
    BY <1>0, <1>3 DEF MM!Task, MM!TaskStatus, MM!Finished, M!Finished, TaskMoved, SameJob, M!finishTask
  <2>2. MM!Updated(m, t, task)
    BY <1>1, <1>3 DEF M!finishTask, M!TaskFinishedWith, MM!Updated
  <2> QED BY <2>1, <2>2
<1>4. CASE M!killTask(m, t, "machineOwner")
  <2> DEFINE task == [old EXCEPT !.status = "Killed", !.finished = TRUE]
  <2>1. task \in MM!Task /\ TaskMoved(old, task)
    BY <1>0, <1>4 DEF MM!Task, MM!TaskStatus, TaskMoved, SameJob, M!killTask
  <2>2. MM!Updated(m, t, task)
    BY <1>1, <1>4 DEF M!killTask, MM!Updated
  <2> QED BY <2>1, <2>2
<1> QED BY <1>2, <1>3, <1>4 DEF TaskCall

LEMMA CallMoves ==
  ASSUME MM!IInv, NEW m \in MachineContract, NEW t \in DOMAIN tasks[m], TaskCall(m, t)
  PROVE  /\ TasksMoved
         /\ \A o \in MachineContract : DOMAIN tasks'[o] = DOMAIN tasks[o]
         /\ \A o \in MachineContract : \A u \in DOMAIN tasks[o] :
              o # m \/ u # t => tasks'[o][u] = tasks[o][u]
<1>1. PICK task \in MM!Task : MM!Updated(m, t, task) /\ TaskMoved(tasks[m][t], task)
  BY CallUpdates
<1>2. /\ \A o \in MachineContract : DOMAIN tasks'[o] = DOMAIN tasks[o]
      /\ \A o \in MachineContract : \A u \in DOMAIN tasks[o] :
           tasks'[o][u] = IF o = m /\ u = t THEN task ELSE tasks[o][u]
  BY <1>1, MachineAssumed, MM!UpdatedTasks DEF MM!IInv
<1>3. TasksMoved
  <2> SUFFICES ASSUME NEW o \in MachineContract, NEW u \in DOMAIN tasks[o]
               PROVE  u \in DOMAIN tasks'[o] /\ TaskMoved(tasks[o][u], tasks'[o][u])
    BY DEF TasksMoved
  <2>1. CASE o = m /\ u = t
    BY <1>1, <1>2, <2>1
  <2>2. CASE ~(o = m /\ u = t)
    BY <1>2, <2>2 DEF TaskMoved, SameJob
  <2> QED BY <2>1, <2>2
<1> QED BY <1>2, <1>3

LEMMA CallNamesNone ==
  ASSUME MM!IInv, NEW m \in MachineContract, NEW t \in DOMAIN tasks[m], TaskCall(m, t)
  PROVE  \A k, n, name : AllNamed(tasks', k, n, name) = AllNamed(tasks, k, n, name)
<1> SUFFICES ASSUME NEW k, NEW n, NEW name
             PROVE  AllNamed(tasks', k, n, name) = AllNamed(tasks, k, n, name)
  OBVIOUS
<1>1. TasksMoved /\ \A o \in MachineContract : DOMAIN tasks'[o] = DOMAIN tasks[o]
  BY CallMoves
<1>2. \A o, u : Named(tasks', k, n, name, o, u) <=> Named(tasks, k, n, name, o, u)
  BY <1>1 DEF Named, TasksMoved, TaskMoved, SameJob
<1>3. AllNamed(tasks', k, n, name) \subseteq AllNamed(tasks, k, n, name)
  BY <1>2, InAllNamed
<1>4. AllNamed(tasks, k, n, name) \subseteq AllNamed(tasks', k, n, name)
  BY <1>2, InAllNamed
<1> QED BY <1>3, <1>4

LEMMA OfStepMoved ==
  ASSUME NEW old, NEW task, TaskMoved(old, task), OfStep(old)
  PROVE  OfStep(task)
BY DEF TaskMoved, SameJob, OfStep

LEMMA CallKeepsInstances ==
  ASSUME ChainInv, CallStep
  PROVE  TasksMoved /\ TasksFit' /\ InstancesFit'
<1>1. PICK m \in MachineContract : \E t \in DOMAIN tasks[m] : TaskCall(m, t) /\ FinishesStarted(m, t)
  BY DEF CallStep
<1>2. PICK t \in DOMAIN tasks[m] : TaskCall(m, t) /\ FinishesStarted(m, t)
  BY <1>1
<1>3. MM!IInv
  BY DEF ChainInv, IInv
<1>4. /\ TasksMoved
      /\ \A o \in MachineContract : DOMAIN tasks'[o] = DOMAIN tasks[o]
      /\ \A o \in MachineContract : \A u \in DOMAIN tasks[o] :
           o # m \/ u # t => tasks'[o][u] = tasks[o][u]
  BY <1>2, <1>3, CallMoves
<1>5. \A o \in MachineContract : \A u \in DOMAIN tasks'[o] : TaskFits(tasks'[o][u])
  <2> SUFFICES ASSUME NEW o \in MachineContract, NEW u \in DOMAIN tasks'[o]
               PROVE  TaskFits(tasks'[o][u])
    OBVIOUS
  <2>1. u \in DOMAIN tasks[o] /\ TaskMoved(tasks[o][u], tasks'[o][u]) /\ TaskFits(tasks[o][u])
    BY <1>4 DEF TasksMoved, ChainInv, TasksFit
  <2>2. OfStep(tasks'[o][u])
    BY <2>1, OfStepMoved DEF TaskFits
  <2>3. CASE o = m /\ u = t
    BY <1>2, <2>2, <2>3 DEF TaskFits, FinishesStarted
  <2>4. CASE ~(o = m /\ u = t)
    BY <1>4, <2>1, <2>4
  <2> QED BY <2>3, <2>4
<1>6. TasksFit'
  BY <1>5 DEF TasksFit, TaskFits, OfStep
<1>7. \A k, n, name : AllNamed(tasks', k, n, name) = AllNamed(tasks, k, n, name)
  BY <1>2, <1>3, CallNamesNone
<1>8. ASSUME NEW k, NEW n, NEW s, NEW i \in OfStepIn(tasks, k, n, s)
      PROVE  /\ tasks[i[1]][i[2]].status \in M!Finished => tasks'[i[1]][i[2]].status = tasks[i[1]][i[2]].status
             /\ tasks[i[1]][i[2]].finished => tasks'[i[1]][i[2]].finished
  <2>1. i[1] \in MachineContract /\ i[2] \in DOMAIN tasks[i[1]]
    BY InAllNamed DEF OfStepIn, Named
  <2>2. TaskMoved(tasks[i[1]][i[2]], tasks'[i[1]][i[2]]) /\ TaskFits(tasks[i[1]][i[2]])
    BY <1>4, <2>1 DEF TasksMoved, ChainInv, TasksFit
  <2>3. MM!StatusFits(tasks[i[1]][i[2]])
    BY <1>3, <2>1 DEF MM!IInv, MM!StatusMatchesTimestamps
  <2> QED BY <2>2, <2>3 DEF TaskMoved, TaskFits, SameJob, MM!StatusFits, MM!Finished, M!Finished
<1>9. InstancesFit'
  <2> SUFFICES ASSUME NEW k \in ProcessContract, NEW n \in DOMAIN instances'[k]
               PROVE  InstanceFits(tasks', k, n, instances'[k][n])
    BY FitAfter
  <2>1. instances' = instances /\ InstanceFits(tasks, k, n, instances[k][n])
    BY DEF CallStep, processVars, ChainInv, InstancesFit
  <2>2. KeptFor(tasks, tasks', k, n)
    BY <1>7, <1>8 DEF KeptFor, OfStepIn
  <2> QED BY <2>1, <2>2, KeptFits
<1> QED BY <1>4, <1>6, <1>9

----
\* The instances after one was updated.
OneUpdated(k, n, inst) ==
  /\ \A j \in ProcessContract : DOMAIN instances'[j] = DOMAIN instances[j]
  /\ \A j \in ProcessContract : \A o \in DOMAIN instances[j] :
       instances'[j][o] = IF j = k /\ o = n THEN inst ELSE instances[j][o]

LEMMA InstancesUpdated ==
  ASSUME InstancesTyped, NEW k \in ProcessContract, NEW n \in DOMAIN instances[k],
         NEW inst \in Instance, UpdatedInstance(k, n, inst)
  PROVE  OneUpdated(k, n, inst)
<1>1. instances \in [ProcessContract -> Seq(Instance)]
  BY DEF InstancesTyped
<1>2. /\ DOMAIN [instances[k] EXCEPT ![n] = inst] = DOMAIN instances[k]
      /\ \A i \in DOMAIN instances[k] :
           [instances[k] EXCEPT ![n] = inst][i] = IF i = n THEN inst ELSE instances[k][i]
  BY <1>1, ExceptSeq
<1>3. \A j \in ProcessContract :
        instances'[j] = IF j = k THEN [instances[k] EXCEPT ![n] = inst] ELSE instances[j]
  BY <1>1 DEF UpdatedInstance
<1> QED BY <1>2, <1>3 DEF OneUpdated

\* A step is the first, or the task of the step before it ended successfully.
Justified(k, n, s) ==
  \/ s = 1
  \/ /\ s - 1 \in 1 .. getNumberOfSteps(k)
     /\ \E i \in OfStepIn(tasks, k, n, s - 1) : tasks[i[1]][i[2]].status = "FinishedSuccessfully"

LEMMA NextStepFits ==
  ASSUME NEW k \in ProcessContract, NEW n, NEW s \in 1 .. getNumberOfSteps(k),
         NEW old \in Instance, old.currentStep = s - 1, NEW inst,
         inst.currentStep = s, inst.status = old.status,
         InstanceFits(tasks, k, n, old), StepShows(k, n, StepName(k, s)), Justified(k, n, s)
  PROVE  InstanceFits(tasks', k, n, inst)
<1> DEFINE N == getNumberOfSteps(k)
<1>0. N \in Nat /\ s \in Nat /\ s >= 1 /\ s <= N /\ N \in 1 .. N
  BY NextSteps
<1>1. \A r \in 1 .. N : r # s => OfStepIn(tasks', k, n, r) = OfStepIn(tasks, k, n, r)
  <2> SUFFICES ASSUME NEW r \in 1 .. N, r # s
               PROVE  OfStepIn(tasks', k, n, r) = OfStepIn(tasks, k, n, r)
    OBVIOUS
  <2>1. StepName(k, r) # "StoreContainer" /\ StepName(k, r) # StepName(k, s)
    BY NamesTell
  <2> QED BY <2>1 DEF StepShows, OfStepIn
<1>2. \E new : OfStepIn(tasks', k, n, s) = {new}
  <2>1. OfStepIn(tasks, k, n, s) = {}
    BY <1>0 DEF InstanceFits, StepsFit
  <2> QED BY <2>1 DEF StepShows, OfStepIn
<1>3. \A r \in 1 .. N : \A i \in OfStepIn(tasks, k, n, r) : tasks'[i[1]][i[2]] = tasks[i[1]][i[2]]
  <2> SUFFICES ASSUME NEW r \in 1 .. N, NEW i \in OfStepIn(tasks, k, n, r)
               PROVE  tasks'[i[1]][i[2]] = tasks[i[1]][i[2]]
    OBVIOUS
  <2>1. i[1] \in MachineContract /\ i[2] \in DOMAIN tasks[i[1]]
    BY InAllNamed DEF OfStepIn, Named
  <2> QED BY <2>1 DEF StepShows
<1>4. s # 1 =>
        /\ s - 1 \in 1 .. N
        /\ \A i \in OfStepIn(tasks, k, n, s - 1) : tasks[i[1]][i[2]].status = "FinishedSuccessfully"
  <2> SUFFICES ASSUME s # 1
               PROVE  /\ s - 1 \in 1 .. N
                      /\ \A i \in OfStepIn(tasks, k, n, s - 1) :
                           tasks[i[1]][i[2]].status = "FinishedSuccessfully"
    OBVIOUS
  <2>1. /\ s - 1 \in 1 .. N
        /\ \E i \in OfStepIn(tasks, k, n, s - 1) : tasks[i[1]][i[2]].status = "FinishedSuccessfully"
    BY DEF Justified
  <2>2. s - 1 <= old.currentStep
    BY <1>0
  <2>3. \E i : OfStepIn(tasks, k, n, s - 1) = {i}
    BY <2>1, <2>2 DEF InstanceFits, StepsFit
  <2> QED BY <2>1, <2>3
<1>5. StepsFit(tasks', k, n, inst.currentStep)
  <2>1. ASSUME NEW r \in 1 .. N, r > s PROVE OfStepIn(tasks', k, n, r) = {}
    <3>1. r > old.currentStep /\ r # s
      BY <1>0, <2>1
    <3> QED BY <1>1, <3>1 DEF InstanceFits, StepsFit
  <2>2. ASSUME NEW r \in 1 .. N, r <= s PROVE \E i : OfStepIn(tasks', k, n, r) = {i}
    <3>1. CASE r = s
      BY <1>2, <3>1
    <3>2. CASE r # s
      <4>1. r <= old.currentStep
        BY <1>0, <2>2, <3>2
      <4> QED BY <1>1, <3>2, <4>1 DEF InstanceFits, StepsFit
    <3> QED BY <3>1, <3>2
  <2>3. ASSUME NEW r \in 1 .. N, r < s, NEW i \in OfStepIn(tasks', k, n, r)
        PROVE  tasks'[i[1]][i[2]].status = "FinishedSuccessfully"
    <3>1. r # s /\ (r = s - 1 \/ r < old.currentStep) /\ (r = s - 1 => s # 1)
      BY <1>0, <2>3
    <3>2. i \in OfStepIn(tasks, k, n, r) /\ tasks'[i[1]][i[2]] = tasks[i[1]][i[2]]
      BY <1>1, <1>3, <2>3, <3>1
    <3>3. CASE r = s - 1
      BY <1>4, <3>1, <3>2, <3>3
    <3>4. CASE r < old.currentStep
      BY <3>2, <3>4 DEF InstanceFits, StepsFit
    <3> QED BY <3>1, <3>3, <3>4
  <2> QED BY <1>0, <2>1, <2>2, <2>3 DEF StepsFit
<1>6. EndFits(tasks', k, n, inst)
  <2>1. inst.status # "FinishedSuccessfully"
    BY <1>0 DEF InstanceFits, EndFits
  <2>2. inst.status # "FinishedUnsuccessfully"
    <3> SUFFICES ASSUME old.status = "FinishedUnsuccessfully" PROVE FALSE
      OBVIOUS
    <3>1. /\ s - 1 \in 1 .. N
          /\ \E i \in OfStepIn(tasks, k, n, s - 1) : tasks[i[1]][i[2]].status = "FinishedUnsuccessfully"
      BY DEF InstanceFits, EndFits
    <3>2. s # 1
      BY <3>1
    <3> QED BY <1>4, <3>1, <3>2
  <2> QED BY <2>1, <2>2 DEF EndFits
<1> QED BY <1>5, <1>6 DEF InstanceFits

StepStep(k, n, s) == step(k, n, s, "processOwner") /\ Justified(k, n, s)

LEMMA StepKeepsInstances ==
  ASSUME ChainInv, NEW k \in ProcessContract, NEW n \in DOMAIN instances[k],
         NEW s \in 1 .. getNumberOfSteps(k), StepStep(k, n, s)
  PROVE  TasksMoved /\ TasksFit' /\ InstancesFit'
<1> DEFINE old == instances[k][n]
           inst == [old EXCEPT !.currentStep = s]
<1>0. InstancesTyped /\ IInv /\ Wired
  BY DEF ChainInv, IInv
<1>1. StepShows(k, n, StepName(k, s))
  BY <1>0, StepTasks DEF StepStep
<1>2. old \in Instance /\ old.currentStep = s - 1
  <2>1. old \in Instance /\ isNextStep(k, n, s)
    BY <1>0, InstanceTyped DEF StepStep, step, canStep
  <2> QED BY <2>1 DEF isNextStep
<1>3. inst \in Instance /\ inst.currentStep = s /\ inst.status = old.status
  <2>1. s \in Nat
    OBVIOUS
  <2> QED BY <1>2, <2>1 DEF Instance
<1>4. UpdatedInstance(k, n, inst)
  BY <1>0 DEF StepStep, step, stepMarked, InstancesTyped, UpdatedInstance
<1> HIDE DEF inst
<1>5. /\ \A j \in ProcessContract : DOMAIN instances'[j] = DOMAIN instances[j]
      /\ \A j \in ProcessContract : \A o \in DOMAIN instances[j] :
           instances'[j][o] = IF j = k /\ o = n THEN inst ELSE instances[j][o]
  <2>1. OneUpdated(k, n, inst)
    BY <1>0, <1>3, <1>4, InstancesUpdated
  <2> QED BY <2>1 DEF OneUpdated
<1>6. TasksMoved
  BY <1>1 DEF StepShows, TasksMoved, TaskMoved, SameJob
<1>7. \A m \in MachineContract : \A t \in DOMAIN tasks'[m] : TaskFits(tasks'[m][t])
  <2> SUFFICES ASSUME NEW m \in MachineContract, NEW t \in DOMAIN tasks'[m]
               PROVE  TaskFits(tasks'[m][t])
    OBVIOUS
  <2>1. CASE t \in DOMAIN tasks[m]
    BY <1>1, <2>1 DEF StepShows, ChainInv, TasksFit
  <2>2. CASE t \notin DOMAIN tasks[m]
    <3>1. /\ tasks'[m][t].processContractAddress = k
          /\ tasks'[m][t].taskName \in {"StoreContainer", StepName(k, s)} \cap NamesOf(m)
          /\ tasks'[m][t].status = "Assigned"
      BY <1>1, <2>2 DEF StepShows
    <3> QED BY <3>1 DEF TaskFits, OfStep, M!Finished
  <2> QED BY <2>1, <2>2
<1>8. TasksFit'
  BY <1>7 DEF TasksFit, TaskFits, OfStep
<1>9. InstancesFit'
  <2> SUFFICES ASSUME NEW j \in ProcessContract, NEW o \in DOMAIN instances'[j]
               PROVE  InstanceFits(tasks', j, o, instances'[j][o])
    BY FitAfter
  <2>1. o \in DOMAIN instances[j] /\ InstanceFits(tasks, j, o, instances[j][o])
    BY <1>5 DEF ChainInv, InstancesFit
  <2>2. CASE j = k /\ o = n
    <3>1. InstanceFits(tasks', k, n, inst)
      BY <1>1, <1>2, <1>3, <2>1, <2>2, NextStepFits DEF StepStep
    <3> QED BY <1>5, <2>1, <2>2, <3>1
  <2>3. CASE j # k \/ o # n
    <3>1. KeptFor(tasks, tasks', j, o)
      <4> SUFFICES ASSUME NEW r \in 1 .. getNumberOfSteps(j)
                   PROVE  /\ OfStepIn(tasks', j, o, r) = OfStepIn(tasks, j, o, r)
                          /\ \A i \in OfStepIn(tasks, j, o, r) :
                               tasks'[i[1]][i[2]] = tasks[i[1]][i[2]]
        BY DEF KeptFor
      <4>1. StepName(j, r) # "StoreContainer"
        BY NamesTell
      <4>2. OfStepIn(tasks', j, o, r) = OfStepIn(tasks, j, o, r)
        BY <1>1, <2>3, <4>1 DEF StepShows, OfStepIn
      <4>3. ASSUME NEW i \in OfStepIn(tasks, j, o, r)
            PROVE  tasks'[i[1]][i[2]] = tasks[i[1]][i[2]]
        <5>1. i[1] \in MachineContract /\ i[2] \in DOMAIN tasks[i[1]]
          BY InAllNamed DEF OfStepIn, Named
        <5> QED BY <1>1, <5>1 DEF StepShows
      <4> QED BY <4>2, <4>3
    <3>2. instances'[j][o] = instances[j][o]
      BY <1>5, <2>1, <2>3
    <3> QED BY <2>1, <3>1, <3>2, KeptFits
  <2> QED BY <2>2, <2>3
<1> QED BY <1>6, <1>8, <1>9

\* No step is made by an instance that a client ended: its last task let it end, or one
\* that failed.
LEMMA NoStepWhenDone ==
  ASSUME ChainInv, NEW k \in ProcessContract, NEW n \in DOMAIN instances[k],
         NEW s \in 1 .. getNumberOfSteps(k), StepStep(k, n, s)
  PROVE  instances[k][n].status \notin M!Finished /\ instances[k][n].currentStep = s - 1
<1> DEFINE inst == instances[k][n]
           N == getNumberOfSteps(k)
<1>0. InstanceFits(tasks, k, n, inst)
  BY DEF ChainInv, InstancesFit
<1>1. inst.currentStep = s - 1 /\ Justified(k, n, s)
  BY DEF StepStep, step, canStep, isNextStep
<1>2. s \in Nat /\ s >= 1 /\ s <= N /\ N \in Nat
  BY NextSteps
<1>3. inst.status # "FinishedSuccessfully"
  BY <1>0, <1>1, <1>2 DEF InstanceFits, EndFits
<1>4. inst.status # "FinishedUnsuccessfully"
  <2> SUFFICES ASSUME inst.status = "FinishedUnsuccessfully" PROVE FALSE
    OBVIOUS
  <2>1. /\ s - 1 \in 1 .. N
        /\ \E i \in OfStepIn(tasks, k, n, s - 1) : tasks[i[1]][i[2]].status = "FinishedUnsuccessfully"
    BY <1>0, <1>1 DEF InstanceFits, EndFits
  <2>2. s # 1
    BY <2>1
  <2>3. \E i \in OfStepIn(tasks, k, n, s - 1) : tasks[i[1]][i[2]].status = "FinishedSuccessfully"
    BY <1>1, <2>2 DEF Justified
  <2>4. \E i : OfStepIn(tasks, k, n, s - 1) = {i}
    BY <1>0, <1>1, <1>2, <2>1 DEF InstanceFits, StepsFit
  <2> QED BY <2>1, <2>3, <2>4
<1> QED BY <1>1, <1>3, <1>4 DEF M!Finished

\* An instance ends as its last task, or a task that failed, lets it end.
EndStep(k, n, status) ==
  /\ end(k, n, status, "processOwner")
  /\ status = "FinishedSuccessfully" =>
       \E i \in OfStepIn(tasks, k, n, getNumberOfSteps(k)) :
         tasks[i[1]][i[2]].finished /\ tasks[i[1]][i[2]].status \in M!Finished
  /\ status = "FinishedUnsuccessfully" =>
       \E s \in 1 .. getNumberOfSteps(k) : \E i \in OfStepIn(tasks, k, n, s) :
         tasks[i[1]][i[2]].status = "FinishedUnsuccessfully"

LEMMA EndKeepsInstances ==
  ASSUME ChainInv, NEW k \in ProcessContract, NEW n \in DOMAIN instances[k],
         NEW status \in {"Killed"} \cup M!Finished, EndStep(k, n, status)
  PROVE  TasksMoved /\ TasksFit' /\ InstancesFit'
<1> DEFINE old == instances[k][n]
           inst == [old EXCEPT !.finished = TRUE, !.status = status]
           N == getNumberOfSteps(k)
<1>0. InstancesTyped /\ tasks' = tasks /\ TasksFit
  BY DEF ChainInv, IInv, EndStep, end, machineVars, taskVars
<1>1. old \in Instance
  BY <1>0, InstanceTyped
<1>2. inst \in Instance /\ inst.currentStep = old.currentStep /\ inst.status = status
  BY <1>1 DEF Instance
<1>3. UpdatedInstance(k, n, inst)
  BY <1>0, <1>1 DEF EndStep, end, InstancesTyped, UpdatedInstance
<1>4. N \in Nat /\ N \in 1 .. N /\ old.currentStep \in Nat
  BY <1>1, NextSteps DEF Instance
<1> HIDE DEF inst
<1>5. /\ \A j \in ProcessContract : DOMAIN instances'[j] = DOMAIN instances[j]
      /\ \A j \in ProcessContract : \A o \in DOMAIN instances[j] :
           instances'[j][o] = IF j = k /\ o = n THEN inst ELSE instances[j][o]
  <2>1. OneUpdated(k, n, inst)
    BY <1>0, <1>2, <1>3, InstancesUpdated
  <2> QED BY <2>1 DEF OneUpdated
<1>6. TasksMoved /\ TasksFit'
  BY <1>0 DEF TasksMoved, TaskMoved, SameJob, TasksFit
<1>7. InstanceFits(tasks, k, n, old)
  BY DEF ChainInv, InstancesFit
<1>8. status = "FinishedSuccessfully" =>
        /\ old.currentStep = N
        /\ \A i \in OfStepIn(tasks, k, n, N) : tasks[i[1]][i[2]].finished
  <2> SUFFICES ASSUME status = "FinishedSuccessfully"
               PROVE  /\ old.currentStep = N
                      /\ \A i \in OfStepIn(tasks, k, n, N) : tasks[i[1]][i[2]].finished
    OBVIOUS
  <2>1. \E i \in OfStepIn(tasks, k, n, N) : tasks[i[1]][i[2]].finished
    BY DEF EndStep
  <2>2. N <= old.currentStep /\ old.currentStep <= N
    BY <1>4, <1>7, <2>1 DEF InstanceFits, StepsFit
  <2>3. \E i : OfStepIn(tasks, k, n, N) = {i}
    BY <1>4, <1>7, <2>2 DEF InstanceFits, StepsFit
  <2> QED BY <1>4, <2>1, <2>2, <2>3
<1>9. status = "FinishedUnsuccessfully" =>
        /\ old.currentStep \in 1 .. N
        /\ \E i \in OfStepIn(tasks, k, n, old.currentStep) :
             tasks[i[1]][i[2]].status = "FinishedUnsuccessfully"
  <2> SUFFICES ASSUME status = "FinishedUnsuccessfully"
               PROVE  /\ old.currentStep \in 1 .. N
                      /\ \E i \in OfStepIn(tasks, k, n, old.currentStep) :
                           tasks[i[1]][i[2]].status = "FinishedUnsuccessfully"
    OBVIOUS
  <2>1. PICK s \in 1 .. N : \E i \in OfStepIn(tasks, k, n, s) :
          tasks[i[1]][i[2]].status = "FinishedUnsuccessfully"
    BY DEF EndStep
  <2>2. ~(s > old.currentStep) /\ ~(s < old.currentStep)
    BY <1>7, <2>1 DEF InstanceFits, StepsFit
  <2>3. s = old.currentStep
    BY <1>4, <2>2
  <2> QED BY <2>1, <2>3
<1>10. InstanceFits(tasks, k, n, inst)
  <2>1. StepsFit(tasks, k, n, inst.currentStep)
    BY <1>2, <1>7 DEF InstanceFits
  <2>2. EndFits(tasks, k, n, inst)
    BY <1>2, <1>8, <1>9 DEF EndFits
  <2> QED BY <2>1, <2>2 DEF InstanceFits
<1>11. InstancesFit'
  <2> SUFFICES ASSUME NEW j \in ProcessContract, NEW o \in DOMAIN instances'[j]
               PROVE  InstanceFits(tasks', j, o, instances'[j][o])
    BY FitAfter
  <2>1. o \in DOMAIN instances[j] /\ InstanceFits(tasks, j, o, instances[j][o])
    BY <1>5 DEF ChainInv, InstancesFit
  <2> QED BY <1>0, <1>5, <1>10, <2>1
<1> QED BY <1>6, <1>11

\* The instances after one was started.
LEMMA InstanceStarted ==
  ASSUME InstancesTyped, NEW k \in ProcessContract, NEW p \in ProductID,
         startProcess(k, p, "productOwner")
  PROVE  /\ Len(instances[k]) \in Nat /\ DOMAIN instances[k] = 1 .. Len(instances[k])
         /\ DOMAIN instances'[k] = 1 .. Len(instances[k]) + 1
         /\ instances'[k][Len(instances[k]) + 1] = NewInstance(p)
         /\ \A o \in DOMAIN instances[k] : instances'[k][o] = instances[k][o]
         /\ \A j \in ProcessContract \ {k} : instances'[j] = instances[j]
<1> DEFINE new == Len(instances[k]) + 1
<1>1. instances[k] \in Seq(Instance) /\ Len(instances[k]) \in Nat
      /\ DOMAIN instances[k] = 1 .. Len(instances[k])
  BY LenProperties DEF InstancesTyped
<1>2. instances' = [instances EXCEPT ![k] = Append(instances[k], NewInstance(p))]
  BY DEF startProcess
<1>3. NewInstance(p) \in Instance
  BY DEF NewInstance, Instance
<1>4. /\ instances'[k] = Append(instances[k], NewInstance(p))
      /\ \A j \in ProcessContract \ {k} : instances'[j] = instances[j]
  BY <1>2 DEF InstancesTyped
<1>5. /\ Len(Append(instances[k], NewInstance(p))) = new
      /\ Append(instances[k], NewInstance(p)) \in Seq(Instance)
      /\ \A o \in 1 .. Len(instances[k]) : Append(instances[k], NewInstance(p))[o] = instances[k][o]
      /\ Append(instances[k], NewInstance(p))[new] = NewInstance(p)
  BY <1>1, <1>3, AppendProperties
<1> QED BY <1>1, <1>4, <1>5, LenProperties

LEMMA StartKeepsInstances ==
  ASSUME ChainInv, NEW k \in ProcessContract, NEW p \in ProductID,
         startProcess(k, p, "productOwner")
  PROVE  TasksMoved /\ TasksFit' /\ InstancesFit'
<1> DEFINE new == Len(instances[k]) + 1
<1>0. InstancesTyped /\ tasks' = tasks /\ TasksFit
  BY DEF ChainInv, IInv, startProcess, machineVars, taskVars
<1>1. instances[k] \in Seq(Instance) /\ Len(instances[k]) \in Nat
      /\ DOMAIN instances[k] = 1 .. Len(instances[k])
  BY <1>0, LenProperties DEF InstancesTyped
<1>2. /\ DOMAIN instances'[k] = 1 .. new
      /\ instances'[k][new] = NewInstance(p)
      /\ \A o \in DOMAIN instances[k] : instances'[k][o] = instances[k][o]
      /\ \A j \in ProcessContract \ {k} : instances'[j] = instances[j]
  BY <1>0, InstanceStarted
<1>3. TasksMoved /\ TasksFit'
  BY <1>0 DEF TasksMoved, TaskMoved, SameJob, TasksFit
<1>4. \A s : OfStepIn(tasks, k, new, s) = {}
  <2> SUFFICES ASSUME NEW s, NEW i \in OfStepIn(tasks, k, new, s) PROVE FALSE
    OBVIOUS
  <2>1. Named(tasks, k, new, StepName(k, s), i[1], i[2])
    BY InAllNamed DEF OfStepIn
  <2>2. new \in DOMAIN instances[k]
    BY <2>1 DEF Named, ChainInv, IInv, TasksBelongToTheirInstance, processInstanceExists
  <2> QED BY <1>1, <2>2
<1>5. InstanceFits(tasks, k, new, NewInstance(p))
  <2>1. NewInstance(p).currentStep = 0 /\ NewInstance(p).status = "Started"
    BY DEF NewInstance
  <2>2. StepsFit(tasks, k, new, 0)
    BY <1>4, NextSteps DEF StepsFit
  <2> QED BY <2>1, <2>2 DEF InstanceFits, EndFits
<1>6. InstancesFit'
  <2> SUFFICES ASSUME NEW j \in ProcessContract, NEW o \in DOMAIN instances'[j]
               PROVE  InstanceFits(tasks', j, o, instances'[j][o])
    BY FitAfter
  <2>1. CASE j = k /\ o = new
    BY <1>0, <1>2, <1>5, <2>1
  <2>2. CASE ~(j = k /\ o = new)
    <3>1. o \in DOMAIN instances[j] /\ instances'[j][o] = instances[j][o]
      BY <1>1, <1>2, <2>2
    <3> QED BY <1>0, <3>1 DEF ChainInv, InstancesFit
  <2> QED BY <2>1, <2>2
<1> QED BY <1>3, <1>6

----
(***************************************************************************)
(* Everything the gateway does on the chain is one of these.  A client's   *)
(* step is a call that reverts, saves an operation, starts or              *)
(* finishes a task, makes a step of an instance or finishes it.  It leaves *)
(* the authorisations alone but for the step's own.                        *)
(***************************************************************************)
QuietStep == UNCHANGED <<tasks, processVars, authVars>>

\* A task that finishes is settled: its status says how.
Settles(m, t) ==
  tasks'[m][t].finished =>
    tasks'[m][t].status \in M!Finished \/ (tasks[m][t].finished /\ ~tasks[m][t].started)

SettlingStep ==
  /\ \E m \in MachineContract : \E t \in DOMAIN tasks[m] :
       TaskCall(m, t) /\ FinishesStarted(m, t) /\ Settles(m, t)
  /\ UNCHANGED <<processVars, authVars>>

ClientStep ==
  \/ QuietStep
  \/ SettlingStep
  \/ \E k \in ProcessContract : \E n \in DOMAIN instances[k] :
       \/ \E s \in 1 .. getNumberOfSteps(k) : StepStep(k, n, s)
       \/ \E status \in M!Finished : EndStep(k, n, status)

ChainStep ==
  \/ ClientStep
  \/ CallStep
  \/ \E k \in ProcessContract, p \in ProductID : startProcess(k, p, "productOwner")
  \/ \E k \in ProcessContract : \E n \in DOMAIN instances[k] : EndStep(k, n, "Killed")

LEMMA ChainMoves ==
  ASSUME ChainInv, ChainStep
  PROVE  TasksMoved /\ Wired' /\ TasksFit' /\ InstancesFit'
<1>1. CASE QuietStep
  <2>1. tasks' = tasks /\ instances' = instances /\ machines' = machines
    BY <1>1 DEF QuietStep, processVars
  <2>2. TasksMoved /\ Wired' /\ TasksFit'
    BY <2>1 DEF TasksMoved, TaskMoved, SameJob, Wired, TasksFit, ChainInv
  <2>3. InstancesFit'
    BY <2>1, FitAfter DEF ChainInv, InstancesFit
  <2> QED BY <2>2, <2>3
<1>2. CASE CallStep
  <2>1. Wired'
    BY <1>2 DEF CallStep, processVars, Wired, ChainInv
  <2> QED BY <1>2, <2>1, CallKeepsInstances
<1>3. ASSUME NEW k \in ProcessContract, NEW p \in ProductID, startProcess(k, p, "productOwner")
      PROVE  TasksMoved /\ Wired' /\ TasksFit' /\ InstancesFit'
  <2>1. Wired'
    BY <1>3 DEF startProcess, Wired, ChainInv
  <2> QED BY <1>3, <2>1, StartKeepsInstances
<1>4. ASSUME NEW k \in ProcessContract, NEW n \in DOMAIN instances[k],
             NEW s \in 1 .. getNumberOfSteps(k), StepStep(k, n, s)
      PROVE  TasksMoved /\ Wired' /\ TasksFit' /\ InstancesFit'
  <2>1. Wired'
    BY <1>4 DEF StepStep, step, Wired, ChainInv
  <2> QED BY <1>4, <2>1, StepKeepsInstances
<1>5. ASSUME NEW k \in ProcessContract, NEW n \in DOMAIN instances[k],
             NEW status \in {"Killed"} \cup M!Finished, EndStep(k, n, status)
      PROVE  TasksMoved /\ Wired' /\ TasksFit' /\ InstancesFit'
  <2>1. Wired'
    BY <1>5 DEF EndStep, end, Wired, ChainInv
  <2> QED BY <1>5, <2>1, EndKeepsInstances
<1>6. CASE SettlingStep
  <2>1. CallStep
    BY <1>6 DEF SettlingStep, CallStep
  <2> QED BY <1>2, <2>1
<1>7. CASE ClientStep
  BY <1>1, <1>4, <1>5, <1>6, <1>7 DEF ClientStep
<1> QED BY <1>2, <1>3, <1>5, <1>7 DEF ChainStep

----
(***************************************************************************)
(* The part of the invariant that is about the gateway: an event that a    *)
(* task finished tells how the task stays; receipts, orders and            *)
(* acknowledgements are of tasks that were started, on the machine they    *)
(* go to or come from; and a task that was published has no receipt left.  *)
(***************************************************************************)
Started(ts, m) == {t \in DOMAIN ts[m] : ts[m][t].started}

StartEventFits(d) == d.event = "ProcessStarted" /\ d.to \in ProcessContract

AssignEventFits(d) == d.event = "TaskAssigned" /\ d.from \in MachineContract

FinishEventFits(ts, d) ==
  /\ d.event = "TaskFinished" /\ d.to \in ProcessContract
  /\ d.from \in MachineContract /\ d.id \in Started(ts, d.from)
  /\ ts[d.from][d.id].finished
  /\ ts[d.from][d.id].status = d.status /\ d.status \in M!Finished
  /\ ts[d.from][d.id].taskName \in DOMAIN nextStep[d.to] \cup {lastTask[d.to]}

EventFits(ts, d) == StartEventFits(d) \/ AssignEventFits(d) \/ FinishEventFits(ts, d)

Code == Nat \cup {messageCode[m][name] : m \in MachineContract, name \in TaskNames}

AckOf(ts, m) == [task : Started(ts, m), code : Code]

EventsFit(ts, ds) == \A d \in ds : EventFits(ts, d)

ReceiptsFit(ts, rs) ==
  \A r \in rs : r = <<r[1], r[2]>> /\ r[1] \in MachineContract /\ r[2] \in Started(ts, r[1])

OrdersFit(ts, os) ==
  \A o \in os : o.machine \in MachineContract /\ o.task \in Started(ts, o.machine) /\ o.code \in Code

AcksFit(ts, as) ==
  /\ as \in [MachineContract -> [1 .. MaxCopies -> Seq([task : Nat, code : Code])]]
  /\ \A m \in MachineContract, c \in 1 .. MaxCopies : as[m][c] \in Seq(AckOf(ts, m))

PublishedFit(ts, ps) ==
  /\ ps \in [MachineContract -> Seq(Nat)]
  /\ \A m \in MachineContract : ps[m] \in Seq(Started(ts, m))

\* A task told and one still to be told are different.
ToldApart(rs, ps) ==
  \A m \in MachineContract :
    /\ \A i, j \in DOMAIN ps[m] : ps[m][i] = ps[m][j] => i = j
    /\ \A i \in DOMAIN ps[m] : <<m, ps[m][i]>> \notin rs

Messages(ts, ds, rs, os, as, ps) ==
  /\ EventsFit(ts, ds) /\ ReceiptsFit(ts, rs) /\ OrdersFit(ts, os) /\ AcksFit(ts, as)
  /\ PublishedFit(ts, ps) /\ ToldApart(rs, ps)

MessagesFit == Messages(tasks, deliveries, receipts, orders, acks, published)

FactoryInv == ChainInv /\ MessagesFit

\* Whatever happens to the tasks, the messages go on fitting.
LEMMA StartedStay ==
  ASSUME TasksMoved, NEW m \in MachineContract
  PROVE  Started(tasks, m) \subseteq Started(tasks', m)
BY DEF TasksMoved, TaskMoved, Started

LEMMA SeqOfMore ==
  ASSUME NEW S, NEW T, S \subseteq T, NEW s \in Seq(S)
  PROVE  s \in Seq(T)
OBVIOUS

LEMMA EventsStayFit ==
  ASSUME TasksMoved, NEW d, EventFits(tasks, d)
  PROVE  EventFits(tasks', d)
<1>1. CASE FinishEventFits(tasks, d)
  <2>1. /\ d.from \in MachineContract /\ d.id \in Started(tasks, d.from)
        /\ tasks[d.from][d.id].finished /\ d.id \in DOMAIN tasks[d.from]
        /\ tasks[d.from][d.id].started
    BY <1>1 DEF FinishEventFits, Started
  <2>2. TaskMoved(tasks[d.from][d.id], tasks'[d.from][d.id])
    BY <2>1 DEF TasksMoved
  <2>3. d.id \in Started(tasks', d.from)
    BY <2>1, StartedStay
  <2>4. FinishEventFits(tasks', d)
    BY <1>1, <2>1, <2>2, <2>3 DEF FinishEventFits, TaskMoved, SameJob
  <2> QED BY <2>4 DEF EventFits
<1> QED BY <1>1 DEF EventFits

LEMMA MessagesStayFit ==
  ASSUME TasksMoved, MessagesFit
  PROVE  Messages(tasks', deliveries, receipts, orders, acks, published)
<1>1. EventsFit(tasks', deliveries)
  BY EventsStayFit DEF MessagesFit, Messages, EventsFit
<1>2. ReceiptsFit(tasks', receipts)
  BY StartedStay DEF MessagesFit, Messages, ReceiptsFit
<1>3. OrdersFit(tasks', orders)
  BY StartedStay DEF MessagesFit, Messages, OrdersFit
<1>4. AcksFit(tasks', acks)
  <2> SUFFICES ASSUME NEW m \in MachineContract, NEW c \in 1 .. MaxCopies
               PROVE  acks[m][c] \in Seq(AckOf(tasks', m))
    BY DEF MessagesFit, Messages, AcksFit
  <2>1. AckOf(tasks, m) \subseteq AckOf(tasks', m)
    BY StartedStay DEF AckOf
  <2>2. acks[m][c] \in Seq(AckOf(tasks, m))
    BY DEF MessagesFit, Messages, AcksFit
  <2> QED BY <2>1, <2>2, SeqOfMore
<1>5. PublishedFit(tasks', published)
  <2> SUFFICES ASSUME NEW m \in MachineContract
               PROVE  published[m] \in Seq(Started(tasks', m))
    BY DEF MessagesFit, Messages, PublishedFit
  <2>1. published[m] \in Seq(Started(tasks, m))
    BY DEF MessagesFit, Messages, PublishedFit
  <2> QED BY <2>1, StartedStay, SeqOfMore
<1>6. ToldApart(receipts, published)
  BY DEF MessagesFit, Messages
<1> QED BY <1>1, <1>2, <1>3, <1>4, <1>5, <1>6 DEF Messages

LEMMA MessagesAfter ==
  Messages(tasks', deliveries', receipts', orders', acks', published') => MessagesFit'
BY DEF MessagesFit, Messages, EventsFit, EventFits, StartEventFits, AssignEventFits,
       FinishEventFits, ReceiptsFit, OrdersFit, AcksFit, AckOf, PublishedFit, Started, ToldApart

----
(***************************************************************************)
(* What an action of the gateway, its machines or the owners amounts to: a *)
(* step of the contracts as Contracts allows it, and messages that fit the *)
(* tasks as they are afterwards.                                           *)
(***************************************************************************)
GatewayStep ==
  /\ [Next]_vars
  /\ ChainStep
  /\ Messages(tasks', deliveries', receipts', orders', acks', published')

WorkStep == GatewayStep /\ ClientStep

LEMMA EventFields ==
  ASSUME NEW to, NEW event, NEW from, NEW id, NEW status, NEW d \in Event(to, event, from, id, status)
  PROVE  /\ d.to = to /\ d.event = event /\ d.from = from /\ d.id = id /\ d.status = status
BY DEF Event

\* An action that only takes and sends events.
LEMMA OnlyEvents ==
  ASSUME FactoryInv, ChainStep, [Next]_vars,
         \A d \in deliveries' : d \in deliveries \/ EventFits(tasks', d),
         UNCHANGED <<receipts, orders, acks, published>>
  PROVE  GatewayStep
<1>1. TasksMoved
  BY ChainMoves DEF FactoryInv
<1>2. Messages(tasks', deliveries, receipts, orders, acks, published)
  BY <1>1, MessagesStayFit DEF FactoryInv
<1>3. Messages(tasks', deliveries', receipts, orders, acks, published)
  BY <1>2 DEF Messages, EventsFit
<1>4. Messages(tasks', deliveries', receipts', orders', acks', published')
  BY <1>3
<1> QED BY <1>4 DEF GatewayStep

\* The same of a client's action.
LEMMA OnlyEventsOfWork ==
  ASSUME FactoryInv, ClientStep, [Next]_vars,
         \A d \in deliveries' : d \in deliveries \/ EventFits(tasks', d),
         UNCHANGED <<receipts, orders, acks, published>>
  PROVE  WorkStep
<1>1. ChainStep
  BY DEF ChainStep
<1> QED BY <1>1, OnlyEvents DEF WorkStep

LEMMA NothingOnChain ==
  ASSUME UNCHANGED chainVars
  PROVE  /\ [Next]_vars /\ ClientStep /\ ChainStep /\ tasks' = tasks
<1>1. UNCHANGED vars
  BY DEF chainVars
<1>2. UNCHANGED <<tasks, processVars, authVars>>
  BY <1>1 DEF vars, machineVars, taskVars, productVars
<1>3. ClientStep
  BY <1>2 DEF ClientStep, QuietStep
<1> QED BY <1>1, <1>2, <1>3 DEF ChainStep

----
\* The process clients.

LEMMA AssignedEventsFit ==
  ASSUME NEW ts, NEW d \in TaskAssignedEvents
  PROVE  EventFits(ts, d)
<1>1. PICK m \in MachineContract : d \in UNION {Event(m, "TaskAssigned", m, t, None) : t \in NewTasks(m)}
  BY DEF TaskAssignedEvents
<1>2. PICK t \in NewTasks(m) : d \in Event(m, "TaskAssigned", m, t, None)
  BY <1>1
<1>3. d.event = "TaskAssigned" /\ d.from = m
  BY <1>2, EventFields
<1> QED BY <1>3 DEF EventFits, AssignEventFits

LEMMA StepTried ==
  ASSUME FactoryInv, NEW d, NEW k \in ProcessContract, NEW n, NEW s \in 1 .. getNumberOfSteps(k),
         Justified(k, n, s), TryStep(k, n, s, deliveries \ {d}),
         UNCHANGED <<receipts, orders, acks, published>>
  PROVE  WorkStep
<1>1. CASE canStep(k, n, s, "processOwner")
  <2>1. step(k, n, s, "processOwner") /\ deliveries' = (deliveries \ {d}) \cup TaskAssignedEvents
    BY <1>1 DEF TryStep
  <2>2. n \in DOMAIN instances[k]
    BY <1>1 DEF canStep, processInstanceExists
  <2>3. ClientStep
    BY <2>1, <2>2 DEF ClientStep, StepStep
  <2>4. [Next]_vars
    BY <2>1, <2>2 DEF Next, ProcessOwnerCalls
  <2>5. \A e \in deliveries' : e \in deliveries \/ EventFits(tasks', e)
    BY <2>1, AssignedEventsFit
  <2> QED BY <2>3, <2>4, <2>5, OnlyEventsOfWork
<1>2. CASE ~canStep(k, n, s, "processOwner")
  <2>1. UNCHANGED chainVars /\ deliveries' = deliveries \ {d}
    BY <1>2 DEF TryStep
  <2> QED BY <2>1, NothingOnChain, OnlyEventsOfWork
<1> QED BY <1>1, <1>2

LEMMA FinishTried ==
  ASSUME FactoryInv, NEW d, NEW k \in ProcessContract, NEW n, NEW status \in M!Finished,
         TryFinishProcess(k, n, status, deliveries \ {d}),
         status = "FinishedSuccessfully" =>
           \E i \in OfStepIn(tasks, k, n, getNumberOfSteps(k)) :
           tasks[i[1]][i[2]].finished /\ tasks[i[1]][i[2]].status \in M!Finished,
         status = "FinishedUnsuccessfully" =>
           \E s \in 1 .. getNumberOfSteps(k) : \E i \in OfStepIn(tasks, k, n, s) :
             tasks[i[1]][i[2]].status = "FinishedUnsuccessfully",
         UNCHANGED <<receipts, orders, acks, published>>
  PROVE  WorkStep
<1>0. deliveries' = deliveries \ {d}
  BY DEF TryFinishProcess
<1>1. CASE processInstanceExists(k, n) /\ ~instances[k][n].finished
  <2>1. finishProcess(k, n, status, "processOwner")
    BY <1>1 DEF TryFinishProcess
  <2>2. n \in DOMAIN instances[k]
    BY <1>1 DEF processInstanceExists
  <2>3. EndStep(k, n, status)
    BY <2>1 DEF finishProcess, EndStep
  <2>4. ClientStep
    BY <2>2, <2>3 DEF ClientStep
  <2>5. [Next]_vars
    BY <2>1, <2>2 DEF Next, ProcessOwnerCalls
  <2> QED BY <1>0, <2>4, <2>5, OnlyEventsOfWork
<1>2. CASE ~(processInstanceExists(k, n) /\ ~instances[k][n].finished)
  <2>1. UNCHANGED chainVars
    BY <1>2 DEF TryFinishProcess
  <2> QED BY <1>0, <2>1, NothingOnChain, OnlyEventsOfWork
<1> QED BY <1>1, <1>2

LEMMA EventKinds ==
  ASSUME FactoryInv, NEW d \in deliveries
  PROVE  /\ d.event = "ProcessStarted" => d.to \in ProcessContract
         /\ d.event = "TaskAssigned" => d.from \in MachineContract
         /\ d.event = "TaskFinished" => FinishEventFits(tasks, d)
<1>1. EventFits(tasks, d)
  BY DEF FactoryInv, MessagesFit, Messages, EventsFit
<1> QED BY <1>1 DEF EventFits, StartEventFits, AssignEventFits, FinishEventFits

LEMMA ProcessStartedHandled ==
  ASSUME FactoryInv, NEW d \in deliveries, onProcessStarted(d)
  PROVE  WorkStep
<1>1. d.to \in ProcessContract
  BY EventKinds DEF onProcessStarted
<1>2. 1 \in 1 .. getNumberOfSteps(d.to)
  BY <1>1, NextSteps
<1>3. Justified(d.to, d.id, 1)
  BY DEF Justified
<1>4. /\ TryStep(d.to, d.id, 1, deliveries \ {d})
      /\ UNCHANGED <<receipts, orders, acks, published>>
  BY DEF onProcessStarted
<1> QED BY <1>1, <1>2, <1>3, <1>4, StepTried

\* The name of a finished task tells its process and its step.
LEMMA EventTells ==
  ASSUME FactoryInv, NEW d, FinishEventFits(tasks, d),
         NEW r \in 1 .. getNumberOfSteps(d.to),
         StepName(d.to, r) = tasks[d.from][d.id].taskName
  PROVE  <<d.from, d.id>> \in OfStepIn(tasks, d.to, tasks[d.from][d.id].processID, r)
<1> DEFINE task == tasks[d.from][d.id]
           k == d.to
<1>1. k \in ProcessContract /\ d.from \in MachineContract /\ d.id \in DOMAIN tasks[d.from]
  BY DEF FinishEventFits, Started
<1>2. TaskFits(task) /\ task.processContractAddress \in ProcessContract
  BY <1>1 DEF FactoryInv, ChainInv, TasksFit, IInv, TasksNameProcesses
<1>3. task.taskName # "StoreContainer"
  BY <1>1, NamesTell
<1>4. PICK s \in 1 .. getNumberOfSteps(task.processContractAddress) :
        task.taskName = StepName(task.processContractAddress, s)
  BY <1>2, <1>3 DEF TaskFits, OfStep
<1>5. task.processContractAddress = k
  BY <1>1, <1>2, <1>4, NamesTell
<1>6. Named(tasks, k, task.processID, StepName(k, r), d.from, d.id)
  BY <1>1, <1>5 DEF Named
<1> QED BY <1>6, InAllNamed DEF OfStepIn

LEMMA TaskFinishedHandled ==
  ASSUME FactoryInv, NEW d \in deliveries, onTaskFinished(d)
  PROVE  WorkStep
<1> DEFINE k == d.to
           task == tasks[d.from][d.id]
           n == task.processID
           name == task.taskName
           N == getNumberOfSteps(k)
<1>0. /\ FinishEventFits(tasks, d) /\ UNCHANGED <<receipts, orders, acks, published>>
  BY EventKinds DEF onTaskFinished
<1>1. /\ k \in ProcessContract /\ task.finished /\ task.status = d.status /\ d.status \in M!Finished
      /\ name \in DOMAIN nextStep[k] \cup {lastTask[k]}
  BY <1>0 DEF FinishEventFits
<1>2. /\ CASE name = lastTask[k] -> TryFinishProcess(k, n, "FinishedSuccessfully", deliveries \ {d})
           [] name \in DOMAIN nextStep[k] /\ d.status = "FinishedUnsuccessfully" ->
                TryFinishProcess(k, n, "FinishedUnsuccessfully", deliveries \ {d})
           [] name \in DOMAIN nextStep[k] /\ d.status # "FinishedUnsuccessfully" ->
                TryStep(k, n, nextStep[k][name], deliveries \ {d})
  BY DEF onTaskFinished, Task
<1>3. "FinishedSuccessfully" \in M!Finished /\ "FinishedUnsuccessfully" \in M!Finished
  BY DEF M!Finished
<1>4. \A r \in 1 .. N : StepName(k, r) = name => <<d.from, d.id>> \in OfStepIn(tasks, k, n, r)
  BY <1>0, EventTells
<1>5. CASE name = lastTask[k]
  <2>1. TryFinishProcess(k, n, "FinishedSuccessfully", deliveries \ {d})
    BY <1>1, <1>2, <1>5, NextSteps
  <2>2. <<d.from, d.id>> \in OfStepIn(tasks, k, n, N)
    BY <1>1, <1>4, <1>5, NextSteps
  <2>3. \E i \in OfStepIn(tasks, k, n, N) :
          tasks[i[1]][i[2]].finished /\ tasks[i[1]][i[2]].status \in M!Finished
    BY <1>1, <2>2
  <2> QED BY <1>0, <1>1, <1>3, <2>1, <2>3, FinishTried
<1>6. CASE name \in DOMAIN nextStep[k]
  <2> DEFINE s == nextStep[k][name]
  <2>0. /\ name # lastTask[k] /\ s \in 1 .. N /\ s - 1 \in 1 .. N /\ StepName(k, s - 1) = name
    BY <1>1, <1>6, NextSteps
  <2>1. <<d.from, d.id>> \in OfStepIn(tasks, k, n, s - 1)
    BY <1>4, <2>0
  <2>2. CASE d.status = "FinishedUnsuccessfully"
    <3>1. TryFinishProcess(k, n, "FinishedUnsuccessfully", deliveries \ {d})
      BY <1>2, <1>6, <2>0, <2>2
    <3>2. \E i \in OfStepIn(tasks, k, n, s - 1) : tasks[i[1]][i[2]].status = "FinishedUnsuccessfully"
      BY <1>1, <2>1, <2>2
    <3>3. \E r \in 1 .. N : \E i \in OfStepIn(tasks, k, n, r) :
            tasks[i[1]][i[2]].status = "FinishedUnsuccessfully"
      BY <2>0, <3>2
    <3> QED BY <1>0, <1>1, <1>3, <3>1, <3>3, FinishTried
  <2>3. CASE d.status # "FinishedUnsuccessfully"
    <3>1. TryStep(k, n, s, deliveries \ {d})
      BY <1>2, <1>6, <2>0, <2>3
    <3>2. d.status = "FinishedSuccessfully"
      BY <1>1, <2>3 DEF M!Finished
    <3>3. \E i \in OfStepIn(tasks, k, n, s - 1) : tasks[i[1]][i[2]].status = "FinishedSuccessfully"
      BY <1>1, <2>1, <3>2
    <3>4. Justified(k, n, s)
      BY <2>0, <3>3 DEF Justified
    <3> QED BY <1>0, <1>1, <2>0, <3>1, <3>4, StepTried
  <2> QED BY <2>2, <2>3
<1> QED BY <1>1, <1>5, <1>6

----
\* The machine clients.

\* A call of a client or of the machines' owner that changes task t of m to task.
LEMMA CallIsStep ==
  ASSUME FactoryInv, NEW m \in MachineContract, NEW t \in DOMAIN tasks[m], TaskCall(m, t),
         FinishesStarted(m, t), UNCHANGED processVars
  PROVE  /\ ChainStep /\ TasksMoved
         /\ Settles(m, t) /\ UNCHANGED authVars => ClientStep
<1>1. CallStep
  BY DEF CallStep
<1>2. MM!IInv
  BY DEF FactoryInv, ChainInv, IInv
<1>3. Settles(m, t) /\ UNCHANGED authVars => ClientStep
  BY DEF ClientStep, SettlingStep
<1> QED BY <1>1, <1>2, <1>3, CallMoves DEF ChainStep

LEMMA TaskAfter ==
  ASSUME FactoryInv, NEW m \in MachineContract, NEW t \in DOMAIN tasks[m]
  PROVE  /\ t \in Nat /\ tasks[m][t] \in MM!Task
         /\ M!startTask(m, t, machineDID[m]) => tasks'[m][t] = [tasks[m][t] EXCEPT !.status = "Started", !.started = TRUE]
         /\ \A status, note :
              M!finishTask(m, t, status, note, machineDID[m]) =>
                tasks'[m][t] = [tasks[m][t] EXCEPT !.status = status, !.finished = TRUE, !.finishNote = note]
         /\ M!killTask(m, t, "machineOwner") => tasks'[m][t] = [tasks[m][t] EXCEPT !.status = "Killed", !.finished = TRUE]
<1>1. MM!IInv
  BY DEF FactoryInv, ChainInv, IInv
<1>2. tasks \in [MachineContract -> Seq(MM!Task)]
  BY <1>1 DEF MM!IInv, MM!TypeOK
<1>3. t \in Nat /\ tasks[m][t] \in MM!Task
  BY <1>1, MachineTaskTyped
<1>4. M!startTask(m, t, machineDID[m]) => tasks'[m][t] = [tasks[m][t] EXCEPT !.status = "Started", !.started = TRUE]
  BY <1>2 DEF M!startTask
<1>5. \A status, note :
        M!finishTask(m, t, status, note, machineDID[m]) =>
          tasks'[m][t] = [tasks[m][t] EXCEPT !.status = status, !.finished = TRUE, !.finishNote = note]
  BY <1>2 DEF M!finishTask, M!TaskFinishedWith
<1>6. M!killTask(m, t, "machineOwner") => tasks'[m][t] = [tasks[m][t] EXCEPT !.status = "Killed", !.finished = TRUE]
  BY <1>2 DEF M!killTask
<1> QED BY <1>3, <1>4, <1>5, <1>6

\* The client that starts a task gets a receipt, which nobody told the machine of.
LEMMA TaskAssignedHandled ==
  ASSUME FactoryInv, NEW d \in deliveries, onNewTaskAssigned(d)
  PROVE  WorkStep
<1> DEFINE m == d.from
           t == d.id
<1>0. m \in MachineContract
  BY EventKinds DEF onNewTaskAssigned
<1>1. deliveries' = deliveries \ {d} /\ UNCHANGED <<orders, acks, published>>
  BY DEF onNewTaskAssigned
<1>2. CASE ~tasks[m][t].started
  <2>1. /\ M!startTask(m, t, machineDID[m]) /\ UNCHANGED <<productVars, processVars>>
        /\ receipts' = receipts \cup {<<m, t>>}
    BY <1>2 DEF onNewTaskAssigned, Task
  <2>2. t \in DOMAIN tasks[m]
    BY <2>1 DEF M!startTask, M!taskExists
  <2>3. tasks[m][t] \in MM!Task
        /\ tasks'[m][t] = [tasks[m][t] EXCEPT !.status = "Started", !.started = TRUE]
    BY <1>0, <2>1, <2>2, TaskAfter
  <2>4. tasks'[m][t].started
    BY <2>3 DEF MM!Task
  <2>5. TaskCall(m, t) /\ FinishesStarted(m, t)
    BY <2>1, <2>4 DEF TaskCall, FinishesStarted
  <2>13. Settles(m, t) /\ UNCHANGED authVars
    <3>1. tasks'[m][t].finished = tasks[m][t].finished
      BY <2>3 DEF MM!Task
    <3> QED BY <1>2, <2>1, <3>1 DEF Settles, productVars
  <2>6. ChainStep /\ TasksMoved /\ ClientStep
    BY <1>0, <2>1, <2>2, <2>5, <2>13, CallIsStep
  <2>7. [Next]_vars
    BY <1>0, <2>1, <2>2 DEF Next, MachineCalls
  <2>8. Messages(tasks', deliveries, receipts, orders, acks, published)
    BY <2>6, MessagesStayFit DEF FactoryInv
  <2>9. EventsFit(tasks', deliveries')
    BY <1>1, <2>8 DEF Messages, EventsFit
  <2>10. ReceiptsFit(tasks', receipts')
    <3>1. t \in Started(tasks', m)
      BY <1>0, <2>2, <2>4, <2>6 DEF TasksMoved, Started
    <3> QED BY <1>0, <2>1, <2>8, <3>1 DEF Messages, ReceiptsFit
  <2>11. ToldApart(receipts', published')
    <3> SUFFICES ASSUME NEW o \in MachineContract, NEW i \in DOMAIN published[o]
                 PROVE  <<o, published[o][i]>> # <<m, t>>
      BY <1>1, <2>1, <2>8 DEF Messages, ToldApart
    <3>1. published[o] \in Seq(Started(tasks, o))
      BY DEF FactoryInv, MessagesFit, Messages, PublishedFit
    <3>2. published[o][i] \in Started(tasks, o)
      BY <3>1, ElementOfSeq, LenProperties
    <3> QED BY <1>2, <3>2 DEF Started
  <2>12. Messages(tasks', deliveries', receipts', orders', acks', published')
    BY <1>1, <2>8, <2>9, <2>10, <2>11 DEF Messages
  <2> QED BY <2>6, <2>7, <2>12 DEF GatewayStep, WorkStep
<1>3. CASE tasks[m][t].started
  <2>1. UNCHANGED chainVars /\ receipts' = receipts
    BY <1>3 DEF onNewTaskAssigned, Task
  <2> QED BY <1>1, <2>1, NothingOnChain, OnlyEventsOfWork
<1> QED BY <1>2, <1>3

LEMMA UpToNext == \A l \in Nat : \A i \in 1 .. l + 1 : i \in 1 .. l \/ i = l + 1
OBVIOUS

\* What is published leaves the receipts.
LEMMA TaskSent ==
  ASSUME FactoryInv, NEW r \in receipts, sendTask(r)
  PROVE  WorkStep
<1> DEFINE m == r[1]
           t == r[2]
<1>0. /\ [Next]_vars /\ ChainStep /\ ClientStep /\ tasks' = tasks
      /\ deliveries' = deliveries /\ acks' = acks
      /\ receipts' = receipts \ {r}
      /\ published' = [published EXCEPT ![m] = Append(@, t)]
  BY NothingOnChain DEF sendTask
<1>1. /\ r = <<m, t>> /\ m \in MachineContract /\ t \in Started(tasks, m)
      /\ t \in DOMAIN tasks[m]
  BY DEF FactoryInv, MessagesFit, Messages, ReceiptsFit, Started
<1>2. Messages(tasks, deliveries, receipts, orders, acks, published)
  BY DEF FactoryInv, MessagesFit
<1>3. t \in Nat /\ tasks[m][t].taskName \in TaskNames
  BY <1>1, TaskAfter DEF MM!Task
<1>4. OrdersFit(tasks, orders')
  <2>1. messageCode[m][tasks[m][t].taskName] \in Code
    BY <1>1, <1>3 DEF Code
  <2>2. \A o \in orders' :
          \/ o \in orders
          \/ o.machine = m /\ o.task = t /\ o.code = messageCode[m][tasks[m][t].taskName]
    <3> DEFINE code == messageCode[m][tasks[m][t].taskName]
    <3>1. \A o \in orders' : \/ o \in orders
                             \/ \E c \in 1 .. copies :
                                  o = [machine |-> m, task |-> t, code |-> code, copy |-> c]
      BY Zenon DEF sendTask, Task
    <3> HIDE DEF m, t, code
    <3>2. ASSUME NEW o \in orders', o \notin orders
          PROVE  o.machine = m /\ o.task = t /\ o.code = code
      BY <3>1, <3>2
    <3> QED BY <3>2 DEF code
  <2> QED BY <1>1, <1>2, <2>1, <2>2 DEF Messages, OrdersFit
<1>5. PublishedFit(tasks, published) /\ ToldApart(receipts, published)
  BY <1>2 DEF Messages
<1>6. published[m] \in Seq(Nat) /\ published[m] \in Seq(Started(tasks, m))
  BY <1>1, <1>5 DEF PublishedFit
<1>7. Append(published[m], t) \in Seq(Nat) /\ Append(published[m], t) \in Seq(Started(tasks, m))
  BY <1>1, <1>3, <1>6, AppendProperties
<1>8. \A o \in MachineContract :
        published'[o] = IF o = m THEN Append(published[m], t) ELSE published[o]
  BY <1>0, <1>5 DEF PublishedFit
<1>9. PublishedFit(tasks, published')
  BY <1>0, <1>5, <1>7, <1>8 DEF PublishedFit
<1>10. ToldApart(receipts', published')
  <2>1. /\ DOMAIN Append(published[m], t) = 1 .. Len(published[m]) + 1
        /\ DOMAIN published[m] = 1 .. Len(published[m]) /\ Len(published[m]) \in Nat
        /\ Append(published[m], t)[Len(published[m]) + 1] = t
        /\ \A i \in 1 .. Len(published[m]) : Append(published[m], t)[i] = published[m][i]
    BY <1>3, <1>6, AppendProperties, LenProperties
  <2>2. \A i \in DOMAIN published'[m] :
          \/ i \in DOMAIN published[m] /\ published'[m][i] = published[m][i]
          \/ i = Len(published[m]) + 1 /\ published'[m][i] = t
    <3> DEFINE l == Len(published[m])
    <3>1. published'[m] = Append(published[m], t)
      BY <1>1, <1>8
    <3>2. \A i \in 1 .. l + 1 : i \in 1 .. l \/ i = l + 1
      BY <2>1, UpToNext
    <3> QED BY <2>1, <3>1, <3>2, Zenon
  <2>3. \A i \in DOMAIN published[m] : published[m][i] # t
    BY <1>1, <1>5 DEF ToldApart
  <2>4. ASSUME NEW o \in MachineContract, NEW i \in DOMAIN published'[o]
        PROVE  /\ \A j \in DOMAIN published'[o] : published'[o][i] = published'[o][j] => i = j
               /\ <<o, published'[o][i]>> \notin receipts'
    <3>1. CASE o = m
      <4>1. \A j \in DOMAIN published'[o] : published'[o][i] = published'[o][j] => i = j
        BY <1>1, <1>5, <2>2, <2>3, <2>4, <3>1 DEF ToldApart
      <4>2. <<o, published'[o][i]>> \notin receipts'
        BY <1>0, <1>1, <1>5, <2>2, <2>4, <3>1 DEF ToldApart
      <4> QED BY <4>1, <4>2
    <3>2. CASE o # m
      BY <1>0, <1>5, <1>8, <2>4, <3>2 DEF ToldApart
    <3> QED BY <3>1, <3>2
  <2> QED BY <2>4 DEF ToldApart
<1>11. ReceiptsFit(tasks, receipts')
  BY <1>0, <1>2 DEF Messages, ReceiptsFit
<1>12. Messages(tasks, deliveries, receipts', orders', acks, published')
  BY <1>2, <1>4, <1>9, <1>10, <1>11 DEF Messages
<1>13. Messages(tasks', deliveries', receipts', orders', acks', published')
  BY <1>0, <1>12
<1> QED BY <1>0, <1>13 DEF GatewayStep, WorkStep

----
\* What a client does with an acknowledgement, apart from taking it.
AckEffect ==
  /\ [Next]_vars
  /\ ClientStep
  /\ \A d \in deliveries' : d \in deliveries \/ EventFits(tasks', d)

LEMMA NothingDone ==
  ASSUME UNCHANGED <<chainVars, deliveries>>
  PROVE  AckEffect
BY NothingOnChain DEF AckEffect

\* The events of a task that its client finishes tell how it ended.
LEMMA FinishedEventsFit ==
  ASSUME FactoryInv, NEW m \in MachineContract, NEW t \in Started(tasks, m),
         NEW status \in M!Finished, NEW note \in Note,
         M!finishTask(m, t, status, note, machineDID[m]), UNCHANGED <<processVars, authVars>>
  PROVE  ClientStep /\ \A d \in TaskFinishedEvents(m, t) : EventFits(tasks', d)
<1>0. t \in DOMAIN tasks[m] /\ tasks[m][t].started
  BY DEF Started
<1>1. /\ tasks[m][t] \in MM!Task
      /\ tasks'[m][t] = [tasks[m][t] EXCEPT !.status = status, !.finished = TRUE, !.finishNote = note]
  <2>1. /\ tasks[m][t] \in MM!Task
        /\ \A st, no :
             M!finishTask(m, t, st, no, machineDID[m]) =>
               tasks'[m][t] = [tasks[m][t] EXCEPT !.status = st, !.finished = TRUE, !.finishNote = no]
    BY <1>0, TaskAfter
  <2> QED BY <2>1, Zenon
<1>2. /\ tasks'[m][t].started /\ tasks'[m][t].finished /\ tasks'[m][t].status = status
      /\ tasks'[m][t].taskName = tasks[m][t].taskName
  BY <1>0, <1>1 DEF MM!Task
<1>3. TaskCall(m, t) /\ FinishesStarted(m, t) /\ Settles(m, t)
  BY <1>2 DEF TaskCall, FinishesStarted, Settles
<1>4. ClientStep /\ TasksMoved
  BY <1>0, <1>3, CallIsStep
<1>5. t \in Started(tasks', m)
  BY <1>0, <1>2, <1>4 DEF TasksMoved, Started
<1>6. ASSUME NEW d \in TaskFinishedEvents(m, t)
      PROVE  EventFits(tasks', d)
  <2>1. PICK k \in ProcessContract :
          /\ tasks[m][t].taskName \in DOMAIN nextStep[k] \cup {lastTask[k]}
          /\ d \in Event(k, "TaskFinished", m, t, tasks'[m][t].status)
    BY <1>6 DEF TaskFinishedEvents, Task
  <2>2. /\ d.to = k /\ d.event = "TaskFinished" /\ d.from = m /\ d.id = t
        /\ d.status = tasks'[m][t].status
    BY <2>1, EventFields
  <2>3. FinishEventFits(tasks', d)
    BY <1>2, <1>5, <2>1, <2>2 DEF FinishEventFits
  <2> QED BY <2>3 DEF EventFits
<1> QED BY <1>4, <1>6

LEMMA TaskFinishTried ==
  ASSUME FactoryInv, NEW m \in MachineContract, NEW t \in Started(tasks, m),
         NEW status \in M!Finished, NEW note \in Note, TryFinishTask(m, t, status, note)
  PROVE  AckEffect
<1>1. CASE ~tasks[m][t].finished
  <2>1. /\ M!finishTask(m, t, status, note, machineDID[m])
        /\ deliveries' = deliveries \cup TaskFinishedEvents(m, t)
        /\ UNCHANGED <<productVars, processVars>>
    BY <1>1 DEF TryFinishTask, Task
  <2>2. t \in DOMAIN tasks[m]
    BY DEF Started
  <2>3. [Next]_vars
    BY <2>1, <2>2 DEF Next, MachineCalls
  <2>4. ClientStep /\ \A d \in TaskFinishedEvents(m, t) : EventFits(tasks', d)
    BY <2>1, FinishedEventsFit DEF productVars
  <2> QED BY <2>1, <2>3, <2>4 DEF AckEffect
<1>2. CASE tasks[m][t].finished
  BY <1>2, NothingDone DEF TryFinishTask, Task
<1> QED BY <1>1, <1>2

LEMMA Successful == "FinishedSuccessfully" \in M!Finished /\ "FinishedUnsuccessfully" \in M!Finished
BY DEF M!Finished

LEMMA AccountsOfMachines ==
  /\ "VGR" \in MachineContract /\ machineDID["VGR"] = "VGR_DID"
  /\ "MPO" \in MachineContract /\ machineDID["MPO"] = "MPO_DID"
  /\ "SLD" \in MachineContract /\ machineDID["SLD"] = "SLD_DID"
  /\ "HBW" \in MachineContract
BY DEF MachineContract, machineDID

LEMMA GetInfoFinishTried ==
  ASSUME FactoryInv, NEW t \in Started(tasks, "VGR"), TryFinishGetInfo(t)
  PROVE  AckEffect
<1>1. CASE canSaveOperation("VGR", t, "VGR_DID") /\ ~tasks["VGR"][t].finished
  <2>1. PICK tag \in Tag : \E color \in Color : finishGetInfoTask(t, tag, color, machineDID["VGR"])
    BY <1>1, AccountsOfMachines DEF TryFinishGetInfo, Task
  <2>2. PICK color \in Color : finishGetInfoTask(t, tag, color, machineDID["VGR"])
    BY <2>1
  <2>3. t \in DOMAIN tasks["VGR"]
    BY DEF Started
  <2>4. MachineCalls
    BY <2>2, <2>3, AccountsOfMachines DEF MachineCalls
  <2>5. /\ M!finishTask("VGR", t, "FinishedSuccessfully", "", machineDID["VGR"])
        /\ UNCHANGED <<processVars, authVars>>
    BY <2>2 DEF finishGetInfoTask
  <2>6. ClientStep /\ \A d \in TaskFinishedEvents("VGR", t) : EventFits(tasks', d)
    BY <2>5, FinishedEventsFit, Successful, AccountsOfMachines, ContractsAssumption
  <2>7. deliveries' = deliveries \cup TaskFinishedEvents("VGR", t)
    BY <1>1 DEF TryFinishGetInfo, Task
  <2> QED BY <2>4, <2>6, <2>7 DEF AckEffect, Next
<1>2. CASE ~(canSaveOperation("VGR", t, "VGR_DID") /\ ~tasks["VGR"][t].finished)
  BY <1>2, NothingDone DEF TryFinishGetInfo, Task
<1> QED BY <1>1, <1>2

LEMMA SortingFinishTried ==
  ASSUME FactoryInv, NEW t \in Started(tasks, "SLD"), TryFinishSorting(t)
  PROVE  AckEffect
<1>1. CASE canSaveOperation("SLD", t, "SLD_DID") /\ ~tasks["SLD"][t].finished
  <2>1. PICK color \in Color : finishSorting(t, color, machineDID["SLD"])
    BY <1>1, AccountsOfMachines DEF TryFinishSorting, Task
  <2>2. t \in DOMAIN tasks["SLD"]
    BY DEF Started
  <2>3. MachineCalls
    BY <2>1, <2>2, AccountsOfMachines DEF MachineCalls
  <2>4. /\ M!finishTask("SLD", t, "FinishedSuccessfully", "", machineDID["SLD"])
        /\ UNCHANGED <<processVars, authVars>>
    BY <2>1 DEF finishSorting
  <2>5. ClientStep /\ \A d \in TaskFinishedEvents("SLD", t) : EventFits(tasks', d)
    BY <2>4, FinishedEventsFit, Successful, AccountsOfMachines, ContractsAssumption
  <2>6. deliveries' = deliveries \cup TaskFinishedEvents("SLD", t)
    BY <1>1 DEF TryFinishSorting, Task
  <2> QED BY <2>3, <2>5, <2>6 DEF AckEffect, Next
<1>2. CASE ~(canSaveOperation("SLD", t, "SLD_DID") /\ ~tasks["SLD"][t].finished)
  BY <1>2, NothingDone DEF TryFinishSorting, Task
<1> QED BY <1>1, <1>2

LEMMA OperationSaveTried ==
  ASSUME FactoryInv, NEW t \in Started(tasks, "MPO"), NEW name \in DOMAIN MPOResult,
         TrySaveOperation(t, name)
  PROVE  AckEffect
<1>0. deliveries' = deliveries
  BY DEF TrySaveOperation
<1>1. CASE canSaveOperation("MPO", t, "MPO_DID")
  <2>1. saveProductOperation("MPO", t, name, MPOResult[name], machineDID["MPO"])
    BY <1>1, AccountsOfMachines DEF TrySaveOperation
  <2>2. t \in DOMAIN tasks["MPO"]
    BY DEF Started
  <2>3. MachineCalls
    BY <2>1, <2>2, AccountsOfMachines DEF MachineCalls
  <2>4. UNCHANGED <<machineVars, processVars, authVars>>
    BY <2>1 DEF saveProductOperation
  <2>5. ClientStep
    BY <2>4 DEF ClientStep, QuietStep, machineVars, taskVars
  <2> QED BY <1>0, <2>3, <2>5 DEF AckEffect, Next
<1>2. CASE ~canSaveOperation("MPO", t, "MPO_DID")
  BY <1>0, <1>2, NothingDone DEF TrySaveOperation
<1> QED BY <1>1, <1>2

LEMMA AckActedOn ==
  ASSUME FactoryInv, NEW m \in MachineContract, NEW a, a.task \in Started(tasks, m),
         CASE m = "VGR" -> vgrAckReceived(a)
           [] m = "HBW" -> hbwAckReceived(a)
           [] m = "MPO" -> mpoAckReceived(a)
           [] m = "SLD" -> sldAckReceived(a)
  PROVE  AckEffect
<1>1. FailureNote \in Note
  BY ContractsAssumption DEF FailureNote
<1>2. Failed(m, a) => AckEffect
  BY <1>1, Successful, TaskFinishTried DEF Failed
<1>3. Done(m, a) => AckEffect
  BY <1>1, Successful, TaskFinishTried DEF Done
<1>4. CASE m = "VGR"
  <2>1. vgrAckReceived(a)
    BY <1>4
  <2>2. Failed(m, a) \/ TryFinishGetInfo(a.task) \/ Done(m, a)
    BY <1>4, <2>1 DEF vgrAckReceived
  <2> QED BY <1>2, <1>3, <1>4, <2>2, GetInfoFinishTried
<1>5. CASE m = "HBW"
  <2>1. hbwAckReceived(a)
    BY <1>5
  <2> QED BY <1>2, <1>3, <1>5, <2>1 DEF hbwAckReceived
<1>6. CASE m = "MPO"
  <2>1. mpoAckReceived(a)
    BY <1>6
  <2>2. \/ TrySaveOperation(a.task, "Melting") \/ TrySaveOperation(a.task, "Milling")
        \/ Done(m, a) \/ UNCHANGED <<chainVars, deliveries>>
    BY <1>6, <2>1 DEF mpoAckReceived
  <2>3. {"Melting", "Milling"} \subseteq DOMAIN MPOResult
    BY DEF MPOResult
  <2>4. TrySaveOperation(a.task, "Melting") \/ TrySaveOperation(a.task, "Milling") => AckEffect
    BY <1>6, <2>3, OperationSaveTried
  <2> QED BY <1>3, <2>2, <2>4, NothingDone
<1>7. CASE m = "SLD"
  <2>1. sldAckReceived(a)
    BY <1>7
  <2>2. Failed(m, a) \/ TryFinishSorting(a.task) \/ UNCHANGED <<chainVars, deliveries>>
    BY <1>7, <2>1 DEF sldAckReceived
  <2> QED BY <1>2, <1>7, <2>2, NothingDone, SortingFinishTried
<1> QED BY <1>4, <1>5, <1>6, <1>7 DEF MachineContract

----
\* The acknowledgements after one row of copies changed.

LEMMA AcksReplaced ==
  ASSUME NEW ts \in [MachineContract -> Seq(MM!Task)], NEW as, AcksFit(ts, as),
         NEW m \in MachineContract, NEW row \in [1 .. MaxCopies -> Seq(AckOf(ts, m))]
  PROVE  AcksFit(ts, [as EXCEPT ![m] = row])
<1>1. AckOf(ts, m) \subseteq [task : Nat, code : Code]
  <2>1. Started(ts, m) \subseteq Nat
    BY LenProperties DEF Started
  <2> QED BY <2>1 DEF AckOf
<1>2. row \in [1 .. MaxCopies -> Seq([task : Nat, code : Code])]
  <2>1. \A s \in Seq(AckOf(ts, m)) : s \in Seq([task : Nat, code : Code])
    BY <1>1, SeqOfMore
  <2> QED BY <2>1
<1>3. \A o \in MachineContract : [as EXCEPT ![m] = row][o] = IF o = m THEN row ELSE as[o]
  BY DEF AcksFit
<1>4. [as EXCEPT ![m] = row] \in [MachineContract -> [1 .. MaxCopies -> Seq([task : Nat, code : Code])]]
  BY <1>2 DEF AcksFit
<1>5. ASSUME NEW o \in MachineContract, NEW c \in 1 .. MaxCopies
      PROVE  [as EXCEPT ![m] = row][o][c] \in Seq(AckOf(ts, o))
  <2>1. CASE o = m
    BY <1>3, <2>1
  <2>2. CASE o # m
    BY <1>3, <2>2 DEF AcksFit
  <2> QED BY <2>1, <2>2
<1> QED BY <1>4, <1>5 DEF AcksFit

LEMMA TasksTyped ==
  ASSUME FactoryInv
  PROVE  tasks \in [MachineContract -> Seq(MM!Task)]
BY DEF FactoryInv, ChainInv, IInv, MM!IInv, MM!TypeOK

\* Taking the first acknowledgement of a copy's queue.
LEMMA AckTaken ==
  ASSUME NEW ts \in [MachineContract -> Seq(MM!Task)], NEW as, AcksFit(ts, as),
         NEW m \in MachineContract, NEW c \in 1 .. MaxCopies, as[m][c] # <<>>
  PROVE  /\ Head(as[m][c]) \in AckOf(ts, m)
         /\ AcksFit(ts, [as EXCEPT ![m][c] = Tail(@)])
<1>1. as[m][c] \in Seq(AckOf(ts, m))
  BY DEF AcksFit
<1>2. Head(as[m][c]) \in AckOf(ts, m) /\ Tail(as[m][c]) \in Seq(AckOf(ts, m))
  BY <1>1, HeadTailProperties
<1> DEFINE row == [as[m] EXCEPT ![c] = Tail(as[m][c])]
<1>3. row \in [1 .. MaxCopies -> Seq(AckOf(ts, m))]
  <2>1. /\ DOMAIN as[m] = 1 .. MaxCopies /\ row = [d \in 1 .. MaxCopies |-> row[d]]
        /\ \A d \in 1 .. MaxCopies : row[d] = IF d = c THEN Tail(as[m][c]) ELSE as[m][d]
    BY DEF AcksFit
  <2>2. \A d \in 1 .. MaxCopies : row[d] \in Seq(AckOf(ts, m))
    BY <1>2, <2>1 DEF AcksFit
  <2> HIDE DEF row
  <2> QED BY <2>1, <2>2
<1>4. [as EXCEPT ![m][c] = Tail(@)] = [as EXCEPT ![m] = row]
  BY DEF AcksFit
<1> HIDE DEF row
<1>5. AcksFit(ts, [as EXCEPT ![m] = row])
  BY <1>3, AcksReplaced
<1> QED BY <1>2, <1>4, <1>5

LEMMA AckHandled ==
  ASSUME FactoryInv, NEW m \in MachineContract, NEW c \in 1 .. MaxCopies, onNewAckReceived(m, c)
  PROVE  WorkStep
<1> DEFINE a == Head(acks[m][c])
<1>0. tasks \in [MachineContract -> Seq(MM!Task)] /\ AcksFit(tasks, acks) /\ acks[m][c] # <<>>
  BY TasksTyped DEF FactoryInv, MessagesFit, Messages, onNewAckReceived
<1>1. a \in AckOf(tasks, m)
  BY <1>0, AckTaken
<1>2. a.task \in Started(tasks, m)
  BY <1>1 DEF AckOf
<1>3. /\ acks' = [acks EXCEPT ![m][c] = Tail(@)]
      /\ UNCHANGED <<receipts, orders, published>>
  BY DEF onNewAckReceived
<1>4. (CASE m = "VGR" -> vgrAckReceived(a)
         [] m = "HBW" -> hbwAckReceived(a)
         [] m = "MPO" -> mpoAckReceived(a)
         [] m = "SLD" -> sldAckReceived(a))
  BY DEF onNewAckReceived
<1> HIDE DEF a
<1>5. AckEffect
  BY <1>2, <1>4, AckActedOn
<1>6. IInv' /\ TasksMoved
  BY <1>5, NextInvariant, ChainMoves DEF AckEffect, ChainStep, FactoryInv, ChainInv
<1>7. tasks' \in [MachineContract -> Seq(MM!Task)]
  BY <1>6 DEF IInv, MM!IInv, MM!TypeOK
<1>8. Messages(tasks', deliveries, receipts, orders, acks, published)
  BY <1>6, MessagesStayFit DEF FactoryInv
<1>9. AcksFit(tasks', acks')
  <2>1. AcksFit(tasks', acks)
    BY <1>8 DEF Messages
  <2>2. AcksFit(tasks', [acks EXCEPT ![m][c] = Tail(@)])
    BY <1>0, <1>7, <2>1, AckTaken
  <2> QED BY <1>3, <2>2
<1>10. EventsFit(tasks', deliveries')
  BY <1>5, <1>8 DEF AckEffect, Messages, EventsFit
<1>11. Messages(tasks', deliveries', receipts', orders', acks', published')
  BY <1>3, <1>8, <1>9, <1>10 DEF Messages
<1>12. ChainStep
  BY <1>5 DEF AckEffect, ChainStep
<1> QED BY <1>5, <1>11, <1>12 DEF WorkStep, GatewayStep, AckEffect

----
\* The machines.

LEMMA CodesTyped ==
  ASSUME NEW o, o.machine \in MachineContract, o.code \in Code
  PROVE  /\ simulatorCodes(o) \in Seq(Code)
         /\ canFail(o) => failedCodes(o) \in Seq(Code)
<1>0. {1, 2, 3, 4, 5, 6, 7, 8, 9, 10} \subseteq Code
  BY DEF Code
<1>1. /\ <<2>> \in Seq(Code) /\ <<3, 4, 2>> \in Seq(Code) /\ <<1>> \in Seq(Code)
      /\ <<7>> \in Seq(Code) /\ <<5>> \in Seq(Code) /\ <<o.code>> \in Seq(Code)
  BY <1>0
<1>2. simulatorCodes(o) \in Seq(Code)
  <2>1. \/ simulatorCodes(o) = <<2>> \/ simulatorCodes(o) = <<3, 4, 2>>
        \/ simulatorCodes(o) = <<1>> \/ simulatorCodes(o) = <<7>>
        \/ simulatorCodes(o) = <<5>> \/ simulatorCodes(o) = <<o.code>>
    BY DEF simulatorCodes
  <2> QED BY <1>1, <2>1
<1>3. ASSUME canFail(o) PROVE failedCodes(o) \in Seq(Code)
  <2> DEFINE codes == failureCodes[o.machine]
  <2>1. codes # {}
    BY <1>3 DEF canFail
  <2>2. codes \subseteq Code
    <3>1. \A m \in MachineContract : failureCodes[m] \subseteq {4, 5, 6, 8, 9, 10}
      BY DEF MachineContract, failureCodes
    <3> QED BY <1>0, <3>1
  <2>3. (CHOOSE code \in codes : TRUE) \in Code
    BY <2>1, <2>2
  <2> QED BY <2>3 DEF failedCodes
<1> QED BY <1>2, <1>3

LEMMA AcknowledgedFit ==
  ASSUME FactoryInv, NEW o \in orders, NEW codes \in Seq(Code)
  PROVE  AcksFit(tasks, [acks EXCEPT ![o.machine] = Acknowledged(o, codes)])
<1> DEFINE m == o.machine
           new == [i \in DOMAIN codes |-> [task |-> o.task, code |-> codes[i]]]
           row == Acknowledged(o, codes)
<1>0. tasks \in [MachineContract -> Seq(MM!Task)] /\ AcksFit(tasks, acks)
  BY TasksTyped DEF FactoryInv, MessagesFit, Messages
<1>1. m \in MachineContract /\ o.task \in Started(tasks, m)
  BY DEF FactoryInv, MessagesFit, Messages, OrdersFit
<1>2. new \in Seq(AckOf(tasks, m))
  <2>1. DOMAIN codes = 1 .. Len(codes) /\ Len(codes) \in Nat /\ \A i \in DOMAIN codes : codes[i] \in Code
    BY ElementOfSeq, LenProperties
  <2>2. \A i \in DOMAIN codes : [task |-> o.task, code |-> codes[i]] \in AckOf(tasks, m)
    BY <1>1, <2>1 DEF AckOf
  <2>3. new \in [1 .. Len(codes) -> AckOf(tasks, m)]
    BY <2>1, <2>2
  <2> HIDE DEF new
  <2> QED BY <2>1, <2>3
<1> HIDE DEF new
<1>3. ASSUME NEW c \in 1 .. MaxCopies PROVE row[c] \in Seq(AckOf(tasks, m))
  <2>1. acks[m][c] \in Seq(AckOf(tasks, m))
    BY <1>0, <1>1 DEF AcksFit
  <2>2. acks[m][c] \o new \in Seq(AckOf(tasks, m))
    BY <1>2, <2>1, ConcatProperties
  <2>3. row[c] = acks[m][c] \o new \/ row[c] = acks[m][c]
    BY DEF Acknowledged, new
  <2> QED BY <2>1, <2>2, <2>3
<1>4. row = [c \in 1 .. MaxCopies |-> row[c]]
  BY DEF Acknowledged
<1> HIDE DEF row
<1>5. row \in [1 .. MaxCopies -> Seq(AckOf(tasks, m))]
  BY <1>3, <1>4
<1>6. AcksFit(tasks, [acks EXCEPT ![m] = row])
  BY <1>0, <1>1, <1>5, AcksReplaced
<1> QED BY <1>6 DEF row

LEMMA MachineExecuted ==
  ASSUME FactoryInv, NEW o \in orders, machineExecutes(o)
  PROVE  WorkStep
<1>0. /\ [Next]_vars /\ ChainStep /\ ClientStep /\ tasks' = tasks
      /\ UNCHANGED <<deliveries, receipts, published>> /\ orders' = orders \ {o}
  BY NothingOnChain DEF machineExecutes
<1>1. Messages(tasks, deliveries, receipts, orders, acks, published)
  BY DEF FactoryInv, MessagesFit
<1>2. o.machine \in MachineContract /\ o.code \in Code
  BY <1>1 DEF Messages, OrdersFit
<1>3. \E codes \in Seq(Code) : acks' = [acks EXCEPT ![o.machine] = Acknowledged(o, codes)]
  BY <1>2, CodesTyped DEF machineExecutes
<1>4. AcksFit(tasks, acks')
  BY <1>3, AcknowledgedFit
<1>5. OrdersFit(tasks, orders')
  BY <1>0, <1>1 DEF Messages, OrdersFit
<1>6. Messages(tasks, deliveries, receipts, orders', acks', published)
  BY <1>1, <1>4, <1>5 DEF Messages
<1>7. Messages(tasks', deliveries', receipts', orders', acks', published')
  BY <1>0, <1>6
<1> QED BY <1>0, <1>7 DEF WorkStep, GatewayStep

----
\* The owners.

LEMMA ProcessStarted ==
  ASSUME FactoryInv, NEW k \in ProcessContract, NEW p \in ProductID, startProcessOf(k, p)
  PROVE  GatewayStep
<1>1. /\ startProcess(k, p, "productOwner")
      /\ deliveries' = deliveries \cup ProcessStartedEvents(k, Len(instances[k]) + 1)
      /\ UNCHANGED <<receipts, orders, acks, published>>
  BY DEF startProcessOf
<1>2. ChainStep
  BY <1>1 DEF ChainStep
<1>3. [Next]_vars
  BY <1>1 DEF Next, ProductOwnerCalls
<1>4. \A d \in ProcessStartedEvents(k, Len(instances[k]) + 1) : EventFits(tasks', d)
  BY EventFields DEF ProcessStartedEvents, EventFits, StartEventFits
<1> QED BY <1>1, <1>2, <1>3, <1>4, OnlyEvents

LEMMA OwnersKilled ==
  ASSUME FactoryInv, ownersKill
  PROVE  GatewayStep
<1>0. UNCHANGED messageVars
  BY DEF ownersKill
<1>1. \A d \in deliveries' : d \in deliveries
  BY <1>0 DEF messageVars
<1>2. UNCHANGED <<receipts, orders, acks, published>>
  BY <1>0 DEF messageVars
<1>3. ASSUME NEW k \in ProcessContract, NEW n \in DOMAIN instances[k],
             killProcess(k, n, "processOwner")
      PROVE  GatewayStep
  <2>1. EndStep(k, n, "Killed")
    BY <1>3 DEF killProcess, EndStep
  <2>2. ChainStep
    BY <2>1 DEF ChainStep
  <2>3. [Next]_vars
    BY <1>3 DEF Next, ProcessOwnerCalls
  <2> QED BY <1>1, <1>2, <2>2, <2>3, OnlyEvents
<1>4. ASSUME NEW m \in MachineContract, NEW t \in DOMAIN tasks[m],
             M!killTask(m, t, "machineOwner"), UNCHANGED <<productVars, processVars>>
      PROVE  GatewayStep
  <2>1. tasks[m][t] \in MM!Task
        /\ tasks'[m][t] = [tasks[m][t] EXCEPT !.status = "Killed", !.finished = TRUE]
    BY <1>4, TaskAfter
  <2>2. tasks'[m][t].status = "Killed"
    BY <2>1 DEF MM!Task
  <2>3. TaskCall(m, t) /\ FinishesStarted(m, t)
    BY <1>4, <2>2 DEF TaskCall, FinishesStarted, M!Finished
  <2>4. ChainStep
    BY <1>4, <2>3, CallIsStep
  <2>5. [Next]_vars
    BY <1>4 DEF Next, MachineCalls
  <2> QED BY <1>1, <1>2, <2>4, <2>5, OnlyEvents
<1> QED BY <1>3, <1>4 DEF ownersKill

----
\* The connections.

LEMMA Reconnected ==
  ASSUME FactoryInv, UNCHANGED <<chainVars, messageVars>>
  PROVE  WorkStep
BY NothingOnChain, OnlyEventsOfWork DEF messageVars

LEMMA NoMessages ==
  ASSUME NEW ts
  PROVE  /\ EventsFit(ts, {}) /\ ReceiptsFit(ts, {}) /\ OrdersFit(ts, {})
         /\ AcksFit(ts, NoAcks)
         /\ \A ps : (\A m \in MachineContract : \A i, j \in DOMAIN ps[m] : ps[m][i] = ps[m][j] => i = j)
                      => ToldApart({}, ps)
<1>1. AcksFit(ts, NoAcks)
  <2>1. \A S : <<>> \in Seq(S)
    OBVIOUS
  <2>2. NoAcks \in [MachineContract -> [1 .. MaxCopies -> Seq([task : Nat, code : Code])]]
    BY <2>1 DEF NoAcks
  <2>3. \A m \in MachineContract, c \in 1 .. MaxCopies : NoAcks[m][c] = <<>>
    BY DEF NoAcks
  <2> QED BY <2>1, <2>2, <2>3 DEF AcksFit
<1> QED BY <1>1 DEF EventsFit, ReceiptsFit, OrdersFit, ToldApart

\* Everything on its way is forgotten, but what was published stays published.
LEMMA GatewayRestarted ==
  ASSUME FactoryInv, gatewayRestarts
  PROVE  WorkStep
<1>0. /\ [Next]_vars /\ ChainStep /\ ClientStep /\ tasks' = tasks /\ published' = published
      /\ deliveries' = {} /\ receipts' = {} /\ orders' = {} /\ acks' = NoAcks
  BY NothingOnChain DEF gatewayRestarts
<1>1. PublishedFit(tasks, published) /\ ToldApart(receipts, published)
  BY DEF FactoryInv, MessagesFit, Messages
<1>2. Messages(tasks, {}, {}, {}, NoAcks, published)
  BY <1>1, NoMessages DEF Messages, ToldApart
<1>3. Messages(tasks', deliveries', receipts', orders', acks', published')
  BY <1>0, <1>2
<1> QED BY <1>0, <1>3 DEF GatewayStep, WorkStep

LEMMA MessageLost ==
  ASSUME FactoryInv, messageLost
  PROVE  WorkStep
<1>0. /\ [Next]_vars /\ ChainStep /\ ClientStep /\ tasks' = tasks
      /\ UNCHANGED <<deliveries, receipts, published>>
  BY NothingOnChain DEF messageLost
<1>1. /\ Messages(tasks, deliveries, receipts, orders, acks, published)
      /\ tasks \in [MachineContract -> Seq(MM!Task)]
  BY TasksTyped DEF FactoryInv, MessagesFit
<1>2. OrdersFit(tasks, orders') /\ AcksFit(tasks, acks')
  <2>1. ASSUME NEW o \in orders, orders' = orders \ {o}, UNCHANGED acks
        PROVE  OrdersFit(tasks, orders') /\ AcksFit(tasks, acks')
    <3>1. OrdersFit(tasks, orders) /\ AcksFit(tasks, acks)
      BY <1>1 DEF Messages
    <3>2. OrdersFit(tasks, orders')
      BY <2>1, <3>1 DEF OrdersFit
    <3>3. AcksFit(tasks, acks')
      BY <2>1, <3>1
    <3> QED BY <3>2, <3>3
  <2>2. ASSUME NEW m \in MachineContract, NEW c \in 1 .. MaxCopies, acks[m][c] # <<>>,
               acks' = [acks EXCEPT ![m][c] = Tail(@)], UNCHANGED orders
        PROVE  OrdersFit(tasks, orders') /\ AcksFit(tasks, acks')
    <3>1. OrdersFit(tasks, orders) /\ AcksFit(tasks, acks)
      BY <1>1 DEF Messages
    <3>2. AcksFit(tasks, [acks EXCEPT ![m][c] = Tail(@)])
      BY <1>1, <2>2, <3>1, AckTaken
    <3>3. OrdersFit(tasks, orders')
      BY <2>2, <3>1
    <3> QED BY <2>2, <3>2, <3>3
  <2> QED BY <2>1, <2>2 DEF messageLost
<1>3. Messages(tasks, deliveries, receipts, orders', acks', published)
  BY <1>1, <1>2 DEF Messages
<1>4. Messages(tasks', deliveries', receipts', orders', acks', published')
  BY <1>0, <1>3
<1> QED BY <1>0, <1>4 DEF GatewayStep, WorkStep

----
\* Every action of the gateway.

LEMMA WorkIsOfClients ==
  ASSUME FactoryInv, Work \/ Faults \/ UNCHANGED factoryVars
  PROVE  WorkStep
<1>1. CASE Work
  <2>1. ASSUME NEW d \in Due, onProcessStarted(d) \/ onTaskFinished(d) \/ onNewTaskAssigned(d)
        PROVE  WorkStep
    <3>1. d \in deliveries
      BY DEF Due
    <3> QED BY <2>1, <3>1, ProcessStartedHandled, TaskFinishedHandled, TaskAssignedHandled
  <2> QED BY <1>1, <2>1, TaskSent, MachineExecuted, AckHandled DEF Work
<1>2. CASE Faults
  <2>1. ASSUME NEW client \in Client, clientReconnects(client) PROVE WorkStep
    BY <2>1, Reconnected DEF clientReconnects
  <2>2. ASSUME handlerReconnects PROVE WorkStep
    BY <2>2, Reconnected DEF handlerReconnects
  <2> QED BY <1>2, <2>1, <2>2, GatewayRestarted, MessageLost DEF Faults
<1>3. CASE UNCHANGED factoryVars
  BY <1>3, Reconnected DEF factoryVars, chainVars
<1> QED BY <1>1, <1>2, <1>3

LEMMA ActionsAreSteps ==
  ASSUME FactoryInv, [FactoryNext]_factoryVars
  PROVE  GatewayStep
<1>1. Work \/ Faults \/ UNCHANGED factoryVars => GatewayStep
  BY WorkIsOfClients DEF WorkStep
<1>2. CASE Starts
  BY <1>2, ProcessStarted DEF Starts
<1> QED BY <1>1, <1>2, OwnersKilled DEF FactoryNext

LEMMA FactoryNextInvariant ==
  ASSUME FactoryInv, [FactoryNext]_factoryVars
  PROVE  FactoryInv'
<1>1. GatewayStep
  BY ActionsAreSteps
<1>2. IInv'
  BY <1>1, NextInvariant DEF GatewayStep, FactoryInv, ChainInv
<1>3. Wired' /\ TasksFit' /\ InstancesFit'
  BY <1>1, ChainMoves DEF GatewayStep, FactoryInv
<1>4. MessagesFit'
  BY <1>1, MessagesAfter DEF GatewayStep
<1> QED BY <1>2, <1>3, <1>4 DEF FactoryInv, ChainInv

LEMMA FactoryInitInvariant == FactoryInit => FactoryInv
<1> SUFFICES ASSUME FactoryInit PROVE FactoryInv
  OBVIOUS
<1>0. Init
  BY DEF FactoryInit
<1>1. IInv
  BY <1>0, InitInvariant
<1>2. /\ machines = [k \in ProcessContract |-> SeededMachines[k]]
      /\ \A m \in MachineContract : tasks[m] = <<>>
      /\ \A k \in ProcessContract : instances[k] = <<>>
  BY <1>0 DEF Init
<1>3. Wired /\ TasksFit /\ InstancesFit
  BY <1>2 DEF Wired, TasksFit, InstancesFit
<1>4. /\ deliveries = {} /\ receipts = {} /\ orders = {} /\ acks = NoAcks
      /\ published = [m \in MachineContract |-> <<>>]
  BY DEF FactoryInit
<1>5. PublishedFit(tasks, published)
  <2>1. \A S : <<>> \in Seq(S)
    OBVIOUS
  <2> QED BY <1>4, <2>1 DEF PublishedFit
<1>6. ToldApart(receipts, published)
  BY <1>4 DEF ToldApart
<1>7. MessagesFit
  BY <1>4, <1>5, <1>6, NoMessages DEF MessagesFit, Messages
<1> QED BY <1>1, <1>3, <1>7 DEF FactoryInv, ChainInv

----
(***************************************************************************)
(* The invariant of the gateway.                                           *)
(***************************************************************************)
THEOREM FactoryInvariantHolds == FactorySpec => []FactoryInv
<1>1. FactoryInit => FactoryInv
  BY FactoryInitInvariant
<1>2. FactoryInv /\ [FactoryNext]_factoryVars => FactoryInv'
  BY FactoryNextInvariant
<1> QED BY <1>1, <1>2, PTL DEF FactorySpec

(***************************************************************************)
(* Whatever the clients, the machines, the broker and the owners do, the   *)
(* contracts see only calls that Contracts allows: what is proved of the   *)
(* contracts holds of the factory.                                         *)
(***************************************************************************)
THEOREM GatewayMakesCalls == FactorySpec => Spec
<1>1. FactoryInit => Init
  BY DEF FactoryInit
<1>2. FactoryInv /\ [FactoryNext]_factoryVars => [Next]_vars
  BY ActionsAreSteps DEF GatewayStep
<1> QED BY <1>1, <1>2, FactoryInvariantHolds, PTL DEF FactorySpec, Spec

(***************************************************************************)
(* No machine is told twice to do a task, however often the clients and    *)
(* the gateway connect again or start again.                               *)
(***************************************************************************)
THEOREM ToldAtMostOnceHolds == FactorySpec => []ToldAtMostOnce
<1>1. FactoryInv => ToldAtMostOnce
  BY DEF FactoryInv, MessagesFit, Messages, ToldApart, ToldAtMostOnce
<1> QED BY <1>1, FactoryInvariantHolds, PTL

(***************************************************************************)
(* The steps of an instance are made one by one, each with one task, and   *)
(* only after the task of the step before it ended successfully.           *)
(***************************************************************************)
THEOREM StepsFollowSuccessHolds == FactorySpec => []StepsFollowSuccess
<1>1. FactoryInv => StepsFollowSuccess
  <2> SUFFICES ASSUME FactoryInv, NEW k \in ProcessContract, NEW n \in DOMAIN instances[k],
                      NEW s \in 1 .. getNumberOfSteps(k)
               PROVE  /\ Cardinality(TasksOf(k, n, StepName(k, s))) =
                           IF s <= instances[k][n].currentStep THEN 1 ELSE 0
                      /\ s < instances[k][n].currentStep =>
                           \A i \in TasksOf(k, n, StepName(k, s)) :
                             Task(i[1], i[2]).status = "FinishedSuccessfully"
    BY DEF StepsFollowSuccess
  <2>1. TasksOf(k, n, StepName(k, s)) = OfStepIn(tasks, k, n, s)
    BY TasksOfNamed DEF OfStepIn
  <2>2. /\ s > instances[k][n].currentStep => OfStepIn(tasks, k, n, s) = {}
        /\ s <= instances[k][n].currentStep => \E i : OfStepIn(tasks, k, n, s) = {i}
        /\ s < instances[k][n].currentStep =>
             \A i \in OfStepIn(tasks, k, n, s) : tasks[i[1]][i[2]].status = "FinishedSuccessfully"
    BY DEF FactoryInv, ChainInv, InstancesFit, InstanceFits, StepsFit
  <2>3. s \in Nat /\ instances[k][n].currentStep \in Nat
    BY InstanceTyped DEF FactoryInv, ChainInv, IInv, Instance
  <2>4. CASE s <= instances[k][n].currentStep
    BY <2>1, <2>2, <2>4, FS_Singleton DEF Task
  <2>5. CASE ~(s <= instances[k][n].currentStep)
    BY <2>1, <2>2, <2>3, <2>5, FS_EmptySet DEF Task
  <2> QED BY <2>4, <2>5
<1> QED BY <1>1, FactoryInvariantHolds, PTL

(***************************************************************************)
(* How an instance ended says what its tasks did.                          *)
(***************************************************************************)
THEOREM EndsAreJustifiedHolds == FactorySpec => []EndsAreJustified
<1>1. FactoryInv => EndsAreJustified
  <2> SUFFICES ASSUME FactoryInv, NEW k \in ProcessContract, NEW n \in DOMAIN instances[k]
               PROVE  LET s == instances[k][n].currentStep
                          current == TasksOf(k, n, StepName(k, s))
                      IN /\ instances[k][n].status = "FinishedSuccessfully" =>
                              s = getNumberOfSteps(k) /\ \A i \in current : Task(i[1], i[2]).finished
                         /\ instances[k][n].status = "FinishedUnsuccessfully" =>
                              \E i \in current : Task(i[1], i[2]).status = "FinishedUnsuccessfully"
    BY DEF EndsAreJustified
  <2>1. \A s : TasksOf(k, n, StepName(k, s)) = OfStepIn(tasks, k, n, s)
    BY TasksOfNamed DEF OfStepIn
  <2>2. EndFits(tasks, k, n, instances[k][n])
    BY DEF FactoryInv, ChainInv, InstancesFit, InstanceFits
  <2> QED BY <2>1, <2>2 DEF EndFits, Task
<1> QED BY <1>1, FactoryInvariantHolds, PTL

----
(***************************************************************************)
(* A machine that works is allowed to save its operations, as long as the  *)
(* owners start one instance of a product at a time and kill nothing.      *)
(*                                                                         *)
(* The property alone says nothing of the instance a task belongs to.  The *)
(* invariant says of every instance that goes on that its product allows   *)
(* its process and the machine of the step it has reached.  A task that is *)
(* under way is the task of that step: it would have ended otherwise, and  *)
(* so it would if the instance had.                                        *)
(***************************************************************************)

TasksDoable ==
  \A m \in MachineContract : \A t \in DOMAIN tasks[m] : tasks[m][t].taskName \in NamesOf(m)

TasksSettle ==
  \A m \in MachineContract : \A t \in DOMAIN tasks[m] :
    tasks[m][t].finished => tasks[m][t].status \in M!Finished

InstancesSettle ==
  \A k \in ProcessContract : \A n \in DOMAIN instances[k] :
    instances[k][n].finished => instances[k][n].status \in M!Finished

GoesOn(k, n) == ~instances[k][n].finished

OneAtATime ==
  \A j, k \in ProcessContract : \A o \in DOMAIN instances[j] : \A n \in DOMAIN instances[k] :
    GoesOn(j, o) /\ GoesOn(k, n) /\ instances[j][o].productDID = instances[k][n].productDID =>
      j = k /\ o = n

Allowed(k, n) ==
  /\ productsAuthorizedProcesses[instances[k][n].productDID] = k
  /\ instances[k][n].currentStep # 0 =>
       productsAuthorizedMachines[instances[k][n].productDID] =
         SeededMachines[k][stepMachine(k, instances[k][n].currentStep)]

StepsAreAllowed ==
  \A k \in ProcessContract : \A n \in DOMAIN instances[k] : GoesOn(k, n) => Allowed(k, n)

CarefulInv ==
  /\ FactoryInv
  /\ TasksDoable /\ TasksSettle
  /\ InstancesSettle /\ OneAtATime /\ StepsAreAllowed

\* The tasks: a client's step finishes none without saying how.

LEMMA TasksAfterStep ==
  ASSUME CarefulInv, ClientStep \/ tasks' = tasks
  PROVE  TasksDoable' /\ TasksSettle'
<1>0. /\ IInv /\ Wired /\ MM!IInv /\ TasksFit
      /\ TasksDoable /\ TasksSettle
  BY DEF CarefulInv, FactoryInv, ChainInv, IInv
<1>1. CASE tasks' = tasks
  BY <1>0, <1>1 DEF TasksDoable, TasksSettle
<1>2. CASE SettlingStep
  <2>1. PICK m \in MachineContract : \E t \in DOMAIN tasks[m] :
          TaskCall(m, t) /\ FinishesStarted(m, t) /\ Settles(m, t)
    BY <1>2 DEF SettlingStep
  <2>2. PICK t \in DOMAIN tasks[m] : TaskCall(m, t) /\ Settles(m, t)
    BY <2>1
  <2>3. /\ TasksMoved
        /\ \A o \in MachineContract : DOMAIN tasks'[o] = DOMAIN tasks[o]
        /\ \A o \in MachineContract : \A u \in DOMAIN tasks[o] :
             o # m \/ u # t => tasks'[o][u] = tasks[o][u]
    BY <1>0, <2>2, CallMoves
  <2>4. \A o \in MachineContract : \A u \in DOMAIN tasks[o] :
          tasks'[o][u].taskName = tasks[o][u].taskName
    BY <2>3 DEF TasksMoved, TaskMoved, SameJob
  <2>5. TasksDoable'
    BY <1>0, <2>3, <2>4 DEF TasksDoable
  <2>6. tasks[m][t].finished => tasks[m][t].started
    BY <1>0 DEF TasksSettle, TasksFit, TaskFits
  <2>7. tasks'[m][t].finished => tasks'[m][t].status \in M!Finished
    BY <2>2, <2>6 DEF Settles
  <2>8. TasksSettle'
    BY <1>0, <2>3, <2>7 DEF TasksSettle
  <2> QED BY <2>5, <2>8
<1>3. ASSUME NEW k \in ProcessContract, NEW n \in DOMAIN instances[k],
             NEW s \in 1 .. getNumberOfSteps(k), StepStep(k, n, s)
      PROVE  TasksDoable' /\ TasksSettle'
  <2>1. StepShows(k, n, StepName(k, s))
    BY <1>0, <1>3, StepTasks DEF StepStep
  <2>2. \A m \in MachineContract : \A t \in DOMAIN tasks'[m] :
          \/ t \in DOMAIN tasks[m] /\ tasks'[m][t] = tasks[m][t]
          \/ tasks'[m][t].taskName \in NamesOf(m) /\ ~tasks'[m][t].finished
    BY <2>1 DEF StepShows
  <2> QED BY <1>0, <2>2 DEF TasksDoable, TasksSettle
<1>4. ASSUME NEW k \in ProcessContract, NEW n \in DOMAIN instances[k],
             NEW status \in M!Finished, EndStep(k, n, status)
      PROVE  tasks' = tasks
  BY <1>4 DEF EndStep, end, machineVars, taskVars
<1>5. CASE QuietStep
  BY <1>1, <1>5 DEF QuietStep
<1>6. CASE ClientStep
  BY <1>1, <1>2, <1>3, <1>4, <1>5, <1>6 DEF ClientStep
<1> QED BY <1>1, <1>6

\* An instance that ended makes no step.
LEMMA EndedMakesNoStep ==
  ASSUME CarefulInv, NEW k \in ProcessContract, NEW n \in DOMAIN instances[k],
         NEW s \in 1 .. getNumberOfSteps(k), StepStep(k, n, s)
  PROVE  GoesOn(k, n) /\ instances[k][n].currentStep = s - 1
<1>1. instances[k][n].status \notin M!Finished /\ instances[k][n].currentStep = s - 1
  BY NoStepWhenDone DEF CarefulInv, FactoryInv
<1> QED BY <1>1 DEF CarefulInv, InstancesSettle, GoesOn

LEMMA NothingAllowedAfresh ==
  ASSUME CarefulInv, UNCHANGED <<processVars, authVars>>
  PROVE  InstancesSettle' /\ OneAtATime' /\ StepsAreAllowed'
<1>1. /\ instances' = instances
      /\ UNCHANGED <<productsAuthorizedProcesses, productsAuthorizedMachines>>
  BY DEF processVars, authVars
<1>2. InstancesSettle' /\ OneAtATime'
  BY <1>1 DEF CarefulInv, InstancesSettle, OneAtATime, GoesOn
<1>3. StepsAreAllowed'
  BY <1>1 DEF CarefulInv, StepsAreAllowed, Allowed, GoesOn
<1> QED BY <1>2, <1>3

\* What holds of the instances after one of them was updated.
LEMMA UpdatedStayAllowed ==
  ASSUME CarefulInv, NEW k \in ProcessContract, NEW n \in DOMAIN instances[k],
         NEW inst \in Instance, OneUpdated(k, n, inst),
         inst.productDID = instances[k][n].productDID,
         inst.finished => inst.status \in M!Finished,
         ~inst.finished => GoesOn(k, n) /\ Allowed(k, n)',
         UNCHANGED productsAuthorizedProcesses,
         \A p \in ProductID : p = inst.productDID \/ productsAuthorizedMachines'[p] = productsAuthorizedMachines[p],
         inst.finished => UNCHANGED productsAuthorizedMachines
  PROVE  InstancesSettle' /\ OneAtATime' /\ StepsAreAllowed'
<1>0. InstancesTyped /\ InstancesSettle /\ OneAtATime /\ StepsAreAllowed
  BY DEF CarefulInv, FactoryInv, ChainInv, IInv
<1>1. /\ \A j \in ProcessContract : DOMAIN instances'[j] = DOMAIN instances[j]
      /\ \A j \in ProcessContract : \A o \in DOMAIN instances[j] :
           instances'[j][o] = IF j = k /\ o = n THEN inst ELSE instances[j][o]
  BY DEF OneUpdated
<1>2. InstancesSettle'
  BY <1>0, <1>1 DEF InstancesSettle
<1>3. \A j \in ProcessContract : \A o \in DOMAIN instances[j] :
        /\ instances'[j][o].productDID = instances[j][o].productDID
        /\ ~instances'[j][o].finished => GoesOn(j, o)
  <2> SUFFICES ASSUME NEW j \in ProcessContract, NEW o \in DOMAIN instances[j]
               PROVE  /\ instances'[j][o].productDID = instances[j][o].productDID
                      /\ ~instances'[j][o].finished => GoesOn(j, o)
    OBVIOUS
  <2>1. CASE j = k /\ o = n
    BY <1>1, <2>1
  <2>2. CASE ~(j = k /\ o = n)
    BY <1>1, <2>2 DEF GoesOn
  <2> QED BY <2>1, <2>2
<1>4. OneAtATime'
  BY <1>0, <1>1, <1>3 DEF OneAtATime, GoesOn
<1>5. ASSUME NEW j \in ProcessContract, NEW o \in DOMAIN instances[j], ~instances'[j][o].finished
      PROVE  Allowed(j, o)'
  <2>1. CASE j = k /\ o = n
    BY <1>1, <1>5, <2>1
  <2>2. CASE ~(j = k /\ o = n)
    <3>1. instances'[j][o] = instances[j][o] /\ GoesOn(j, o) /\ Allowed(j, o)
      BY <1>0, <1>1, <1>5, <2>2 DEF GoesOn, StepsAreAllowed
    <3>2. instances[j][o].productDID \in ProductID
      BY <1>0, InstanceTyped
    <3>3. instances[j][o].productDID # inst.productDID \/ inst.finished
      <4> SUFFICES ASSUME instances[j][o].productDID = instances[k][n].productDID, ~inst.finished
                   PROVE  FALSE
        OBVIOUS
      <4>1. GoesOn(k, n)
        OBVIOUS
      <4> QED BY <1>0, <2>2, <3>1, <4>1 DEF OneAtATime
    <3>4. productsAuthorizedMachines'[instances[j][o].productDID]
            = productsAuthorizedMachines[instances[j][o].productDID]
      BY <3>2, <3>3
    <3> QED BY <3>1, <3>4 DEF Allowed
  <2> QED BY <2>1, <2>2
<1>6. StepsAreAllowed'
  BY <1>1, <1>5 DEF StepsAreAllowed, GoesOn
<1> QED BY <1>2, <1>4, <1>6

LEMMA EndStaysAllowed ==
  ASSUME CarefulInv, NEW k \in ProcessContract, NEW n \in DOMAIN instances[k],
         NEW status \in M!Finished, EndStep(k, n, status)
  PROVE  InstancesSettle' /\ OneAtATime' /\ StepsAreAllowed'
<1> DEFINE inst == [instances[k][n] EXCEPT !.finished = TRUE, !.status = status]
<1>0. InstancesTyped /\ UNCHANGED <<productsAuthorizedProcesses, productsAuthorizedMachines>>
  BY DEF CarefulInv, FactoryInv, ChainInv, IInv, EndStep, end, productVars, authVars
<1>1. instances[k][n] \in Instance
  BY <1>0, InstanceTyped
<1>2. /\ inst \in Instance /\ inst.productDID = instances[k][n].productDID
      /\ inst.finished /\ inst.status = status
  BY <1>1 DEF Instance
<1>3. UpdatedInstance(k, n, inst)
  BY <1>0, <1>1 DEF EndStep, end, InstancesTyped, UpdatedInstance
<1> HIDE DEF inst
<1>4. OneUpdated(k, n, inst)
  BY <1>0, <1>2, <1>3, InstancesUpdated
<1> QED BY <1>0, <1>2, <1>4, UpdatedStayAllowed

LEMMA StepStaysAllowed ==
  ASSUME CarefulInv, NEW k \in ProcessContract, NEW n \in DOMAIN instances[k],
         NEW s \in 1 .. getNumberOfSteps(k), StepStep(k, n, s)
  PROVE  InstancesSettle' /\ OneAtATime' /\ StepsAreAllowed'
<1> DEFINE old == instances[k][n]
           inst == [old EXCEPT !.currentStep = s]
           p == old.productDID
           m == SeededMachines[k][stepMachine(k, s)]
<1>0. InstancesTyped /\ Wired /\ PP!IInv
  BY DEF CarefulInv, FactoryInv, ChainInv, IInv
<1>1. old \in Instance /\ p \in ProductID /\ s \in Nat /\ s # 0
  BY <1>0, InstanceTyped
<1>2. /\ GoesOn(k, n) /\ Allowed(k, n)
  BY EndedMakesNoStep DEF CarefulInv, StepsAreAllowed
<1>3. /\ inst \in Instance /\ inst.productDID = p /\ inst.currentStep = s
      /\ inst.finished = old.finished
  BY <1>1 DEF Instance
<1>4. UpdatedInstance(k, n, inst)
  BY <1>0 DEF StepStep, step, stepMarked, InstancesTyped, UpdatedInstance
<1>5. P!authorizeMachine(m, p, k)
  BY <1>0 DEF StepStep, step, getMachineAddress, getProductDID, Wired
<1>6. /\ productsAuthorizedMachines' = [productsAuthorizedMachines EXCEPT ![p] = m]
      /\ UNCHANGED productsAuthorizedProcesses
  BY <1>5 DEF P!authorizeMachine, P!setMachine
<1>7. /\ productsAuthorizedMachines'[p] = m
      /\ \A q \in ProductID : q = p \/ productsAuthorizedMachines'[q] = productsAuthorizedMachines[q]
  BY <1>0, <1>1, <1>6 DEF PP!IInv, PP!TypeOK
<1> HIDE DEF inst
<1>8. OneUpdated(k, n, inst)
  BY <1>0, <1>3, <1>4, InstancesUpdated
<1>9. instances'[k][n] = inst
  BY <1>8 DEF OneUpdated
<1>10. Allowed(k, n)'
  BY <1>2, <1>3, <1>6, <1>7, <1>9 DEF Allowed
<1>11. ~inst.finished
  BY <1>2, <1>3 DEF GoesOn
<1> QED BY <1>2, <1>3, <1>6, <1>7, <1>8, <1>10, <1>11, UpdatedStayAllowed

\* An instance is started when every other of its product has ended.
LEMMA StartStaysAllowed ==
  ASSUME CarefulInv, NEW k \in ProcessContract, NEW p \in ProductID,
         startProcess(k, p, "productOwner"),
         \A j \in ProcessContract : \A o \in DOMAIN instances[j] :
           GoesOn(j, o) => instances[j][o].productDID # p
  PROVE  InstancesSettle' /\ OneAtATime' /\ StepsAreAllowed'
<1> DEFINE new == Len(instances[k]) + 1
<1>0. /\ InstancesTyped /\ PP!IInv
      /\ InstancesSettle /\ OneAtATime /\ StepsAreAllowed
  BY DEF CarefulInv, FactoryInv, ChainInv, IInv
<1>1. /\ instances'[k][new].productDID = p /\ instances'[k][new].currentStep = 0
      /\ ~instances'[k][new].finished
  <2>1. instances'[k][new] = NewInstance(p)
    BY <1>0, InstanceStarted
  <2>2. /\ NewInstance(p).productDID = p /\ NewInstance(p).currentStep = 0
        /\ ~NewInstance(p).finished
    BY DEF NewInstance
  <2> HIDE DEF new
  <2> QED BY <2>1, <2>2
<1>2. \A j \in ProcessContract : \A o \in DOMAIN instances'[j] :
        \/ j = k /\ o = new
        \/ o \in DOMAIN instances[j] /\ instances'[j][o] = instances[j][o]
  <2> SUFFICES ASSUME NEW j \in ProcessContract, NEW o \in DOMAIN instances'[j]
               PROVE  \/ j = k /\ o = new
                      \/ o \in DOMAIN instances[j] /\ instances'[j][o] = instances[j][o]
    OBVIOUS
  <2>1. CASE j = k
    <3>1. \/ o = new
          \/ o \in 1 .. Len(instances[k])
      BY <1>0, <2>1, InstanceStarted
    <3> QED BY <1>0, <2>1, <3>1, InstanceStarted
  <2>2. CASE j # k
    BY <1>0, <2>2, InstanceStarted
  <2> QED BY <2>1, <2>2
<1> HIDE DEF new
<1>3. InstancesSettle'
  BY <1>0, <1>1, <1>2 DEF InstancesSettle
<1>4. OneAtATime'
  <2> SUFFICES ASSUME NEW j \in ProcessContract, NEW o \in DOMAIN instances'[j],
                      NEW i \in ProcessContract, NEW u \in DOMAIN instances'[i],
                      ~instances'[j][o].finished, ~instances'[i][u].finished,
                      instances'[j][o].productDID = instances'[i][u].productDID
               PROVE  j = i /\ o = u
    BY DEF OneAtATime, GoesOn
  <2>1. CASE j = k /\ o = new
    BY <1>1, <1>2, <2>1 DEF GoesOn
  <2>2. CASE i = k /\ u = new
    BY <1>1, <1>2, <2>2 DEF GoesOn
  <2>3. CASE ~(j = k /\ o = new) /\ ~(i = k /\ u = new)
    BY <1>0, <1>2, <2>3 DEF OneAtATime, GoesOn
  <2> QED BY <2>1, <2>2, <2>3
<1>5. /\ productsAuthorizedProcesses' = [productsAuthorizedProcesses EXCEPT ![p] = k]
      /\ UNCHANGED productsAuthorizedMachines
  BY DEF startProcess, P!authorizeProcess, P!setProcess
<1>6. /\ productsAuthorizedProcesses'[p] = k
      /\ \A q \in ProductID : q = p \/ productsAuthorizedProcesses'[q] = productsAuthorizedProcesses[q]
  BY <1>0, <1>5 DEF PP!IInv, PP!TypeOK
<1>7. ASSUME NEW j \in ProcessContract, NEW o \in DOMAIN instances'[j], ~instances'[j][o].finished
      PROVE  Allowed(j, o)'
  <2>1. CASE j = k /\ o = new
    BY <1>1, <1>6, <2>1 DEF Allowed
  <2>2. CASE ~(j = k /\ o = new)
    <3>1. o \in DOMAIN instances[j] /\ instances'[j][o] = instances[j][o]
      BY <1>2, <2>2
    <3>2. GoesOn(j, o) /\ Allowed(j, o) /\ instances[j][o].productDID # p
      BY <1>0, <1>7, <3>1 DEF GoesOn, StepsAreAllowed
    <3>3. instances[j][o].productDID \in ProductID
      BY <1>0, <3>1, InstanceTyped
    <3> QED BY <1>5, <1>6, <3>1, <3>2, <3>3 DEF Allowed
  <2> QED BY <2>1, <2>2
<1>8. StepsAreAllowed'
  BY <1>7 DEF StepsAreAllowed, GoesOn
<1> QED BY <1>3, <1>4, <1>8

LEMMA ClientsStayCareful ==
  ASSUME CarefulInv, ClientStep
  PROVE  InstancesSettle' /\ OneAtATime' /\ StepsAreAllowed'
<1>1. CASE QuietStep
  BY <1>1, NothingAllowedAfresh DEF QuietStep
<1>2. CASE SettlingStep
  BY <1>2, NothingAllowedAfresh DEF SettlingStep
<1> QED BY <1>1, <1>2, EndStaysAllowed, StepStaysAllowed DEF ClientStep

LEMMA CarefulIsFactory ==
  /\ CarefulNext => FactoryNext
  /\ StartWhenEnded => Starts
BY DEF CarefulNext, FactoryNext, StartWhenEnded, Starts

LEMMA CarefulNextInvariant ==
  ASSUME CarefulInv, [CarefulNext]_factoryVars
  PROVE  CarefulInv'
<1>0. FactoryInv
  BY DEF CarefulInv
<1>1. FactoryInv'
  BY <1>0, CarefulIsFactory, FactoryNextInvariant
<1>2. CASE Work \/ Faults \/ UNCHANGED factoryVars
  <2>1. ClientStep
    BY <1>0, <1>2, WorkIsOfClients DEF WorkStep
  <2> QED BY <1>1, <2>1, ClientsStayCareful, TasksAfterStep DEF CarefulInv
<1>3. CASE StartWhenEnded
  <2>1. PICK k \in ProcessContract, p \in ProductID :
          /\ \A j \in ProcessContract : \A n \in DOMAIN instances[j] :
               getProductDID(j, n) = p => instances[j][n].finished
          /\ startProcessOf(k, p)
    BY <1>3 DEF StartWhenEnded
  <2>2. startProcess(k, p, "productOwner") /\ tasks' = tasks
    BY <2>1 DEF startProcessOf, startProcess, machineVars, taskVars
  <2>3. \A j \in ProcessContract : \A o \in DOMAIN instances[j] :
          GoesOn(j, o) => instances[j][o].productDID # p
    BY <2>1 DEF GoesOn, getProductDID
  <2>4. InstancesSettle' /\ OneAtATime' /\ StepsAreAllowed'
    BY <2>2, <2>3, StartStaysAllowed
  <2>5. TasksDoable' /\ TasksSettle'
    BY <2>2, TasksAfterStep
  <2> QED BY <1>1, <2>4, <2>5 DEF CarefulInv
<1> QED BY <1>2, <1>3 DEF CarefulNext

\* A task under way is of the step that its instance has reached, and the instance
\* has not ended.
LEMMA UnderWay ==
  ASSUME CarefulInv, NEW m \in MachineContract, NEW t \in DOMAIN tasks[m],
         tasks[m][t].status = "Started", tasks[m][t].taskName # "StoreContainer"
  PROVE  LET k == tasks[m][t].processContractAddress
             n == tasks[m][t].processID
         IN /\ k \in ProcessContract /\ n \in DOMAIN instances[k]
            /\ GoesOn(k, n)
            /\ instances[k][n].currentStep \in 1 .. getNumberOfSteps(k)
            /\ tasks[m][t].taskName = StepName(k, instances[k][n].currentStep)
            /\ tasks[m][t].productDID = instances[k][n].productDID
<1> DEFINE task == tasks[m][t]
           k == task.processContractAddress
           n == task.processID
           inst == instances[k][n]
           N == getNumberOfSteps(k)
<1>0. IInv /\ TasksFit /\ InstancesFit /\ TasksSettle /\ InstancesSettle
  BY DEF CarefulInv, FactoryInv, ChainInv
<1>1. /\ k \in ProcessContract /\ n \in DOMAIN instances[k]
      /\ task.productDID = inst.productDID
  BY <1>0 DEF IInv, TasksNameProcesses, TasksBelongToTheirInstance, processInstanceExists, getProductDID
<1>2. PICK s \in 1 .. N : task.taskName = StepName(k, s)
  BY <1>0 DEF TasksFit, TaskFits, OfStep
<1>3. <<m, t>> \in OfStepIn(tasks, k, n, s)
  <2>1. Named(tasks, k, n, StepName(k, s), m, t)
    BY <1>2 DEF Named
  <2> HIDE DEF k, n
  <2> QED BY <2>1, InAllNamed DEF OfStepIn
<1>4. StepsFit(tasks, k, n, inst.currentStep) /\ EndFits(tasks, k, n, inst)
  BY <1>0, <1>1 DEF InstancesFit, InstanceFits
<1>5. inst \in Instance /\ s \in Nat /\ N \in Nat /\ N \in 1 .. N
  BY <1>0, <1>1, InstanceTyped, NextSteps DEF IInv
<1>6. inst.currentStep \in Nat
  BY <1>5 DEF Instance
<1>7. ~(s > inst.currentStep)
  <2>1. \A r \in 1 .. N : r > inst.currentStep => OfStepIn(tasks, k, n, r) = {}
    BY <1>4 DEF StepsFit
  <2> QED BY <1>3, <2>1, Zenon
<1>8. ~(s < inst.currentStep)
  <2> SUFFICES ASSUME s < inst.currentStep PROVE FALSE
    OBVIOUS
  <2>1. \A r \in 1 .. N : r < inst.currentStep =>
          \A i \in OfStepIn(tasks, k, n, r) : tasks[i[1]][i[2]].status = "FinishedSuccessfully"
    BY <1>4 DEF StepsFit
  <2>2. \A i \in OfStepIn(tasks, k, n, s) : tasks[i[1]][i[2]].status = "FinishedSuccessfully"
    BY <2>1, Zenon
  <2> QED BY <1>3, <2>2
<1>9. s = inst.currentStep
  BY <1>5, <1>6, <1>7, <1>8
<1>10. \E i : OfStepIn(tasks, k, n, s) = {i}
  <2>1. \A r \in 1 .. N : r <= inst.currentStep => \E i : OfStepIn(tasks, k, n, r) = {i}
    BY <1>4 DEF StepsFit
  <2>2. s <= inst.currentStep
    <3> HIDE DEF inst
    <3> QED BY <1>6, <1>9
  <2> QED BY <2>1, <2>2, Zenon
<1>11. inst.status # "FinishedSuccessfully"
  <2> SUFFICES ASSUME inst.status = "FinishedSuccessfully" PROVE FALSE
    OBVIOUS
  <2>1. s = N /\ \A i \in OfStepIn(tasks, k, n, s) : tasks[i[1]][i[2]].finished
    BY <1>4, <1>9 DEF EndFits
  <2>2. task.finished
    BY <1>3, <2>1
  <2> QED BY <1>0, <2>2 DEF TasksSettle, M!Finished
<1>12. inst.status # "FinishedUnsuccessfully"
  <2> SUFFICES ASSUME inst.status = "FinishedUnsuccessfully" PROVE FALSE
    OBVIOUS
  <2>1. \E i \in OfStepIn(tasks, k, n, s) : tasks[i[1]][i[2]].status = "FinishedUnsuccessfully"
    BY <1>4, <1>9 DEF EndFits
  <2> QED BY <1>3, <1>10, <2>1
<1>13. GoesOn(k, n)
  BY <1>0, <1>1, <1>11, <1>12 DEF InstancesSettle, GoesOn, M!Finished
<1> QED BY <1>1, <1>2, <1>9, <1>13

LEMMA CarefulInitInvariant == FactoryInit => CarefulInv
<1> SUFFICES ASSUME FactoryInit PROVE CarefulInv
  OBVIOUS
<1>1. /\ \A m \in MachineContract : tasks[m] = <<>>
      /\ \A k \in ProcessContract : instances[k] = <<>>
  BY DEF FactoryInit, Init
<1>2. TasksDoable /\ TasksSettle
  BY <1>1 DEF TasksDoable, TasksSettle
<1>3. InstancesSettle /\ OneAtATime /\ StepsAreAllowed
  BY <1>1 DEF InstancesSettle, OneAtATime, StepsAreAllowed
<1> QED BY <1>2, <1>3, FactoryInitInvariant DEF CarefulInv

(***************************************************************************)
(* While a machine works on a task of a step, the product allows that      *)
(* machine and its process: for any number of products, instances one      *)
(* after the other, connections, restarts and lost messages.               *)
(***************************************************************************)
THEOREM WorkingMachinesAreAllowedHolds == CarefulSpec => []WorkingMachinesAreAllowed
<1>1. CarefulInv => WorkingMachinesAreAllowed
  <2> SUFFICES ASSUME CarefulInv, NEW m \in MachineContract, NEW t \in DOMAIN tasks[m],
                      tasks[m][t].status = "Started", tasks[m][t].taskName # "StoreContainer"
               PROVE  /\ productsAuthorizedMachines[tasks[m][t].productDID] = m
                      /\ productsAuthorizedProcesses[tasks[m][t].productDID]
                           = tasks[m][t].processContractAddress
    BY DEF WorkingMachinesAreAllowed, Task
  <2> DEFINE k == tasks[m][t].processContractAddress
             n == tasks[m][t].processID
             s == instances[k][n].currentStep
  <2>1. /\ k \in ProcessContract /\ n \in DOMAIN instances[k] /\ GoesOn(k, n)
        /\ s \in 1 .. getNumberOfSteps(k) /\ tasks[m][t].taskName = StepName(k, s)
        /\ tasks[m][t].productDID = instances[k][n].productDID
    BY UnderWay
  <2>2. Allowed(k, n)
    BY <2>1 DEF CarefulInv, StepsAreAllowed
  <2>3. m = SeededMachines[k][stepMachine(k, s)]
    <3>1. tasks[m][t].taskName \in NamesOf(m)
      BY DEF CarefulInv, TasksDoable
    <3> HIDE DEF k, s
    <3> QED BY <2>1, <3>1, NamesTellMachine
  <2>4. s # 0
    <3> HIDE DEF s
    <3> QED BY <2>1
  <2> QED BY <2>1, <2>2, <2>3, <2>4 DEF Allowed
<1>2. FactoryInit => CarefulInv
  BY CarefulInitInvariant
<1>3. CarefulInv /\ [CarefulNext]_factoryVars => CarefulInv'
  BY CarefulNextInvariant
<1> QED BY <1>1, <1>2, <1>3, PTL DEF CarefulSpec

----
(***************************************************************************)
(* The instances are runs of the abstract process.                         *)
(*                                                                         *)
(* A run shows of the tasks of its instance what came of the one of the    *)
(* step it has reached, and this is why the invariant is needed: there is  *)
(* one such task, its outcome is final, and a step or an end is only made  *)
(* on an outcome that still holds.                                         *)
(***************************************************************************)
OutcomeIn(ts, k, n, s) ==
  {how \in M!Finished :
     /\ s # 0
     /\ \E m \in MachineContract : \E t \in DOMAIN ts[m] :
          /\ ts[m][t].processContractAddress = k
          /\ ts[m][t].processID = n
          /\ ts[m][t].taskName = StepName(k, s)
          /\ ts[m][t].status = how}

RunIn(ts, k, n, inst) ==
  [productDID |-> inst.productDID, currentStep |-> inst.currentStep,
   outcome |-> OutcomeIn(ts, k, n, inst.currentStep), status |-> inst.status]

LEMMA RunsAre ==
  /\ Runs = [k \in ProcessContract |->
               [n \in DOMAIN instances[k] |-> RunIn(tasks, k, n, instances[k][n])]]
  /\ Runs' = [k \in ProcessContract |->
                [n \in DOMAIN instances'[k] |-> RunIn(tasks', k, n, instances'[k][n])]]
<1>1. ASSUME NEW k, NEW n
      PROVE  RunOf(k, n) = RunIn(tasks, k, n, instances[k][n])
  BY DEF RunOf, RunIn, OutcomeOf, OutcomeIn, Task
<1>2. ASSUME NEW k, NEW n
      PROVE  RunOf(k, n)' = RunIn(tasks', k, n, instances'[k][n])
  BY DEF RunOf, RunIn, OutcomeOf, OutcomeIn, Task
<1>3. Runs = [k \in ProcessContract |->
               [n \in DOMAIN instances[k] |-> RunIn(tasks, k, n, instances[k][n])]]
  BY <1>1 DEF Runs
<1>4. Runs' = [k \in ProcessContract |->
                [n \in DOMAIN instances'[k] |-> RunIn(tasks', k, n, instances'[k][n])]]
  BY <1>2 DEF Runs
<1> QED BY <1>3, <1>4

\* What the outcome of a step says of its tasks.
LEMMA OutcomeTold ==
  ASSUME NEW ts, NEW k, NEW n, NEW s, s # 0
  PROVE  \A how : how \in OutcomeIn(ts, k, n, s) <=>
           how \in M!Finished /\ \E i \in OfStepIn(ts, k, n, s) : ts[i[1]][i[2]].status = how
<1> SUFFICES ASSUME NEW how \in M!Finished
             PROVE  (\E m \in MachineContract : \E t \in DOMAIN ts[m] :
                       Named(ts, k, n, StepName(k, s), m, t) /\ ts[m][t].status = how)
                    <=> \E i \in OfStepIn(ts, k, n, s) : ts[i[1]][i[2]].status = how
  BY DEF OutcomeIn, Named
<1>1. ASSUME NEW m \in MachineContract, NEW t \in DOMAIN ts[m],
             Named(ts, k, n, StepName(k, s), m, t), ts[m][t].status = how
      PROVE  \E i \in OfStepIn(ts, k, n, s) : ts[i[1]][i[2]].status = how
  <2>1. <<m, t>> \in OfStepIn(ts, k, n, s)
    BY <1>1, InAllNamed DEF OfStepIn
  <2> QED BY <1>1, <2>1
<1>2. ASSUME NEW i \in OfStepIn(ts, k, n, s), ts[i[1]][i[2]].status = how
      PROVE  \E m \in MachineContract : \E t \in DOMAIN ts[m] :
               Named(ts, k, n, StepName(k, s), m, t) /\ ts[m][t].status = how
  <2>1. Named(ts, k, n, StepName(k, s), i[1], i[2])
    BY InAllNamed DEF OfStepIn
  <2> QED BY <1>2, <2>1 DEF Named
<1> QED BY <1>1, <1>2

\* A run moves on while all others stay as they are.
LEMMA RunMoves ==
  ASSUME NEW k \in ProcessContract, NEW n \in DOMAIN instances[k], NEW next,
         \A j \in ProcessContract : DOMAIN instances'[j] = DOMAIN instances[j],
         \A j \in ProcessContract : \A o \in DOMAIN instances[j] :
           RunIn(tasks', j, o, instances'[j][o]) =
             IF j = k /\ o = n THEN next ELSE RunIn(tasks, j, o, instances[j][o])
  PROVE  /\ A!Becomes(k, n, next)
         /\ n \in DOMAIN Runs[k] /\ Runs[k][n] = RunIn(tasks, k, n, instances[k][n])
<1> DEFINE before == [j \in ProcessContract |->
                        [o \in DOMAIN instances[j] |-> RunIn(tasks, j, o, instances[j][o])]]
           after == [j \in ProcessContract |->
                       [o \in DOMAIN instances[j] |->
                          IF j = k /\ o = n THEN next ELSE RunIn(tasks, j, o, instances[j][o])]]
<1>1. Runs = before
  BY RunsAre
<1>2. Runs' = after
  BY RunsAre
<1> HIDE DEF RunIn
<1>3. after = [before EXCEPT ![k][n] = next]
  <2>1. [before EXCEPT ![k][n] = next] = [before EXCEPT ![k] = [before[k] EXCEPT ![n] = next]]
    OBVIOUS
  <2>2. after[k] = [before[k] EXCEPT ![n] = next]
    OBVIOUS
  <2>3. \A j \in ProcessContract : j # k => after[j] = before[j]
    OBVIOUS
  <2> QED BY <2>1, <2>2, <2>3
<1>4. n \in DOMAIN before[k] /\ before[k][n] = RunIn(tasks, k, n, instances[k][n])
  OBVIOUS
<1> QED BY <1>1, <1>2, <1>3, <1>4 DEF A!Becomes

LEMMA RunsStay ==
  ASSUME \A j \in ProcessContract : DOMAIN instances'[j] = DOMAIN instances[j],
         \A j \in ProcessContract : \A o \in DOMAIN instances[j] :
           RunIn(tasks', j, o, instances'[j][o]) = RunIn(tasks, j, o, instances[j][o])
  PROVE  Runs' = Runs
<1> DEFINE before == [j \in ProcessContract |->
                        [o \in DOMAIN instances[j] |-> RunIn(tasks, j, o, instances[j][o])]]
           after == [j \in ProcessContract |->
                       [o \in DOMAIN instances'[j] |-> RunIn(tasks', j, o, instances'[j][o])]]
<1>1. Runs = before /\ Runs' = after
  BY RunsAre
<1>2. \A j \in ProcessContract : after[j] = before[j]
  OBVIOUS
<1>3. after = before
  BY <1>2
<1> QED BY <1>1, <1>3

\* The outcome of a step that is made of one task.
LEMMA OutcomeOfOne ==
  ASSUME NEW ts, NEW k, NEW n, NEW s, s # 0, NEW i, OfStepIn(ts, k, n, s) = {i}
  PROVE  OutcomeIn(ts, k, n, s) =
           IF ts[i[1]][i[2]].status \in M!Finished THEN {ts[i[1]][i[2]].status} ELSE {}
<1>1. \A how : how \in OutcomeIn(ts, k, n, s) <=>
        how \in M!Finished /\ ts[i[1]][i[2]].status = how
  BY OutcomeTold
<1> HIDE DEF OutcomeIn
<1> QED BY <1>1

\* The same tasks, as far as they have come out, give the same outcome.
LEMMA SameOutcome ==
  ASSUME NEW ts, NEW us, NEW k, NEW n, NEW s,
         s # 0 => OfStepIn(us, k, n, s) = OfStepIn(ts, k, n, s),
         s # 0 => \A i \in OfStepIn(ts, k, n, s) : \A how \in M!Finished :
                    us[i[1]][i[2]].status = how <=> ts[i[1]][i[2]].status = how
  PROVE  OutcomeIn(us, k, n, s) = OutcomeIn(ts, k, n, s)
<1>1. CASE s = 0
  BY <1>1 DEF OutcomeIn
<1>2. CASE s # 0
  <2>1. \A how : how \in OutcomeIn(ts, k, n, s) <=>
          how \in M!Finished /\ \E i \in OfStepIn(ts, k, n, s) : ts[i[1]][i[2]].status = how
    BY <1>2, OutcomeTold
  <2>2. \A how : how \in OutcomeIn(us, k, n, s) <=>
          how \in M!Finished /\ \E i \in OfStepIn(us, k, n, s) : us[i[1]][i[2]].status = how
    BY <1>2, OutcomeTold
  <2> HIDE DEF OutcomeIn, OfStepIn
  <2>3. \A how : how \in OutcomeIn(us, k, n, s) <=> how \in OutcomeIn(ts, k, n, s)
    BY <1>2, <2>1, <2>2
  <2> QED BY <2>3
<1> QED BY <1>1, <1>2

\* The step that an instance has reached, and its task.
LEMMA ReachedStep ==
  ASSUME ChainInv, NEW k \in ProcessContract, NEW n \in DOMAIN instances[k]
  PROVE  /\ instances[k][n] \in Instance /\ instances[k][n].currentStep \in Nat
         /\ instances[k][n].currentStep # 0 =>
              /\ instances[k][n].currentStep \in 1 .. getNumberOfSteps(k)
              /\ \E i : OfStepIn(tasks, k, n, instances[k][n].currentStep) = {i}
<1> DEFINE c == instances[k][n].currentStep
<1>1. instances[k][n] \in Instance /\ c \in Nat
  BY InstanceTyped DEF ChainInv, IInv, Instance
<1>2. /\ c <= getNumberOfSteps(k) /\ getNumberOfSteps(k) \in Nat
      /\ \A r \in 1 .. getNumberOfSteps(k) : r <= c => \E i : OfStepIn(tasks, k, n, r) = {i}
  BY NextSteps DEF ChainInv, InstancesFit, InstanceFits, StepsFit
<1> HIDE DEF c
<1>3. c # 0 => c \in 1 .. getNumberOfSteps(k) /\ c <= c
  BY <1>1, <1>2
<1>4. c # 0 => \E i : OfStepIn(tasks, k, n, c) = {i}
  BY <1>2, <1>3
<1> QED BY <1>1, <1>3, <1>4 DEF c

\* A run shows its instance's fields.
LEMMA RunShows ==
  ASSUME NEW ts, NEW k, NEW n, NEW inst
  PROVE  /\ RunIn(ts, k, n, inst).currentStep = inst.currentStep
         /\ RunIn(ts, k, n, inst).status = inst.status
         /\ RunIn(ts, k, n, inst).outcome = OutcomeIn(ts, k, n, inst.currentStep)
BY DEF RunIn

----
\* Every step of the chain is a step of the abstract process.

LEMMA MoveIsNext ==
  ASSUME NEW k \in ProcessContract, NEW n \in DOMAIN Runs[k],
         A!Advance(k, n) \/ A!Settle(k, n) \/ A!End(k, n)
  PROVE  A!Next
BY DEF A!Next

\* A task that was finished stays as it came out.
LEMMA OutcomesStay ==
  ASSUME ChainInv, TasksMoved, NEW m \in MachineContract, NEW t \in DOMAIN tasks[m],
         tasks[m][t].status \in M!Finished
  PROVE  tasks'[m][t].status = tasks[m][t].status
<1>1. TaskMoved(tasks[m][t], tasks'[m][t]) /\ TaskFits(tasks[m][t]) /\ MM!StatusFits(tasks[m][t])
  BY DEF TasksMoved, ChainInv, TasksFit, IInv, MM!IInv, MM!StatusMatchesTimestamps
<1> QED BY <1>1 DEF TaskMoved, TaskFits, MM!StatusFits, MM!Finished, M!Finished

\* A call settles the step of the instance whose current task comes out, if there is one.
LEMMA CallRuns ==
  ASSUME ChainInv, CallStep
  PROVE  [A!Next]_Runs
<1>1. PICK m \in MachineContract : \E t \in DOMAIN tasks[m] : TaskCall(m, t)
  BY DEF CallStep
<1>2. PICK t \in DOMAIN tasks[m] : TaskCall(m, t)
  BY <1>1
<1> DEFINE called == <<m, t>>
           how == tasks'[m][t].status
<1>3. /\ MM!IInv /\ instances' = instances
      /\ \A j \in ProcessContract : DOMAIN instances'[j] = DOMAIN instances[j]
  BY DEF ChainInv, IInv, CallStep, processVars
<1>4. /\ TasksMoved
      /\ \A o \in MachineContract : \A u \in DOMAIN tasks[o] :
           o # m \/ u # t => tasks'[o][u] = tasks[o][u]
  BY <1>2, <1>3, CallMoves
<1>5. \A k, n, s : OfStepIn(tasks', k, n, s) = OfStepIn(tasks, k, n, s)
  BY <1>2, <1>3, CallNamesNone DEF OfStepIn
<1>6. \A k, n, s : \A i \in OfStepIn(tasks, k, n, s) :
        i[1] \in MachineContract /\ i[2] \in DOMAIN tasks[i[1]] /\ i = <<i[1], i[2]>>
  BY InAllNamed DEF OfStepIn, Named
<1>7. \A k, n, s : \A i \in OfStepIn(tasks, k, n, s) :
        i = called \/ tasks'[i[1]][i[2]] = tasks[i[1]][i[2]]
  BY <1>4, <1>6
<1>8. \A k, n, s :
        \/ s # 0 /\ called \in OfStepIn(tasks, k, n, s)
        \/ OutcomeIn(tasks', k, n, s) = OutcomeIn(tasks, k, n, s)
  <2> SUFFICES ASSUME NEW k, NEW n, NEW s, ~(s # 0 /\ called \in OfStepIn(tasks, k, n, s))
               PROVE  OutcomeIn(tasks', k, n, s) = OutcomeIn(tasks, k, n, s)
    OBVIOUS
  <2>1. s # 0 => \A i \in OfStepIn(tasks, k, n, s) : tasks'[i[1]][i[2]] = tasks[i[1]][i[2]]
    BY <1>7
  <2> QED BY <1>5, <2>1, SameOutcome
<1>9. CASE tasks[m][t].status \in M!Finished \/ how \notin M!Finished
  <2>1. \A h \in M!Finished : tasks'[m][t].status = h <=> tasks[m][t].status = h
    BY <1>4, <1>9, OutcomesStay
  <2>2. \A k, n, s : \A i \in OfStepIn(tasks, k, n, s) : \A h \in M!Finished :
          tasks'[i[1]][i[2]].status = h <=> tasks[i[1]][i[2]].status = h
    BY <1>7, <2>1
  <2>3. \A k, n, s : OutcomeIn(tasks', k, n, s) = OutcomeIn(tasks, k, n, s)
    BY <1>5, <2>2, SameOutcome
  <2>4. \A j \in ProcessContract : \A o \in DOMAIN instances[j] :
          RunIn(tasks', j, o, instances'[j][o]) = RunIn(tasks, j, o, instances[j][o])
    BY <1>3, <2>3 DEF RunIn
  <2> QED BY <1>3, <2>4, RunsStay
<1>10. CASE tasks[m][t].status \notin M!Finished /\ how \in M!Finished
  <2>1. CASE \A k \in ProcessContract : \A n \in DOMAIN instances[k] :
               ~(instances[k][n].currentStep # 0
                 /\ called \in OfStepIn(tasks, k, n, instances[k][n].currentStep))
    <3>1. \A j \in ProcessContract : \A o \in DOMAIN instances[j] :
            RunIn(tasks', j, o, instances'[j][o]) = RunIn(tasks, j, o, instances[j][o])
      BY <1>3, <1>8, <2>1 DEF RunIn
    <3> QED BY <1>3, <3>1, RunsStay
  <2>2. ASSUME NEW k \in ProcessContract, NEW n \in DOMAIN instances[k],
               instances[k][n].currentStep # 0,
               called \in OfStepIn(tasks, k, n, instances[k][n].currentStep)
        PROVE  A!Next
    <3> DEFINE c == instances[k][n].currentStep
               run == RunIn(tasks, k, n, instances[k][n])
               next == [run EXCEPT !.outcome = {how}]
    <3>1. OfStepIn(tasks, k, n, c) = {called} /\ OfStepIn(tasks', k, n, c) = {called}
      BY <1>5, <2>2, ReachedStep
    <3>2. called[1] = m /\ called[2] = t
      OBVIOUS
    <3>3. OutcomeIn(tasks, k, n, c) = {} /\ OutcomeIn(tasks', k, n, c) = {how}
      <4>1. OutcomeIn(tasks, k, n, c) =
              IF tasks[called[1]][called[2]].status \in M!Finished
                THEN {tasks[called[1]][called[2]].status} ELSE {}
        BY <2>2, <3>1, OutcomeOfOne
      <4>2. OutcomeIn(tasks', k, n, c) =
              IF tasks'[called[1]][called[2]].status \in M!Finished
                THEN {tasks'[called[1]][called[2]].status} ELSE {}
        BY <2>2, <3>1, OutcomeOfOne
      <4> HIDE DEF called
      <4> QED BY <1>10, <3>2, <4>1, <4>2
    <3>4. RunIn(tasks', k, n, instances'[k][n]) = next
      <4>1. RunIn(tasks', k, n, instances'[k][n]) = RunIn(tasks', k, n, instances[k][n])
        BY <1>3
      <4>2. RunIn(tasks', k, n, instances[k][n]) =
              [productDID |-> instances[k][n].productDID, currentStep |-> c,
               outcome |-> {how}, status |-> instances[k][n].status]
        <5> HIDE DEF OutcomeIn, how
        <5> QED BY <3>3 DEF RunIn
      <4>3. next = [productDID |-> instances[k][n].productDID, currentStep |-> c,
                    outcome |-> {how}, status |-> instances[k][n].status]
        <5> HIDE DEF OutcomeIn, how
        <5> QED BY DEF RunIn
      <4> QED BY <4>1, <4>2, <4>3
    <3>5. ASSUME NEW j \in ProcessContract, NEW o \in DOMAIN instances[j], j # k \/ o # n
          PROVE  RunIn(tasks', j, o, instances'[j][o]) = RunIn(tasks, j, o, instances[j][o])
      <4>1. \A s : called \notin OfStepIn(tasks, j, o, s)
        <5>1. Named(tasks, k, n, StepName(k, c), m, t)
          BY <2>2, <3>2, InAllNamed DEF OfStepIn
        <5>2. \A s : called \in OfStepIn(tasks, j, o, s) => Named(tasks, j, o, StepName(j, s), m, t)
          BY <3>2, InAllNamed DEF OfStepIn
        <5> QED BY <3>5, <5>1, <5>2 DEF Named
      <4> QED BY <1>3, <1>8, <4>1 DEF RunIn
    <3>6. \A j \in ProcessContract : \A o \in DOMAIN instances[j] :
            RunIn(tasks', j, o, instances'[j][o]) =
              IF j = k /\ o = n THEN next ELSE RunIn(tasks, j, o, instances[j][o])
      BY <3>4, <3>5
    <3>7. run.currentStep # 0 /\ run.outcome = {}
      BY <2>2, <3>3, RunShows
    <3> HIDE DEF run
    <3>8. A!Becomes(k, n, next) /\ n \in DOMAIN Runs[k] /\ Runs[k][n] = run
      BY <1>3, <3>6, RunMoves DEF run
    <3>9. how \in A!Outcome
      BY <1>10 DEF A!Outcome, M!Finished
    <3>10. A!Settle(k, n)
      BY <3>7, <3>8, <3>9 DEF A!Settle
    <3> QED BY <3>8, <3>10, MoveIsNext
  <2> QED BY <2>1, <2>2
<1> QED BY <1>9, <1>10

RunRecord(p, s, outcome, status) ==
  [productDID |-> p, currentStep |-> s, outcome |-> outcome, status |-> status]

Advanced(run) == [run EXCEPT !.currentStep = @ + 1, !.outcome = {}]

LEMMA RecordAdvanced ==
  ASSUME NEW run, NEW p, NEW c, NEW outcome, NEW status, NEW s,
         run = RunRecord(p, c, outcome, status), run.currentStep + 1 = s
  PROVE  Advanced(run) = RunRecord(p, s, {}, status)
<1>1. Advanced(run) = [[run EXCEPT !.currentStep = s] EXCEPT !.outcome = {}]
  BY DEF Advanced
<1>2. [run EXCEPT !.currentStep = s] = RunRecord(p, s, outcome, status)
  BY DEF RunRecord
<1>3. [RunRecord(p, s, outcome, status) EXCEPT !.outcome = {}] = RunRecord(p, s, {}, status)
  BY DEF RunRecord
<1> QED BY <1>1, <1>2, <1>3

\* A step of the contract is the next one of its run.
LEMMA StepRuns ==
  ASSUME ChainInv, NEW k \in ProcessContract, NEW n \in DOMAIN instances[k],
         NEW s \in 1 .. getNumberOfSteps(k), StepStep(k, n, s)
  PROVE  A!Next /\ OneUpdated(k, n, [instances[k][n] EXCEPT !.currentStep = s])
<1> DEFINE old == instances[k][n]
           inst == [old EXCEPT !.currentStep = s]
           run == RunIn(tasks, k, n, old)
           next == Advanced(run)
<1>0. InstancesTyped /\ IInv /\ Wired
  BY DEF ChainInv, IInv
<1>1. /\ old \in Instance /\ old.currentStep \in Nat /\ old.currentStep = s - 1
      /\ old.status \notin M!Finished
  BY ReachedStep, NoStepWhenDone
<1>2. s \in Nat /\ s # 0 /\ s <= getNumberOfSteps(k) /\ getNumberOfSteps(k) \in Nat
      /\ old.currentStep + 1 = s
  BY <1>1, NextSteps
<1>3. /\ inst \in Instance /\ inst.currentStep = s
      /\ inst.productDID = old.productDID /\ inst.status = old.status
  BY <1>1, <1>2 DEF Instance
<1>4. UpdatedInstance(k, n, inst)
  BY <1>0 DEF StepStep, step, stepMarked, InstancesTyped, UpdatedInstance
<1> HIDE DEF inst
<1>5. OneUpdated(k, n, inst)
  BY <1>0, <1>3, <1>4, InstancesUpdated
<1>6. /\ \A j \in ProcessContract : DOMAIN instances'[j] = DOMAIN instances[j]
      /\ \A j \in ProcessContract : \A o \in DOMAIN instances[j] :
           instances'[j][o] = IF j = k /\ o = n THEN inst ELSE instances[j][o]
  BY <1>5 DEF OneUpdated
<1>7. StepShows(k, n, StepName(k, s))
  BY <1>0, StepTasks DEF StepStep
<1>8. OutcomeIn(tasks', k, n, s) = {}
  <2>1. OfStepIn(tasks, k, n, s) = {}
    <3>1. s > old.currentStep
      BY <1>1, <1>2
    <3> QED BY <3>1 DEF ChainInv, InstancesFit, InstanceFits, StepsFit
  <2>2. ASSUME NEW i \in OfStepIn(tasks', k, n, s) PROVE tasks'[i[1]][i[2]].status = "Assigned"
    <3>1. Named(tasks', k, n, StepName(k, s), i[1], i[2]) /\ i = <<i[1], i[2]>>
      BY InAllNamed DEF OfStepIn
    <3>2. i[1] \in MachineContract /\ i[2] \in DOMAIN tasks'[i[1]]
      BY <3>1 DEF Named
    <3>3. i[2] \notin DOMAIN tasks[i[1]]
      <4> SUFFICES ASSUME i[2] \in DOMAIN tasks[i[1]] PROVE FALSE
        OBVIOUS
      <4>1. tasks'[i[1]][i[2]] = tasks[i[1]][i[2]]
        BY <1>7, <3>2 DEF StepShows
      <4>2. Named(tasks, k, n, StepName(k, s), i[1], i[2])
        BY <3>1, <4>1 DEF Named
      <4> QED BY <2>1, <4>2, InAllNamed DEF OfStepIn
    <3> QED BY <1>7, <3>2, <3>3 DEF StepShows
  <2>3. \A how : how \in OutcomeIn(tasks', k, n, s) <=>
          how \in M!Finished /\ \E i \in OfStepIn(tasks', k, n, s) : tasks'[i[1]][i[2]].status = how
    BY <1>2, OutcomeTold
  <2> HIDE DEF OutcomeIn
  <2> QED BY <2>2, <2>3 DEF M!Finished
<1>9. ASSUME NEW j \in ProcessContract, NEW o \in DOMAIN instances[j], j # k \/ o # n
      PROVE  RunIn(tasks', j, o, instances'[j][o]) = RunIn(tasks, j, o, instances[j][o])
  <2> DEFINE c == instances[j][o].currentStep
  <2>1. c # 0 => c \in 1 .. getNumberOfSteps(j)
    BY ReachedStep
  <2>2. c # 0 => StepName(j, c) # "StoreContainer"
    BY <2>1, NamesTell
  <2>3. c # 0 => OfStepIn(tasks', j, o, c) = OfStepIn(tasks, j, o, c)
    BY <1>7, <1>9, <2>2 DEF StepShows, OfStepIn
  <2>4. \A i \in OfStepIn(tasks, j, o, c) : tasks'[i[1]][i[2]] = tasks[i[1]][i[2]]
    <3>1. \A i \in OfStepIn(tasks, j, o, c) : i[1] \in MachineContract /\ i[2] \in DOMAIN tasks[i[1]]
      BY InAllNamed DEF OfStepIn, Named
    <3> QED BY <1>7, <3>1 DEF StepShows
  <2>5. OutcomeIn(tasks', j, o, c) = OutcomeIn(tasks, j, o, c)
    BY <2>3, <2>4, SameOutcome
  <2>6. instances'[j][o] = instances[j][o]
    BY <1>6, <1>9
  <2> QED BY <2>5, <2>6 DEF RunIn
<1>10. RunIn(tasks', k, n, instances'[k][n]) = next
  <2> DEFINE reached == [productDID |-> old.productDID, currentStep |-> s,
                         outcome |-> {}, status |-> old.status]
  <2>1. instances'[k][n] = inst
    BY <1>6
  <2>2. RunIn(tasks', k, n, inst) = reached
    <3> HIDE DEF OutcomeIn
    <3> QED BY <1>3, <1>8 DEF RunIn
  <2>3. run.currentStep + 1 = s
    BY <1>2, RunShows
  <2>4. next = reached
    <3>1. run = RunRecord(old.productDID, old.currentStep, OutcomeIn(tasks, k, n, old.currentStep), old.status)
      BY DEF RunIn, RunRecord
    <3> HIDE DEF run, old
    <3>2. next = RunRecord(old.productDID, s, {}, old.status)
      BY <2>3, <3>1, RecordAdvanced
    <3> QED BY <3>2 DEF RunRecord
  <2> QED BY <2>1, <2>2, <2>4
<1>11. \A j \in ProcessContract : \A o \in DOMAIN instances[j] :
         RunIn(tasks', j, o, instances'[j][o]) =
           IF j = k /\ o = n THEN next ELSE RunIn(tasks, j, o, instances[j][o])
  BY <1>9, <1>10
<1>12. s # 1 => OutcomeIn(tasks, k, n, s - 1) = {"FinishedSuccessfully"}
  <2> SUFFICES ASSUME s # 1 PROVE OutcomeIn(tasks, k, n, s - 1) = {"FinishedSuccessfully"}
    OBVIOUS
  <2>1. \E i \in OfStepIn(tasks, k, n, s - 1) : tasks[i[1]][i[2]].status = "FinishedSuccessfully"
    BY DEF StepStep, Justified
  <2>2. s - 1 # 0 /\ old.currentStep # 0
    BY <1>1, <1>2
  <2>3. PICK i : OfStepIn(tasks, k, n, s - 1) = {i}
    BY <1>1, <2>2, ReachedStep
  <2>4. tasks[i[1]][i[2]].status = "FinishedSuccessfully"
    BY <2>1, <2>3
  <2>5. "FinishedSuccessfully" \in M!Finished
    BY DEF M!Finished
  <2> QED BY <2>2, <2>3, <2>4, <2>5, OutcomeOfOne
<1>13. /\ run.currentStep = old.currentStep /\ run.status = old.status
       /\ run.outcome = OutcomeIn(tasks, k, n, old.currentStep)
  BY RunShows
<1> HIDE DEF run
<1>14. A!Becomes(k, n, next) /\ n \in DOMAIN Runs[k] /\ Runs[k][n] = run
  BY <1>6, <1>11, RunMoves DEF run
<1>15. /\ run.status \notin A!Outcome
       /\ run.currentStep < [j \in ProcessContract |-> getNumberOfSteps(j)][k]
       /\ run.currentStep = 0 \/ run.outcome = {"FinishedSuccessfully"}
  <2>1. run.status \notin A!Outcome
    BY <1>1, <1>13 DEF A!Outcome, M!Finished
  <2>2. old.currentStep < getNumberOfSteps(k) /\ (s = 1 => old.currentStep = 0)
    BY <1>1, <1>2
  <2> QED BY <1>1, <1>12, <1>13, <2>1, <2>2
<1>16. A!Advance(k, n)
  BY <1>14, <1>15 DEF A!Advance, Advanced
<1>17. A!Next
  BY <1>14, <1>16, MoveIsNext
<1> QED BY <1>5, <1>17 DEF inst

\* An instance that is ended, or killed, ends as a run.
LEMMA EndRuns ==
  ASSUME ChainInv, NEW k \in ProcessContract, NEW n \in DOMAIN instances[k],
         instances[k][n].status = "Started",
         NEW status \in {"Killed"} \cup M!Finished, EndStep(k, n, status)
  PROVE  A!Next /\ OneUpdated(k, n, [instances[k][n] EXCEPT !.finished = TRUE, !.status = status])
<1> DEFINE old == instances[k][n]
           inst == [old EXCEPT !.finished = TRUE, !.status = status]
           run == RunIn(tasks, k, n, old)
           next == [run EXCEPT !.status = status]
           N == getNumberOfSteps(k)
           c == old.currentStep
<1>0. InstancesTyped /\ tasks' = tasks
  BY DEF ChainInv, IInv, EndStep, end, machineVars, taskVars
<1>1. old \in Instance /\ c \in Nat
  BY ReachedStep
<1>2. /\ inst \in Instance /\ inst.currentStep = c
      /\ inst.productDID = old.productDID /\ inst.status = status
  BY <1>1 DEF Instance
<1>3. UpdatedInstance(k, n, inst)
  BY <1>0, <1>1 DEF EndStep, end, InstancesTyped, UpdatedInstance
<1> HIDE DEF inst
<1>4. OneUpdated(k, n, inst)
  BY <1>0, <1>2, <1>3, InstancesUpdated
<1>5. /\ \A j \in ProcessContract : DOMAIN instances'[j] = DOMAIN instances[j]
      /\ \A j \in ProcessContract : \A o \in DOMAIN instances[j] :
           instances'[j][o] = IF j = k /\ o = n THEN inst ELSE instances[j][o]
  BY <1>4 DEF OneUpdated
<1>6. RunIn(tasks, k, n, inst) = next
  BY <1>2 DEF RunIn
<1>7. \A j \in ProcessContract : \A o \in DOMAIN instances[j] :
        RunIn(tasks', j, o, instances'[j][o]) =
          IF j = k /\ o = n THEN next ELSE RunIn(tasks, j, o, instances[j][o])
  BY <1>0, <1>5, <1>6
<1>8. /\ StepsFit(tasks, k, n, c) /\ N \in Nat /\ N >= 1 /\ N \in 1 .. N
  BY NextSteps DEF ChainInv, InstancesFit, InstanceFits
<1>9. /\ \A r \in 1 .. N : r > c => OfStepIn(tasks, k, n, r) = {}
      /\ \A r \in 1 .. N : r < c =>
           \A i \in OfStepIn(tasks, k, n, r) : tasks[i[1]][i[2]].status = "FinishedSuccessfully"
      /\ c <= N
  BY <1>8 DEF StepsFit
<1> HIDE DEF c, N
<1>10. status = "FinishedSuccessfully" => c = N /\ OutcomeIn(tasks, k, n, c) # {}
  <2> SUFFICES ASSUME status = "FinishedSuccessfully" PROVE c = N /\ OutcomeIn(tasks, k, n, c) # {}
    OBVIOUS
  <2>1. PICK i \in OfStepIn(tasks, k, n, N) : tasks[i[1]][i[2]].status \in M!Finished
    BY DEF EndStep, N
  <2>2. ~(N > c)
    BY <1>8, <1>9, <2>1
  <2>3. c = N /\ N # 0
    BY <1>1, <1>8, <1>9, <2>2
  <2>4. tasks[i[1]][i[2]].status \in OutcomeIn(tasks, k, n, N)
    BY <2>1, <2>3, OutcomeTold
  <2> QED BY <2>3, <2>4
<1>11. status = "FinishedUnsuccessfully" => OutcomeIn(tasks, k, n, c) = {"FinishedUnsuccessfully"}
  <2> SUFFICES ASSUME status = "FinishedUnsuccessfully"
               PROVE  OutcomeIn(tasks, k, n, c) = {"FinishedUnsuccessfully"}
    OBVIOUS
  <2>1. PICK r \in 1 .. N : \E i \in OfStepIn(tasks, k, n, r) :
          tasks[i[1]][i[2]].status = "FinishedUnsuccessfully"
    BY DEF EndStep, N
  <2>2. PICK i \in OfStepIn(tasks, k, n, r) : tasks[i[1]][i[2]].status = "FinishedUnsuccessfully"
    BY <2>1
  <2>3. ~(r > c) /\ ~(r < c)
    BY <1>9, <2>2
  <2>4. r = c /\ c # 0
    BY <1>1, <1>8, <2>3
  <2>5. PICK u : OfStepIn(tasks, k, n, c) = {u}
    BY <2>4, ReachedStep DEF c
  <2>6. tasks[u[1]][u[2]].status = "FinishedUnsuccessfully"
    BY <2>2, <2>4, <2>5
  <2>7. "FinishedUnsuccessfully" \in M!Finished
    BY DEF M!Finished
  <2> QED BY <2>4, <2>5, <2>6, <2>7, OutcomeOfOne
<1>12. run.currentStep = c /\ run.status = "Started" /\ run.outcome = OutcomeIn(tasks, k, n, c)
  BY RunShows DEF c
<1> HIDE DEF run
<1>13. A!Becomes(k, n, next) /\ n \in DOMAIN Runs[k] /\ Runs[k][n] = run
  BY <1>5, <1>7, RunMoves DEF run
<1>14. A!MayEnd(k, run, status) /\ status \in A!Outcome \cup {"Killed"}
  BY <1>10, <1>11, <1>12 DEF A!MayEnd, A!Outcome, M!Finished, N
<1>15. A!End(k, n)
  BY <1>12, <1>13, <1>14 DEF A!End
<1>16. A!Next
  BY <1>13, <1>15, MoveIsNext
<1> QED BY <1>4, <1>16 DEF inst

LEMMA OneMore ==
  ASSUME NEW S, NEW seq \in Seq(S), NEW elt \in S
  PROVE  Append(seq, elt) = [o \in 1 .. Len(seq) + 1 |-> IF o <= Len(seq) THEN seq[o] ELSE elt]
<1> DEFINE new == Append(seq, elt)
           l == Len(seq)
<1>1. /\ new \in Seq(S) /\ Len(new) = l + 1 /\ new[l + 1] = elt /\ l \in Nat
      /\ \A o \in 1 .. l : new[o] = seq[o]
  BY AppendProperties, LenProperties
<1> HIDE DEF new, l
<1>2. new \in [1 .. l + 1 -> S]
  BY <1>1, LenProperties
<1>3. \A o \in 1 .. l + 1 : IF o <= l THEN o \in 1 .. l ELSE o = l + 1
  BY <1>1
<1>4. \A o \in 1 .. l + 1 : new[o] = IF o <= l THEN seq[o] ELSE elt
  BY <1>1, <1>3
<1> QED BY <1>2, <1>4 DEF new, l

\* A new instance is a new run.
LEMMA StartRuns ==
  ASSUME ChainInv, NEW k \in ProcessContract, NEW p \in ProductID,
         startProcess(k, p, "productOwner")
  PROVE  A!Next
<1> DEFINE new == Len(instances[k]) + 1
           before(j) == [o \in DOMAIN instances[j] |-> RunIn(tasks, j, o, instances[j][o])]
           after(j) == [o \in DOMAIN instances'[j] |-> RunIn(tasks', j, o, instances'[j][o])]
<1>0. InstancesTyped /\ tasks' = tasks
  BY DEF ChainInv, IInv, startProcess, machineVars, taskVars
<1>1. /\ Len(instances[k]) \in Nat /\ DOMAIN instances[k] = 1 .. Len(instances[k])
      /\ DOMAIN instances'[k] = 1 .. Len(instances[k]) + 1
      /\ instances'[k][new] = NewInstance(p)
      /\ \A o \in DOMAIN instances[k] : instances'[k][o] = instances[k][o]
      /\ \A j \in ProcessContract \ {k} : instances'[j] = instances[j]
  BY <1>0, InstanceStarted
<1>2. RunIn(tasks', k, new, instances'[k][new]) = A!NewRun(p)
  <2>1. OutcomeIn(tasks', k, new, 0) = {}
    BY DEF OutcomeIn
  <2>2. /\ NewInstance(p).productDID = p /\ NewInstance(p).currentStep = 0
        /\ NewInstance(p).status = "Started"
    BY DEF NewInstance
  <2> HIDE DEF new, OutcomeIn
  <2> QED BY <1>1, <2>1, <2>2 DEF RunIn, A!NewRun
<1>3. Runs = [j \in ProcessContract |-> before(j)] /\ Runs' = [j \in ProcessContract |-> after(j)]
  BY RunsAre
<1>4. after(k) = Append(before(k), A!NewRun(p))
  <2> DEFINE l == Len(instances[k])
             Run == {before(k)[o] : o \in 1 .. l} \cup {A!NewRun(p)}
  <2>1. before(k) \in Seq(Run) /\ Len(before(k)) = l
    <3>1. l \in Nat /\ before(k) \in [1 .. l -> Run]
      BY <1>1
    <3> HIDE DEF before, Run, l
    <3> QED BY <3>1
  <2>2. after(k) = [o \in 1 .. l + 1 |-> IF o <= l THEN before(k)[o] ELSE A!NewRun(p)]
    <3>1. DOMAIN after(k) = 1 .. l + 1
      BY <1>1
    <3>2. ASSUME NEW o \in 1 .. l + 1
          PROVE  after(k)[o] = IF o <= l THEN before(k)[o] ELSE A!NewRun(p)
      <4>1. CASE o <= l
        <5>1. o \in DOMAIN instances[k] /\ o \in DOMAIN instances'[k]
          BY <1>1, <4>1
        <5> QED BY <1>0, <1>1, <4>1, <5>1
      <4>2. CASE ~(o <= l)
        <5>1. o = new /\ o \in DOMAIN instances'[k]
          BY <1>1, <4>2
        <5> QED BY <1>2, <4>2, <5>1
      <4> QED BY <4>1, <4>2
    <3> HIDE DEF before, l
    <3> QED BY <3>1, <3>2
  <2>3. Append(before(k), A!NewRun(p)) =
          [o \in 1 .. l + 1 |-> IF o <= l THEN before(k)[o] ELSE A!NewRun(p)]
    <3>1. A!NewRun(p) \in Run
      OBVIOUS
    <3> HIDE DEF before, Run, l
    <3> QED BY <2>1, <3>1, OneMore
  <2> HIDE DEF before, after, l
  <2> QED BY <2>2, <2>3
<1>5. \A j \in ProcessContract \ {k} : after(j) = before(j)
  BY <1>0, <1>1
<1> HIDE DEF before, after
<1>6. Runs' = [Runs EXCEPT ![k] = Append(@, A!NewRun(p))]
  BY <1>3, <1>4, <1>5
<1> QED BY <1>6 DEF A!Next, A!Begin

----
\* An instance that has not ended has the status it began with.
OpenAreStarted ==
  \A k \in ProcessContract : \A n \in DOMAIN instances[k] :
    ~instances[k][n].finished => instances[k][n].status = "Started"

RunInv == FactoryInv /\ OpenAreStarted

\* An instance was updated and is still as it should be.
LEMMA UpdatedStayOpen ==
  ASSUME OpenAreStarted, NEW k \in ProcessContract, NEW n \in DOMAIN instances[k],
         NEW inst, OneUpdated(k, n, inst), inst.finished \/ inst.status = "Started"
  PROVE  OpenAreStarted'
BY DEF OpenAreStarted, OneUpdated

LEMMA ChainRuns ==
  ASSUME ChainInv, OpenAreStarted, ChainStep
  PROVE  [A!Next]_Runs /\ OpenAreStarted'
<1>1. CASE QuietStep
  <2>1. tasks' = tasks /\ instances' = instances
    BY <1>1 DEF QuietStep, processVars
  <2>2. Runs' = Runs
    BY <2>1, RunsStay
  <2>3. OpenAreStarted'
    BY <2>1 DEF OpenAreStarted
  <2> QED BY <2>2, <2>3
<1>2. CASE CallStep
  <2>1. OpenAreStarted'
    BY <1>2 DEF CallStep, processVars, OpenAreStarted
  <2> QED BY <1>2, <2>1, CallRuns
<1>3. ASSUME NEW k \in ProcessContract, NEW p \in ProductID, startProcess(k, p, "productOwner")
      PROVE  A!Next /\ OpenAreStarted'
  <2> DEFINE new == Len(instances[k]) + 1
  <2>1. /\ DOMAIN instances[k] = 1 .. Len(instances[k]) /\ Len(instances[k]) \in Nat
        /\ DOMAIN instances'[k] = 1 .. new
        /\ instances'[k][new] = NewInstance(p)
        /\ \A o \in DOMAIN instances[k] : instances'[k][o] = instances[k][o]
        /\ \A j \in ProcessContract \ {k} : instances'[j] = instances[j]
    BY <1>3, InstanceStarted DEF ChainInv, IInv
  <2>2. NewInstance(p).status = "Started"
    BY DEF NewInstance
  <2>3. \A o \in 1 .. new : o \in 1 .. Len(instances[k]) \/ o = new
    BY <2>1
  <2> HIDE DEF new
  <2>4. \A o \in DOMAIN instances'[k] :
          ~instances'[k][o].finished => instances'[k][o].status = "Started"
    BY <2>1, <2>2, <2>3 DEF OpenAreStarted
  <2>5. ASSUME NEW j \in ProcessContract, NEW o \in DOMAIN instances'[j], ~instances'[j][o].finished
        PROVE  instances'[j][o].status = "Started"
    <3>1. CASE j = k
      BY <2>4, <2>5, <3>1
    <3>2. CASE j # k
      <4>1. instances'[j] = instances[j]
        BY <2>1, <3>2
      <4> QED BY <2>5, <4>1 DEF OpenAreStarted
    <3> QED BY <3>1, <3>2
  <2>6. OpenAreStarted'
    BY <2>5 DEF OpenAreStarted
  <2> QED BY <1>3, <2>6, StartRuns
<1>4. ASSUME NEW k \in ProcessContract, NEW n \in DOMAIN instances[k],
             NEW s \in 1 .. getNumberOfSteps(k), StepStep(k, n, s)
      PROVE  A!Next /\ OpenAreStarted'
  <2> DEFINE inst == [instances[k][n] EXCEPT !.currentStep = s]
  <2>1. A!Next /\ OneUpdated(k, n, inst)
    BY <1>4, StepRuns
  <2>2. /\ instances[k][n] \in Instance
        /\ ~instances[k][n].finished => instances[k][n].status = "Started"
    BY ReachedStep DEF OpenAreStarted
  <2>3. inst.finished = instances[k][n].finished /\ inst.status = instances[k][n].status
        /\ instances[k][n].finished \in BOOLEAN
    BY <2>2 DEF Instance
  <2>4. inst.finished \/ inst.status = "Started"
    BY <2>2, <2>3
  <2> HIDE DEF inst
  <2> QED BY <2>1, <2>4, UpdatedStayOpen
<1>5. ASSUME NEW k \in ProcessContract, NEW n \in DOMAIN instances[k],
             NEW status \in {"Killed"} \cup M!Finished, EndStep(k, n, status)
      PROVE  A!Next /\ OpenAreStarted'
  <2> DEFINE inst == [instances[k][n] EXCEPT !.finished = TRUE, !.status = status]
  <2>1. instances[k][n].status = "Started"
    BY <1>5 DEF EndStep, end, OpenAreStarted
  <2>2. A!Next /\ OneUpdated(k, n, inst)
    BY <1>5, <2>1, EndRuns
  <2>3. inst.finished
    BY ReachedStep DEF Instance
  <2> HIDE DEF inst
  <2> QED BY <2>2, <2>3, UpdatedStayOpen
<1>6. CASE SettlingStep
  <2>1. CallStep
    BY <1>6 DEF SettlingStep, CallStep
  <2> QED BY <1>2, <2>1
<1>7. CASE ClientStep
  BY <1>1, <1>4, <1>5, <1>6, <1>7 DEF ClientStep
<1> QED BY <1>2, <1>3, <1>5, <1>7 DEF ChainStep

LEMMA RunInit ==
  ASSUME FactoryInit
  PROVE  A!Init /\ OpenAreStarted
<1>1. \A k \in ProcessContract : instances[k] = <<>>
  BY DEF FactoryInit, Init
<1>2. OpenAreStarted
  BY <1>1 DEF OpenAreStarted
<1>3. \A k \in ProcessContract :
        [n \in DOMAIN instances[k] |-> RunIn(tasks, k, n, instances[k][n])] = <<>>
  <2> SUFFICES ASSUME NEW k \in ProcessContract
               PROVE  [n \in DOMAIN instances[k] |-> RunIn(tasks, k, n, instances[k][n])] = <<>>
    OBVIOUS
  <2>1. DOMAIN instances[k] = {}
    BY <1>1
  <2> HIDE DEF RunIn
  <2> QED BY <2>1
<1>4. Runs = [k \in ProcessContract |-> <<>>]
  BY <1>3, RunsAre
<1> QED BY <1>2, <1>4 DEF A!Init

(***************************************************************************)
(* The instances are runs of the abstract process, for any number of them, *)
(* of products, of reconnections and restarts, and whatever is lost, fails *)
(* or is killed.                                                           *)
(***************************************************************************)
THEOREM ImplementsProcessHolds == FactorySpec => ImplementsProcess
<1>1. FactoryInit => A!Init /\ RunInv
  BY FactoryInitInvariant, RunInit DEF RunInv
<1>2. RunInv /\ [FactoryNext]_factoryVars => RunInv' /\ [A!Next]_Runs
  <2> SUFFICES ASSUME RunInv, [FactoryNext]_factoryVars
               PROVE  RunInv' /\ [A!Next]_Runs
    OBVIOUS
  <2>1. ChainStep /\ ChainInv
    BY ActionsAreSteps DEF RunInv, FactoryInv, GatewayStep
  <2>2. FactoryInv'
    BY FactoryNextInvariant DEF RunInv
  <2> QED BY <2>1, <2>2, ChainRuns DEF RunInv
<1> QED BY <1>1, <1>2, PTL DEF FactorySpec, ImplementsProcess, A!Spec
====
