---- MODULE Machine ----
(***************************************************************************)
(* contracts/Machine.sol and the parts of its subclasses (VGR, HBW, MPO,   *)
(* SLD, MockMachine) that need no other contract: the digital twins of the *)
(* machines.  A machine holds the tasks that authorised processes assign   *)
(* to it, the readings its client saves and the alerts it raises.          *)
(*                                                                         *)
(* The variables hold the state of every deployed machine contract.  An    *)
(* operator's first conjuncts are the function's modifiers and requires;   *)
(* a call that fails one reverts and is no step.  sender is msg.sender.    *)
(* Task, reading and alert IDs come from counters that start at one, and   *)
(* nothing is ever deleted: the ID is the index in the sequence, and       *)
(* "exists" is membership of its domain.  Of a timestamp the code only     *)
(* asks whether it is zero, so it is the Boolean started or finished.      *)
(***************************************************************************)
EXTENDS Naturals, Sequences, FiniteSets

CONSTANTS
  MachineContract,     \* deployed machine contracts
  machineOwner,        \* the owner account of each
  machineDID,          \* the account of each machine's client
  Caller,              \* accounts and contracts that call the machines
  Process,             \* those among them that are process contracts
  ProductID,           \* product DIDs
  TaskName,            \* names of the task types
  ParamName, Param,    \* names and values of task inputs
  Note,                \* finish notes
  InfoName, Info,      \* machine information
  ReadingType,
  AlertReading,        \* the reading type each machine watches (or None)
  AlertReadingType,    \* the type of the alert a watched reading raises
  None                 \* address(0), an unset input or information

ASSUME MachineAssumption ==
  /\ Process \subseteq Caller
  /\ machineOwner \in [MachineContract -> Caller]
  /\ machineDID \in [MachineContract -> Caller]
  /\ AlertReading \in [MachineContract -> ReadingType \cup {None}]
  /\ AlertReadingType \in [MachineContract -> {"Major", "Critical"}]
  /\ None \notin Caller \cup ProductID \cup Param \cup Info \cup ReadingType

VARIABLES
  tasks,
  productsTasks,
  authorizedProcesses,
  readings,
  alerts,
  info

taskVars == <<tasks, productsTasks>>
sensorVars == <<readings, alerts>>
vars == <<taskVars, authorizedProcesses, sensorVars, info>>

Finished == {"FinishedSuccessfully", "FinishedUnsuccessfully"}

TaskStatus == {"Assigned", "Started", "Killed"} \cup Finished

----
\* The modifiers.

onlyMachine(m, sender) == sender = machineDID[m]

onlyMachineOwner(m, sender) == sender = machineOwner[m]

onlyProcess(m, sender) == sender \in authorizedProcesses[m] \cup {machineOwner[m]}

taskExists(m, t) == t \in DOMAIN tasks[m]

----

Init ==
  /\ tasks = [m \in MachineContract |-> <<>>]
  /\ productsTasks = [m \in MachineContract |-> [p \in ProductID |-> <<>>]]
  /\ authorizedProcesses = [m \in MachineContract |-> {}]
  /\ readings = [m \in MachineContract |-> <<>>]
  /\ alerts = [m \in MachineContract |-> <<>>]
  /\ info = [m \in MachineContract |-> [n \in InfoName |-> None]]

\* The record of a new task, with the inputs the subclass saves with it.
NewTask(p, name, processID, sender, params) ==
  [productDID |-> p, taskName |-> name, processID |-> processID,
   processContractAddress |-> sender, params |-> params,
   started |-> FALSE, finished |-> FALSE, status |-> "Assigned", finishNote |-> None]

\* The tables of tasks and of a product's tasks after m got one more task.
TasksWith(ts, m, task) == [ts EXCEPT ![m] = Append(@, task)]

\* A mutation: the ID is read before the counter is incremented.
IndexTooEarly(index, ts, m, p) ==
  IF p = None THEN index ELSE [index EXCEPT ![m][p] = Append(@, Len(ts[m]))]

IndexWith(index, ts, m, p) ==
  IF p = None THEN index ELSE [index EXCEPT ![m][p] = Append(@, Len(ts[m]) + 1)]

assignTask(m, processID, p, name, params, sender) ==
  /\ onlyProcess(m, sender)
  /\ tasks' = TasksWith(tasks, m, NewTask(p, name, processID, sender, params))
  /\ productsTasks' = IndexWith(productsTasks, tasks, m, p)
  /\ UNCHANGED <<authorizedProcesses, sensorVars, info>>

\* A mutation: a task may be started again.
startTaskAgain(m, t, sender) ==
  /\ taskExists(m, t)
  /\ onlyMachine(m, sender)
  /\ tasks' = [tasks EXCEPT ![m][t].status = "Started", ![m][t].started = TRUE]
  /\ UNCHANGED <<productsTasks, authorizedProcesses, sensorVars, info>>

\* Only a task that was started is refused: one that was killed or finished
\* without a start becomes Started.
startTask(m, t, sender) ==
  /\ taskExists(m, t)
  /\ onlyMachine(m, sender)
  /\ ~tasks[m][t].started
  /\ tasks' = [tasks EXCEPT ![m][t].status = "Started", ![m][t].started = TRUE]
  /\ UNCHANGED <<productsTasks, authorizedProcesses, sensorVars, info>>

\* A mutation: the reason and the type of the alert are swapped.
AlertsSwapped(m, id, reason, type) ==
  [alerts EXCEPT ![m] = Append(@, [taskID |-> id, reason |-> type, alertType |-> reason])]

AlertsWith(m, id, reason, type) ==
  [alerts EXCEPT ![m] = Append(@, [taskID |-> id, reason |-> reason, alertType |-> type])]

TaskFinishedWith(m, t, status, note) ==
  [tasks EXCEPT ![m][t].status = status, ![m][t].finished = TRUE, ![m][t].finishNote = note]

\* A mutation: a task that was killed may still be finished.
finishTaskUnlessFinished(m, t, status, note, sender) ==
  /\ taskExists(m, t)
  /\ onlyMachine(m, sender)
  /\ tasks[m][t].status \notin Finished
  /\ tasks' = TaskFinishedWith(m, t, status, note)
  /\ alerts' = IF status = "FinishedUnsuccessfully" THEN AlertsWith(m, t, note, "Minor") ELSE alerts
  /\ UNCHANGED <<productsTasks, authorizedProcesses, readings, info>>

finishTask(m, t, status, note, sender) ==
  /\ taskExists(m, t)
  /\ onlyMachine(m, sender)
  /\ ~tasks[m][t].finished
  /\ tasks' = TaskFinishedWith(m, t, status, note)
  /\ alerts' = IF status = "FinishedUnsuccessfully" THEN AlertsWith(m, t, note, "Minor") ELSE alerts
  /\ UNCHANGED <<productsTasks, authorizedProcesses, readings, info>>

\* A mutation: a killed task gets no finish timestamp.
killTaskUntimed(m, t, sender) ==
  /\ taskExists(m, t)
  /\ onlyMachineOwner(m, sender)
  /\ ~tasks[m][t].finished
  /\ tasks' = [tasks EXCEPT ![m][t].status = "Killed"]
  /\ UNCHANGED <<productsTasks, authorizedProcesses, sensorVars, info>>

killTask(m, t, sender) ==
  /\ taskExists(m, t)
  /\ onlyMachineOwner(m, sender)
  /\ ~tasks[m][t].finished
  /\ tasks' = [tasks EXCEPT ![m][t].status = "Killed", ![m][t].finished = TRUE]
  /\ UNCHANGED <<productsTasks, authorizedProcesses, sensorVars, info>>

\* paramsNames, which the code also extends, is read by no function.
saveTaskParam(m, t, name, value, sender) ==
  /\ taskExists(m, t)
  /\ onlyProcess(m, sender)
  /\ tasks' = [tasks EXCEPT ![m][t].params[name] = value]
  /\ UNCHANGED <<productsTasks, authorizedProcesses, sensorVars, info>>

(***************************************************************************)
(* saveReadingVGR, -HBW, -MPO, -SLD and saveMockReading: the reading is    *)
(* saved for whatever task ID the client gives (there is no check), and    *)
(* the machines that watch a reading type raise an alert when the value is *)
(* out of bounds.  The ID the alert carries is the reading's.              *)
(***************************************************************************)
saveReading(m, taskID, type, critical, sender) ==
  /\ onlyMachine(m, sender)
  /\ readings' = [readings EXCEPT ![m] =
       Append(@, [readingType |-> type, critical |-> critical, taskID |-> taskID])]
  /\ alerts' = IF critical /\ type = AlertReading[m]
                 THEN AlertsWith(m, Len(readings[m]) + 1, type, AlertReadingType[m])
                 ELSE alerts
  /\ UNCHANGED <<taskVars, authorizedProcesses, info>>

\* infoNames.insert reverts for a name that was saved before.
saveMachineInfo(m, name, value, sender) ==
  /\ onlyMachineOwner(m, sender)
  /\ info[m][name] = None
  /\ info' = [info EXCEPT ![m][name] = value]
  /\ UNCHANGED <<taskVars, authorizedProcesses, sensorVars>>

authorizeProcess(m, process, sender) ==
  /\ onlyMachineOwner(m, sender)
  /\ process \notin authorizedProcesses[m]
  /\ authorizedProcesses' = [authorizedProcesses EXCEPT ![m] = @ \cup {process}]
  /\ UNCHANGED <<taskVars, sensorVars, info>>

deauthorizeProcess(m, process, sender) ==
  /\ onlyMachineOwner(m, sender)
  /\ process \in authorizedProcesses[m]
  /\ authorizedProcesses' = [authorizedProcesses EXCEPT ![m] = @ \ {process}]
  /\ UNCHANGED <<taskVars, sensorVars, info>>

----
(***************************************************************************)
(* Any caller may call any function.  A subclass may drop the product and  *)
(* save any inputs with the task it assigns (MockMachine's first task type *)
(* has neither).  The machine clients finish a task with one of the two    *)
(* Finished statuses only.                                                 *)
(***************************************************************************)
TaskStep(m, sender) ==
  \/ \E p \in ProductID \cup {None}, name \in TaskName, params \in [ParamName -> Param \cup {None}] :
       assignTask(m, 1, p, name, params, sender)
  \/ \E t \in DOMAIN tasks[m] :
       \/ startTask(m, t, sender)
       \/ killTask(m, t, sender)
       \/ \E status \in Finished, note \in Note : finishTask(m, t, status, note, sender)
       \/ \E name \in ParamName, v \in Param : saveTaskParam(m, t, name, v, sender)

SensorStep(m, sender) ==
  \E t \in {0} \cup DOMAIN tasks[m], type \in ReadingType, critical \in BOOLEAN :
    saveReading(m, t, type, critical, sender)

OwnerStep(m, sender) ==
  \/ \E process \in Process :
       authorizeProcess(m, process, sender) \/ deauthorizeProcess(m, process, sender)
  \/ \E name \in InfoName, v \in Info : saveMachineInfo(m, name, v, sender)

Next ==
  \E m \in MachineContract, sender \in Caller :
    TaskStep(m, sender) \/ SensorStep(m, sender) \/ OwnerStep(m, sender)

Spec == Init /\ [][Next]_vars

----

Task ==
  [productDID : ProductID \cup {None}, taskName : TaskName, processID : Nat,
   processContractAddress : Caller, params : [ParamName -> Param \cup {None}],
   started : BOOLEAN, finished : BOOLEAN, status : TaskStatus, finishNote : Note \cup {None}]

Reading == [readingType : ReadingType, critical : BOOLEAN, taskID : Nat]

Alert == [taskID : Nat, reason : Note \cup {None} \cup ReadingType,
          alertType : {"Minor", "Major", "Critical"}]

TypeOK ==
  /\ tasks \in [MachineContract -> Seq(Task)]
  /\ productsTasks \in [MachineContract -> [ProductID -> Seq(Nat)]]
  /\ authorizedProcesses \in [MachineContract -> SUBSET Process]
  /\ readings \in [MachineContract -> Seq(Reading)]
  /\ alerts \in [MachineContract -> Seq(Alert)]
  /\ info \in [MachineContract -> [InfoName -> Info \cup {None}]]

(***************************************************************************)
(* A task's status and its two timestamps tell the same story, although    *)
(* four functions write them separately: no status but Assigned and        *)
(* Started is reached without a finish timestamp, Started needs a start,   *)
(* and Assigned rules out both.                                            *)
(***************************************************************************)
StatusFits(task) ==
  /\ task.status = "Assigned" => ~task.started /\ ~task.finished
  /\ task.status = "Started" => task.started
  /\ task.status \in Finished \cup {"Killed"} => task.finished

StatusMatchesTimestamps ==
  \A m \in MachineContract : \A t \in DOMAIN tasks[m] : StatusFits(tasks[m][t])

(***************************************************************************)
(* A task that was started and is finished is settled: no later call, late *)
(* or repeated, by the machine's client or the owner, changes how it ended.*)
(***************************************************************************)
Outcome(task) == [status |-> task.status, note |-> task.finishNote]

SettledKept ==
  \A m \in MachineContract : \A t \in DOMAIN tasks[m] :
    tasks[m][t].started /\ tasks[m][t].finished =>
      Outcome(tasks'[m][t]) = Outcome(tasks[m][t])

SettledTasksAreFinal == [][SettledKept]_vars

(***************************************************************************)
(* Failures and minor alerts correspond: a task that ended unsuccessfully  *)
(* has exactly one minor alert, which carries its ID and its note, however *)
(* often the client retries; a task that was killed has none, and no alert *)
(* names a task that is not finished.                                      *)
(***************************************************************************)
MinorAlerts(m, t) ==
  {i \in DOMAIN alerts[m] : alerts[m][i].alertType = "Minor" /\ alerts[m][i].taskID = t}

FailuresAlertOnce ==
  \A m \in MachineContract :
    /\ \A t \in DOMAIN tasks[m] :
         /\ tasks[m][t].status = "FinishedUnsuccessfully" =>
              \E i \in MinorAlerts(m, t) :
                /\ alerts[m][i].reason = tasks[m][t].finishNote
                /\ MinorAlerts(m, t) = {i}
         /\ \A i, j \in MinorAlerts(m, t) : i = j
         /\ MinorAlerts(m, t) # {} => tasks[m][t].finished
         /\ tasks[m][t].status \in {"Killed", "FinishedSuccessfully"} => MinorAlerts(m, t) = {}
    /\ \A i \in DOMAIN alerts[m] :
         alerts[m][i].alertType = "Minor" => taskExists(m, alerts[m][i].taskID)

(***************************************************************************)
(* The index by product is complete and exact: getProductTasks(p) lists,   *)
(* in the order of assignment, the tasks assigned for p, each once.        *)
(***************************************************************************)
IndexedTasksMatch ==
  \A m \in MachineContract, p \in ProductID :
    /\ \A i \in DOMAIN productsTasks[m][p] :
         /\ taskExists(m, productsTasks[m][p][i])
         /\ tasks[m][productsTasks[m][p][i]].productDID = p
         /\ i > 1 => productsTasks[m][p][i - 1] < productsTasks[m][p][i]
    /\ \A t \in DOMAIN tasks[m] :
         tasks[m][t].productDID = p => \E i \in DOMAIN productsTasks[m][p] : productsTasks[m][p][i] = t

(***************************************************************************)
(* The web application shows the ID of every alert as that of a reading    *)
(* (MachineAlerts.js:39).  The alert of a failed task carries a task ID.   *)
(***************************************************************************)
AlertsNameReadings ==
  \A m \in MachineContract : \A i \in DOMAIN alerts[m] :
    alerts[m][i].taskID \in DOMAIN readings[m]
====
