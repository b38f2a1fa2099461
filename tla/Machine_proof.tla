---- MODULE Machine_proof ----
(***************************************************************************)
(* Proofs about the machine contracts, for every set of machines, callers, *)
(* processes, products, notes and readings.                                *)
(*                                                                         *)
(* Type correctness is inductive, and so is the agreement of every task's  *)
(* status with its timestamps once the types are known.  That a settled    *)
(* task is final needs no invariant but the types: startTask asks whether  *)
(* the task was started, finishTask and killTask whether it is finished.   *)
(*                                                                         *)
(* That every failure raised one alert is inductive beside the types: the  *)
(* alert of a task is appended by the call that finishes it, an alert is   *)
(* never of a task still to come, and no task finishes twice.              *)
(***************************************************************************)
EXTENDS Machine, SequenceTheorems, TLAPS

\* What one step does to the tasks of the machines.
Assigned(m, task) == tasks' = TasksWith(tasks, m, task)

Updated(m, t, task) == tasks' = [tasks EXCEPT ![m] = [@ EXCEPT ![t] = task]]

\* The tasks ts of the machines after one was assigned: the old ones are kept.
Grown(ts, us, m, task) ==
  /\ us \in [MachineContract -> Seq(Task)]
  /\ \A n \in MachineContract : \A u \in DOMAIN ts[n] : u \in DOMAIN us[n] /\ us[n][u] = ts[n][u]
  /\ \A n \in MachineContract : \A u \in DOMAIN us[n] :
       u \in DOMAIN ts[n] \/ (n = m /\ u = Len(ts[m]) + 1 /\ us[n][u] = task)
  /\ Len(ts[m]) + 1 \in DOMAIN us[m]
  /\ us[m][Len(ts[m]) + 1] = task

LEMMA TasksGrown ==
  ASSUME NEW ts \in [MachineContract -> Seq(Task)], NEW m \in MachineContract, NEW task \in Task
  PROVE  Grown(ts, TasksWith(ts, m, task), m, task)
<1> DEFINE s == ts[m]
           us == TasksWith(ts, m, task)
<1>1. s \in Seq(Task)
  OBVIOUS
<1>2. /\ Append(s, task) \in Seq(Task)
      /\ Len(Append(s, task)) = Len(s) + 1
      /\ \A i \in 1 .. Len(s) : Append(s, task)[i] = s[i]
      /\ Append(s, task)[Len(s) + 1] = task
      /\ Len(s) \in Nat
      /\ DOMAIN s = 1 .. Len(s)
      /\ DOMAIN Append(s, task) = 1 .. Len(s) + 1
  BY <1>1, AppendProperties, LenProperties
<1>3. /\ us \in [MachineContract -> Seq(Task)]
      /\ us[m] = Append(s, task)
      /\ \A n \in MachineContract \ {m} : us[n] = ts[n]
  BY <1>2 DEF TasksWith
<1> HIDE DEF us
<1>4. ASSUME NEW n \in MachineContract, NEW u \in DOMAIN ts[n]
      PROVE  u \in DOMAIN us[n] /\ us[n][u] = ts[n][u]
  <2>1. CASE n = m BY <1>2, <1>3, <1>4, <2>1
  <2>2. CASE n # m BY <1>3, <1>4, <2>2
  <2> QED BY <2>1, <2>2
<1>5. ASSUME NEW n \in MachineContract, NEW u \in DOMAIN us[n]
      PROVE  u \in DOMAIN ts[n] \/ (n = m /\ u = Len(ts[m]) + 1 /\ us[n][u] = task)
  <2>1. CASE n = m BY <1>2, <1>3, <1>5, <2>1
  <2>2. CASE n # m BY <1>3, <1>5, <2>2
  <2> QED BY <2>1, <2>2
<1>6. Len(ts[m]) + 1 \in DOMAIN us[m] /\ us[m][Len(ts[m]) + 1] = task
  BY <1>2, <1>3
<1> QED BY <1>3, <1>4, <1>5, <1>6 DEF Grown, us

LEMMA AssignedTasks ==
  ASSUME TypeOK, NEW m \in MachineContract, NEW task \in Task, Assigned(m, task)
  PROVE  Grown(tasks, tasks', m, task)
BY TasksGrown DEF TypeOK, Assigned

\* The tasks after one was updated.
LEMMA UpdatedTasks ==
  ASSUME TypeOK, NEW m \in MachineContract, NEW t \in DOMAIN tasks[m], NEW task \in Task,
         Updated(m, t, task)
  PROVE  /\ tasks' \in [MachineContract -> Seq(Task)]
         /\ \A n \in MachineContract : DOMAIN tasks'[n] = DOMAIN tasks[n]
         /\ \A n \in MachineContract : \A u \in DOMAIN tasks[n] :
              tasks'[n][u] = IF n = m /\ u = t THEN task ELSE tasks[n][u]
<1> DEFINE s == tasks[m]
           r == [s EXCEPT ![t] = task]
<1>1. s \in Seq(Task)
  BY DEF TypeOK
<1>2. r \in Seq(Task) /\ DOMAIN r = DOMAIN s
  BY <1>1
<1>3. \A u \in DOMAIN s : r[u] = IF u = t THEN task ELSE s[u]
  BY <1>1
<1>4. /\ tasks' \in [MachineContract -> Seq(Task)]
      /\ tasks'[m] = r
      /\ \A n \in MachineContract \ {m} : tasks'[n] = tasks[n]
  BY <1>2 DEF Updated, TypeOK
<1> QED BY <1>2, <1>3, <1>4

\* What a function that updates a task leaves as it was: the product, the story of
\* status and timestamps, and the outcome of a settled task.
Harmless(old, task) ==
  /\ task.productDID = old.productDID
  /\ StatusFits(old) => StatusFits(task)
  /\ old.started /\ old.finished => Outcome(task) = Outcome(old)

\* The step updates one task, harmlessly, and no index.
UpdateStep ==
  \E m \in MachineContract : \E t \in DOMAIN tasks[m], task \in Task :
    /\ Updated(m, t, task)
    /\ Harmless(tasks[m][t], task)
    /\ UNCHANGED productsTasks

\* The step assigns a new task and indexes it.
AssignStep ==
  \E m \in MachineContract, task \in Task :
    /\ Assigned(m, task)
    /\ task.status = "Assigned" /\ ~task.started /\ ~task.finished
    /\ productsTasks' = IndexWith(productsTasks, tasks, m, task.productDID)

\* startTask updates a task that was not started.
LEMMA StartUpdates ==
  ASSUME TypeOK, NEW m \in MachineContract, NEW t \in DOMAIN tasks[m], NEW sender \in Caller,
         startTask(m, t, sender)
  PROVE  UpdateStep
<1> DEFINE task == [tasks[m][t] EXCEPT !.status = "Started", !.started = TRUE]
<1>1. tasks[m][t] \in Task
  BY DEF TypeOK
<1>2. task \in Task /\ Harmless(tasks[m][t], task)
  BY <1>1 DEF startTask, Task, TaskStatus, Finished, Harmless, StatusFits, Outcome
<1>3. Updated(m, t, task)
  BY DEF startTask, Updated, TypeOK
<1> QED BY <1>2, <1>3 DEF UpdateStep, startTask

\* finishTask updates a task that was not finished.
LEMMA FinishUpdates ==
  ASSUME TypeOK, NEW m \in MachineContract, NEW t \in DOMAIN tasks[m], NEW sender \in Caller,
         NEW status \in Finished, NEW note \in Note, finishTask(m, t, status, note, sender)
  PROVE  UpdateStep
<1> DEFINE task == [tasks[m][t] EXCEPT !.status = status, !.finished = TRUE, !.finishNote = note]
<1>1. tasks[m][t] \in Task
  BY DEF TypeOK
<1>2. task \in Task /\ Harmless(tasks[m][t], task)
  BY <1>1 DEF finishTask, Task, TaskStatus, Finished, Harmless, StatusFits, Outcome
<1>3. Updated(m, t, task)
  BY DEF finishTask, TaskFinishedWith, Updated, TypeOK
<1> QED BY <1>2, <1>3 DEF UpdateStep, finishTask

\* killTask updates a task that was not finished.
LEMMA KillUpdates ==
  ASSUME TypeOK, NEW m \in MachineContract, NEW t \in DOMAIN tasks[m], NEW sender \in Caller,
         killTask(m, t, sender)
  PROVE  UpdateStep
<1> DEFINE task == [tasks[m][t] EXCEPT !.status = "Killed", !.finished = TRUE]
<1>1. tasks[m][t] \in Task
  BY DEF TypeOK
<1>2. task \in Task /\ Harmless(tasks[m][t], task)
  BY <1>1 DEF killTask, Task, TaskStatus, Finished, Harmless, StatusFits, Outcome
<1>3. Updated(m, t, task)
  BY DEF killTask, Updated, TypeOK
<1> QED BY <1>2, <1>3 DEF UpdateStep, killTask

\* saveTaskParam updates an input, of any task.
LEMMA ParamUpdates ==
  ASSUME TypeOK, NEW m \in MachineContract, NEW t \in DOMAIN tasks[m], NEW sender \in Caller,
         NEW name \in ParamName, NEW v \in Param, saveTaskParam(m, t, name, v, sender)
  PROVE  UpdateStep
<1> DEFINE task == [tasks[m][t] EXCEPT !.params[name] = v]
<1>1. tasks[m][t] \in Task
  BY DEF TypeOK
<1>2. task \in Task /\ Harmless(tasks[m][t], task)
  BY <1>1 DEF Task, Harmless, StatusFits, Outcome
<1>3. Updated(m, t, task)
  BY DEF saveTaskParam, Updated, TypeOK
<1> QED BY <1>2, <1>3 DEF UpdateStep, saveTaskParam

\* assignTask appends a task with the status Assigned and no timestamp.
LEMMA AssignAppends ==
  ASSUME NEW m \in MachineContract, NEW p \in ProductID \cup {None}, NEW name \in TaskName,
         NEW params \in [ParamName -> Param \cup {None}], NEW sender \in Caller,
         assignTask(m, 1, p, name, params, sender)
  PROVE  AssignStep
<1> DEFINE task == NewTask(p, name, 1, sender, params)
<1>1. /\ task \in Task
      /\ task.productDID = p
      /\ task.status = "Assigned" /\ ~task.started /\ ~task.finished
  BY DEF NewTask, Task, TaskStatus
<1>2. Assigned(m, task) /\ productsTasks' = IndexWith(productsTasks, tasks, m, p)
  BY DEF assignTask, Assigned
<1> QED BY <1>1, <1>2 DEF AssignStep

\* Every step assigns a task, updates one or leaves the tasks alone.
LEMMA TaskSteps ==
  ASSUME TypeOK, [Next]_vars
  PROVE  AssignStep \/ UpdateStep \/ UNCHANGED taskVars
<1>1. ASSUME NEW m \in MachineContract, NEW sender \in Caller, TaskStep(m, sender)
      PROVE  AssignStep \/ UpdateStep
  <2>1. ASSUME NEW t \in DOMAIN tasks[m], NEW status \in Finished, NEW note \in Note,
               finishTask(m, t, status, note, sender)
        PROVE  UpdateStep
    BY <2>1, FinishUpdates
  <2>2. ASSUME NEW t \in DOMAIN tasks[m], NEW name \in ParamName, NEW v \in Param,
               saveTaskParam(m, t, name, v, sender)
        PROVE  UpdateStep
    BY <2>2, ParamUpdates
  <2>3. ASSUME NEW p \in ProductID \cup {None}, NEW name \in TaskName,
               NEW params \in [ParamName -> Param \cup {None}],
               assignTask(m, 1, p, name, params, sender)
        PROVE  AssignStep
    BY <2>3, AssignAppends
  <2> QED BY <1>1, <2>1, <2>2, <2>3, StartUpdates, KillUpdates DEF TaskStep
<1>2. ASSUME NEW m \in MachineContract, NEW sender \in Caller,
             SensorStep(m, sender) \/ OwnerStep(m, sender)
      PROVE  UNCHANGED taskVars
  BY <1>2 DEF SensorStep, OwnerStep, saveReading, authorizeProcess, deauthorizeProcess,
              saveMachineInfo
<1>3. CASE UNCHANGED vars
  BY <1>3 DEF vars
<1> QED BY <1>1, <1>2, <1>3 DEF Next

IInv == TypeOK /\ StatusMatchesTimestamps /\ IndexedTasksMatch

\* An alert is appended to the alerts of a machine.
LEMMA AlertsTyped ==
  ASSUME TypeOK, NEW m \in MachineContract, NEW id \in Nat,
         NEW reason \in Note \cup {None} \cup ReadingType,
         NEW type \in {"Minor", "Major", "Critical"}
  PROVE  AlertsWith(m, id, reason, type) \in [MachineContract -> Seq(Alert)]
<1> DEFINE alert == [taskID |-> id, reason |-> reason, alertType |-> type]
<1>1. alert \in Alert
  BY DEF Alert
<1>2. Append(alerts[m], alert) \in Seq(Alert)
  BY <1>1, AppendProperties DEF TypeOK
<1> QED BY <1>2 DEF AlertsWith, TypeOK

\* The logs, the authorised processes and the information keep their types.
LEMMA OthersTyped ==
  ASSUME TypeOK, [Next]_vars
  PROVE  /\ authorizedProcesses' \in [MachineContract -> SUBSET Process]
         /\ readings' \in [MachineContract -> Seq(Reading)]
         /\ alerts' \in [MachineContract -> Seq(Alert)]
         /\ info' \in [MachineContract -> [InfoName -> Info \cup {None}]]
<1>0. /\ authorizedProcesses \in [MachineContract -> SUBSET Process]
      /\ readings \in [MachineContract -> Seq(Reading)]
      /\ alerts \in [MachineContract -> Seq(Alert)]
      /\ info \in [MachineContract -> [InfoName -> Info \cup {None}]]
      /\ tasks \in [MachineContract -> Seq(Task)]
  BY DEF TypeOK
<1>1. ASSUME NEW m \in MachineContract, NEW sender \in Caller, TaskStep(m, sender)
      PROVE  /\ authorizedProcesses' = authorizedProcesses
             /\ readings' = readings
             /\ alerts' \in [MachineContract -> Seq(Alert)]
             /\ info' = info
  <2>1. ASSUME NEW t \in DOMAIN tasks[m], NEW status \in Finished, NEW note \in Note,
               finishTask(m, t, status, note, sender)
        PROVE  /\ alerts' \in [MachineContract -> Seq(Alert)]
               /\ authorizedProcesses' = authorizedProcesses
               /\ readings' = readings /\ info' = info
    <3>1. t \in Nat
      BY <1>0
    <3>2. AlertsWith(m, t, note, "Minor") \in [MachineContract -> Seq(Alert)]
      BY <3>1, AlertsTyped
    <3> QED BY <1>0, <2>1, <3>2 DEF finishTask
  <2>2. ASSUME NEW t \in DOMAIN tasks[m],
               \/ startTask(m, t, sender)
               \/ killTask(m, t, sender)
               \/ \E name \in ParamName, v \in Param : saveTaskParam(m, t, name, v, sender)
        PROVE  UNCHANGED <<authorizedProcesses, sensorVars, info>>
    BY <2>2 DEF startTask, killTask, saveTaskParam
  <2>3. ASSUME NEW p \in ProductID \cup {None}, NEW name \in TaskName,
               NEW params \in [ParamName -> Param \cup {None}],
               assignTask(m, 1, p, name, params, sender)
        PROVE  UNCHANGED <<authorizedProcesses, sensorVars, info>>
    BY <2>3 DEF assignTask
  <2> QED BY <1>0, <1>1, <2>1, <2>2, <2>3 DEF TaskStep, sensorVars
<1>2. ASSUME NEW m \in MachineContract, NEW sender \in Caller, NEW t \in {0} \cup DOMAIN tasks[m],
             NEW type \in ReadingType, NEW critical \in BOOLEAN,
             saveReading(m, t, type, critical, sender)
      PROVE  /\ readings' \in [MachineContract -> Seq(Reading)]
             /\ alerts' \in [MachineContract -> Seq(Alert)]
             /\ UNCHANGED <<authorizedProcesses, info>>
  <2> DEFINE reading == [readingType |-> type, critical |-> critical, taskID |-> t]
  <2>1. reading \in Reading
    BY <1>0 DEF Reading
  <2>2. Append(readings[m], reading) \in Seq(Reading) /\ Len(readings[m]) + 1 \in Nat
    BY <1>0, <2>1, AppendProperties, LenProperties
  <2>3. readings' \in [MachineContract -> Seq(Reading)]
    BY <1>0, <1>2, <2>2 DEF saveReading
  <2>4. AlertReadingType[m] \in {"Minor", "Major", "Critical"}
    BY MachineAssumption
  <2>5. AlertsWith(m, Len(readings[m]) + 1, type, AlertReadingType[m])
          \in [MachineContract -> Seq(Alert)]
    BY <2>2, <2>4, AlertsTyped
  <2> QED BY <1>0, <1>2, <2>3, <2>5 DEF saveReading
<1>3. ASSUME NEW m \in MachineContract, NEW sender \in Caller, OwnerStep(m, sender)
      PROVE  /\ authorizedProcesses' \in [MachineContract -> SUBSET Process]
             /\ info' \in [MachineContract -> [InfoName -> Info \cup {None}]]
             /\ UNCHANGED sensorVars
  <2>1. ASSUME NEW process \in Process, authorizeProcess(m, process, sender)
        PROVE  /\ authorizedProcesses' \in [MachineContract -> SUBSET Process]
               /\ UNCHANGED <<sensorVars, info>>
    BY <1>0, <2>1 DEF authorizeProcess
  <2>2. ASSUME NEW process \in Process, deauthorizeProcess(m, process, sender)
        PROVE  /\ authorizedProcesses' \in [MachineContract -> SUBSET Process]
               /\ UNCHANGED <<sensorVars, info>>
    BY <1>0, <2>2 DEF deauthorizeProcess
  <2>3. ASSUME NEW name \in InfoName, NEW v \in Info, saveMachineInfo(m, name, v, sender)
        PROVE  /\ info' \in [MachineContract -> [InfoName -> Info \cup {None}]]
               /\ UNCHANGED <<authorizedProcesses, sensorVars>>
    BY <1>0, <2>3 DEF saveMachineInfo
  <2> QED BY <1>0, <1>3, <2>1, <2>2, <2>3 DEF OwnerStep
<1>4. CASE UNCHANGED vars
  BY <1>0, <1>4 DEF vars, sensorVars
<1> QED BY <1>0, <1>1, <1>2, <1>3, <1>4 DEF Next, SensorStep, sensorVars

\* The initial state satisfies the invariant.
LEMMA InitInvariant == Init => IInv
<1> SUFFICES ASSUME Init PROVE IInv
  OBVIOUS
<1>1. TypeOK
  BY DEF Init, TypeOK
<1>2. StatusMatchesTimestamps
  BY DEF Init, StatusMatchesTimestamps
<1>3. IndexedTasksMatch
  BY DEF Init, IndexedTasksMatch
<1> QED BY <1>1, <1>2, <1>3 DEF IInv

\* A step that updates a task keeps the tasks' part of the invariant.
LEMMA UpdateInvariant ==
  ASSUME IInv, UpdateStep
  PROVE  /\ tasks' \in [MachineContract -> Seq(Task)]
         /\ productsTasks' \in [MachineContract -> [ProductID -> Seq(Nat)]]
         /\ StatusMatchesTimestamps'
         /\ IndexedTasksMatch'
<1>1. PICK m \in MachineContract : \E t \in DOMAIN tasks[m], task \in Task :
        Updated(m, t, task) /\ Harmless(tasks[m][t], task) /\ UNCHANGED productsTasks
  BY DEF UpdateStep
<1>2. PICK t \in DOMAIN tasks[m], task \in Task :
        Updated(m, t, task) /\ Harmless(tasks[m][t], task) /\ UNCHANGED productsTasks
  BY <1>1
<1>3. /\ tasks' \in [MachineContract -> Seq(Task)]
      /\ \A n \in MachineContract : DOMAIN tasks'[n] = DOMAIN tasks[n]
      /\ \A n \in MachineContract : \A u \in DOMAIN tasks[n] :
           tasks'[n][u] = IF n = m /\ u = t THEN task ELSE tasks[n][u]
  BY <1>2, UpdatedTasks DEF IInv
<1>4. productsTasks' \in [MachineContract -> [ProductID -> Seq(Nat)]]
  BY <1>2 DEF IInv, TypeOK
<1>5. StatusMatchesTimestamps'
  BY <1>2, <1>3 DEF IInv, StatusMatchesTimestamps, Harmless
<1>6. \A n \in MachineContract : \A u \in DOMAIN tasks[n] :
        tasks'[n][u].productDID = tasks[n][u].productDID
  BY <1>2, <1>3 DEF Harmless
<1>7. IndexedTasksMatch'
  <2>1. productsTasks' = productsTasks
    BY <1>2
  <2>2. ASSUME NEW n \in MachineContract, NEW p \in ProductID, NEW i \in DOMAIN productsTasks[n][p]
        PROVE  /\ productsTasks[n][p][i] \in DOMAIN tasks'[n]
               /\ tasks'[n][productsTasks[n][p][i]].productDID = p
               /\ i > 1 => productsTasks[n][p][i - 1] < productsTasks[n][p][i]
    BY <1>3, <1>6 DEF IInv, IndexedTasksMatch, taskExists
  <2>3. ASSUME NEW n \in MachineContract, NEW p \in ProductID, NEW u \in DOMAIN tasks'[n],
               tasks'[n][u].productDID = p
        PROVE  \E i \in DOMAIN productsTasks[n][p] : productsTasks[n][p][i] = u
    <3>1. u \in DOMAIN tasks[n] /\ tasks[n][u].productDID = p
      BY <1>3, <1>6, <2>3
    <3> QED BY <3>1 DEF IInv, IndexedTasksMatch
  <2> QED BY <2>1, <2>2, <2>3 DEF IndexedTasksMatch, taskExists
<1> QED BY <1>3, <1>4, <1>5, <1>7

\* list is the index of p in the tasks ts of a machine.
ProductIndexed(ts, list, p) ==
  /\ \A i \in DOMAIN list :
       /\ list[i] \in DOMAIN ts
       /\ ts[list[i]].productDID = p
       /\ i > 1 => list[i - 1] < list[i]
  /\ \A t \in DOMAIN ts : ts[t].productDID = p => \E i \in DOMAIN list : list[i] = t

\* The machines' books: the tasks ts with the index ix.
BookMatches(ts, ix) ==
  /\ ts \in [MachineContract -> Seq(Task)]
  /\ ix \in [MachineContract -> [ProductID -> Seq(Nat)]]
  /\ \A m \in MachineContract : \A t \in DOMAIN ts[m] : StatusFits(ts[m][t])
  /\ \A m \in MachineContract, p \in ProductID : ProductIndexed(ts[m], ix[m][p], p)

LEMMA BookParts ==
  /\ IInv => BookMatches(tasks, productsTasks)
  /\ BookMatches(tasks', productsTasks') =>
       /\ tasks' \in [MachineContract -> Seq(Task)]
       /\ productsTasks' \in [MachineContract -> [ProductID -> Seq(Nat)]]
       /\ StatusMatchesTimestamps'
       /\ IndexedTasksMatch'
<1>1. IInv => BookMatches(tasks, productsTasks)
  BY DEF IInv, TypeOK, StatusMatchesTimestamps, IndexedTasksMatch, taskExists, BookMatches, ProductIndexed
<1>2. BookMatches(tasks', productsTasks') => StatusMatchesTimestamps' /\ IndexedTasksMatch'
  BY DEF StatusMatchesTimestamps, IndexedTasksMatch, taskExists, BookMatches, ProductIndexed
<1> QED BY <1>1, <1>2 DEF BookMatches

\* One more task keeps the books right: the new task's ID is larger than all before,
\* and its product, if it has one, gets it last.
LEMMA BookGrown ==
  ASSUME NEW ts, NEW ix, BookMatches(ts, ix), NEW m \in MachineContract, NEW task \in Task,
         task.status = "Assigned", ~task.started, ~task.finished
  PROVE  BookMatches(TasksWith(ts, m, task), IndexWith(ix, ts, m, task.productDID))
<1> DEFINE new == Len(ts[m]) + 1
           q == task.productDID
           us == TasksWith(ts, m, task)
           jx == IndexWith(ix, ts, m, q)
<1>0. /\ ts \in [MachineContract -> Seq(Task)]
      /\ ix \in [MachineContract -> [ProductID -> Seq(Nat)]]
  BY DEF BookMatches
<1>2. /\ us \in [MachineContract -> Seq(Task)]
      /\ \A n \in MachineContract : \A u \in DOMAIN ts[n] : u \in DOMAIN us[n] /\ us[n][u] = ts[n][u]
      /\ \A n \in MachineContract : \A u \in DOMAIN us[n] :
           u \in DOMAIN ts[n] \/ (n = m /\ u = new /\ us[n][u] = task)
      /\ new \in DOMAIN us[m]
      /\ us[m][new] = task
  <2>1. Grown(ts, us, m, task)
    BY <1>0, TasksGrown
  <2> HIDE DEF us
  <2> QED BY <2>1 DEF Grown
<1>3. new \in Nat /\ DOMAIN ts[m] = 1 .. new - 1
  BY <1>0, LenProperties
<1> HIDE DEF us
<1>4. \A n \in MachineContract : \A u \in DOMAIN us[n] : StatusFits(us[n][u])
  BY <1>2 DEF BookMatches, StatusFits, Finished
<1>5. \A n \in MachineContract, p \in ProductID : ix[n][p] \in Seq(Nat)
  BY <1>0
<1>6. \A n \in MachineContract, p \in ProductID : n # m \/ p # q =>
        jx[n][p] = ix[n][p]
  BY <1>0 DEF IndexWith
<1>7. q \in ProductID => jx[m][q] = Append(ix[m][q], new)
  BY <1>0, MachineAssumption DEF IndexWith
<1>8. jx \in [MachineContract -> [ProductID -> Seq(Nat)]]
  <2>1. CASE q = None
    BY <1>0, <2>1 DEF IndexWith
  <2>2. CASE q # None
    <3>1. q \in ProductID
      BY <2>2 DEF Task
    <3>2. Append(ix[m][q], new) \in Seq(Nat)
      BY <1>3, <1>5, <3>1, AppendProperties
    <3>3. [ix[m] EXCEPT ![q] = Append(@, new)] \in [ProductID -> Seq(Nat)]
      BY <1>0, <3>1, <3>2
    <3>4. jx =
            [ix EXCEPT ![m] = [ix[m] EXCEPT ![q] = Append(@, new)]]
      BY <1>0, <2>2, <3>1 DEF IndexWith
    <3> QED BY <1>0, <3>3, <3>4
  <2> QED BY <2>1, <2>2
<1>9. ASSUME NEW n \in MachineContract, NEW p \in ProductID
      PROVE  /\ \A i \in DOMAIN jx[n][p] :
                  /\ jx[n][p][i] \in DOMAIN us[n]
                  /\ us[n][jx[n][p][i]].productDID = p
                  /\ i > 1 => jx[n][p][i - 1] < jx[n][p][i]
             /\ \A u \in DOMAIN us[n] : us[n][u].productDID = p =>
                  \E i \in DOMAIN jx[n][p] : jx[n][p][i] = u
  <2> DEFINE old == ix[n][p]
  <2>1. /\ \A i \in DOMAIN old :
             /\ old[i] \in DOMAIN ts[n]
             /\ ts[n][old[i]].productDID = p
             /\ i > 1 => old[i - 1] < old[i]
        /\ \A u \in DOMAIN ts[n] : ts[n][u].productDID = p =>
             \E i \in DOMAIN old : old[i] = u
    <3>1. ProductIndexed(ts[n], old, p)
      BY DEF BookMatches
    <3> QED BY <3>1 DEF ProductIndexed
  <2>2. CASE n # m \/ p # q
    <3>1. jx[n][p] = old
      BY <1>6, <2>2
    <3>2. \A i \in DOMAIN old : old[i] \in DOMAIN us[n] /\ us[n][old[i]].productDID = p
      BY <1>2, <2>1
    <3>3. \A u \in DOMAIN us[n] : us[n][u].productDID = p =>
            u \in DOMAIN ts[n] /\ ts[n][u].productDID = p
      BY <1>2, <2>2
    <3> QED BY <2>1, <3>1, <3>2, <3>3
  <2>3. CASE n = m /\ p = q
    <3>1. /\ jx[n][p] = Append(old, new)
          /\ DOMAIN old = 1 .. Len(old) /\ Len(old) \in Nat
          /\ DOMAIN Append(old, new) = 1 .. Len(old) + 1
          /\ \A i \in 1 .. Len(old) : Append(old, new)[i] = old[i]
          /\ Append(old, new)[Len(old) + 1] = new
      BY <1>3, <1>5, <1>7, <2>3, AppendProperties, LenProperties
    <3>2. ASSUME NEW i \in 1 .. Len(old) + 1
          PROVE  /\ Append(old, new)[i] \in DOMAIN us[n]
                 /\ us[n][Append(old, new)[i]].productDID = p
                 /\ i > 1 => Append(old, new)[i - 1] < Append(old, new)[i]
      <4>1. CASE i = Len(old) + 1
        <5>1. Append(old, new)[i] \in DOMAIN us[n]
              /\ us[n][Append(old, new)[i]].productDID = p
          BY <1>2, <2>3, <3>1, <4>1
        <5>2. ASSUME i > 1 PROVE Append(old, new)[i - 1] < new
          <6>1. i - 1 \in DOMAIN old /\ Append(old, new)[i - 1] = old[i - 1]
            BY <3>1, <4>1, <5>2
          <6>2. old[i - 1] \in DOMAIN ts[n]
            BY <2>1, <6>1
          <6>3. old[i - 1] \in 1 .. new - 1
            BY <1>3, <2>3, <6>2
          <6>4. new \in Int /\ old[i - 1] < new
            BY <1>3, <6>3
          <6> HIDE DEF old, new
          <6> QED BY <6>1, <6>4, Zenon
        <5> QED BY <3>1, <4>1, <5>1, <5>2
      <4>2. CASE i # Len(old) + 1
        <5>1. i \in DOMAIN old /\ Append(old, new)[i] = old[i]
          BY <3>1, <4>2
        <5>2. i > 1 => Append(old, new)[i - 1] = old[i - 1]
          BY <3>1, <5>1
        <5>3. old[i] \in DOMAIN us[n] /\ us[n][old[i]].productDID = p
          BY <1>2, <2>1, <5>1
        <5>4. i > 1 => old[i - 1] < old[i]
          BY <2>1, <5>1
        <5> QED BY <5>1, <5>2, <5>3, <5>4
      <4> QED BY <4>1, <4>2
    <3>3. ASSUME NEW u \in DOMAIN us[n], us[n][u].productDID = p
          PROVE  \E i \in 1 .. Len(old) + 1 : Append(old, new)[i] = u
      <4>1. CASE u \in DOMAIN ts[n]
        <5>1. PICK i \in DOMAIN old : old[i] = u
          BY <1>2, <2>1, <3>3, <4>1
        <5> QED BY <3>1, <5>1
      <4>2. CASE u = new
        <5>1. Len(old) + 1 \in 1 .. Len(old) + 1
          BY <3>1
        <5> QED BY <3>1, <4>2, <5>1
      <4>3. u \in DOMAIN ts[n] \/ u = new
        BY <1>2, <2>3
      <4> QED BY <4>1, <4>2, <4>3
    <3> DEFINE grown == jx[n][p]
    <3>4. /\ DOMAIN grown = 1 .. Len(old) + 1
          /\ \A i \in DOMAIN grown :
               /\ grown[i] \in DOMAIN us[n]
               /\ us[n][grown[i]].productDID = p
               /\ i > 1 => grown[i - 1] < grown[i]
      <4>1. grown = Append(old, new) /\ DOMAIN grown = 1 .. Len(old) + 1
        BY ONLY <3>1, Zenon
      <4> QED BY ONLY <3>2, <4>1, Zenon
    <3>5. \A u \in DOMAIN us[n] : us[n][u].productDID = p =>
            \E i \in DOMAIN grown : grown[i] = u
      <4>1. grown = Append(old, new) /\ DOMAIN grown = 1 .. Len(old) + 1
        BY ONLY <3>4, <3>1, Zenon
      <4> QED BY ONLY <3>3, <4>1, Zenon
    <3> QED BY ONLY <3>4, <3>5, Zenon
  <2> QED BY <2>2, <2>3
<1> HIDE DEF jx
<1>10. \A n \in MachineContract, p \in ProductID : ProductIndexed(us[n], jx[n][p], p)
  BY <1>9 DEF ProductIndexed
<1> QED BY <1>2, <1>4, <1>8, <1>10 DEF BookMatches, us, jx

\* A step that assigns a task keeps the tasks' part of the invariant.
LEMMA AssignInvariant ==
  ASSUME IInv, AssignStep
  PROVE  /\ tasks' \in [MachineContract -> Seq(Task)]
         /\ productsTasks' \in [MachineContract -> [ProductID -> Seq(Nat)]]
         /\ StatusMatchesTimestamps'
         /\ IndexedTasksMatch'
<1>1. PICK m \in MachineContract, task \in Task :
        /\ Assigned(m, task)
        /\ task.status = "Assigned" /\ ~task.started /\ ~task.finished
        /\ productsTasks' = IndexWith(productsTasks, tasks, m, task.productDID)
  BY DEF AssignStep
<1>2. BookMatches(TasksWith(tasks, m, task), IndexWith(productsTasks, tasks, m, task.productDID))
  BY <1>1, BookParts, BookGrown
<1> QED BY <1>1, <1>2, BookParts DEF Assigned

\* Every step keeps the invariant.
LEMMA NextInvariant == IInv /\ [Next]_vars => IInv'
<1> SUFFICES ASSUME IInv, [Next]_vars PROVE IInv'
  OBVIOUS
<1>1. /\ tasks' \in [MachineContract -> Seq(Task)]
      /\ productsTasks' \in [MachineContract -> [ProductID -> Seq(Nat)]]
      /\ StatusMatchesTimestamps'
      /\ IndexedTasksMatch'
  <2>1. CASE UNCHANGED taskVars
    BY <2>1 DEF taskVars, IInv, TypeOK, StatusMatchesTimestamps, IndexedTasksMatch, taskExists
  <2> QED BY <2>1, TaskSteps, UpdateInvariant, AssignInvariant DEF IInv
<1>2. TypeOK'
  BY <1>1, OthersTyped DEF IInv, TypeOK
<1> QED BY <1>1, <1>2 DEF IInv

\* The types, the tasks' stories and the index by product hold in every state.
THEOREM InvariantHolds == Spec => []IInv
<1> QED BY InitInvariant, NextInvariant, PTL DEF Spec

\* The state of the machine contracts keeps its type, whoever calls what.
THEOREM TypeOKHolds == Spec => []TypeOK
<1>1. IInv => TypeOK
  BY DEF IInv
<1> QED BY <1>1, InvariantHolds, PTL

\* A task's status and its timestamps agree in every state.
THEOREM StatusMatchesTimestampsHolds == Spec => []StatusMatchesTimestamps
<1>1. IInv => StatusMatchesTimestamps
  BY DEF IInv
<1> QED BY <1>1, InvariantHolds, PTL

\* The index of a product's tasks is complete and exact in every state.
THEOREM IndexedTasksMatchHolds == Spec => []IndexedTasksMatch
<1>1. IInv => IndexedTasksMatch
  BY DEF IInv
<1> QED BY <1>1, InvariantHolds, PTL

\* No call changes how a task ended that was started and is finished.
THEOREM SettledTasksAreFinalHolds == Spec => SettledTasksAreFinal
<1>1. ASSUME IInv, [Next]_vars PROVE [SettledKept]_vars
  <2> SUFFICES ASSUME NEW n \in MachineContract, NEW u \in DOMAIN tasks[n],
                      tasks[n][u].started, tasks[n][u].finished
               PROVE  Outcome(tasks'[n][u]) = Outcome(tasks[n][u])
    BY DEF SettledKept
  <2>1. CASE AssignStep
    BY <1>1, <2>1, AssignedTasks DEF AssignStep, Grown, IInv
  <2>2. CASE UpdateStep
    BY <1>1, <2>2, UpdatedTasks DEF UpdateStep, Harmless, IInv
  <2>3. CASE UNCHANGED taskVars
    BY <2>3 DEF taskVars
  <2> QED BY <1>1, <2>1, <2>2, <2>3, TaskSteps DEF IInv
<1> QED BY <1>1, InvariantHolds, PTL DEF Spec, SettledTasksAreFinal

----
\* Alerts.  Only a task that fails gets a minor alert, and it had none before, for the
\* task of a minor alert is finished and finishTask asks that it is not.

AlertFits(m, t) ==
  /\ tasks[m][t].status = "FinishedUnsuccessfully" =>
       \E i \in MinorAlerts(m, t) :
         /\ alerts[m][i].reason = tasks[m][t].finishNote
         /\ MinorAlerts(m, t) = {i}
  /\ \A i, j \in MinorAlerts(m, t) : i = j
  /\ MinorAlerts(m, t) # {} => tasks[m][t].finished
  /\ tasks[m][t].status \in {"Killed", "FinishedSuccessfully"} => MinorAlerts(m, t) = {}

MinorAlertsNameTasks(m) ==
  \A i \in DOMAIN alerts[m] :
    alerts[m][i].alertType = "Minor" => taskExists(m, alerts[m][i].taskID)

LEMMA AlertParts ==
  FailuresAlertOnce <=>
    \A m \in MachineContract :
      (\A t \in DOMAIN tasks[m] : AlertFits(m, t)) /\ MinorAlertsNameTasks(m)
BY DEF FailuresAlertOnce, AlertFits, MinorAlertsNameTasks

LEMMA AlertPartsPrimed ==
  FailuresAlertOnce' <=>
    \A m \in MachineContract :
      (\A t \in DOMAIN tasks'[m] : AlertFits(m, t)') /\ MinorAlertsNameTasks(m)'
BY DEF FailuresAlertOnce, AlertFits, MinorAlertsNameTasks

\* The alerts after one was raised.
Raised(m, alert) ==
  LET new == Len(alerts[m]) + 1 IN
  /\ \A n \in MachineContract : \A i \in DOMAIN alerts[n] :
       i \in DOMAIN alerts'[n] /\ alerts'[n][i] = alerts[n][i]
  /\ \A n \in MachineContract : \A i \in DOMAIN alerts'[n] :
       i \in DOMAIN alerts[n] \/ (n = m /\ i = new)
  /\ new \in DOMAIN alerts'[m] /\ new \notin DOMAIN alerts[m]
  /\ alerts'[m][new] = alert

LEMMA RaisedAlert ==
  ASSUME TypeOK, NEW m \in MachineContract, NEW id \in Nat,
         NEW reason \in Note \cup {None} \cup ReadingType,
         NEW type \in {"Minor", "Major", "Critical"},
         alerts' = AlertsWith(m, id, reason, type)
  PROVE  Raised(m, [taskID |-> id, reason |-> reason, alertType |-> type])
<1> DEFINE s == alerts[m]
           alert == [taskID |-> id, reason |-> reason, alertType |-> type]
           new == Len(s) + 1
<1>1. s \in Seq(Alert) /\ alert \in Alert
  BY DEF TypeOK, Alert
<1>2. /\ Append(s, alert) \in Seq(Alert)
      /\ \A i \in 1 .. Len(s) : Append(s, alert)[i] = s[i]
      /\ Append(s, alert)[new] = alert
      /\ Len(s) \in Nat
      /\ DOMAIN s = 1 .. Len(s)
      /\ DOMAIN Append(s, alert) = 1 .. new
  BY <1>1, AppendProperties, LenProperties
<1>3. /\ alerts'[m] = Append(s, alert)
      /\ \A n \in MachineContract \ {m} : alerts'[n] = alerts[n]
  BY DEF AlertsWith, TypeOK
<1> HIDE DEF alert, s
<1>4. ASSUME NEW n \in MachineContract, NEW i \in DOMAIN alerts[n]
      PROVE  i \in DOMAIN alerts'[n] /\ alerts'[n][i] = alerts[n][i]
  <2>1. CASE n = m
    <3>1. i \in 1 .. Len(s) /\ alerts[n][i] = s[i]
      BY <1>2, <1>4, <2>1 DEF s
    <3>2. i \in 1 .. Len(s) + 1
      BY <1>2, <3>1
    <3> QED BY <1>2, <1>3, <2>1, <3>1, <3>2
  <2>2. CASE n # m BY <1>3, <1>4, <2>2
  <2> QED BY <2>1, <2>2
<1>5. ASSUME NEW n \in MachineContract, NEW i \in DOMAIN alerts'[n]
      PROVE  i \in DOMAIN alerts[n] \/ (n = m /\ i = new)
  <2>1. CASE n = m
    <3>1. i \in 1 .. Len(s) + 1
      BY <1>2, <1>3, <1>5, <2>1
    <3> QED BY <1>2, <2>1, <3>1 DEF s
  <2>2. CASE n # m BY <1>3, <1>5, <2>2
  <2> QED BY <2>1, <2>2
<1>6. new \in DOMAIN alerts'[m] /\ new \notin DOMAIN alerts[m] /\ alerts'[m][new] = alert
  BY <1>2, <1>3 DEF s
<1> QED BY <1>4, <1>5, <1>6 DEF Raised, alert, s

\* What a step may do to a task without an alert.
Quiet(old, task) ==
  /\ task.status = "FinishedUnsuccessfully" =>
       old.status = "FinishedUnsuccessfully" /\ task.finishNote = old.finishNote
  /\ old.finished => task.finished
  /\ task.status \in {"Killed", "FinishedSuccessfully"} => old.status = task.status \/ ~old.finished

QuietTasks ==
  \A n \in MachineContract :
    /\ \A u \in DOMAIN tasks[n] : u \in DOMAIN tasks'[n] /\ Quiet(tasks[n][u], tasks'[n][u])
    /\ \A u \in DOMAIN tasks'[n] : u \in DOMAIN tasks[n] \/ tasks'[n][u].status = "Assigned"

\* No minor alert comes or goes.
QuietAlerts ==
  \A n \in MachineContract :
    /\ \A i \in DOMAIN alerts[n] : i \in DOMAIN alerts'[n] /\ alerts'[n][i] = alerts[n][i]
    /\ \A i \in DOMAIN alerts'[n] : i \in DOMAIN alerts[n] \/ alerts'[n][i].alertType # "Minor"

LEMMA QuietMinorAlerts ==
  ASSUME QuietAlerts, NEW m \in MachineContract, NEW t
  PROVE  MinorAlerts(m, t)' = MinorAlerts(m, t)
BY DEF QuietAlerts, MinorAlerts

LEMMA QuietSteps ==
  ASSUME FailuresAlertOnce, QuietTasks, QuietAlerts
  PROVE  FailuresAlertOnce'
<1> SUFFICES ASSUME NEW m \in MachineContract
             PROVE  (\A t \in DOMAIN tasks'[m] : AlertFits(m, t)') /\ MinorAlertsNameTasks(m)'
  BY AlertPartsPrimed
<1>1. ASSUME NEW t \in DOMAIN tasks'[m] PROVE AlertFits(m, t)'
  <2>1. MinorAlerts(m, t)' = MinorAlerts(m, t)
    BY QuietMinorAlerts
  <2>2. CASE t \in DOMAIN tasks[m]
    <3>1. AlertFits(m, t) /\ Quiet(tasks[m][t], tasks'[m][t])
      BY <2>2, AlertParts DEF QuietTasks
    <3>2. \A i \in MinorAlerts(m, t) : alerts'[m][i] = alerts[m][i]
      BY DEF MinorAlerts, QuietAlerts
    <3> QED BY <2>1, <3>1, <3>2 DEF AlertFits, Quiet
  <2>3. CASE t \notin DOMAIN tasks[m]
    <3>1. tasks'[m][t].status = "Assigned"
      BY <1>1, <2>3 DEF QuietTasks
    <3>2. MinorAlerts(m, t) = {}
      BY <2>3, AlertParts DEF MinorAlertsNameTasks, MinorAlerts, taskExists
    <3> QED BY <2>1, <3>1, <3>2 DEF AlertFits
  <2> QED BY <2>2, <2>3
<1>2. MinorAlertsNameTasks(m)'
  BY AlertParts DEF MinorAlertsNameTasks, QuietAlerts, QuietTasks, taskExists
<1> QED BY <1>1, <1>2

\* A task that fails: the one step that is not quiet.
LEMMA FailureAlerts ==
  ASSUME TypeOK, FailuresAlertOnce, NEW m \in MachineContract, NEW t \in DOMAIN tasks[m],
         NEW note \in Note, NEW sender \in Caller,
         finishTask(m, t, "FinishedUnsuccessfully", note, sender)
  PROVE  FailuresAlertOnce'
<1> DEFINE task == [tasks[m][t] EXCEPT !.status = "FinishedUnsuccessfully", !.finished = TRUE,
                                       !.finishNote = note]
           new == Len(alerts[m]) + 1
<1>1. tasks[m][t] \in Task /\ t \in Nat
  BY DEF TypeOK
<1>2. /\ task \in Task /\ task.status = "FinishedUnsuccessfully"
      /\ task.finished /\ task.finishNote = note
  BY <1>1 DEF Task, TaskStatus, Finished
<1>3. Updated(m, t, task)
  BY DEF finishTask, TaskFinishedWith, Updated, TypeOK
<1>4. /\ \A n \in MachineContract : DOMAIN tasks'[n] = DOMAIN tasks[n]
      /\ \A n \in MachineContract : \A u \in DOMAIN tasks[n] :
           tasks'[n][u] = IF n = m /\ u = t THEN task ELSE tasks[n][u]
  BY <1>2, <1>3, UpdatedTasks
<1>5. alerts' = AlertsWith(m, t, note, "Minor")
  BY DEF finishTask
<1>6. /\ \A n \in MachineContract : \A i \in DOMAIN alerts[n] :
           i \in DOMAIN alerts'[n] /\ alerts'[n][i] = alerts[n][i]
      /\ \A n \in MachineContract : \A i \in DOMAIN alerts'[n] :
           i \in DOMAIN alerts[n] \/ (n = m /\ i = new)
      /\ new \in DOMAIN alerts'[m] /\ new \notin DOMAIN alerts[m]
      /\ alerts'[m][new] = [taskID |-> t, reason |-> note, alertType |-> "Minor"]
  <2>1. note \in Note \cup {None} \cup ReadingType /\ "Minor" \in {"Minor", "Major", "Critical"}
    OBVIOUS
  <2>2. Raised(m, [taskID |-> t, reason |-> note, alertType |-> "Minor"])
    BY <1>1, <1>5, <2>1, RaisedAlert
  <2> QED BY <2>2 DEF Raised
<1> HIDE DEF task, new
<1>7. ASSUME NEW n \in MachineContract, NEW u \in DOMAIN tasks[n]
      PROVE  MinorAlerts(n, u)' = IF n = m /\ u = t THEN {new} ELSE MinorAlerts(n, u)
  <2>1. CASE n = m /\ u = t
    <3>1. MinorAlerts(m, t) = {}
      BY AlertParts DEF AlertFits, finishTask
    <3> QED BY <1>6, <2>1, <3>1 DEF MinorAlerts
  <2>2. CASE ~(n = m /\ u = t)
    BY <1>6, <2>2 DEF MinorAlerts
  <2> QED BY <2>1, <2>2
<1>8. ASSUME NEW n \in MachineContract, NEW u \in DOMAIN tasks'[n] PROVE AlertFits(n, u)'
  <2>1. u \in DOMAIN tasks[n]
    BY <1>4, <1>8
  <2>2. CASE n = m /\ u = t
    BY <1>2, <1>4, <1>6, <1>7, <2>1, <2>2 DEF AlertFits
  <2>3. CASE ~(n = m /\ u = t)
    <3>1. AlertFits(n, u) /\ tasks'[n][u] = tasks[n][u]
      BY <1>4, <2>1, <2>3, AlertParts
    <3>2. MinorAlerts(n, u)' = MinorAlerts(n, u)
      BY <1>7, <2>1, <2>3
    <3>3. \A i \in MinorAlerts(n, u) : alerts'[n][i] = alerts[n][i]
      BY <1>6 DEF MinorAlerts
    <3> QED BY <3>1, <3>2, <3>3 DEF AlertFits
  <2> QED BY <2>2, <2>3
<1>9. ASSUME NEW n \in MachineContract PROVE MinorAlertsNameTasks(n)'
  BY <1>4, <1>6, AlertParts DEF MinorAlertsNameTasks, taskExists
<1> QED BY <1>8, <1>9, AlertPartsPrimed

\* Every other step is quiet.
LEMMA OneTaskQuiet ==
  ASSUME TypeOK, NEW m \in MachineContract, NEW t \in DOMAIN tasks[m], NEW task \in Task,
         Updated(m, t, task), Quiet(tasks[m][t], task)
  PROVE  QuietTasks
<1>1. /\ \A n \in MachineContract : DOMAIN tasks'[n] = DOMAIN tasks[n]
      /\ \A n \in MachineContract : \A u \in DOMAIN tasks[n] :
           tasks'[n][u] = IF n = m /\ u = t THEN task ELSE tasks[n][u]
  BY UpdatedTasks
<1>2. \A old : Quiet(old, old)
  BY DEF Quiet
<1> QED BY <1>1, <1>2 DEF QuietTasks

LEMMA TaskStepAlerts ==
  ASSUME TypeOK, FailuresAlertOnce, NEW m \in MachineContract, NEW sender \in Caller,
         TaskStep(m, sender)
  PROVE  FailuresAlertOnce'
<1>0. UNCHANGED alerts => QuietAlerts
  BY DEF QuietAlerts
<1>1. ASSUME NEW t \in DOMAIN tasks[m], startTask(m, t, sender) PROVE FailuresAlertOnce'
  <2> DEFINE task == [tasks[m][t] EXCEPT !.status = "Started", !.started = TRUE]
  <2>1. tasks[m][t] \in Task
    BY DEF TypeOK
  <2>2. task \in Task /\ Quiet(tasks[m][t], task)
    BY <2>1 DEF Task, TaskStatus, Finished, Quiet
  <2>3. Updated(m, t, task)
    BY <1>1 DEF startTask, Updated, TypeOK
  <2> HIDE DEF task
  <2> QED BY <1>0, <1>1, <2>2, <2>3, OneTaskQuiet, QuietSteps DEF startTask, sensorVars
<1>2. ASSUME NEW t \in DOMAIN tasks[m], killTask(m, t, sender) PROVE FailuresAlertOnce'
  <2> DEFINE task == [tasks[m][t] EXCEPT !.status = "Killed", !.finished = TRUE]
  <2>1. tasks[m][t] \in Task
    BY DEF TypeOK
  <2>2. task \in Task /\ Quiet(tasks[m][t], task)
    BY <1>2, <2>1 DEF killTask, Task, TaskStatus, Finished, Quiet
  <2>3. Updated(m, t, task)
    BY <1>2 DEF killTask, Updated, TypeOK
  <2> HIDE DEF task
  <2> QED BY <1>0, <1>2, <2>2, <2>3, OneTaskQuiet, QuietSteps DEF killTask, sensorVars
<1>3. ASSUME NEW t \in DOMAIN tasks[m], NEW name \in ParamName, NEW v \in Param,
             saveTaskParam(m, t, name, v, sender)
      PROVE  FailuresAlertOnce'
  <2> DEFINE task == [tasks[m][t] EXCEPT !.params[name] = v]
  <2>1. tasks[m][t] \in Task
    BY DEF TypeOK
  <2>2. task \in Task /\ Quiet(tasks[m][t], task)
    BY <2>1 DEF Task, Quiet
  <2>3. Updated(m, t, task)
    BY <1>3 DEF saveTaskParam, Updated, TypeOK
  <2> HIDE DEF task
  <2> QED BY <1>0, <1>3, <2>2, <2>3, OneTaskQuiet, QuietSteps DEF saveTaskParam, sensorVars
<1>4. ASSUME NEW t \in DOMAIN tasks[m], NEW status \in Finished, NEW note \in Note,
             finishTask(m, t, status, note, sender)
      PROVE  FailuresAlertOnce'
  <2>1. CASE status = "FinishedUnsuccessfully"
    BY <1>4, <2>1, FailureAlerts
  <2>2. CASE status = "FinishedSuccessfully"
    <3> DEFINE task == [tasks[m][t] EXCEPT !.status = status, !.finished = TRUE,
                                           !.finishNote = note]
    <3>1. tasks[m][t] \in Task
      BY DEF TypeOK
    <3>2. task \in Task /\ Quiet(tasks[m][t], task)
      BY <1>4, <2>2, <3>1 DEF finishTask, Task, TaskStatus, Finished, Quiet
    <3>3. Updated(m, t, task)
      BY <1>4 DEF finishTask, TaskFinishedWith, Updated, TypeOK
    <3>4. UNCHANGED alerts
      BY <1>4, <2>2 DEF finishTask
    <3> HIDE DEF task
    <3> QED BY <1>0, <3>2, <3>3, <3>4, OneTaskQuiet, QuietSteps
  <2> QED BY <2>1, <2>2 DEF Finished
<1>5. ASSUME NEW p \in ProductID \cup {None}, NEW name \in TaskName,
             NEW params \in [ParamName -> Param \cup {None}],
             assignTask(m, 1, p, name, params, sender)
      PROVE  FailuresAlertOnce'
  <2>1. AssignStep
    BY <1>5, AssignAppends
  <2>2. PICK n \in MachineContract, task \in Task : Assigned(n, task) /\ task.status = "Assigned"
    BY <2>1 DEF AssignStep
  <2>3. \A old : Quiet(old, old)
    BY DEF Quiet
  <2>4. QuietTasks
    BY <2>2, <2>3, AssignedTasks DEF Grown, QuietTasks
  <2> QED BY <1>0, <1>5, <2>4, QuietSteps DEF assignTask, sensorVars
<1> QED BY <1>1, <1>2, <1>3, <1>4, <1>5 DEF TaskStep

LEMMA AlertsInvariant ==
  ASSUME TypeOK, FailuresAlertOnce, [Next]_vars
  PROVE  FailuresAlertOnce'
<1>0. \A old : Quiet(old, old)
  BY DEF Quiet
<1>1. UNCHANGED tasks => QuietTasks
  BY <1>0 DEF QuietTasks
<1>2. UNCHANGED alerts => QuietAlerts
  BY DEF QuietAlerts
<1>3. ASSUME NEW m \in MachineContract, NEW sender \in Caller, SensorStep(m, sender)
      PROVE  FailuresAlertOnce'
  <2>1. PICK t \in {0} \cup DOMAIN tasks[m], type \in ReadingType, critical \in BOOLEAN :
          saveReading(m, t, type, critical, sender)
    BY <1>3 DEF SensorStep
  <2>2. UNCHANGED tasks
    BY <2>1 DEF saveReading, taskVars
  <2>3. QuietAlerts
    <3> DEFINE id == Len(readings[m]) + 1
    <3>1. id \in Nat
      BY LenProperties DEF TypeOK
    <3>2. AlertReadingType[m] \in {"Major", "Critical"}
      BY MachineAssumption
    <3>3. alerts' = AlertsWith(m, id, type, AlertReadingType[m]) \/ UNCHANGED alerts
      BY <2>1 DEF saveReading
    <3> HIDE DEF id
    <3>4. CASE alerts' = AlertsWith(m, id, type, AlertReadingType[m])
      <4> DEFINE of == AlertReadingType[m]
                 new == Len(alerts[m]) + 1
      <4>1. of \in {"Minor", "Major", "Critical"} /\ of # "Minor"
        BY <3>2
      <4>2. /\ \A n \in MachineContract : \A i \in DOMAIN alerts[n] :
                 i \in DOMAIN alerts'[n] /\ alerts'[n][i] = alerts[n][i]
            /\ \A n \in MachineContract : \A i \in DOMAIN alerts'[n] :
                 i \in DOMAIN alerts[n] \/ (n = m /\ i = new)
            /\ alerts'[m][new] = [taskID |-> id, reason |-> type, alertType |-> of]
        <5>1. type \in Note \cup {None} \cup ReadingType
          OBVIOUS
        <5>2. Raised(m, [taskID |-> id, reason |-> type, alertType |-> of])
          BY <3>1, <3>4, <4>1, <5>1, RaisedAlert
        <5> QED BY <5>2 DEF Raised
      <4>3. alerts'[m][new].alertType = of
        BY <4>2
      <4> HIDE DEF of, new
      <4> QED BY <4>1, <4>2, <4>3 DEF QuietAlerts
    <3> QED BY <1>2, <3>3, <3>4
  <2> QED BY <1>1, <2>2, <2>3, QuietSteps
<1>4. ASSUME NEW m \in MachineContract, NEW sender \in Caller, OwnerStep(m, sender)
      PROVE  UNCHANGED <<tasks, alerts>>
  BY <1>4 DEF OwnerStep, authorizeProcess, deauthorizeProcess, saveMachineInfo, taskVars, sensorVars
<1>5. CASE UNCHANGED vars
  BY <1>1, <1>2, <1>5, QuietSteps DEF vars, taskVars, sensorVars
<1> QED BY <1>1, <1>2, <1>3, <1>4, <1>5, TaskStepAlerts, QuietSteps DEF Next

\* A task that failed has one minor alert, with its note, and no other task has any.
THEOREM FailuresAlertOnceHolds == Spec => []FailuresAlertOnce
<1>1. Init => FailuresAlertOnce
  BY DEF Init, FailuresAlertOnce
<1>2. IInv /\ FailuresAlertOnce /\ [Next]_vars => FailuresAlertOnce'
  BY AlertsInvariant DEF IInv
<1> QED BY <1>1, <1>2, InvariantHolds, PTL DEF Spec
====
