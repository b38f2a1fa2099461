---- MODULE Factory ----
(***************************************************************************)
(* The gateway that runs the factory: MQTT/mqtt-handler.js, the machine    *)
(* clients (MQTT/machines), the process clients (MQTT/processes) and the   *)
(* machines behind the broker as MQTT/factory-simulator.js plays them.     *)
(*                                                                         *)
(* A machine client starts a task it is assigned, tells the machine, and   *)
(* finishes the task on the machine's acknowledgement.  A process client   *)
(* makes the next step when a task finished, and finishes the process.     *)
(* The contracts' events and the broker's messages are all that connects   *)
(* them.  Events of the chain reach every callback, in any order; each     *)
(* handler ends in one transaction, so handler and transaction are one     *)
(* action: a transaction mined later is the same as an event delivered     *)
(* later.  A handler's transaction that reverts is logged and forgotten.   *)
(*                                                                         *)
(* What goes wrong: the connection to the broker is lost and made again    *)
(* (every "connect" registers all callbacks once more), messages of QoS 0  *)
(* are lost, the gateway stops and starts again (events are subscribed     *)
(* from the latest block: those in between are missed), and the owners     *)
(* kill tasks and processes.                                               *)
(***************************************************************************)
EXTENDS Contracts

CONSTANTS
  MayFail,       \* the tasks that a machine may refuse or fail to do
  MaxCallbacks,  \* how often a client registers for an event
  MaxCopies      \* how often the gateway's handler makes its clients

ASSUME FactoryAssumption ==
  MayFail \subseteq TaskNames /\ MaxCopies \in Nat \ {0} /\ MaxCallbacks \in Nat \ {0}

VARIABLES
  callbacks,   \* how often each client is registered for its events
  copies,      \* how many sets of clients and simulators the handler made
  deliveries,  \* events on their way to a callback
  receipts,    \* startTask transactions mined, whose client did not go on yet
  orders,      \* task messages on their way to the machines
  acks,        \* acknowledgements on their way to each copy of a machine's client
  stock,       \* the product in slot C2 of each simulator's high-bay warehouse
  published    \* the tasks whose message was published to each machine, in order

chainVars == vars
messageVars == <<deliveries, receipts, orders, acks, published>>
connectionVars == <<callbacks, copies>>
factoryVars == <<vars, connectionVars, messageVars, stock>>

Client == MachineContract \cup ProcessContract

Task(m, t) == tasks[m][t]

----
\* Events.

\* The callbacks of a client that an event of this transaction goes to.
Event(to, event, from, id, status) ==
  {[to |-> to, event |-> event, from |-> from, id |-> id, status |-> status, callback |-> c] :
     c \in 1 .. callbacks[to]}

NewTasks(m) == (DOMAIN tasks'[m]) \ DOMAIN tasks[m]

TaskAssignedEvents ==
  UNION {UNION {Event(m, "TaskAssigned", m, t, None) : t \in NewTasks(m)} : m \in MachineContract}

\* A mutation: nobody waits for the end of DropToHBW.
nextStepForgetting ==
  [SP |-> [GetInfo |-> 2, FetchContainer |-> 3],
   PP |-> [FetchProduct |-> 2, MoveHBW2MPO |-> 3, Processing |-> 4, Sorting |-> 5]]

\* The step that the end of a task leads to, and the task that ends the process.
supplyingSteps == [GetInfo |-> 2, FetchContainer |-> 3, DropToHBW |-> 4]

productionSteps == [FetchProduct |-> 2, MoveHBW2MPO |-> 3, Processing |-> 4, Sorting |-> 5]

nextStep == [SP |-> supplyingSteps, PP |-> productionSteps]

lastTask == [SP |-> "StoreProduct", PP |-> "PickSorted"]

\* The process clients hear of every task and ignore those of the other process
\* and StoreContainer: their events are left out.
TaskFinishedEvents(m, t) ==
  UNION {Event(k, "TaskFinished", m, t, tasks'[m][t].status) :
           k \in {j \in ProcessContract :
                    Task(m, t).taskName \in DOMAIN nextStep[j] \cup {lastTask[j]}}}

ProcessStartedEvents(k, n) == Event(k, "ProcessStarted", k, n, None)

----
\* The process clients.

TryStep(k, n, s, rest) ==
  IF canStep(k, n, s, "processOwner")
    THEN step(k, n, s, "processOwner") /\ deliveries' = rest \cup TaskAssignedEvents
    ELSE UNCHANGED chainVars /\ deliveries' = rest

TryFinishProcess(k, n, status, rest) ==
  /\ IF processInstanceExists(k, n) /\ ~instances[k][n].finished
       THEN finishProcess(k, n, status, "processOwner")
       ELSE UNCHANGED chainVars
  /\ deliveries' = rest

onProcessStarted(d) ==
  /\ d.event = "ProcessStarted"
  /\ TryStep(d.to, d.id, 1, deliveries \ {d})
  /\ UNCHANGED <<connectionVars, receipts, orders, acks, published, stock>>

\* A mutation: the status of a finished task is not looked at.
onTaskFinishedAnyhow(d) ==
  LET k == d.to
      n == Task(d.from, d.id).processID
      name == Task(d.from, d.id).taskName
      rest == deliveries \ {d}
  IN /\ d.event = "TaskFinished"
     /\ IF name = lastTask[k]
          THEN TryFinishProcess(k, n, "FinishedSuccessfully", rest)
          ELSE TryStep(k, n, nextStep[k][name], rest)
     /\ UNCHANGED <<connectionVars, receipts, orders, acks, published, stock>>

\* A mutation: a failed task ends the process with a task's status number, which
\* is another's in the enumeration of the process contract.
onTaskFinishedSwapped(d) ==
  LET k == d.to
      n == Task(d.from, d.id).processID
      name == Task(d.from, d.id).taskName
      rest == deliveries \ {d}
  IN /\ d.event = "TaskFinished"
     /\ CASE name = lastTask[k] -> TryFinishProcess(k, n, "FinishedUnsuccessfully", rest)
          [] name \in DOMAIN nextStep[k] /\ d.status = "FinishedUnsuccessfully" ->
               TryFinishProcess(k, n, "FinishedSuccessfully", rest)
          [] name \in DOMAIN nextStep[k] /\ d.status # "FinishedUnsuccessfully" ->
               TryStep(k, n, nextStep[k][name], rest)
     /\ UNCHANGED <<connectionVars, receipts, orders, acks, published, stock>>

\* onVGRTaskFinished, onHBWTaskFinished, onMPOTaskFinished and onSLDTaskFinished.
\* The last task's status is not looked at.
onTaskFinished(d) ==
  LET k == d.to
      n == Task(d.from, d.id).processID
      name == Task(d.from, d.id).taskName
      rest == deliveries \ {d}
  IN /\ d.event = "TaskFinished"
     /\ CASE name = lastTask[k] -> TryFinishProcess(k, n, "FinishedSuccessfully", rest)
          [] name \in DOMAIN nextStep[k] /\ d.status = "FinishedUnsuccessfully" ->
               TryFinishProcess(k, n, "FinishedUnsuccessfully", rest)
          [] name \in DOMAIN nextStep[k] /\ d.status # "FinishedUnsuccessfully" ->
               TryStep(k, n, nextStep[k][name], rest)
     /\ UNCHANGED <<connectionVars, receipts, orders, acks, published, stock>>

----
\* The machine clients.

\* A mutation: the client goes on although startTask reverted.
onNewTaskAssignedRegardless(d) ==
  /\ d.event = "TaskAssigned"
  /\ IF ~Task(d.from, d.id).started
       THEN M!startTask(d.from, d.id, machineDID[d.from]) /\ UNCHANGED <<productVars, processVars>>
       ELSE UNCHANGED chainVars
  /\ receipts' = receipts \cup {<<d.from, d.id>>}
  /\ deliveries' = deliveries \ {d}
  /\ UNCHANGED <<connectionVars, orders, acks, published, stock>>

\* The answer of isTaskFinished is not used.  Only the client whose startTask is
\* mined goes on to tell the machine.
onNewTaskAssigned(d) ==
  /\ d.event = "TaskAssigned"
  /\ IF ~Task(d.from, d.id).started
       THEN /\ M!startTask(d.from, d.id, machineDID[d.from])
            /\ receipts' = receipts \cup {<<d.from, d.id>>}
            /\ UNCHANGED <<productVars, processVars>>
       ELSE UNCHANGED <<chainVars, receipts>>
  /\ deliveries' = deliveries \ {d}
  /\ UNCHANGED <<connectionVars, orders, acks, published, stock>>

\* The code of a task's message, by machine and task name.
vgrMessage == [GetInfo |-> 2, DropToHBW |-> 3, MoveHBW2MPO |-> 4, PickSorted |-> 5]

hbwMessage == [FetchContainer |-> 2, StoreProduct |-> 3, FetchProduct |-> 4, StoreContainer |-> 5]

mpoMessage == [Processing |-> 2]

sldMessage == [Sorting |-> 2]

messageCode == [VGR |-> vgrMessage, HBW |-> hbwMessage, MPO |-> mpoMessage, SLD |-> sldMessage]

\* Publishes the task's message; every simulator is subscribed to it.
sendTask(r) ==
  /\ receipts' = receipts \ {r}
  /\ published' = [published EXCEPT ![r[1]] = Append(@, r[2])]
  /\ orders' = orders \cup
       {[machine |-> r[1], task |-> r[2], code |-> messageCode[r[1]][Task(r[1], r[2]).taskName],
         copy |-> c] : c \in 1 .. copies}
  /\ UNCHANGED <<chainVars, connectionVars, deliveries, acks, stock>>

TryFinishTask(m, t, status, note) ==
  IF ~Task(m, t).finished
    THEN /\ M!finishTask(m, t, status, note, machineDID[m])
         /\ deliveries' = deliveries \cup TaskFinishedEvents(m, t)
         /\ UNCHANGED <<productVars, processVars>>
    ELSE UNCHANGED <<chainVars, deliveries>>

TryFinishGetInfo(t) ==
  IF canSaveOperation("VGR", t, "VGR_DID") /\ ~Task("VGR", t).finished
    THEN /\ \E tag \in Tag, color \in Color : finishGetInfoTask(t, tag, color, "VGR_DID")
         /\ deliveries' = deliveries \cup TaskFinishedEvents("VGR", t)
    ELSE UNCHANGED <<chainVars, deliveries>>

TryFinishSorting(t) ==
  IF canSaveOperation("SLD", t, "SLD_DID") /\ ~Task("SLD", t).finished
    THEN /\ \E color \in Color : finishSorting(t, color, "SLD_DID")
         /\ deliveries' = deliveries \cup TaskFinishedEvents("SLD", t)
    ELSE UNCHANGED <<chainVars, deliveries>>

TrySaveOperation(t, name) ==
  /\ IF canSaveOperation("MPO", t, "MPO_DID")
       THEN saveProductOperation("MPO", t, name, MPOResult[name], "MPO_DID")
       ELSE UNCHANGED chainVars
  /\ UNCHANGED deliveries

FailureNote == CHOOSE note \in Note : TRUE

\* The codes that a machine client takes for a failure of the task.
failureCodes == [VGR |-> {8, 9, 10}, HBW |-> {5, 6}, MPO |-> {}, SLD |-> {4}]

Failed(m, a) == TryFinishTask(m, a.task, "FinishedUnsuccessfully", FailureNote)

Done(m, a) == TryFinishTask(m, a.task, "FinishedSuccessfully", FailureNote)

\* What each client does with an acknowledgement: VGR and HBW take every code they
\* do not know for success, MPO and SLD drop it.
vgrAckReceived(a) ==
  CASE a.code \in failureCodes["VGR"] -> Failed("VGR", a)
    [] a.code = 1 -> TryFinishGetInfo(a.task)
    [] OTHER -> Done("VGR", a)

hbwAckReceived(a) == IF a.code \in failureCodes["HBW"] THEN Failed("HBW", a) ELSE Done("HBW", a)

mpoAckReceived(a) ==
  CASE a.code = 3 -> TrySaveOperation(a.task, "Melting")
    [] a.code = 4 -> TrySaveOperation(a.task, "Milling")
    [] a.code = 2 -> Done("MPO", a)
    [] OTHER -> UNCHANGED <<chainVars, deliveries>>

sldAckReceived(a) ==
  CASE a.code \in failureCodes["SLD"] -> Failed("SLD", a)
    [] a.code = 2 -> TryFinishSorting(a.task)
    [] OTHER -> UNCHANGED <<chainVars, deliveries>>

onNewAckReceived(m, c) ==
  /\ acks[m][c] # <<>>
  /\ LET a == Head(acks[m][c]) IN
       CASE m = "VGR" -> vgrAckReceived(a)
         [] m = "HBW" -> hbwAckReceived(a)
         [] m = "MPO" -> mpoAckReceived(a)
         [] m = "SLD" -> sldAckReceived(a)
  /\ acks' = [acks EXCEPT ![m][c] = Tail(@)]
  /\ UNCHANGED <<connectionVars, receipts, orders, published, stock>>

----
\* The machines.

\* The warehouse of each simulator.  Storing takes slot C2, whatever it holds; the
\* answer to a fetch says whether the product was there.
holds(o) == stock[o.copy] = Task(o.machine, o.task).productDID

storeWorkPiece(o) == [stock EXCEPT ![o.copy] = Task(o.machine, o.task).productDID]

fetchWorkPiece(o) == IF holds(o) THEN [stock EXCEPT ![o.copy] = None] ELSE stock

StockAfter(o) ==
  CASE o.machine = "HBW" /\ o.code = 3 -> storeWorkPiece(o)
    [] o.machine = "HBW" /\ o.code = 4 -> fetchWorkPiece(o)
    [] OTHER -> stock

\* The codes a simulator answers a message with: those it does not know it sends back.
simulatorCodes(o) ==
  CASE o.machine = "SLD" -> <<2>>
    [] o.machine = "MPO" -> <<3, 4, 2>>
    [] o.machine = "VGR" /\ o.code = 2 -> <<1>>
    [] o.machine = "HBW" /\ o.code = 3 -> <<2>>
    [] o.machine = "HBW" /\ o.code = 4 -> IF holds(o) THEN <<7>> ELSE <<5>>
    [] OTHER -> <<o.code>>

\* A machine of the real factory may answer with a failure code; the client treats
\* those it knows alike.
canFail(o) ==
  Task(o.machine, o.task).taskName \in MayFail /\ failureCodes[o.machine] # {}

failedCodes(o) == <<CHOOSE code \in failureCodes[o.machine] : TRUE>>

Acknowledged(o, codes) ==
  [c \in 1 .. MaxCopies |->
     IF c <= copies
       THEN acks[o.machine][c] \o [i \in DOMAIN codes |-> [task |-> o.task, code |-> codes[i]]]
       ELSE acks[o.machine][c]]

machineExecutes(o) ==
  /\ orders' = orders \ {o}
  /\ \/ /\ acks' = [acks EXCEPT ![o.machine] = Acknowledged(o, simulatorCodes(o))]
        /\ stock' = StockAfter(o)
     \/ /\ canFail(o)
        /\ acks' = [acks EXCEPT ![o.machine] = Acknowledged(o, failedCodes(o))]
        /\ UNCHANGED stock
  /\ UNCHANGED <<chainVars, connectionVars, deliveries, receipts, published>>

----
\* The owners.

startProcessOf(k, p) ==
  /\ startProcess(k, p, "productOwner")
  /\ deliveries' = deliveries \cup ProcessStartedEvents(k, Len(instances[k]) + 1)
  /\ UNCHANGED <<connectionVars, receipts, orders, acks, published, stock>>

\* No client listens to ProcessKilled or TaskKilled.
ownersKill ==
  /\ \/ \E k \in ProcessContract : \E n \in DOMAIN instances[k] : killProcess(k, n, "processOwner")
     \/ /\ \E m \in MachineContract : \E t \in DOMAIN tasks[m] : M!killTask(m, t, "machineOwner")
        /\ UNCHANGED <<productVars, processVars>>
  /\ UNCHANGED <<connectionVars, messageVars, stock>>

----
\* The connections.

\* A client connects to the broker again: onMQTTConnect registers its callbacks.
clientReconnects(client) ==
  /\ callbacks[client] < MaxCallbacks
  /\ callbacks' = [callbacks EXCEPT ![client] = @ + 1]
  /\ UNCHANGED <<chainVars, copies, messageVars, stock>>

\* The handler connects again: it makes all clients and a simulator once more.
handlerReconnects ==
  /\ copies < MaxCopies
  /\ copies' = copies + 1
  /\ callbacks' = [client \in Client |-> callbacks[client] + 1]
  /\ UNCHANGED <<chainVars, messageVars, stock>>

NoAcks == [m \in MachineContract |-> [c \in 1 .. MaxCopies |-> <<>>]]

NoStock == [c \in 1 .. MaxCopies |-> None]

gatewayRestarts ==
  /\ callbacks' = [client \in Client |-> 1]
  /\ copies' = 1
  /\ deliveries' = {}
  /\ receipts' = {}
  /\ orders' = {}
  /\ acks' = NoAcks
  /\ stock' = NoStock
  /\ UNCHANGED <<chainVars, published>>

messageLost ==
  /\ \/ \E o \in orders : orders' = orders \ {o} /\ UNCHANGED acks
     \/ \E m \in MachineContract, c \in 1 .. MaxCopies :
          /\ acks[m][c] # <<>>
          /\ acks' = [acks EXCEPT ![m][c] = Tail(@)]
          /\ UNCHANGED orders
  /\ UNCHANGED <<chainVars, connectionVars, deliveries, receipts, published, stock>>

----

FactoryInit ==
  /\ Init
  /\ callbacks = [client \in Client |-> 1]
  /\ copies = 1
  /\ deliveries = {}
  /\ receipts = {}
  /\ orders = {}
  /\ acks = NoAcks
  /\ stock = NoStock
  /\ published = [m \in MachineContract |-> <<>>]

\* A client's callbacks for one event are the same function: it does not matter
\* which comes first.
Due ==
  {d \in deliveries : \A e \in deliveries : [e EXCEPT !.callback = d.callback] = d =>
                        d.callback <= e.callback}

\* The gateway and the machines at work.
Work ==
  \/ \E d \in Due : onProcessStarted(d) \/ onTaskFinished(d) \/ onNewTaskAssigned(d)
  \/ \E r \in receipts : sendTask(r)
  \/ \E o \in orders : machineExecutes(o)
  \/ \E m \in MachineContract, c \in 1 .. MaxCopies : onNewAckReceived(m, c)

Starts == \E k \in ProcessContract, p \in ProductID : startProcessOf(k, p)

Faults ==
  \/ \E client \in Client : clientReconnects(client)
  \/ handlerReconnects
  \/ gatewayRestarts
  \/ messageLost

FactoryNext == Work \/ Starts \/ ownersKill \/ Faults

FactorySpec == FactoryInit /\ [][FactoryNext]_factoryVars

\* The owner starts one instance of a product at a time and kills nothing.
StartWhenEnded ==
  \E k \in ProcessContract, p \in ProductID :
    /\ \A j \in ProcessContract : \A n \in DOMAIN instances[j] :
         getProductDID(j, n) = p => instances[j][n].finished
    /\ startProcessOf(k, p)

CarefulNext == Work \/ StartWhenEnded \/ Faults

CarefulSpec == FactoryInit /\ [][CarefulNext]_factoryVars

----

\* The tasks of an instance that have a name.
TasksOf(k, n, name) ==
  UNION {{<<m, t>> : t \in {u \in DOMAIN tasks[m] :
            /\ Task(m, u).processContractAddress = k
            /\ Task(m, u).processID = n
            /\ Task(m, u).taskName = name}} : m \in MachineContract}

\* The task whose end leads to a step.
Before(k, s) == CHOOSE name \in DOMAIN nextStep[k] : nextStep[k][name] = s

(***************************************************************************)
(* A machine is told at most once to do a task, although every connection  *)
(* to the broker registers one more callback for the same assignment: a    *)
(* gripper that moved the same workpiece twice would crash into the rack.  *)
(***************************************************************************)
ToldAtMostOnce ==
  \A m \in MachineContract : \A i, j \in DOMAIN published[m] :
    published[m][i] = published[m][j] => i = j

(***************************************************************************)
(* The steps of an instance are made one by one: a step beyond the first   *)
(* was only made after the task of the step before it ended successfully,  *)
(* and no step assigned its task twice, whatever events came twice, late   *)
(* or not at all.                                                          *)
(***************************************************************************)
StepName(k, s) ==
  getTaskTypeName[SeededMachines[k][getMachineNumber[k][s]]][getStepTaskType[k][s]]

StepsFollowSuccess ==
  \A k \in ProcessContract : \A n \in DOMAIN instances[k] :
    \A s \in 1 .. getNumberOfSteps(k) :
      LET assigned_ == TasksOf(k, n, StepName(k, s)) IN
      /\ Cardinality(assigned_) = IF s <= instances[k][n].currentStep THEN 1 ELSE 0
      /\ s < instances[k][n].currentStep =>
           \A i \in assigned_ : Task(i[1], i[2]).status = "FinishedSuccessfully"

(***************************************************************************)
(* How an instance ended says what its tasks did: successful only when all *)
(* steps were made, all tasks before the last were successful and the last *)
(* is finished; unsuccessful only when the task of its current step failed.*)
(***************************************************************************)
EndsAreJustified ==
  \A k \in ProcessContract : \A n \in DOMAIN instances[k] :
    LET s == instances[k][n].currentStep
        current == TasksOf(k, n, StepName(k, s))
    IN /\ instances[k][n].status = "FinishedSuccessfully" =>
            /\ s = getNumberOfSteps(k)
            /\ \A i \in current : Task(i[1], i[2]).finished
       /\ instances[k][n].status = "FinishedUnsuccessfully" =>
            \E i \in current : Task(i[1], i[2]).status = "FinishedUnsuccessfully"

(***************************************************************************)
(* While a machine works on a task of a step, the product allows that      *)
(* machine and the process that assigned the task: otherwise its           *)
(* operations revert and the task never ends.  It takes that the owner     *)
(* starts one instance at a time for a product and kills none.             *)
(***************************************************************************)
WorkingMachinesAreAllowed ==
  \A m \in MachineContract : \A t \in DOMAIN tasks[m] :
    LET task == Task(m, t) IN
    task.status = "Started" /\ task.taskName # "StoreContainer" =>
      /\ productsAuthorizedMachines[task.productDID] = m
      /\ productsAuthorizedProcesses[task.productDID] = task.processContractAddress

(***************************************************************************)
(* The instances are runs of an abstract process: one by one they make     *)
(* their steps, whose tasks come out once, and end as these allow.  An     *)
(* instance shows of its tasks what came of the step it has reached.       *)
(***************************************************************************)
OutcomeOf(k, n, s) ==
  {how \in M!Finished :
     /\ s # 0
     /\ \E m \in MachineContract : \E t \in DOMAIN tasks[m] :
          /\ tasks[m][t].status = how
          /\ tasks[m][t].processContractAddress = k
          /\ tasks[m][t].processID = n
          /\ tasks[m][t].taskName = StepName(k, s)}

RunOf(k, n) ==
  [productDID |-> instances[k][n].productDID,
   currentStep |-> instances[k][n].currentStep,
   outcome |-> OutcomeOf(k, n, instances[k][n].currentStep),
   status |-> instances[k][n].status]

Runs == [k \in ProcessContract |-> [n \in DOMAIN instances[k] |-> RunOf(k, n)]]

A == INSTANCE AbstractProcess WITH
       runs <- Runs, NumberOfSteps <- [k \in ProcessContract |-> getNumberOfSteps(k)]

ImplementsProcess == A!Spec

(***************************************************************************)
(* Every instance ends, if no message is lost, nobody kills anything and   *)
(* the gateway keeps running: whichever tasks the machines fail and        *)
(* however often the clients register.                                     *)
(***************************************************************************)
AllEnded == \A k \in ProcessContract : \A n \in DOMAIN instances[k] : instances[k][n].finished

InstancesEnd == []<>AllEnded

(***************************************************************************)
(* "The process client is responsible for executing the process steps one  *)
(* by one by monitoring the machine's status" (README.md:32): a process    *)
(* that finished successfully had all its steps done.  The clients finish  *)
(* it on the last task's end, whatever its status.                         *)
(***************************************************************************)
SuccessMeansAllTasks ==
  \A k \in ProcessContract : \A n \in DOMAIN instances[k] :
    instances[k][n].status = "FinishedSuccessfully" =>
      \A s \in 1 .. getNumberOfSteps(k) : \A i \in TasksOf(k, n, StepName(k, s)) :
        Task(i[1], i[2]).status = "FinishedSuccessfully"
====
