---- MODULE GatewayData ----
(***************************************************************************)
(* What the gateway records besides the tasks: the readings of the sensors *)
(* and the credentials of the products' operations, by the client of one   *)
(* machine (MQTT/machines), the readings client and the document store     *)
(* (utilities/db.js) that server.js serves.                                *)
(*                                                                         *)
(* A client remembers the task its machine works on (currentTaskID) and    *)
(* saves a requested reading for it; it hears of every operation its       *)
(* machine saved on the chain and inserts a credential.  Every new         *)
(* connection of the gateway's handler makes one more copy of the client,  *)
(* with a currentTaskID of its own, and every connection of a copy one     *)
(* more callback for each event.  Transactions and their receipts are      *)
(* separate steps where the client goes on after the receipt.              *)
(*                                                                         *)
(* The gateway may stop at any time and loses everything but the store,    *)
(* which is a file; the containers of the chain may be removed and the     *)
(* contracts deployed anew while it is down.                               *)
(***************************************************************************)
EXTENDS Naturals, Sequences, FiniteSets

CONSTANTS
  Machine,      \* the machines one of which is looked at
  MaxCopies,    \* how often the gateway's handler makes its clients
  MaxCallbacks  \* how often a client registers for an event

ASSUME GatewayDataAssumption ==
  /\ Machine \subseteq {"VGR", "HBW", "MPO", "SLD"}
  /\ MaxCopies \in Nat \ {0}

VARIABLES
  machine,        \* the machine of this behaviour
  \* the chain
  deployment,     \* how often the contracts were deployed
  tasks, operations, readings, asked,
  \* the gateway
  running, callbacks, currentTaskID, recentReading,
  receipts,       \* mined transactions whose sender did not hear of it yet
  sending,        \* started tasks whose inputs are being read
  orders, acks,   \* messages on their way to the machine and back
  requests,       \* NewReading events on their way to a callback
  saved,          \* ProductOperationSaved events on their way to each callback, in order
  settled,        \* the tasks each copy handled the last acknowledgement of
  credentials     \* the documents of the store

chainVars == <<deployment, tasks, operations, readings, asked>>
eventVars == <<requests, saved>>
taskVars == <<receipts, sending, orders, acks, settled>>
clientVars == <<running, callbacks, currentTaskID, recentReading>>
vars == <<machine, chainVars, eventVars, taskVars, clientVars, credentials>>

Copy == 1 .. MaxCopies

Callback == Copy \X (1 .. MaxCallbacks)

\* The callbacks an event goes to.
Registered == {r \in Callback : r[2] <= callbacks[r[1]]}

TaskNames ==
  [VGR |-> {"GetInfo", "PickSorted"}, HBW |-> {"FetchContainer", "StoreProduct"},
   MPO |-> {"Processing"}, SLD |-> {"Sorting"}]

\* These tasks' messages carry inputs that the client reads from the contract first.
readsInputs(name) == name \in {"PickSorted", "StoreProduct"}

Sensor == {"bme680", "ldr"}

\* getReadingType and getRecentReading: brightness comes from one sensor, all other
\* types from the other.
ReadingType == {"t", "br"}

sensorOf(type) == IF type = "br" THEN "ldr" ELSE "bme680"

----

NoAcks == [c \in Copy |-> <<>>]

NoneSaved == [r \in Callback |-> <<>>]

Init ==
  /\ machine \in Machine
  /\ deployment = 1 /\ tasks = <<>> /\ operations = <<>> /\ readings = <<>> /\ asked = 0
  /\ running = TRUE
  /\ callbacks = [c \in Copy |-> IF c = 1 THEN 1 ELSE 0]
  /\ currentTaskID = [c \in Copy |-> 0]
  /\ recentReading = [s \in Sensor |-> FALSE]
  /\ receipts = {} /\ sending = {} /\ orders = {} /\ acks = NoAcks
  /\ requests = {} /\ saved = NoneSaved /\ settled = {}
  /\ credentials = {}

----
\* The sensors and the tasks' messages.

\* The readings client is one object, however many copies of the clients there are.
onSensorMessage(s) ==
  /\ running
  /\ recentReading' = [recentReading EXCEPT ![s] = TRUE]
  /\ UNCHANGED <<machine, chainVars, eventVars, taskVars, running, callbacks,
                 currentTaskID, credentials>>

\* A process assigns a task; the startTask of one copy is mined, those of the
\* others revert.
startTask(c, name) ==
  /\ running /\ callbacks[c] > 0
  /\ tasks' = Append(tasks, [name |-> name, finished |-> FALSE])
  /\ receipts' = receipts \cup {[copy |-> c, task |-> Len(tasks) + 1, of |-> "startTask"]}
  /\ UNCHANGED <<machine, deployment, operations, readings, asked, eventVars, sending,
                 orders,
                 acks, settled, clientVars, credentials>>

onTaskStarted(r) ==
  /\ r.of = "startTask"
  /\ receipts' = receipts \ {r}
  /\ currentTaskID' = [currentTaskID EXCEPT ![r.copy] = r.task]
  /\ IF readsInputs(tasks[r.task].name)
       THEN sending' = sending \cup {[copy |-> r.copy, task |-> r.task]} /\ UNCHANGED orders
       ELSE orders' = orders \cup {r.task} /\ UNCHANGED sending
  /\ UNCHANGED <<machine, chainVars, eventVars, acks, settled, running, callbacks,
                 recentReading,
                 credentials>>

onInputsRead(s) ==
  /\ sending' = sending \ {s}
  /\ orders' = orders \cup {s.task}
  /\ UNCHANGED <<machine, chainVars, eventVars, receipts, acks, settled, clientVars,
                 credentials>>

\* The last code of a task is "done" or, of a machine that may fail, "failed".
outcomes ==
  IF machine = "MPO" THEN {<<"melted", "milled", "done">>} ELSE {<<"done">>, <<"failed">>}

\* The acknowledgements reach every copy, in the order they were sent.
machineExecutes(t) ==
  /\ orders' = orders \ {t}
  /\ \E codes \in outcomes :
       acks' = [c \in Copy |->
         IF callbacks[c] > 0
           THEN acks[c] \o [i \in DOMAIN codes |-> [task |-> t, code |-> codes[i]]]
           ELSE acks[c]]
  /\ UNCHANGED <<machine, chainVars, eventVars, receipts, sending, settled, clientVars,
                 credentials>>

----
\* Acknowledgements.

\* The operations a transaction saves, with an event for every callback.
Saves(names, t) ==
  /\ operations' = operations \o [i \in DOMAIN names |-> [name |-> names[i], task |-> t]]
  /\ saved' = [r \in Callback |->
       IF r \in Registered THEN saved[r] \o [i \in DOMAIN names |-> Len(operations) + i]
                           ELSE saved[r]]

\* Ends the task and saves what the transaction saves with it, unless it ended
\* before.  Where the client waits for the receipt, it hears of it later.
TryFinish(c, t, names, waits) ==
  IF tasks[t].finished
    THEN UNCHANGED <<tasks, operations, saved, receipts>>
    ELSE /\ tasks' = [tasks EXCEPT ![t].finished = TRUE]
         /\ Saves(names, t)
         /\ receipts' = IF waits THEN receipts \cup {[copy |-> c, task |-> t, of |-> "finish"]}
                                 ELSE receipts

forgets(c) == currentTaskID' = [currentTaskID EXCEPT ![c] = 0]

\* The operations that finishGetInfoTask and finishSorting save.
finalOperations(name) ==
  CASE name = "GetInfo" -> <<"NFCTagReading", "ColorDetection", "PhysicalIdentification">>
    [] name = "Sorting" -> <<"Sorting">>
    [] OTHER -> <<>>

\* VGR forgets its task at every acknowledgement of any task.
vgrAckReceived(c, a) ==
  /\ TryFinish(c, a.task, IF a.code = "failed" THEN <<>> ELSE finalOperations(tasks[a.task].name),
               a.code = "done" /\ tasks[a.task].name = "GetInfo")
  /\ forgets(c)

\* A mutation: HBW does not forget its task.
hbwAckKept(c, a) == TryFinish(c, a.task, <<>>, FALSE) /\ UNCHANGED currentTaskID

\* HBW returns before it forgets a task that failed.
hbwAckReceived(c, a) ==
  /\ TryFinish(c, a.task, <<>>, FALSE)
  /\ IF a.code = "failed" THEN UNCHANGED currentTaskID ELSE forgets(c)

mpoOperation == [melted |-> "Melting", milled |-> "Milling"]

\* An operation saved after its task ended is refused when the product went on to
\* another machine.
mpoAckReceived(c, a) ==
  IF a.code = "done"
    THEN TryFinish(c, a.task, <<>>, FALSE) /\ forgets(c)
    ELSE /\ \/ Saves(<<mpoOperation[a.code]>>, a.task)
            \/ tasks[a.task].finished /\ UNCHANGED <<operations, saved>>
         /\ UNCHANGED <<tasks, receipts, currentTaskID>>

\* SLD forgets nothing when a task failed.
sldAckReceived(c, a) ==
  IF a.code = "failed"
    THEN TryFinish(c, a.task, <<>>, FALSE) /\ UNCHANGED currentTaskID
    ELSE TryFinish(c, a.task, finalOperations("Sorting"), TRUE) /\ forgets(c)

\* MPO puts the temperature into the result of Melting: without a reading the
\* handler throws.
throws(a) == machine = "MPO" /\ a.code = "melted" /\ ~recentReading["bme680"]

onAckReceived(c) ==
  /\ acks[c] # <<>> /\ ~throws(Head(acks[c]))
  /\ LET a == Head(acks[c]) IN
       /\ \/ machine = "VGR" /\ vgrAckReceived(c, a)
          \/ machine = "HBW" /\ hbwAckReceived(c, a)
          \/ machine = "MPO" /\ mpoAckReceived(c, a)
          \/ machine = "SLD" /\ sldAckReceived(c, a)
       /\ settled' = IF a.code \in {"done", "failed"} THEN settled \cup {<<c, a.task, a.code>>}
                                                      ELSE settled
  /\ acks' = [acks EXCEPT ![c] = Tail(@)]
  /\ UNCHANGED <<machine, deployment, readings, asked, requests, sending, orders, running,
                 callbacks, recentReading, credentials>>

\* VGR and SLD forget their task once more when the end of GetInfo or Sorting is
\* mined, whichever task is current by then.
onTaskFinished(r) ==
  /\ r.of = "finish"
  /\ receipts' = receipts \ {r}
  /\ forgets(r.copy)
  /\ UNCHANGED <<machine, chainVars, eventVars, sending, orders, acks, settled, running,
                 callbacks, recentReading, credentials>>

----
\* Readings.

\* The machine's owner asks for a reading: the contract only emits an event.
getNewReading(type) ==
  /\ asked' = asked + 1
  /\ requests' = IF running
       THEN requests \cup {[request |-> asked + 1, type |-> type, copy |-> r[1], callback |-> r[2]] :
                             r \in Registered}
       ELSE requests
  /\ UNCHANGED <<machine, deployment, tasks, operations, readings, saved, taskVars,
                 clientVars, credentials>>

\* A mutation: the only reading the client knows is the brightness.
onNewReadingRequestOfOne(d) ==
  /\ requests' = requests \ {d}
  /\ readings' = IF recentReading["ldr"] /\ d.type = "br"
       THEN Append(readings, [taskID |-> currentTaskID[d.copy], request |-> d.request])
       ELSE readings
  /\ UNCHANGED <<machine, deployment, tasks, operations, asked, saved, taskVars,
                 clientVars, credentials>>

\* Without a message of its sensor the handler throws and the request is forgotten.
onNewReadingRequest(d) ==
  /\ requests' = requests \ {d}
  /\ readings' = IF recentReading[sensorOf(d.type)]
       THEN Append(readings, [taskID |-> currentTaskID[d.copy], request |-> d.request])
       ELSE readings
  /\ UNCHANGED <<machine, deployment, tasks, operations, asked, saved, taskVars,
                 clientVars, credentials>>

----
\* Credentials.

\* The contract names the identification differently in its event and in the product.
eventName(name) ==
  IF name = "PhysicalIdentification" THEN "Physical Identification" ELSE name

\* What the event says of an operation.
getProductOperationFromEvent(n) ==
  [operationID |-> n, operationName |-> eventName(operations[n].name),
   taskID |-> operations[n].task]

\* A mutation: the document is stored under the task's ID.
documentOfTask(n) ==
  [operationID |-> operations[n].task, vc |-> getProductOperationFromEvent(n), issuer |-> machine,
   deployment |-> deployment]

\* The document that is stored; which deployment it is of is not written in it.
document(n) ==
  [operationID |-> n, vc |-> getProductOperationFromEvent(n), issuer |-> machine,
   deployment |-> deployment]

\* A mutation: only the first copy's clients insert credentials, once for a task.
onProductOperationSavedOnce(r) ==
  /\ saved[r] # <<>>
  /\ saved' = [saved EXCEPT ![r] = Tail(@)]
  /\ credentials' =
       IF \E x \in credentials : x.document.vc.taskID = operations[Head(saved[r])].task
         THEN credentials
         ELSE credentials \cup {[document |-> document(Head(saved[r])), by |-> r]}
  /\ UNCHANGED <<machine, chainVars, requests, taskVars, clientVars>>

\* Every callback inserts a document of its own: the store refuses none.
onProductOperationSaved(r) ==
  /\ saved[r] # <<>>
  /\ saved' = [saved EXCEPT ![r] = Tail(@)]
  /\ credentials' = credentials \cup {[document |-> document(Head(saved[r])), by |-> r]}
  /\ UNCHANGED <<machine, chainVars, requests, taskVars, clientVars>>

\* The documents one of which the server shows for an operation: the first in the
\* store's own order.
shown(n) == {x.document : x \in {y \in credentials : y.document.operationID = n}}

----
\* Connections, stops and deployments.

handlerReconnects(c) ==
  /\ running /\ callbacks[c] = 0 /\ \A b \in 1 .. c - 1 : callbacks[b] > 0
  /\ callbacks' = [callbacks EXCEPT ![c] = 1]
  /\ UNCHANGED <<machine, chainVars, eventVars, taskVars, running, currentTaskID,
                 recentReading,
                 credentials>>

clientReconnects(c) ==
  /\ running /\ callbacks[c] \in 1 .. MaxCallbacks - 1
  /\ callbacks' = [callbacks EXCEPT ![c] = @ + 1]
  /\ UNCHANGED <<machine, chainVars, eventVars, taskVars, running, currentTaskID,
                 recentReading,
                 credentials>>

\* All state but the store is the process's own.
Stopped ==
  /\ running' = FALSE
  /\ callbacks' = [c \in Copy |-> 0]
  /\ currentTaskID' = [c \in Copy |-> 0]
  /\ recentReading' = [s \in Sensor |-> FALSE]
  /\ receipts' = {} /\ sending' = {} /\ orders' = {} /\ acks' = NoAcks /\ settled' = {}
  /\ requests' = {} /\ saved' = NoneSaved
  /\ UNCHANGED <<machine, chainVars, credentials>>

gatewayStops == running /\ Stopped

\* The exception in the handler of a message is caught by nobody.
gatewayCrashes == (\E c \in Copy : acks[c] # <<>> /\ throws(Head(acks[c]))) /\ Stopped

gatewayStarts ==
  /\ ~running
  /\ running' = TRUE
  /\ callbacks' = [callbacks EXCEPT ![1] = 1]
  /\ UNCHANGED <<machine, chainVars, eventVars, taskVars, currentTaskID, recentReading,
                 credentials>>

\* scripts/stop.sh removes the chain's containers; the contracts are deployed anew.
deploysAnew ==
  /\ ~running
  /\ deployment' = deployment + 1
  /\ tasks' = <<>> /\ operations' = <<>> /\ readings' = <<>> /\ asked' = 0
  /\ UNCHANGED <<machine, eventVars, taskVars, clientVars, credentials>>

messageLost ==
  /\ \/ \E t \in orders : orders' = orders \ {t} /\ UNCHANGED acks
     \/ \E c \in Copy : acks[c] # <<>> /\ acks' = [acks EXCEPT ![c] = Tail(@)] /\ UNCHANGED orders
  /\ UNCHANGED <<machine, chainVars, eventVars, receipts, sending, settled, clientVars,
                 credentials>>

----

GatewayWork ==
  \/ \E s \in Sensor : onSensorMessage(s)
  \/ \E r \in receipts : onTaskStarted(r) \/ onTaskFinished(r)
  \/ \E s \in sending : onInputsRead(s)
  \/ \E c \in Copy : onAckReceived(c)
  \/ gatewayCrashes
  \/ gatewayStarts

onRequest == \E d \in requests : onNewReadingRequest(d)

onOperation == \E r \in Callback : onProductOperationSaved(r)

Inputs ==
  \/ \E c \in Copy, name \in TaskNames[machine] : startTask(c, name)
  \/ \E type \in ReadingType : getNewReading(type)

Environment ==
  \/ \E t \in orders : machineExecutes(t)
  \/ deploysAnew

Faults ==
  \/ \E c \in Copy : handlerReconnects(c) \/ clientReconnects(c)
  \/ gatewayStops
  \/ messageLost

Next == GatewayWork \/ onRequest \/ onOperation \/ Inputs \/ Environment \/ Faults

\* An event that arrived is handled.
Fairness == WF_vars(onRequest) /\ WF_vars(onOperation)

Spec == Init /\ [][Next]_vars /\ Fairness

----

(***************************************************************************)
(* A copy's currentTaskID, under which its readings are saved, is zero or  *)
(* a task that this copy's machine was told to do and whose success it has *)
(* not been told of, whatever comes late, is lost or comes to several      *)
(* copies.  VGR and MPO drop a task that failed as well; HBW and SLD keep  *)
(* it until the next.                                                      *)
(***************************************************************************)
CurrentTaskIsUnderWay ==
  \A c \in Copy : currentTaskID[c] # 0 =>
    /\ currentTaskID[c] \in DOMAIN tasks
    /\ <<c, currentTaskID[c], "done">> \notin settled
    /\ machine \in {"VGR", "MPO"} => <<c, currentTaskID[c], "failed">> \notin settled

(***************************************************************************)
(* Whichever of the duplicates the server shows for an operation of this   *)
(* deployment, the credential tells what the chain recorded under its ID,  *)
(* save that the identification has another name in the event.             *)
(***************************************************************************)
CredentialsTellTheChain ==
  \A x \in credentials : x.document.deployment = deployment =>
    LET d == x.document IN
    /\ d.operationID \in DOMAIN operations
    /\ d.vc.taskID = operations[d.operationID].task
    /\ d.vc.operationName = eventName(operations[d.operationID].name)

(***************************************************************************)
(* A reading that is asked for when the sensors have sent a message is     *)
(* saved, unless the gateway stops first.                                  *)
(***************************************************************************)
RequestsAreAnswered ==
  (running /\ (\E d \in requests : d.request = 1) /\ \A s \in Sensor : recentReading[s])
    ~> (~running \/ \E i \in DOMAIN readings : readings[i].request = 1)

(***************************************************************************)
(* An operation that is saved while the gateway listens gets a credential, *)
(* unless the gateway stops first.  It is stated of the second operation,  *)
(* which may be of the same task as the first or of another.               *)
(***************************************************************************)
OperationsGetCredentials ==
  (running /\ \E r \in Callback : \E i \in DOMAIN saved[r] : saved[r][i] = 2)
    ~> (~running \/ \E d \in shown(2) : d.deployment = deployment)
====
