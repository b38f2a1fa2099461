# A formal model of the Fischertechnik factory on a blockchain

The repository runs a small factory (a vacuum gripper robot *VGR*, a high-bay
warehouse *HBW*, a multi-processing station *MPO* and a sorting line *SLD*) from
smart contracts. This directory models it in TLA+: the contracts and their
deployment, the gateway that connects them to the machines, the machines as
`MQTT/factory-simulator.js` plays them, and the web application that shows it all.
TLC checks the models on small instances, and TLAPS proves part of the properties
for every value of the constants.

## The system

| Component | State | Operations | Correct when |
|---|---|---|---|
| Key sets (`contracts/setTypes`) | list of keys, pointer of every key | insert, remove, exists, count, keyAtIndex | it behaves as a set after any series of calls |
| `Product.sol` | owner, authorised process and machine, IDs, operations with two indexes, physical identifiers, information of every product | create, authorise and unauthorise, save operations and information | IDs are a bijection, the views of a history agree, history is never rewritten |
| `Machine.sol` and its five subclasses | tasks, tasks by product, readings, alerts, authorised processes, information | assign, start, finish and kill a task, save inputs, readings and information, (de)authorise a process | a task's status and timestamps agree, an outcome is final, a failure raises one alert |
| `Process.sol`, `SupplyingProcess.sol`, `ProductionProcess.sol` | instances, latest instance of a product, machine of every number | start, step, finish, kill, assign, authorise, rewire | steps are in order, tasks belong to their instance, only the authorised machine records |
| `Registry.sol` | name and address mappings, lists of machines and processes | register a name, a machine, a process | a label resolves to what it labels |
| Deployment and seeding (`migrations`, `scripts/seed.js`) | how far each section came | deploy, fund, name, wire, create | what it leaves can be used, also when it broke off |
| Machine clients (`MQTT/machines`) | callbacks, `currentTaskID` | on an assigned task: start it, send it; on an acknowledgement: save operations, finish it; save a reading that is asked for | a machine is told once, what it answers ends the right task, a reading is saved for a task under way |
| Process clients (`MQTT/processes`) | callbacks | on a started instance or a finished task: the next step, or the end | steps follow success, ends are justified, every instance ends |
| Readings client (`readings-client.js`) | the latest message of each sensor | receive, look up | a reading that is asked for is saved |
| Credentials (`client-utilities.js`, `db.js`, a route of `server.js`) | documents in a store that outlives the gateway | insert on every saved operation, serve the first found | a credential tells what the chain recorded |
| `mqtt-handler.js`, `server.js` | the clients it made | make the clients at each connection; HTTP routes | reconnecting does no harm |
| `factory-simulator.js` | the stock of the warehouse | answer an order after a delay, send sensors and stock | the answers fit the orders |
| State client, web socket | none | pass messages to the browsers | |
| Web application (`frontend/src`) | what each page loaded and shows, what is typed, subscriptions, timers | read records one by one, follow events, search them, check and send a form, verify a credential | what is shown is of the chain, whole, and of one answer |
| DID registry, task generator, libraries | see *Not modelled* | | |

**How they interact.** The owner of the products starts an instance of a process,
which makes the process contract the product's authorised process. The process
client hears of it and calls `step1`: in one transaction the process contract
authorises the step's machine for the product, assigns it a task and counts the
step. The machine's client hears of the task, starts it on chain and, once that
transaction is mined, publishes an order to the machine. The machine's
acknowledgement makes the client save operations and finish the task, of which
the process client hears: the next step, or the end of the instance. Of each
operation that was saved a client stores a credential. All that connects the
parts are the chain's events and MQTT messages of QoS 0. The web application
reads the contracts, subscribes to their events, and gets the warehouse's stock
through a web socket.

**What is hard.** An event reaches one callback per connection ever made, and the
callbacks run in any order; events that were emitted while the gateway was down
are never handled; messages are lost; owners kill tasks and processes that the
clients go on with; a transaction goes through three contracts and must revert
as a whole; a handler's state is read by one transaction and used in the next;
the receipt of a transaction comes when the next task has begun; a script breaks
off in the middle and is run again; the web application's calls are answered in
any order while the chain goes on and the user clicks.
`PROJECT.json` lists each hazard at its line.

## The modules

| Module | Models | Extends or instantiates |
|---|---|---|
| `AbstractSet` | what a set library promises | |
| `KeySet` | the four set libraries | instantiates `AbstractSet` |
| `Product` | `Product.sol` | |
| `Machine` | `Machine.sol`, and of the subclasses what needs no other contract | |
| `Contracts` | `Process.sol`, the two processes, the overrides of the machines, and one deployment of all of them | instantiates `Product` and `Machine` |
| `Deployment` | the migration, the constructors, the seed | extends `Contracts` |
| `AbstractProcess` | what the process contracts and their clients promise of an instance | |
| `Factory` | the gateway, the broker and the machines | extends `Contracts`, instantiates `AbstractProcess` |
| `GatewayData` | the readings and credentials of one machine's client | |
| `Registry` | `Registry.sol` | |
| `Tables` | the pages that list records: machines, readings, alerts, tasks, instances, products, operations, information | |
| `Events` | the live table of events and the explorer of past ones | |
| `Stepper`, `Stock` | the display of a process's steps; the warehouse in the dashboard | |
| `Forms`, `Connection` | the forms that send transactions; the wallet, the loading of the contracts and the page of credentials | |
| `Product_proof`, `Machine_proof`, `GatewayData_proof`, `Deployment_proof` | the theorems of each module | extend their module and `TLAPS` |
| `Registry_proof` | the theorems of `KeySet` and `Registry` | extends both |
| `Views_proof` | the theorems of `Stepper`, `Forms`, `Connection`, `Tables` and `Events` | extends the five |
| `Contracts_proof` | the theorems of `Contracts` | instantiates `Product_proof` and `Machine_proof` |
| `Factory_proof` | the theorems of `Factory` | extends `Contracts_proof` |
| `MC...` | the bounds of the runs | extend their module or modules |

Conventions. A public function of a contract is an operator of the same name
whose first conjuncts are its modifiers and `require`s. A call that fails one
reverts and is no step, in `Contracts` also when the check that fails is two
contracts further. `sender` is `msg.sender`, `origin` is `tx.origin`; Product's
process functions ask for the origin, its other functions for the sender. A mapping that was never
written reads as `None` or zero. IDs come from counters that start at one and
nothing is deleted, so the records of a contract are a sequence and an ID is its
index. Strings are the code's names where code compares them (task types,
operation names) and model values elsewhere. Of a timestamp the code only asks
whether it is zero. Operators whose comment begins with "A mutation" are
variants of the code with a plausible bug: no specification uses them, and each
property has one that breaks it.

`Contracts` fixes one deployment: the four machines and up to two processes with
the accounts and addresses that the migration and `scripts/seed.js` give them.
`Init` is the state the seed leaves, which `SeededIsInit` of `Deployment` checks. A
transaction is one step with all its calls: `step` is the call of `step1` ...
`step5` with the authorisation, one or two assignments and the count of the step.
Production's step 3 assigns `StoreContainer` to HBW and then `Processing` to MPO.

`Deployment` deploys one contract after the other, registers each as its
constructor does, and then takes the calls of the seed's five sections in their
order. Any call may be refused, which ends its section only; it may also be
reported as failed although it is mined. The seed may be run a second time, on what
the first left.

`Factory` makes one action of a handler and the transaction it ends in:
`onProcessStarted`, `onTaskFinished` and `onNewTaskAssigned` take an event from
`deliveries`. This loses nothing: a transaction mined later is an event delivered
later, because no handler keeps what it read of the chain (the answer of
`isTaskFinished` is not used). Between the start of a task and its order the
client waits for a receipt, so that `sendTask` is an action of its own and a
restart may fall in between. Acknowledgements are queues, one for each copy of a
client, because a client handles its messages in order and the transactions of
one account are mined in the order they were sent. Orders and events are sets:
simulators answer after different delays, and events come in any order. A
connection of a client (`clientReconnects`) registers its callbacks once more; a
connection of the handler (`handlerReconnects`) makes all clients and the
simulator again. `gatewayRestarts` forgets everything but the chain, the
simulated machines included, for they run in the same process. `canFail` is
external: the simulator fails only a fetch whose product is not there, the real
machines also answer with the other codes their clients know. Code 5 of HBW stands
both for the order to store a container (`hbw-client.js:235`), which the simulator
sends back as its answer, and for the failure "Product does not exist"
(`hbw-client.js:104`): the client records every stored container as a failed task, and
so does the model.

The history variable `published` records the orders of each machine; nothing
reads it but the properties.

`GatewayData` looks at the same clients with another question: what else they
record. Here the receipt of a transaction is a step apart from the transaction,
because the client sets and clears `currentTaskID` when it hears of it. Each copy of
the client has a `currentTaskID` of its own, while the readings client is one object.
An acknowledgement of several codes (MPO melts, mills, is done) is a series of
messages. A reading that is looked up before the first message of its sensor throws:
in the handler of an event the request is forgotten, in that of an acknowledgement
the gateway dies (`gatewayCrashes`). A stop loses everything but the store, and while
the gateway is down the contracts may be deployed anew, with new numbers.
The history variable `settled` records which last codes each copy has handled.

The pages of the web application are modelled from the moment they are opened, each
with the calls it awaits, in the order in which its code sends them: one after the
other or all at once. A call may be answered or fail at any time, and the chain goes
on meanwhile. `Tables` gives each of its pages its own way of numbering the rows, as
the code does: by the ID, by counting what was found, or as a list set at the end.

## What the runs check

| Run | Shows | Bounds | States |
|---|---|---|---|
| `alone` | each component that works by itself: key sets, registry, product contract, and the pages of the web application | see below | 247,828 |
| `machine` | status against timestamps, alerts, index, final outcomes | 1 machine, 3 callers, 2 tasks, 1 reading | 299,436 |
| `contracts` | the contracts together, every role in any order | 1 product, 1 instance, 2 tasks, 3 operations, 1 odd thing | 163,033 |
| `supplying` | the supplying process with faults | 2 faults, 1 kill, 2 callbacks, 2 copies, 3 tasks that may fail, 5 pending | 446,990 |
| `two_products` | two products in the supplying process at once | 2 products, 2 tags, 3 tasks that may fail, no fault | 331,563 |
| `life` | supplying, then production | 2 faults, 1 task that may fail | 293,416 |
| `live` | every instance ends | 1 reconnection, 5 tasks that may fail | 11,199 |
| `deployment` | the migration and the seed, with refused transactions | 2 products, 2 processes, 2 runs of the seed | 301,434 |
| `gateway_data` | readings and credentials of each machine in turn | 2 copies, 2 callbacks, 2 tasks or readings, 1 fault, 2 deployments | 346,809 |

The other three runs end in a counterexample, see *Findings*.

The properties are these.

* `KeySet`: `PointersAgree`, and `ImplementsSet`, the abstract specification under
  the mapping from the list to the set of its members.
* `Registry`: `LabelsLeadBack`, `ListedContractsAreNamed`, `NamesAreForever`.
* `Product`: `IDsAreBijective`; `HistoriesAgree` (list of a product, operations and
  index by name); `ProvenanceIsPermanent` (an action property).
* `Machine`: `StatusMatchesTimestamps`; `FailuresAlertOnce`; `IndexedTasksMatch`;
  `SettledTasksAreFinal` (an action property). Only a task that was *started* and
  finished is settled: `startTask` revives a killed task that never was started,
  which may then not be finished any more.
* `Contracts`: `ComponentsKeepTheirPromises` re-checks the invariants of the two
  instances under the calls of the other contracts; `StoredInputsWereReadTogether`;
  `ProductsLeadToTheirLatestProcess`; `TasksBelongToTheirInstance`;
  `InstancesAreLedgers` and `OnlyTheAuthorisedRecord` (action properties).
* `Deployment`: `SeededIsInit`, a clean seed leaves a state `Contracts` begins with;
  `AcceptedProcessesAreWired`, no machine accepts a process that knows only some of
  its machines, however the seed broke off; `ProductsFollowTheMnemonic`.
* `Factory`: `ToldAtMostOnce`, `StepsFollowSuccess`, `EndsAreJustified`,
  `WorkingMachinesAreAllowed`, `InstancesEnd` (liveness), and `ImplementsProcess`, the
  abstract specification under the mapping `Runs` from an instance to its product, the
  step it has reached, what came of that step's task, and its status. It says of whole
  behaviours what the two invariants before it say of states: a step is made when the
  outcome of the one before is there, an outcome comes once, and an end is chosen by
  the outcome. It admits that a killed instance makes a further step: `step` does not
  ask whether the instance has ended, and the clients do not hear of the kill.
* `GatewayData`: `CurrentTaskIsUnderWay`, no reading is saved for a task the machine
  was told is done (HBW and SLD do keep a task that *failed* until the next one);
  `CredentialsTellTheChain`, whichever duplicate the server shows;
  `RequestsAreAnswered` and `OperationsGetCredentials` (liveness). Credentials of an
  earlier deployment are left out: no document tells of which deployment it is, and
  the server shows an old one for a new operation of the same number.
* `Tables`: `TablesShowWhatWasCounted`, no row twice, none of a record that is not
  there, none missing unless a call failed, and no part of a list where the page shows
  it at its end.
* `Events`: `LiveRowsFollowTheChain`; `FoundRowsAreOneAnswer`: what the explorer shows
  is one answer, whole and in order. The answers for the other kinds of events that
  were searched for are lost, since each replaces the one before.
* `Stepper`: `ShownStepWasReached`. The timer of a finished instance may clear what is
  shown of another; the property admits it.
* `Stock`: `ListsSettle` (liveness), although lists of an older message may replace
  those of a newer one.
* `Forms`: `SentInputsAreValid`, for all forms but `SaveProductInfo`: its button stays
  enabled when its fields were emptied, so that it may send an empty name.
* `Connection`: `ShownIsSound`, no page without contracts, and no verdict beside the
  text of another credential.

**Bounds.** `MaxOperations`, `MaxInfo`, `MaxTasks`, `MaxReadings` and
`MaxInstances` bound the logs. `MaxOdd` bounds in `contracts` how far a state is
from a run of the steps alone: how many tasks were killed or failed, instances
ended, machines rewired, tasks assigned by anyone, products taken from their
process, or operations saved out of course. One such thing at a time meets every
pair of a legal and an odd call, in both orders. `MaxFaults` and `MaxKills` bound
how often something goes wrong in a run of the gateway; two faults are what it
takes to duplicate both a machine's and a process's callbacks, or to lose a
message and restart. `MaxPending` bounds the events and messages on their way; 5
are enough for a handler to act while two copies of another's event and
acknowledgement wait. Where it is 9 it excludes nothing that the run meets.
`MaxCallbacks` and `MaxCopies` bound the connections: a third callback does what
the second does. In `life` and `live` one product goes through both processes one
after the other, so that production finds the product stored.
`two_products` treats the products and the tags as interchangeable; no
definition tells them apart.

`alone` has one component to a behaviour, the variable `component` says which:
5 keys (the first, a middle, the last and the only row removed); 3 names, 2 contracts
and the zero address; 2 products, 2 callers, 3 operations, 1 information; 3 records of
a contract (a page is counting while one is recorded, and reads a first, a middle and
a last); 3 blocks for the live table and 2 for the explorer with 2 searches under way,
which is what it takes for an answer to replace another's; 2 instances of a process of
two steps; 2 known products, 2 changes of the warehouse and 3 lists being computed,
so that an older list may replace a newer; 2 clicks on a form; 3 networks of which 2
have the contracts, and a valid, a forged and a garbled credential. The components
share no variable, so checking them side by side in one run loses nothing.

In `gateway_data` two inputs are the task of a reading and the reading, or two tasks,
one of which ends while the other begins; one fault gives a second copy, a second
callback, a lost message or a stop, after which the gateway starts again, perhaps with
a second deployment. In `deployment` two products suffice for a gap between them, and
a third run of the seed finds nothing that the second did not.

**Scheduling assumptions.** `StartWhenEnded` starts an instance when the product is in none: two
instances for one product take each other's authorisation, and the first of them
never ends. Nothing in the contracts prevents it, and
`WorkingMachinesAreAllowed` says what is lost; `CarefulSpec` is the gateway under this
assumption, and `MCStarts` bounds its starts. `Factory` leaves out that anyone
may call a process contract's `assignTask`, `authorizeMachine` and
`setMachineAddress`, which `contracts` covers.

**Deadlock** is not checked in the runs where the system comes to rest: all logs
full, all names taken, every instance ended, or a page that shows all it will.

**Fairness.** `LiveSpec` assumes weak fairness of `MCWork`, all that the gateway
and the machines do: NodeJS runs every callback, the chain mines every
transaction, and the simulator answers every order after a delay. One fairness
condition for all of it is enough, since between two starts only finitely much
work can be done: each step takes an event, a receipt, an order or an
acknowledgement away, and the contracts admit only finitely many new ones. The
specification has reconnections and failures but no lost message, restart or
kill: nothing in the code repeats a lost event, and the instance then stays where
it was. There `StepsFollowSuccess` and `EndsAreJustified` say that it stays in a
state that is right as far as it goes.

`GatewayData` assumes weak fairness of `onRequest` and of `onOperation`: a callback
whose event arrived is run. Both properties admit that the gateway stops before,
since what was in its memory is then lost. `StockFairness` assumes that the factory
sends its stock again and again, as it does every five seconds, and that each
computation of a list ends, as it does when each of its calls is answered or fails.

## Findings

1. **`alerts`** (`AlertsNameReadings`). The alert of a failed task carries the
   task's ID in the field that readings use for theirs (`Machine.sol:139`), and the
   web application shows it as a reading's (`MachineAlerts.js:39`).
2. **`last_task`** (`SuccessMeansAllTasks`). The process clients end an instance as
   successful when its last task finished, also when it failed
   (`supplying-client.js:161`, `production-client.js:151`); `README.md:32` has them
   monitor the machine's status.
3. **`machine_info`** (`MachineInfoIsShown`). The page of a machine reads its
   information without `.call()` (`MachineInfo.js:44`): it shows nothing as soon as
   there is any.

## What is proved

All theorems are for every value of the constants that satisfies the modules'
assumptions; these say that `None`, `Zero` and `NoName` are no proper values, give
the types of the constant functions, make the bounds natural numbers, and for
`Contracts` that the products are finitely many, that the two processes are those of
the deployment and that a call may leave a note empty. `Deployment` has both processes
and at least one product; the order of the products' keys (`mnemonic`) is any in which
each product has one key, and no name is the empty one. Nothing else is assumed.

* `Registry_proof`. *Key sets*: the invariant is the type with `PointersAgree`. That
  alone says that rows point back and that absent keys point to row zero; both
  halves are needed for each other, because a removal turns a present key into
  an absent one and an insertion the reverse. From it follow
  `ExistsIsMembership` (the row that is looked at is the only row the key can
  have), `RemoveTakesItsKey`, and the refinement of `AbstractSet` step by step.
  *Registry*: the invariant is the type with `LabelsLeadBack` and
  `ListedContractsAreNamed`; `NamesAreForever` follows from the guard
  `nameAvaliable` and the types.
* `Product_proof`. The types, `IDsAreBijective` and `HistoriesAgree` are inductive
  together: that a saved operation's number is new to every list and larger than
  all before it needs that the lists hold recorded operations only.
  `ProvenanceIsPermanent` then follows for each kind of step: a creation
  asks that there is no such product, a save appends. `OperationsSaved` is
  stated for any number of operations saved at once, because one transaction of
  `Contracts` saves two.
* `Machine_proof`. The invariant is `TypeOK /\ StatusMatchesTimestamps /\
  IndexedTasksMatch`. The proof first sorts the actions: `AssignStep` appends one
  task and its index entry, `UpdateStep` replaces one task by one with the same
  product, and all others leave the tasks alone. `AssignInvariant` and
  `UpdateInvariant` then show each part for the two kinds. `SettledTasksAreFinal`
  needs the invariant: only with the status and the timestamps in agreement do
  the guards of `startTask`, `finishTask` and `killTask` protect an outcome.
  `FailuresAlertOnce` is inductive beside it: its conjuncts that a task with an alert
  is finished, and that an alert is of a task that exists, are what makes the alert of
  a failing task its first.
* `GatewayData_proof`. `CurrentTaskIsUnderWay` is not inductive: the receipt that
  sets `currentTaskID` could be of a task that was answered already. The invariant
  adds that a task whose start was not heard of was never told to the machine
  (`StartsComeFirst`), that each is started once (`StartsAreUnique`), that what was
  told is among the contract's tasks (`ToldAreTasks`), and that a stopped gateway
  holds nothing (`StoppedIsEmpty`), which is what a new deployment needs. For
  `CredentialsTellTheChain` it is that events under way name operations of the
  present deployment and that operations only grow while it lasts.
* `Views_proof`. *Steps*: the events of a subscription tell the truth when they
  arrive and go on to, because an instance's progress only grows (`TruthRemains`); the
  display then shows what it was told last. *Forms*: what is sent was typed when the
  button was enabled, and the button is enabled only for what passes the check; a
  reset empties the fields and disables the button in one. *Connection*: `ShownIsSound`
  is inductive with the fields of the two records. *Tables*: the invariant follows the
  calls a page sent: each record up to the count it read was answered, failed or is
  still asked, once; together with the numbering of the rows that makes a page
  complete when no call is left. *Events*: `Follows` speaks of one subscription at a
  time, with its rows and what is under way to it, and adds to the property that what is
  under way is of its kind and newer than its rows; one lemma for each thing that may
  happen to it (an event of its own or of another, an arrival of its own or of another)
  shows that it remains. A subscription not made yet has no rows (`Unheard`): only
  therefore may it miss what is emitted before. An answer of the explorer holds all
  blocks that match, so that none lies between two of its rows.
* `Contracts_proof`. The lemmas of `Product_proof` and `Machine_proof` are used of the
  two instances, so that what a call of one contract does to its own books is not
  proved again when another contract makes the call. `IInv` adds to them and to the
  properties: that a process knows exactly as many machines as it has numbers for
  (`setMachineAddress` replaces), that the owner of the products stays, that every task
  names a process contract, and `LatestReadTogether`: the newest tag and the newest
  colour of a product were saved by one `GetInfo` task. A `StoreProduct` task copies
  the newest of both, and this is the only reason why they belong together.
* `Factory_proof`. First `GatewayMakesCalls`: every step of `Factory` is a step of
  `Contracts` or changes none of its variables, so that the theorems of `Contracts`
  hold of the gateway. The invariant then adds, of the contracts under this gateway
  (`ChainInv`): that the processes stay wired as seeded; that an instance has no task of
  a step it did not reach, exactly one of each step it did, and that each before the
  last succeeded (`StepsFit`, which is stronger than `StepsFollowSuccess` and inductive);
  and of the messages (`MessagesFit`): that an event of the end of a task tells how the
  task *still* is, that receipts, orders and acknowledgements are of started tasks of
  the machine they concern, and that a task that was told has no receipt left. An event
  handled twice, late, or by a second copy then finds either that the instance has gone
  on, and `canStep` refuses, or what it tells is still so. Of all
  copies that start a task `startTask` admits one, and only that one gets a receipt:
  this is `ToldAtMostOnce`.
  `WorkingMachinesAreAllowed` is proved of `CarefulSpec`, where `StartWhenEnded` takes
  the place of every start and nothing is killed: without that it is false. The
  property says nothing of the instance a task belongs to, so the invariant
  (`CarefulInv`) speaks of the instances: two that go on are of different products
  (`OneAtATime`), and the product of each allows its process and the machine of the step
  it has reached (`StepsAreAllowed`). The rest ties a task under way to that step. By
  `StepsFit` and `EndsAreJustified` it would have ended otherwise, with a status that
  says how (`TasksSettle`, `InstancesSettle`); and a step's name tells its machine, since
  every machine assigns its own tasks only (`TasksDoable`).
  `ImplementsProcessHolds` is the refinement of `AbstractProcess`, by kinds of steps:
  `StepRuns`, `EndRuns`, `StartRuns` and `CallRuns` show that a step of an instance, its
  end, its start and a call of a machine are `Advance`, `End`, `Begin`, and `Settle` or a
  stutter; all else leaves the runs alone (`RunsStay`). It needs `ChainInv`: only since
  the step an instance has reached has exactly one task is its outcome one value, and
  only since a finished task keeps its status is the outcome that a late event tells
  still the outcome of the run. `OpenAreStarted` is added for the end: what has not
  finished has the status it began with.
* `Deployment_proof`. The calls of the seed are data, so the proof is about any call
  that `Fits` the contracts (`CallsFit` shows that all do) and about its `Effect`.
  `SeedInv` has three parts. `WorldFits` says that what the contracts hold is a part of
  what the seed is to bring about: machine numbers are unset or as seeded, machines
  accept none but the processes that use them, the products are those of the first
  keys. `SectionDone` says that the calls of the running section before the next one
  had their effect; from it follow that the product of a key is made when those of
  the keys before it are there (`Create`), and that a machine accepts a process that
  knows its machines (`Accept`), for the seed wires before it authorises. `SeedDone`
  says the same of the sections before, when none broke off. No call takes back the
  effect of another (`EffectKept`). Of a finished seed the lower bounds by the effects
  and the upper bounds by `WorldFits` meet, which is `SeededIsInit`.

Only model-checked is liveness (`InstancesEnd`, `RequestsAreAnswered`,
`OperationsGetCredentials`, `ListsSettle`, the one property of `Stock`), which is beyond
TLAPS. That the proofs cover the rest needed one thing of the models: what a page
computes by filtering a list is said by what the result is (`answersTo`), not by
the recursion that makes it, since a fact about a recursion needs an induction over the
list, which the installed provers cannot do.

## Not modelled

* Of the gateway: the routes of the event log and the reader of NFC tags, the states
  of the machines that the state client passes on, and the sound of a new alert. They
  pass data on, and nothing is kept of it.
* Of the web application: the navigation bar and layout (`SiteWrapper`), the settings
  kept in the browser, the page of the NFC reader and `DIDResolver`, which show one
  answer; formatting, paging, and the rows a page has for every contract.
* The logger, keys, providers and the loading of contracts: glue to libraries without
  a state of the system's own. Networks: configuration.
* The task generator: a command line that makes calls which are in `Contracts`.
* `ethr-did-registry`: a third party's contract.
* `MockProcess.sol`: a test double with one step and the code of its parent.
* An answer to GetInfo without a workpiece (`vgr-client.js:135`): neither the
  simulator nor the machine is known to send one.

## Plan

In the order of importance; the first nine are done.

1. `KeySet`, `Product`, `Machine`: the contracts alone, with their invariants.
2. `Contracts`: the contracts composed, a transaction as one step.
3. `Factory`: gateway, broker and machines, with faults; safety, then liveness.
4. `Registry` and `Deployment`.
5. `GatewayData`: readings and credentials.
6. The web application: `Tables`, `Events`, `Stepper`, `Stock`, `Forms`, `Connection`.
7. Proofs: the single components, the views, `Contracts`, and the safety of `Factory`.
8. An abstract process, implemented by `Factory` under a refinement mapping.
9. Proofs of `Deployment`.
10. The machines' states from the broker to the browser, and the NFC reader.
