---- MODULE Tables ----
(***************************************************************************)
(* The pages of the web application that list what a contract recorded     *)
(* (frontend/src/pages): each loads its contract, asks how many records    *)
(* there are, and reads them one by one, while the chain may record more.  *)
(* Every call is answered or fails at a time of its own.  One page is      *)
(* looked at, from the moment it is opened; a row is known by the ID of    *)
(* its record, and the rows a page has for every contract are left out.    *)
(***************************************************************************)
EXTENDS Integers, Sequences, FiniteSets

CONSTANT MaxRecords  \* bounds the records of the contract

VARIABLES
  page,      \* the page that is open
  stage,     \* "loading" the contract, "counting", "reading", "over", or "error"
  recorded,  \* how many records the contract holds
  counted,   \* how many the page was told of
  awaited,   \* the IDs of the records that were asked for
  found,     \* the records that were read but are not shown yet
  rows,      \* the records shown, in the order of their rows
  failed     \* some call failed

tablesVars == <<page, stage, recorded, counted, awaited, found, rows, failed>>

\* Pages that ask for all records at once and show each when it arrives.
Concurrent ==
  {"MachineReadings", "MachineAlerts", "ProcessInstances", "MachinesRegistry",
   "ProcessesRegistry", "ProductOperations", "ProcessInfo", "MachineMetrics"}

\* Pages that read one record after the other and show them at the end.
InTurn == {"MachineTasks", "Products", "MachineInfo", "AuthorizedParties"}

\* One that reads one after the other and shows each when it arrives.
OneByOne == {"Product"}

Pages == Concurrent \cup InTurn \cup OneByOne

\* These have their contract from the application's start.
needsNoContract == {"MachinesRegistry", "ProcessesRegistry", "ProductOperations", "Products"}

\* These show the same fields of every contract and count nothing.
Fixed == {"ProcessInfo", "MachineMetrics"}

TablesInit ==
  /\ page \in Pages
  /\ stage = IF page \in needsNoContract THEN "counting" ELSE "loading"
  /\ recorded = IF page = "ProcessInfo" THEN 4 ELSE IF page = "MachineMetrics" THEN 3 ELSE 0
  /\ counted = 0 /\ awaited = {} /\ found = <<>> /\ rows = <<>> /\ failed = FALSE

----

\* The chain goes on while the page reads.
records ==
  /\ page \notin Fixed
  /\ recorded < MaxRecords
  /\ recorded' = recorded + 1
  /\ UNCHANGED <<page, stage, counted, awaited, found, rows, failed>>

\* ContractsLoader.loadContract: when it fails the page is an error message for good.
loadContract ==
  /\ stage = "loading" /\ page # "Product"
  /\ \/ stage' = "counting" /\ UNCHANGED failed
     \/ stage' = "error" /\ failed' = TRUE
  /\ UNCHANGED <<page, recorded, counted, awaited, found, rows>>

\* The page of a product asks for its owner first: there is none of a product that
\* does not exist.
initiateGetProductData ==
  /\ stage = "loading" /\ page = "Product"
  /\ \/ stage' = "counting" /\ UNCHANGED failed
     \/ stage' = "error" /\ failed' = TRUE
  /\ UNCHANGED <<page, recorded, counted, awaited, found, rows>>

----
\* The answer to the count.

\* A mutation: the last record is not asked for.
fromOneShort(n) == 1 .. n - 1

fromOne(n) == 1 .. n

fromZero(n) == 0 .. n - 1

\* How the page goes on when the count is answered: with the first calls for records.
asksFor(p, first) ==
  /\ page = p /\ stage = "counting"
  /\ counted' = recorded
  /\ awaited' = first
  /\ stage' = IF first = {} THEN "over" ELSE "reading"
  /\ UNCHANGED <<page, recorded, found, rows, failed>>

nextOf(ids) == IF ids = {} THEN {} ELSE {CHOOSE i \in ids : \A j \in ids : i <= j}

getMachineReadings == asksFor("MachineReadings", fromOne(recorded))
getMachineAlerts == asksFor("MachineAlerts", fromOne(recorded))
getProcessInstances == asksFor("ProcessInstances", fromOne(recorded))
getMachinesList == asksFor("MachinesRegistry", fromZero(recorded))
getProcessesList == asksFor("ProcessesRegistry", fromZero(recorded))
getOperations == asksFor("ProductOperations", fromOne(recorded))
getProcessInfo == asksFor("ProcessInfo", fromOne(4))
getMetrics == asksFor("MachineMetrics", fromOne(3))
getMachineTasks == asksFor("MachineTasks", nextOf(fromOne(recorded)))
getProducts == asksFor("Products", nextOf(fromOne(recorded)))
getProductData == asksFor("Product", nextOf(fromOne(recorded)))

\* The name of a machine's information is sent as a transaction that is never
\* made: what is taken for its value is not one, and the page shows nothing.
getMachineInfo ==
  /\ page = "MachineInfo" /\ stage = "counting"
  /\ counted' = recorded
  /\ stage' = "over"
  /\ UNCHANGED <<page, recorded, awaited, found, rows, failed>>

\* One answer is the whole list.
getAuthorizedParties ==
  /\ page = "AuthorizedParties" /\ stage = "counting"
  /\ counted' = recorded
  /\ rows' = [i \in fromOne(recorded) |-> i]
  /\ stage' = "over"
  /\ UNCHANGED <<page, recorded, awaited, found, failed>>

\* Only logged: a page that had a loader keeps it.
countFails ==
  /\ stage = "counting" /\ page \notin Fixed
  /\ stage' = "over" /\ failed' = TRUE
  /\ UNCHANGED <<page, recorded, counted, awaited, found, rows>>

----
\* The answer to the call for one record.

rowAdded(id) ==
  /\ page \in Concurrent
  /\ rows' = Append(rows, id)
  /\ awaited' = awaited \ {id}
  /\ stage' = IF awaited = {id} THEN "over" ELSE stage
  /\ UNCHANGED <<page, recorded, counted, found, failed>>

rowMissed(id) ==
  /\ page \in Concurrent
  /\ awaited' = awaited \ {id}
  /\ stage' = IF awaited = {id} THEN "over" ELSE stage
  /\ failed' = TRUE
  /\ UNCHANGED <<page, recorded, counted, found, rows>>

following(id) == nextOf({i \in fromOne(counted) : i > id})

recordRead(id) ==
  /\ page \in InTurn
  /\ found' = Append(found, id)
  /\ awaited' = following(id)
  /\ IF following(id) = {} THEN rows' = found' /\ stage' = "over" ELSE UNCHANGED <<rows, stage>>
  /\ UNCHANGED <<page, recorded, counted, failed>>

recordReadAndShown(id) ==
  /\ page \in OneByOne
  /\ rows' = Append(rows, id)
  /\ awaited' = following(id)
  /\ stage' = IF following(id) = {} THEN "over" ELSE stage
  /\ UNCHANGED <<page, recorded, counted, found, failed>>

\* A failure ends the whole series.
recordMissed(id) ==
  /\ page \in InTurn \cup OneByOne
  /\ awaited' = {} /\ stage' = "over" /\ failed' = TRUE
  /\ UNCHANGED <<page, recorded, counted, found, rows>>

TablesNext ==
  \/ records \/ loadContract \/ initiateGetProductData \/ countFails
  \/ getMachineReadings \/ getMachineAlerts \/ getProcessInstances \/ getMachinesList
  \/ getProcessesList \/ getOperations \/ getProcessInfo \/ getMetrics
  \/ getMachineTasks \/ getProducts \/ getProductData \/ getMachineInfo \/ getAuthorizedParties
  \/ \E id \in awaited :
       rowAdded(id) \/ rowMissed(id) \/ recordRead(id) \/ recordReadAndShown(id) \/ recordMissed(id)

TablesSpec == TablesInit /\ [][TablesNext]_tablesVars

----

\* The IDs under which a contract holds its first n records.
recordIDs(n) == IF page \in {"MachinesRegistry", "ProcessesRegistry"} THEN 0 .. n - 1 ELSE 1 .. n

Shown == {rows[i] : i \in DOMAIN rows}

(***************************************************************************)
(* No row is twice in a table or of a record the contract does not hold,   *)
(* whatever is recorded while the page reads; when no call failed the      *)
(* table has, in the end, all the records that were counted (but for the   *)
(* machine's information, see MachineInfoIsShown); and the pages that show *)
(* a list at its end never show a part of it.                              *)
(***************************************************************************)
TablesShowWhatWasCounted ==
  /\ Cardinality(Shown) = Len(rows) /\ Shown \subseteq recordIDs(counted)
  /\ stage = "over" /\ ~failed /\ page # "MachineInfo" => Shown = recordIDs(counted)
  /\ page \in InTurn => rows = <<>> \/ rows = [i \in 1 .. counted |-> i]

(***************************************************************************)
(* README: the web application uses the read-only functions to display the *)
(* contracts' information.  The page of a machine that has information and *)
(* answers every call shows it.                                            *)
(***************************************************************************)
MachineInfoIsShown ==
  page = "MachineInfo" /\ stage = "over" /\ ~failed => Shown = recordIDs(counted)
====
