---- MODULE Events ----
(***************************************************************************)
(* The two views of the contracts' events in the web application: the live *)
(* table (log/EventsLogStreamTable.js) and the explorer of past events     *)
(* (log/EventsExplorer.js).  The live table subscribes to each kind of     *)
(* event of each contract by itself: a subscription brings its events in   *)
(* order, two subscriptions bring theirs in any order.  The explorer asks  *)
(* for each chosen kind by a call of its own, and the answers come in any  *)
(* order, while the choice may change and the search be made again.        *)
(*                                                                         *)
(* A block holds one event.                                                *)
(***************************************************************************)
EXTENDS Naturals, Sequences

CONSTANTS
  MachineEmitter, ProcessEmitter,  \* the contracts
  MaxBlocks                        \* bounds the chain

VARIABLES
  blocks,      \* the events on the chain, in order
  subscribed,  \* the live table's subscriptions, each <<emitter, kind>>
  coming,      \* the blocks each subscription has not brought yet
  liveRows,    \* the live table, the newest row first
  choice,      \* what is chosen: contract, kinds of event, first block
  searching,   \* calls of the explorer under way
  foundRows,   \* the explorer's table
  loader       \* the explorer shows its loader

liveVars == <<subscribed, coming, liveRows>>
explorerVars == <<choice, searching, foundRows, loader>>
eventsVars == <<blocks, liveVars, explorerVars>>

Emitter == MachineEmitter \cup ProcessEmitter

\* The kinds of events each type of contract emits; the live table does not ask for
\* the last one of each.
MachineKinds == {"TaskStarted", "TaskFinished", "TaskKilled"}
ProcessKinds == {"ProcessStarted", "ProcessKilled"}

kindsOf(e) == IF e \in MachineEmitter THEN MachineKinds ELSE ProcessKinds

EventsInit ==
  /\ blocks = <<>>
  /\ subscribed = {}
  /\ coming = [e \in Emitter |-> [k \in MachineKinds \cup ProcessKinds |-> <<>>]]
  /\ liveRows = <<>>
  /\ choice = [contract |-> {}, kinds |-> {}, fromBlock |-> 0]
  /\ searching = {} /\ foundRows = <<>> /\ loader = FALSE

\* A contract emits an event.
emits(e, k) ==
  /\ Len(blocks) < MaxBlocks
  /\ blocks' = Append(blocks, [emitter |-> e, kind |-> k])
  /\ coming' = IF <<e, k>> \in subscribed
       THEN [coming EXCEPT ![e][k] = Append(@, Len(blocks) + 1)] ELSE coming
  /\ UNCHANGED <<subscribed, liveRows, explorerVars>>

----
\* The live table.

\* setMachineListeners and setProcessListeners, from the latest block on, when the
\* lists of contracts gave the contract and its name was read.
setListeners(e, kinds) ==
  /\ \A k \in kinds : <<e, k>> \notin subscribed
  /\ subscribed' = subscribed \cup {<<e, k>> : k \in kinds}
  /\ UNCHANGED <<blocks, coming, liveRows, explorerVars>>

setMachineListeners(e) == e \in MachineEmitter /\ setListeners(e, {"TaskStarted", "TaskFinished"})

setProcessListeners(e) == e \in ProcessEmitter /\ setListeners(e, {"ProcessStarted"})

\* A mutation: the row is added at the end of the first page.
onNewEventLast(e, k) ==
  /\ coming[e][k] # <<>>
  /\ liveRows' = Append(liveRows, Head(coming[e][k]))
  /\ coming' = [coming EXCEPT ![e][k] = Tail(@)]
  /\ UNCHANGED <<blocks, subscribed, explorerVars>>

onNewEvent(e, k) ==
  /\ coming[e][k] # <<>>
  /\ liveRows' = <<Head(coming[e][k])>> \o liveRows
  /\ coming' = [coming EXCEPT ![e][k] = Tail(@)]
  /\ UNCHANGED <<blocks, subscribed, explorerVars>>

----
\* The explorer.

handleContractSelect(e) ==
  /\ choice' = [choice EXCEPT !.contract = {e}]
  /\ UNCHANGED <<blocks, liveVars, searching, foundRows, loader>>

handleEventsSelect(kinds) ==
  /\ choice' = [choice EXCEPT !.kinds = kinds]
  /\ UNCHANGED <<blocks, liveVars, searching, foundRows, loader>>

onFromBlockChanged(b) ==
  /\ choice' = [choice EXCEPT !.fromBlock = b]
  /\ UNCHANGED <<blocks, liveVars, searching, foundRows, loader>>

\* findButtonEnable.
checkInput == choice.contract # {} /\ choice.kinds # {} /\ choice.fromBlock # 0

\* The kinds of the other type of contract are left out; when none is left the
\* loader stays.
loadEventsForContracts ==
  {[emitter |-> e, kind |-> k, range |-> 0] :
     e \in choice.contract, k \in {x \in choice.kinds : \E e \in choice.contract : x \in kindsOf(e)}}

\* One call at a time of a kind: a search made twice asks twice, with equal answers.
onFindClick ==
  /\ checkInput
  /\ searching' = searching \cup loadEventsForContracts
  /\ loader' = TRUE
  /\ UNCHANGED <<blocks, liveVars, choice, foundRows>>

\* The contract is loaded: the call is made, with the range chosen by now.
loadEventForContract(s) ==
  /\ s.range = 0 /\ choice.fromBlock # 0
  /\ searching' = (searching \ {s}) \cup {[s EXCEPT !.range = choice.fromBlock]}
  /\ UNCHANGED <<blocks, liveVars, choice, foundRows, loader>>

\* The blocks of the range with an event of the call's kind.
matching(s) ==
  {b \in DOMAIN blocks : b >= s.range /\ blocks[b] = [emitter |-> s.emitter, kind |-> s.kind]}

\* getPastEvents gives all of them, in the chain's order.
answersTo(s) ==
  {found \in UNION {[1 .. n -> matching(s)] : n \in 0 .. Len(blocks)} :
     /\ \A b \in matching(s) : \E i \in DOMAIN found : found[i] = b
     /\ \A i, j \in DOMAIN found : i < j => found[i] < found[j]}

\* A mutation: the rows of the answers are collected.
onNewEventsCollected(s) ==
  /\ s.range # 0
  /\ searching' = searching \ {s}
  /\ \E found \in answersTo(s) : foundRows' = foundRows \o found
  /\ loader' = FALSE
  /\ UNCHANGED <<blocks, liveVars, choice>>

\* The rows of one answer replace those of the one before.
onNewEvents(s) ==
  /\ s.range # 0
  /\ searching' = searching \ {s}
  /\ foundRows' \in answersTo(s)
  /\ loader' = FALSE
  /\ UNCHANGED <<blocks, liveVars, choice>>

\* Only logged: the loader stays.
searchFails(s) ==
  /\ searching' = searching \ {s}
  /\ UNCHANGED <<blocks, liveVars, choice, foundRows, loader>>

Emitting == \E e \in Emitter : \E k \in kindsOf(e) : emits(e, k)

LiveNext ==
  \/ Emitting
  \/ \E e \in Emitter :
       \/ setMachineListeners(e) \/ setProcessListeners(e)
       \/ \E k \in kindsOf(e) : onNewEvent(e, k)

ExplorerNext ==
  \/ Emitting
  \/ \E e \in Emitter : handleContractSelect(e)
  \/ \E kinds \in SUBSET (MachineKinds \cup ProcessKinds) : handleEventsSelect(kinds)
  \/ \E b \in 1 .. MaxBlocks : onFromBlockChanged(b)
  \/ onFindClick
  \/ \E s \in searching : loadEventForContract(s) \/ onNewEvents(s) \/ searchFails(s)

EventsNext == LiveNext \/ ExplorerNext

EventsSpec == EventsInit /\ [][EventsNext]_eventsVars

----

\* The rows of the live table from one subscription.
rowsFrom(e, k) == {i \in DOMAIN liveRows : blocks[liveRows[i]] = [emitter |-> e, kind |-> k]}

\* What the subscription brought or is about to bring.
toldBy(e, k) ==
  {liveRows[i] : i \in rowsFrom(e, k)} \cup {coming[e][k][i] : i \in DOMAIN coming[e][k]}

(***************************************************************************)
(* The live table shows no event twice and those of one subscription with  *)
(* the newest first, and every event after the subscription is either in   *)
(* the table or on its way, however the subscriptions interleave.          *)
(***************************************************************************)
LiveRowsFollowTheChain ==
  \A e \in Emitter : \A k \in kindsOf(e) :
    /\ \A i, j \in rowsFrom(e, k) : i < j => liveRows[i] > liveRows[j]
    /\ \A i \in DOMAIN coming[e][k] : \A j \in rowsFrom(e, k) : coming[e][k][i] > liveRows[j]
    /\ \A i, j \in DOMAIN coming[e][k] : i < j => coming[e][k][i] < coming[e][k][j]
    /\ \A c \in toldBy(e, k) : \A b \in c .. Len(blocks) :
         blocks[b] = [emitter |-> e, kind |-> k] => b \in toldBy(e, k)

(***************************************************************************)
(* The explorer's table is one answer: events of one kind of one contract, *)
(* in the chain's order, without a gap from the first shown to the newest  *)
(* there was, although several searches may be under way at once.          *)
(***************************************************************************)
FoundRowsAreOneAnswer ==
  \A i \in 1 .. Len(foundRows) - 1 :
    LET b == foundRows[i]
        c == foundRows[i + 1]
    IN /\ b < c /\ blocks[b] = blocks[c]
       /\ \A between \in b + 1 .. c - 1 : blocks[between] # blocks[b]
====
