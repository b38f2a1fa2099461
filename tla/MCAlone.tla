---- MODULE MCAlone ----
(***************************************************************************)
(* The parts that need no other part to be checked: the set library, the   *)
(* registry and the product contract, and the views of the web             *)
(* application.  They share no state, so one run explores each alone:      *)
(* "component" names the one whose steps are taken while the others stay   *)
(* in their initial states.                                                *)
(***************************************************************************)
EXTENDS KeySet, Registry, Product, Tables, Events, Stepper, Stock, Forms, Connection

CONSTANTS
  MaxOperations, MaxInfo,  \* bound the logs of the product contract
  MaxPastEvents,           \* bounds the chain the explorer searches
  MaxSearches              \* bounds the explorer's calls under way

VARIABLE component

aloneVars == <<component, keySetVars, registryVars, vars, tablesVars, eventsVars, stepperVars, stockVars,
               formsVars, connectionVars>>

BoundedProductNext ==
  /\ Next
  /\ Len(operations') <= MaxOperations
  /\ \A p \in ProductID : Len(productsInfoNames'[p]) <= MaxInfo

\* The explorer looks at two kinds of a machine's events and one of a process's.
BoundedExplorerNext ==
  /\ ExplorerNext
  /\ choice'.kinds \subseteq {"TaskStarted", "TaskKilled", "ProcessStarted"}
  /\ choice'.fromBlock <= MaxPastEvents /\ Len(blocks') <= MaxPastEvents
  /\ Cardinality(searching') <= MaxSearches
  /\ \A i \in DOMAIN blocks' : blocks'[i].kind \in {"TaskStarted", "TaskKilled"}

MCInit ==
  /\ component \in {"KeySet", "Registry", "Product", "Tables", "Live", "Explorer",
                   "Stepper", "Stock", "Forms", "Connection"}
  /\ KeySetInit /\ RegistryInit /\ Init /\ EventsInit /\ StepperInit /\ StockInit
  /\ TablesInit /\ (component = "Tables" \/ page = "Products")
  /\ FormsInit /\ (component = "Forms" \/ form = "StartProcess")
  /\ ConnectionInit /\ (component = "Connection" \/ network = CHOOSE n \in Network : TRUE)

MCNext ==
  \/ /\ component = "KeySet" /\ KeySetNext
     /\ UNCHANGED <<component, registryVars, vars, tablesVars, eventsVars, stepperVars, stockVars, formsVars, connectionVars>>
  \/ /\ component = "Registry" /\ RegistryNext
     /\ UNCHANGED <<component, keySetVars, vars, tablesVars, eventsVars, stepperVars, stockVars, formsVars, connectionVars>>
  \/ /\ component = "Product" /\ BoundedProductNext
     /\ UNCHANGED <<component, keySetVars, registryVars, tablesVars, eventsVars, stepperVars, stockVars, formsVars, connectionVars>>
  \/ /\ component = "Tables" /\ TablesNext
     /\ UNCHANGED <<component, keySetVars, registryVars, vars, eventsVars, stepperVars, stockVars, formsVars, connectionVars>>
  \/ /\ component = "Live" /\ LiveNext
     /\ UNCHANGED <<component, keySetVars, registryVars, vars, tablesVars, stepperVars, stockVars, formsVars, connectionVars>>
  \/ /\ component = "Explorer" /\ BoundedExplorerNext
     /\ UNCHANGED <<component, keySetVars, registryVars, vars, tablesVars, stepperVars, stockVars, formsVars, connectionVars>>
  \/ /\ component = "Stepper" /\ StepperNext
     /\ UNCHANGED <<component, keySetVars, registryVars, vars, tablesVars, eventsVars, stockVars, formsVars, connectionVars>>
  \/ /\ component = "Stock" /\ StockNext
     /\ UNCHANGED <<component, keySetVars, registryVars, vars, tablesVars, eventsVars, stepperVars, formsVars, connectionVars>>
  \/ /\ component = "Forms" /\ FormsNext
     /\ UNCHANGED <<component, keySetVars, registryVars, vars, tablesVars, eventsVars, stepperVars, stockVars, connectionVars>>
  \/ /\ component = "Connection" /\ ConnectionNext
     /\ UNCHANGED <<component, keySetVars, registryVars, vars, tablesVars, eventsVars, stepperVars, stockVars, formsVars>>

MCSpec == MCInit /\ [][MCNext]_aloneVars /\ (component = "Stock" => StockFairness)
====
