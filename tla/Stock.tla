---- MODULE Stock ----
(***************************************************************************)
(* The warehouse in the dashboard (frontend dashboard/Stock.js): the       *)
(* factory sends its stock every five seconds, the server passes it on     *)
(* (MQTT/state-client.js, utilities/socket.js), and the card computes two  *)
(* lists from it: the products that can be ordered, those not in stock,    *)
(* and the products that can be produced, those in stock.  Computing takes *)
(* a call for each product, so that the lists of one message may be ready  *)
(* after those of a later one.  From the lists the user starts processes.  *)
(***************************************************************************)
EXTENDS Naturals, FiniteSets

CONSTANTS
  KnownProduct,    \* the products the application knows (Misc.getProducts)
  MaxMoves,        \* bounds the changes of the warehouse
  MaxComputations, \* bounds the lists that are being computed
  MaxSending       \* bounds the transactions on their way

VARIABLES
  inStock,    \* products in the warehouse
  moves,      \* how often that changed
  isMounted,  \* the card is open
  computing,  \* lists that are being computed: which, and from what stock
  listed,     \* the two lists of the card
  selected,   \* for each process: the selected product, as a set
  sending     \* starts of a process on their way

warehouseVars == <<inStock, moves>>
stockVars == <<warehouseVars, isMounted, computing, listed, selected, sending>>

Processes == {"Supplying", "Production"}

Nothing == [p \in Processes |-> {}]

StockInit ==
  /\ inStock = {} /\ moves = 0
  /\ isMounted = FALSE
  /\ computing = {} /\ listed = Nothing /\ selected = Nothing /\ sending = {}

\* storeWorkPiece and fetchWorkPiece of the simulated factory.
moveWorkPiece(g) ==
  /\ moves < MaxMoves
  /\ moves' = moves + 1
  /\ inStock' = IF g \in inStock THEN inStock \ {g} ELSE inStock \cup {g}
  /\ UNCHANGED <<isMounted, computing, listed, selected, sending>>

----
componentDidMount ==
  /\ ~isMounted
  /\ isMounted' = TRUE
  /\ listed' = Nothing /\ selected' = Nothing
  /\ UNCHANGED <<warehouseVars, computing, sending>>

\* What the closed card still computes is for no one.
componentWillUnmount ==
  /\ isMounted
  /\ isMounted' = FALSE
  /\ computing' = {} /\ listed' = Nothing /\ selected' = Nothing
  /\ UNCHANGED <<warehouseVars, sending>>

\* sendStock, passed on to the card: the computation of both lists starts.  A message
\* nobody listens to, or that is lost, is none.
setData ==
  /\ isMounted
  /\ computing' = computing \cup {[list |-> p, stock |-> inStock] : p \in Processes}
  /\ Cardinality(computing') <= MaxComputations
  /\ UNCHANGED <<warehouseVars, isMounted, listed, selected, sending>>

getAvailableProductDIDs(stock) == KnownProduct \ stock

\* A list computed from the given stock is ready.
lists(p, stock, products) ==
  /\ [list |-> p, stock |-> stock] \in computing
  /\ computing' = computing \ {[list |-> p, stock |-> stock]}
  /\ listed' = [listed EXCEPT ![p] = products]
  /\ UNCHANGED <<warehouseVars, isMounted, selected, sending>>

\* A mutation: what was available before stays in the list.
setAvailableDIDsAdding(stock, missed) ==
  lists("Supplying", stock, listed["Supplying"] \cup (getAvailableProductDIDs(stock) \ missed))

\* Products whose number could not be read are left out.
setAvailableDIDs(stock, missed) ==
  lists("Supplying", stock, getAvailableProductDIDs(stock) \ missed)

\* Here they are shown as unknown.
setFilledStockItems(stock) == lists("Production", stock, stock)

----
\* handleSupplyingProductSelection and handleProductionProductSelection.
handleProductSelection(p, g) ==
  /\ g \in listed[p]
  /\ selected' = [selected EXCEPT ![p] = {g}]
  /\ UNCHANGED <<warehouseVars, isMounted, computing, listed, sending>>

\* The button stays enabled, so that a second click sends the same again.  When there
\* is no account nothing is sent.
onExecuteButtonClicked(p) ==
  /\ selected[p] # {}
  /\ sending' = sending \cup {[process |-> p, product |-> g, hashed |-> FALSE] : g \in selected[p]}
  /\ Cardinality(sending') <= MaxSending
  /\ UNCHANGED <<warehouseVars, isMounted, computing, listed, selected>>

\* Both the hash and each confirmation of a transaction reset both selections.
reset ==
  \E s \in sending :
    /\ sending' \in {(sending \ {s}) \cup {[s EXCEPT !.hashed = TRUE]}, sending \ {s}}
    /\ selected' = Nothing
    /\ UNCHANGED <<warehouseVars, isMounted, computing, listed>>

onError ==
  \E s \in sending :
    /\ sending' = sending \ {s}
    /\ UNCHANGED <<warehouseVars, isMounted, computing, listed, selected>>

StockNext ==
  \/ \E g \in KnownProduct : moveWorkPiece(g)
  \/ componentDidMount \/ componentWillUnmount \/ setData
  \/ \E stock \in SUBSET KnownProduct :
       setFilledStockItems(stock) \/ \E missed \in SUBSET KnownProduct : setAvailableDIDs(stock, missed)
  \/ \E p \in Processes : onExecuteButtonClicked(p) \/ \E g \in KnownProduct : handleProductSelection(p, g)
  \/ reset \/ onError

\* The factory sends its stock for ever, and every computation ends.
StockFairness ==
  /\ WF_stockVars(setData)
  /\ \A stock \in SUBSET KnownProduct :
       /\ WF_stockVars(setFilledStockItems(stock))
       /\ WF_stockVars(\E missed \in SUBSET KnownProduct : setAvailableDIDs(stock, missed))

StockSpec == StockInit /\ [][StockNext]_stockVars /\ StockFairness

----
(***************************************************************************)
(* Although the lists of an older message may replace those of a newer     *)
(* one, a card that stays open shows, once the warehouse stops changing,   *)
(* the right lists for good: what can be produced is what is in stock, and *)
(* nothing in stock can be ordered.                                        *)
(***************************************************************************)
ListsSettle ==
  <>[]isMounted =>
    <>[](listed["Production"] = inStock /\ listed["Supplying"] \cap inStock = {})
====
