---- MODULE Connection ----
(***************************************************************************)
(* The application's connection to the chain (frontend App.js,             *)
(* utilities/ContractsLoader.js) and the page of verifiable credentials    *)
(* (DID/VCResolver.js).  The wallet may change the network at any time;    *)
(* every change loads the contracts anew, without waiting for the load     *)
(* before, and the answers come in any order.  So do those to the          *)
(* credentials a user pastes one after the other.                          *)
(***************************************************************************)
EXTENDS Naturals, FiniteSets

CONSTANTS
  Network, DeployedOn,  \* the wallet's networks, and those with the contracts
  MaxLoads,             \* bounds the loads and the verifications under way
  Credential,           \* what can be pasted
  Verified, Decodable,  \* what of it verifies, and what can be decoded at least
  NoContracts, NoText

VARIABLES
  network,       \* the wallet's network
  wallet,        \* the wallet was found
  loadsUnderWay, \* the networks whose IDs were asked for, not yet answered
  app,           \* the application's state: loading, error, contracts
  shownVC,       \* the credentials page: text, decoded, error, result, loading
  verifying      \* verifications under way, and the credential being fetched

appVars == <<network, wallet, loadsUnderWay, app>>
vcVars == <<shownVC, verifying>>
connectionVars == <<appVars, vcVars>>

ASSUME ConnectionAssumption ==
  DeployedOn \subseteq Network /\ Verified \subseteq Decodable /\ Decodable \subseteq Credential

emptyVC == [text |-> NoText, output |-> FALSE, error |-> FALSE, result |-> 0, loading |-> FALSE]

ConnectionInit ==
  /\ network \in Network
  /\ wallet = FALSE
  /\ loadsUnderWay = {}
  /\ app = [loading |-> TRUE, error |-> FALSE, contracts |-> NoContracts]
  /\ shownVC = emptyVC /\ verifying = {}

----
\* App.

\* There is no wallet: an error message for good.
noProvider ==
  /\ ~wallet /\ app.loading
  /\ app' = [app EXCEPT !.loading = FALSE, !.error = TRUE]
  /\ UNCHANGED <<network, wallet, loadsUnderWay, vcVars>>

\* The wallet is found: the contracts are loaded.
componentDidMountApp ==
  /\ ~wallet /\ ~app.error
  /\ wallet' = TRUE
  /\ loadsUnderWay' = {network}
  /\ UNCHANGED <<network, app, vcVars>>

\* The network changes; the pages shown stay until the load is over.
handleChainChanged(n) ==
  /\ network' = n
  /\ loadsUnderWay' = IF wallet THEN loadsUnderWay \cup {n} ELSE loadsUnderWay
  /\ UNCHANGED <<wallet, app, vcVars>>

\* The contracts are not deployed on the network, or it cannot be reached: an error
\* message takes the place of every page.
loadFails(n) ==
  /\ n \in loadsUnderWay
  /\ loadsUnderWay' = loadsUnderWay \ {n}
  /\ app' = [app EXCEPT !.loading = FALSE, !.error = TRUE]
  /\ shownVC' = emptyVC /\ verifying' = {}
  /\ UNCHANGED <<network, wallet>>

load(n) ==
  /\ n \in loadsUnderWay \cap DeployedOn
  /\ loadsUnderWay' = loadsUnderWay \ {n}
  /\ app' = [loading |-> FALSE, error |-> FALSE, contracts |-> n]
  /\ UNCHANGED <<network, wallet, vcVars>>

----
\* The page of credentials, which is there when the application is rendered.

Rendered == ~app.loading /\ ~app.error

\* The page was opened with an operation's ID: its credential is fetched from the
\* server.  When that fails the loader stays.
componentDidMountVC(c) ==
  /\ Rendered
  /\ shownVC' = [emptyVC EXCEPT !.loading = TRUE]
  /\ verifying' \in {{}, {c}}
  /\ UNCHANGED appVars

\* A mutation: the text is shown before it is verified.
handleChangeShown(c) ==
  /\ Rendered
  /\ verifying' = verifying \cup {c}
  /\ Cardinality(verifying') <= MaxLoads
  /\ shownVC' = [shownVC EXCEPT !.text = c]
  /\ UNCHANGED appVars

\* A credential is pasted: it is shown only when it is verified.
handleChange(c) ==
  /\ Rendered
  /\ verifying' = verifying \cup {c}
  /\ Cardinality(verifying') <= MaxLoads
  /\ UNCHANGED <<appVars, shownVC>>

\* The text is emptied; what is being verified goes on.
handleChangeEmpty ==
  /\ Rendered
  /\ shownVC' = emptyVC
  /\ UNCHANGED <<appVars, verifying>>

\* Verification also asks the chain, and may fail for that.
resolve(c) ==
  /\ c \in verifying
  /\ verifying' = verifying \ {c}
  /\ shownVC' \in
       {[text |-> c, output |-> TRUE, error |-> FALSE, result |-> 1, loading |-> FALSE] : x \in Verified \cap {c}}
       \cup IF c \in Decodable
            THEN {[text |-> c, output |-> TRUE, error |-> FALSE, result |-> 2, loading |-> FALSE]}
            ELSE {[text |-> c, output |-> FALSE, error |-> TRUE, result |-> 3, loading |-> FALSE]}
  /\ UNCHANGED appVars

ConnectionNext ==
  \/ noProvider \/ componentDidMountApp
  \/ \E n \in Network : handleChainChanged(n) \/ loadFails(n) \/ load(n)
  \/ \E c \in Credential : componentDidMountVC(c) \/ handleChange(c) \/ resolve(c)
  \/ handleChangeEmpty

ConnectionSpec == ConnectionInit /\ [][ConnectionNext]_connectionVars

----
\* App.render reads the registry out of the contracts.
RenderedIsLoaded == Rendered => app.contracts \in DeployedOn

VerdictIsOfItsText ==
  /\ shownVC.result = 1 => shownVC.text \in Verified
  /\ shownVC.output => shownVC.text \in Decodable
  /\ shownVC.error => shownVC.text \notin Decodable

(***************************************************************************)
(* Whatever networks the wallet changes to while contracts are loaded, the *)
(* pages are never rendered without the contracts of some network that has *)
(* them; and whatever is pasted while credentials are verified, the        *)
(* verdict beside a credential is one about that credential.               *)
(***************************************************************************)
ShownIsSound == RenderedIsLoaded /\ VerdictIsOfItsText
====
