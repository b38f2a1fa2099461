---- MODULE Deployment ----
(***************************************************************************)
(* How the contracts come to the state that Contracts begins with:         *)
(* migrations/2_second_migration.js deploys them one after the other, each *)
(* constructor of a process or machine contract registers itself, and      *)
(* scripts/seed.js sends its transactions in five sections.  A transaction *)
(* that fails ends its section only; the script goes on with the next, so  *)
(* a section may stay unfinished, and the script may be run again.  An     *)
(* error may also be reported of a transaction that is mined all the same. *)
(***************************************************************************)
EXTENDS Contracts

CONSTANT mnemonic  \* the products' addresses, in the order of their keys

VARIABLES
  nameAddressMapping, addressNameMapping, machinesContracts, processesContracts,
  deployed,  \* how many contracts of the migration are deployed
  stuck,     \* the migration waits for a receipt that was refused
  funded,    \* the accounts that got ether
  section,   \* the section the running seed is in, 0 before it is run
  position,  \* the next call of the section
  broken     \* the sections that some run of the seed did not finish

registryVars == <<nameAddressMapping, addressNameMapping, machinesContracts, processesContracts>>
seedVars == <<section, position, broken>>
deploymentVars == <<vars, registryVars, deployed, stuck, funded, seedVars>>

----
\* The migration.

Deployed == <<"Product", "Registry", "SP", "PP", "VGR", "HBW", "MPO", "SLD">>

\* getName of the contracts, and the names that the seed registers.
getName == [c \in {"SP", "PP"} \cup MachineContract |-> <<"contract", c>>]

RegistryRequests ==
  <<"admin", "processOwner", "machineOwner", "productOwner",
    "HBW_DID", "VGR_DID", "MPO_DID", "SLD_DID">>

accountName(a) == <<"account", a>>

Named == {"admin"} \cup Account \cup MachineContract \cup {"SP", "PP"}

\* Both processes are deployed, a key has one product and a product one key, and the
\* zero address and the empty name are no proper ones.
ASSUME DeploymentAssumption ==
  /\ ProcessContract = {"SP", "PP"}
  /\ ProductID # {}
  /\ mnemonic \in [1 .. Cardinality(ProductID) -> ProductID]
  /\ \A i, j \in DOMAIN mnemonic : mnemonic[i] = mnemonic[j] => i = j
  /\ \A p \in ProductID : \E i \in DOMAIN mnemonic : mnemonic[i] = p
  /\ None \notin Named
  /\ \A c \in DOMAIN getName : getName[c] # None
  /\ \A a \in {"admin"} \cup Account : accountName(a) # None

R == INSTANCE Registry WITH
       Name <- {getName[c] : c \in DOMAIN getName} \cup {accountName(a) : a \in {"admin"} \cup Account},
       Contract <- Named, NoName <- None, Zero <- None

registersIn(c) ==
  CASE c \in {"SP", "PP"} -> R!registerProcess(getName[c], c)
    [] c \in MachineContract -> R!registerMachine(getName[c], c)
    [] OTHER -> UNCHANGED registryVars

\* When the receipt of a deployment is refused, its promise is never settled.
customDeploy ==
  /\ deployed < Len(Deployed) /\ ~stuck
  /\ registersIn(Deployed[deployed + 1])
  /\ deployed' = deployed + 1
  /\ stuck' \in BOOLEAN
  /\ UNCHANGED <<vars, funded, seedVars>>

----
\* The seed's calls in order.

fund(a) == [call |-> "fund", of |-> a, to |-> None, number |-> 0]

create(p) == [call |-> "createProduct", of |-> p, to |-> None, number |-> 0]

wire(k, number, m) == [call |-> "setMachineAddress", of |-> k, to |-> m, number |-> number]

authorize(m, k) == [call |-> "authorizeProcess", of |-> m, to |-> k, number |-> 0]

label(a) == [call |-> "registerName", of |-> a, to |-> None, number |-> 0]

fundingSection ==
  LET to == <<"VGR_DID", "HBW_DID", "MPO_DID", "SLD_DID", "processOwner", "productOwner", "machineOwner">>
  IN [i \in DOMAIN to |-> fund(to[i])]

productsSection == [i \in DOMAIN mnemonic |-> create(mnemonic[i])]

\* A mutation: the machines accept the process before it knows them.
supplyingSectionAcceptedFirst ==
  <<authorize("VGR", "SP"), authorize("HBW", "SP"), wire("SP", 1, "VGR"), wire("SP", 2, "HBW")>>

supplyingSection ==
  <<wire("SP", 1, "VGR"), wire("SP", 2, "HBW"), authorize("VGR", "SP"), authorize("HBW", "SP")>>

\* A mutation: the numbers of the warehouse and the gripper are those of supplying.
productionSectionSwapped ==
  <<wire("PP", 1, "VGR"), wire("PP", 2, "HBW"), wire("PP", 3, "MPO"), wire("PP", 4, "SLD"),
    authorize("VGR", "PP"), authorize("HBW", "PP"), authorize("MPO", "PP"), authorize("SLD", "PP")>>

productionSection ==
  <<wire("PP", 1, "HBW"), wire("PP", 2, "VGR"), wire("PP", 3, "MPO"), wire("PP", 4, "SLD"),
    authorize("VGR", "PP"), authorize("HBW", "PP"), authorize("MPO", "PP"), authorize("SLD", "PP")>>

namesSection == [i \in DOMAIN RegistryRequests |-> label(RegistryRequests[i])]

Sections ==
  <<fundingSection, productsSection, supplyingSection, productionSection, namesSection>>

seeding == section \in DOMAIN Sections

call == Sections[section][position]

\* The requires of the call hold and it has its effect.
Mined ==
  \/ /\ call.call = "fund"
     /\ funded' = funded \cup {call.of}
     /\ UNCHANGED <<vars, registryVars>>
  \/ /\ call.call = "createProduct"
     /\ P!createProduct(call.of, "productOwner")
     /\ UNCHANGED <<machineVars, processVars, registryVars, funded>>
  \/ /\ call.call = "setMachineAddress"
     /\ setMachineAddress(call.of, call.number, call.to)
     /\ UNCHANGED <<registryVars, funded>>
  \/ /\ call.call = "authorizeProcess"
     /\ M!authorizeProcess(call.of, call.to, "machineOwner")
     /\ UNCHANGED <<productVars, processVars, registryVars, funded>>
  \/ /\ call.call = "registerName"
     /\ R!registerName(accountName(call.of), call.of)
     /\ UNCHANGED <<vars, funded>>

nextSection == section' = section + 1 /\ position' = 1

confirmed ==
  /\ seeding
  /\ Mined
  /\ IF position < Len(Sections[section])
       THEN position' = position + 1 /\ UNCHANGED section
       ELSE nextSection
  /\ UNCHANGED <<deployed, stuck, broken>>

\* A mutation: every call has a try of its own.
caughtEach ==
  /\ seeding
  /\ Mined \/ UNCHANGED <<vars, registryVars, funded>>
  /\ broken' = broken \cup {section}
  /\ IF position < Len(Sections[section])
       THEN position' = position + 1 /\ UNCHANGED section
       ELSE nextSection
  /\ UNCHANGED <<deployed, stuck>>

\* The section's catch: whether the transaction is mined later or not, the rest of
\* the section is left out.
caught ==
  /\ seeding
  /\ Mined \/ UNCHANGED <<vars, registryVars, funded>>
  /\ broken' = broken \cup {section}
  /\ nextSection
  /\ UNCHANGED <<deployed, stuck>>

\* run.sh runs the seed after the migration; a person may run it again.
main ==
  /\ deployed = Len(Deployed) /\ ~stuck
  /\ ~seeding
  /\ section' = 1 /\ position' = 1
  /\ UNCHANGED <<vars, registryVars, deployed, stuck, funded, broken>>

DeploymentInit ==
  /\ P!Init /\ M!Init /\ R!RegistryInit
  /\ instances = [k \in ProcessContract |-> <<>>]
  /\ productProcessMapping = [k \in ProcessContract |-> [p \in ProductID |-> 0]]
  /\ machines = [k \in ProcessContract |-> [i \in 1 .. getNumberOfMachines[k] |-> None]]
  /\ deployed = 0 /\ stuck = FALSE /\ funded = {}
  /\ section = 0 /\ position = 1 /\ broken = {}

DeploymentNext == customDeploy \/ main \/ confirmed \/ caught

DeploymentSpec == DeploymentInit /\ [][DeploymentNext]_deploymentVars

----

seeded == section = Len(Sections) + 1

(***************************************************************************)
(* A seed that reported no error leaves the contracts in a state that the  *)
(* specification of the contracts begins with, with everybody funded and   *)
(* every account and contract under its name: the numbers under which the  *)
(* processes know the machines are those their steps use.                  *)
(***************************************************************************)
SeededIsInit ==
  seeded /\ broken = {} =>
    /\ Init
    /\ funded = Account
    /\ \A a \in Named : addressNameMapping[a] # None

(***************************************************************************)
(* A machine accepts a process only when the process knows all its         *)
(* machines, however the seed broke off and was run again: no process that *)
(* is wired by half can assign a first task to a machine and then be       *)
(* stuck at a machine of address zero.                                     *)
(***************************************************************************)
AcceptedProcessesAreWired ==
  \A m \in MachineContract : \A k \in authorizedProcesses[m] :
    \A i \in DOMAIN machines[k] : machines[k][i] # None

(***************************************************************************)
(* The n-th product of the contract is the n-th key of the mnemonic, also  *)
(* when a seed broke off between two products and was run again: a product *)
(* that could not be made leaves no gap that a later one slips into.       *)
(***************************************************************************)
ProductsFollowTheMnemonic ==
  \A i \in DOMAIN productIDMapping : productIDMapping[i] = productsSection[i].of
====
