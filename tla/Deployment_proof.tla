---- MODULE Deployment_proof ----
(***************************************************************************)
(* Proofs about the deployment and the seed, for every finite set of       *)
(* products and every order of their keys, however often the seed is run   *)
(* and wherever its sections break off.                                    *)
(***************************************************************************)
EXTENDS Deployment, FiniteSetTheorems, TLAPS

----
(***************************************************************************)
(* The calls of the seed.  Every call fits the contracts, and has an       *)
(* effect that no later call of the seed takes back.                       *)
(***************************************************************************)
Labels == {getName[c] : c \in DOMAIN getName} \cup {accountName(a) : a \in {"admin"} \cup Account}

Numbers(k) == 1 .. getNumberOfMachines[k]

\* The processes whose steps use m.
Users(m) == {k \in {"SP", "PP"} : \E i \in Numbers(k) : SeededMachines[k][i] = m}

Fits(c) ==
  /\ c.call \in {"fund", "createProduct", "setMachineAddress", "authorizeProcess", "registerName"}
  /\ c.call = "fund" => c.of \in Account
  /\ c.call = "createProduct" => c.of \in ProductID
  /\ c.call = "setMachineAddress" =>
       c.of \in {"SP", "PP"} /\ c.number \in Numbers(c.of) /\ c.to = SeededMachines[c.of][c.number]
  /\ c.call = "authorizeProcess" => c.of \in MachineContract /\ c.to \in Users(c.of)
  /\ c.call = "registerName" => c.of \in {"admin"} \cup Account

\* What the calls change.
World ==
  [sent |-> funded, owners |-> productsOwners, wired |-> machines,
   accepted |-> authorizedProcesses, labels |-> addressNameMapping]

Effect(c, w) ==
  /\ c.call = "fund" => c.of \in w.sent
  /\ c.call = "createProduct" => w.owners[c.of] # None
  /\ c.call = "setMachineAddress" => w.wired[c.of][c.number] # None
  /\ c.call = "authorizeProcess" => c.to \in w.accepted[c.of]
  /\ c.call = "registerName" => w.labels[c.of] # None

----
(***************************************************************************)
(* The inductive invariant.                                                *)
(***************************************************************************)
SeedTypeOK ==
  /\ deployed \in 0 .. 8
  /\ section \in 0 .. 6
  /\ section # 0 => deployed = 8
  /\ seeding => position \in DOMAIN Sections[section]

\* What neither the migration nor the seed touches.
NothingElse ==
  /\ productsAuthorizedProcesses = [p \in ProductID |-> None]
  /\ productsAuthorizedMachines = [p \in ProductID |-> None]
  /\ operations = <<>>
  /\ productsOperations = [p \in ProductID |-> <<>>]
  /\ productsOperationsNames = [p \in ProductID |-> [n \in OpName |-> 0]]
  /\ productPhysicalIDMapping = [v \in Value |-> None]
  /\ productsInfoNames = [p \in ProductID |-> <<>>]
  /\ proudctsInfo = [p \in ProductID |-> [n \in InfoName |-> None]]
  /\ tasks = [m \in MachineContract |-> <<>>]
  /\ productsTasks = [m \in MachineContract |-> [p \in ProductID |-> <<>>]]
  /\ readings = [m \in MachineContract |-> <<>>]
  /\ alerts = [m \in MachineContract |-> <<>>]
  /\ info = [m \in MachineContract |-> [n \in InfoName |-> None]]
  /\ instances = [k \in ProcessContract |-> <<>>]
  /\ productProcessMapping = [k \in ProcessContract |-> [p \in ProductID |-> 0]]

\* A machine number is unset or leads to the machine of the seed.
WiringFits ==
  /\ machines = [k \in {"SP", "PP"} |-> [i \in Numbers(k) |-> machines[k][i]]]
  /\ \A k \in {"SP", "PP"} : \A i \in Numbers(k) : machines[k][i] \in {None, SeededMachines[k][i]}

AcceptanceFits ==
  /\ authorizedProcesses = [m \in MachineContract |-> authorizedProcesses[m]]
  /\ \A m \in MachineContract : authorizedProcesses[m] \subseteq Users(m)

\* The products are those of the first keys, each with its number.
ProductsFit ==
  /\ productIDMapping \in Seq(ProductID)
  /\ Len(productIDMapping) <= Cardinality(ProductID)
  /\ \A i \in 1 .. Len(productIDMapping) : productIDMapping[i] = mnemonic[i]
  /\ productsOwners = [p \in ProductID |-> productsOwners[p]]
  /\ productIDReverseMapping = [p \in ProductID |-> productIDReverseMapping[p]]
  /\ \A j \in DOMAIN mnemonic :
       IF j <= Len(productIDMapping)
         THEN productsOwners[mnemonic[j]] = "productOwner" /\ productIDReverseMapping[mnemonic[j]] = j
         ELSE productsOwners[mnemonic[j]] = None /\ productIDReverseMapping[mnemonic[j]] = 0

LabelsFit ==
  /\ addressNameMapping \in [Named \cup {None} -> Labels \cup {None}]
  /\ \A i \in 3 .. deployed : addressNameMapping[Deployed[i]] # None

\* The calls of the running section before the next one have had their effect.
SectionDone == seeding => \A i \in 1 .. position - 1 : Effect(Sections[section][i], World)

\* So have, when no section ever broke off, all calls of the sections before.
SeedDone ==
  broken = {} => \A s \in 1 .. section - 1 : s \in DOMAIN Sections =>
    \A i \in DOMAIN Sections[s] : Effect(Sections[s][i], World)

\* Everything but the progress of the seed.
WorldFits ==
  /\ NothingElse /\ WiringFits /\ AcceptanceFits /\ ProductsFit /\ LabelsFit
  /\ funded \subseteq Account
  /\ AcceptedProcessesAreWired

SeedInv == SeedTypeOK /\ WorldFits /\ SectionDone /\ SeedDone

----
\* The sections, call by call.

LEMMA FundingCalls ==
  fundingSection = <<fund("VGR_DID"), fund("HBW_DID"), fund("MPO_DID"), fund("SLD_DID"),
                     fund("processOwner"), fund("productOwner"), fund("machineOwner")>>
BY DEF fundingSection

LEMMA NamesCalls ==
  namesSection = <<label("admin"), label("processOwner"), label("machineOwner"), label("productOwner"),
                   label("HBW_DID"), label("VGR_DID"), label("MPO_DID"), label("SLD_DID")>>
BY DEF namesSection, RegistryRequests

\* The products can be counted.
LEMMA ProductCount == Cardinality(ProductID) \in Nat
BY FS_CardinalityType, ContractsAssumption

\* The sections and their lengths, which are not zero.
LEMMA SectionLengths ==
  /\ DOMAIN Sections = 1 .. 5
  /\ Sections[1] = fundingSection /\ DOMAIN fundingSection = 1 .. 7 /\ Len(fundingSection) = 7
  /\ /\ Sections[2] = productsSection
     /\ DOMAIN productsSection = 1 .. Cardinality(ProductID)
     /\ Len(productsSection) = Cardinality(ProductID)
  /\ Sections[3] = supplyingSection /\ DOMAIN supplyingSection = 1 .. 4 /\ Len(supplyingSection) = 4
  /\ Sections[4] = productionSection /\ DOMAIN productionSection = 1 .. 8 /\ Len(productionSection) = 8
  /\ Sections[5] = namesSection /\ DOMAIN namesSection = 1 .. 8 /\ Len(namesSection) = 8
<1>1. DOMAIN fundingSection = 1 .. 7 /\ Len(fundingSection) = 7
  BY FundingCalls
<1>2. DOMAIN productsSection = 1 .. Cardinality(ProductID)
  BY DeploymentAssumption DEF productsSection
<1>3. Len(productsSection) = Cardinality(ProductID)
  BY <1>2, ProductCount
<1>4. DOMAIN supplyingSection = 1 .. 4 /\ Len(supplyingSection) = 4
  BY DEF supplyingSection
<1>5. DOMAIN productionSection = 1 .. 8 /\ Len(productionSection) = 8
  BY DEF productionSection
<1>6. DOMAIN namesSection = 1 .. 8 /\ Len(namesSection) = 8
  BY NamesCalls
<1> QED BY <1>1, <1>2, <1>3, <1>4, <1>5, <1>6 DEF Sections

LEMMA SectionLength ==
  ASSUME NEW s \in DOMAIN Sections
  PROVE  Len(Sections[s]) \in Nat /\ DOMAIN Sections[s] = 1 .. Len(Sections[s]) /\ 1 \in DOMAIN Sections[s]
<1>1. Cardinality(ProductID) # 0
  BY FS_EmptySet, ContractsAssumption, DeploymentAssumption
<1> QED BY <1>1, SectionLengths, ProductCount

\* The kinds of calls fit, with the right arguments.
LEMMA FundFits == \A a \in Account : Fits(fund(a))
BY DEF Fits, fund

LEMMA CreateFits == \A p \in ProductID : Fits(create(p))
BY DEF Fits, create

LEMMA WireFits ==
  ASSUME NEW k \in {"SP", "PP"}, NEW i \in Numbers(k)
  PROVE  Fits(wire(k, i, SeededMachines[k][i]))
BY DEF Fits, wire

LEMMA AuthorizeFits ==
  ASSUME NEW m \in MachineContract, NEW k \in Users(m)
  PROVE  Fits(authorize(m, k))
BY DEF Fits, authorize

LEMMA LabelFits == \A a \in {"admin"} \cup Account : Fits(label(a))
BY DEF Fits, label

\* Which process uses which machine.
LEMMA MachinesOfProcesses ==
  /\ Numbers("SP") = 1 .. 2 /\ Numbers("PP") = 1 .. 4
  /\ SeededMachines["SP"][1] = "VGR" /\ SeededMachines["SP"][2] = "HBW"
  /\ SeededMachines["PP"][1] = "HBW" /\ SeededMachines["PP"][2] = "VGR"
  /\ SeededMachines["PP"][3] = "MPO" /\ SeededMachines["PP"][4] = "SLD"
BY DEF Numbers, getNumberOfMachines, SeededMachines

LEMMA UsersOfMachines ==
  /\ Users("VGR") = {"SP", "PP"} /\ Users("HBW") = {"SP", "PP"}
  /\ Users("MPO") = {"PP"} /\ Users("SLD") = {"PP"}
<1>1. \A m \in MachineContract : "SP" \in Users(m) <=> m \in {"VGR", "HBW"}
  BY MachinesOfProcesses DEF Users, MachineContract
<1>2. \A m \in MachineContract : "PP" \in Users(m)
  BY MachinesOfProcesses DEF Users, MachineContract
<1>3. \A m \in MachineContract : Users(m) \subseteq {"SP", "PP"}
  BY DEF Users
<1> QED BY <1>1, <1>2, <1>3 DEF MachineContract

\* Every call of the seed fits the contracts.
LEMMA CallsFit ==
  ASSUME NEW s \in DOMAIN Sections, NEW i \in DOMAIN Sections[s]
  PROVE  Fits(Sections[s][i])
<1>1. CASE s = 1
  <2>1. \A j \in 1 .. 7 : \E a \in Account : fundingSection[j] = fund(a)
    BY FundingCalls DEF Account
  <2> QED BY <1>1, <2>1, SectionLengths, FundFits
<1>2. CASE s = 2
  BY <1>2, SectionLengths, CreateFits, DeploymentAssumption DEF productsSection
<1>3. CASE s = 3
  <2>1. Fits(wire("SP", 1, "VGR")) /\ Fits(wire("SP", 2, "HBW"))
    BY WireFits, MachinesOfProcesses
  <2>2. Fits(authorize("VGR", "SP")) /\ Fits(authorize("HBW", "SP"))
    BY AuthorizeFits, UsersOfMachines DEF MachineContract
  <2> QED BY <1>3, <2>1, <2>2, SectionLengths DEF supplyingSection
<1>4. CASE s = 4
  <2>1. Fits(wire("PP", 1, "HBW")) /\ Fits(wire("PP", 2, "VGR"))
        /\ Fits(wire("PP", 3, "MPO")) /\ Fits(wire("PP", 4, "SLD"))
    BY WireFits, MachinesOfProcesses
  <2>2. Fits(authorize("VGR", "PP")) /\ Fits(authorize("HBW", "PP"))
        /\ Fits(authorize("MPO", "PP")) /\ Fits(authorize("SLD", "PP"))
    BY AuthorizeFits, UsersOfMachines DEF MachineContract
  <2> QED BY <1>4, <2>1, <2>2, SectionLengths DEF productionSection
<1>5. CASE s = 5
  <2>1. \A j \in 1 .. 8 : \E a \in {"admin"} \cup Account : namesSection[j] = label(a)
    BY NamesCalls DEF Account
  <2> QED BY <1>5, <2>1, SectionLengths, LabelFits
<1> QED BY <1>1, <1>2, <1>3, <1>4, <1>5, SectionLengths

\* A product is made by the call of its number, and a machine accepts a process
\* after the section made all machines of the process known to it.
LEMMA CreateCalls ==
  ASSUME NEW s \in DOMAIN Sections, NEW i \in DOMAIN Sections[s],
         Sections[s][i].call = "createProduct"
  PROVE  s = 2 /\ i \in DOMAIN mnemonic /\ Sections[s][i] = create(mnemonic[i])
<1>1. s # 1
  <2>1. \A j \in 1 .. 7 : fundingSection[j].call = "fund"
    BY FundingCalls DEF fund
  <2> QED BY <2>1, SectionLengths
<1>2. s # 3
  BY SectionLengths DEF supplyingSection, wire, authorize
<1>3. s # 4
  BY SectionLengths DEF productionSection, wire, authorize
<1>4. s # 5
  <2>1. \A j \in 1 .. 8 : namesSection[j].call = "registerName"
    BY NamesCalls DEF label
  <2> QED BY <2>1, SectionLengths
<1>5. s = 2
  BY <1>1, <1>2, <1>3, <1>4, SectionLengths
<1> QED BY <1>5, SectionLengths, DeploymentAssumption DEF productsSection

LEMMA AuthorizeCalls ==
  ASSUME NEW s \in DOMAIN Sections, NEW i \in DOMAIN Sections[s],
         Sections[s][i].call = "authorizeProcess",
         NEW n \in Numbers(Sections[s][i].to)
  PROVE  \E j \in 1 .. i - 1 : \E m : Sections[s][j] = wire(Sections[s][i].to, n, m)
<1>1. s # 1
  <2>1. \A j \in 1 .. 7 : fundingSection[j].call = "fund"
    BY FundingCalls DEF fund
  <2> QED BY <2>1, SectionLengths
<1>2. s # 2
  <2>1. \A j \in DOMAIN productsSection : productsSection[j].call = "createProduct"
    BY DEF productsSection, create
  <2> QED BY <2>1, SectionLengths
<1>3. s # 5
  <2>1. \A j \in 1 .. 8 : namesSection[j].call = "registerName"
    BY NamesCalls DEF label
  <2> QED BY <2>1, SectionLengths
<1>4. CASE s = 3
  <2>1. i \in 3 .. 4 /\ Sections[s][i].to = "SP"
    BY <1>4, SectionLengths DEF supplyingSection, wire, authorize
  <2>2. Sections[s][1] = wire("SP", 1, "VGR") /\ Sections[s][2] = wire("SP", 2, "HBW")
    BY <1>4, SectionLengths DEF supplyingSection
  <2>3. n \in 1 .. 2
    BY <2>1, MachinesOfProcesses
  <2> QED BY <2>1, <2>2, <2>3
<1>5. CASE s = 4
  <2>1. i \in 5 .. 8 /\ Sections[s][i].to = "PP"
    BY <1>5, SectionLengths DEF productionSection, wire, authorize
  <2>2. Sections[s][1] = wire("PP", 1, "HBW") /\ Sections[s][2] = wire("PP", 2, "VGR")
        /\ Sections[s][3] = wire("PP", 3, "MPO") /\ Sections[s][4] = wire("PP", 4, "SLD")
    BY <1>5, SectionLengths DEF productionSection
  <2>3. n \in 1 .. 4
    BY <2>1, MachinesOfProcesses
  <2> QED BY <2>1, <2>2, <2>3
<1> QED BY <1>1, <1>2, <1>3, <1>4, <1>5, SectionLengths

----
\* The calls on the contracts.  What a transaction keeps of the effects of others:

EffectsKept ==
  /\ funded \subseteq funded'
  /\ \A p \in ProductID : productsOwners[p] # None => productsOwners'[p] # None
  /\ \A k \in {"SP", "PP"} : \A i \in Numbers(k) : machines[k][i] # None => machines'[k][i] # None
  /\ \A m \in MachineContract : authorizedProcesses[m] \subseteq authorizedProcesses'[m]
  /\ \A a \in {"admin"} \cup Account : addressNameMapping[a] # None => addressNameMapping'[a] # None

\* So no call takes back the effect of another.
LEMMA EffectKept ==
  ASSUME EffectsKept, NEW c, Fits(c), Effect(c, World)
  PROVE  Effect(c, World')
BY DEF EffectsKept, Fits, Effect, World

\* A transaction that failed.
LEMMA Nothing ==
  ASSUME WorldFits, UNCHANGED <<vars, registryVars, funded, deployed>>
  PROVE  WorldFits' /\ EffectsKept
<1> USE DEF vars, productVars, authVars, idVars, opVars, infoVars, machineVars, taskVars, processVars,
            registryVars
<1>1. NothingElse' /\ WiringFits' /\ AcceptanceFits' /\ ProductsFit' /\ LabelsFit'
  BY DEF WorldFits, NothingElse, WiringFits, AcceptanceFits, ProductsFit, LabelsFit
<1>2. (funded \subseteq Account)' /\ AcceptedProcessesAreWired'
  BY DEF WorldFits, AcceptedProcessesAreWired
<1>3. EffectsKept
  BY DEF EffectsKept
<1> QED BY <1>1, <1>2, <1>3 DEF WorldFits

\* An account gets ether.
LEMMA Fund ==
  ASSUME WorldFits, NEW a \in Account, funded' = funded \cup {a},
         UNCHANGED <<vars, registryVars, deployed>>
  PROVE  WorldFits' /\ EffectsKept
<1> USE DEF vars, productVars, authVars, idVars, opVars, infoVars, machineVars, taskVars, processVars,
            registryVars
<1>1. NothingElse' /\ WiringFits' /\ AcceptanceFits' /\ ProductsFit' /\ LabelsFit'
  BY DEF WorldFits, NothingElse, WiringFits, AcceptanceFits, ProductsFit, LabelsFit
<1>2. (funded \subseteq Account)' /\ AcceptedProcessesAreWired'
  BY DEF WorldFits, AcceptedProcessesAreWired
<1>3. EffectsKept
  BY DEF EffectsKept
<1> QED BY <1>1, <1>2, <1>3 DEF WorldFits

\* The product of key j is made when those of the keys before it are there.
LEMMA Create ==
  ASSUME WorldFits, NEW j \in DOMAIN mnemonic,
         \A i \in 1 .. j - 1 : productsOwners[mnemonic[i]] # None,
         P!createProduct(mnemonic[j], "productOwner"),
         UNCHANGED <<machineVars, processVars, registryVars, funded, deployed>>
  PROVE  WorldFits' /\ EffectsKept /\ productsOwners'[mnemonic[j]] # None
<1> DEFINE p == mnemonic[j]
           n == Len(productIDMapping)
<1>1. NothingElse' /\ WiringFits' /\ AcceptanceFits' /\ LabelsFit'
  BY DEF WorldFits, NothingElse, WiringFits, AcceptanceFits, LabelsFit, P!createProduct, P!opVars,
         P!infoVars, machineVars, taskVars, processVars, registryVars
<1>2. (funded \subseteq Account)' /\ AcceptedProcessesAreWired'
  BY DEF WorldFits, AcceptedProcessesAreWired, machineVars, processVars
<1>3. p \in ProductID /\ DOMAIN mnemonic = 1 .. Cardinality(ProductID) /\ Cardinality(ProductID) \in Nat
  BY ProductCount, DeploymentAssumption
<1>4. productIDMapping \in Seq(ProductID) /\ n \in Nat /\ n <= Cardinality(ProductID)
  BY DEF WorldFits, ProductsFit
<1>5. "productOwner" # None
  BY ContractsAssumption DEF Address, Account
<1>6. /\ productsOwners[p] = None
      /\ productsOwners' = [productsOwners EXCEPT ![p] = "productOwner"]
      /\ productIDMapping' = Append(productIDMapping, p)
      /\ productIDReverseMapping' = [productIDReverseMapping EXCEPT ![p] = n + 1]
  BY DEF P!createProduct, P!productExists
<1>7. /\ productsOwners = [q \in ProductID |-> productsOwners[q]]
      /\ productIDReverseMapping = [q \in ProductID |-> productIDReverseMapping[q]]
      /\ \A i \in 1 .. n : productIDMapping[i] = mnemonic[i]
      /\ \A i \in DOMAIN mnemonic :
           IF i <= n
             THEN productsOwners[mnemonic[i]] = "productOwner" /\ productIDReverseMapping[mnemonic[i]] = i
             ELSE productsOwners[mnemonic[i]] = None /\ productIDReverseMapping[mnemonic[i]] = 0
  BY DEF WorldFits, ProductsFit
<1>8. j = n + 1
  <2>1. ~(j <= n)
    BY <1>5, <1>6, <1>7
  <2>2. ASSUME n + 1 < j PROVE FALSE
    <3>1. n + 1 \in 1 .. j - 1 /\ n + 1 \in DOMAIN mnemonic /\ ~(n + 1 <= n)
      BY <2>2, <1>3, <1>4
    <3> QED BY <3>1, <1>7
  <2> QED BY <2>1, <2>2, <1>3, <1>4
<1>9. ProductsFit'
  <2>1. productIDMapping' \in Seq(ProductID) /\ Len(productIDMapping') = n + 1
        /\ productIDMapping'[n + 1] = p /\ \A i \in 1 .. n : productIDMapping'[i] = productIDMapping[i]
    BY <1>3, <1>4, <1>6
  <2>2. \A i \in 1 .. n + 1 : productIDMapping'[i] = mnemonic[i]
    <3> TAKE i \in 1 .. n + 1
    <3>1. CASE i = n + 1
      BY <3>1, <2>1, <1>8
    <3>2. CASE i # n + 1
      <4>1. i \in 1 .. n
        BY <3>2, <1>4
      <4> QED BY <4>1, <2>1, <1>7
    <3> QED BY <3>1, <3>2
  <2>3. /\ productsOwners' = [q \in ProductID |-> productsOwners'[q]]
        /\ productIDReverseMapping' = [q \in ProductID |-> productIDReverseMapping'[q]]
    BY <1>6, <1>7
  <2>4. \A i \in DOMAIN mnemonic :
          IF i <= n + 1
            THEN productsOwners'[mnemonic[i]] = "productOwner" /\ productIDReverseMapping'[mnemonic[i]] = i
            ELSE productsOwners'[mnemonic[i]] = None /\ productIDReverseMapping'[mnemonic[i]] = 0
    <3> TAKE i \in DOMAIN mnemonic
    <3>1. mnemonic[i] \in ProductID
      BY DeploymentAssumption
    <3>2. CASE i = j
      BY <3>1, <3>2, <1>3, <1>4, <1>6, <1>7, <1>8
    <3>3. CASE i # j
      <4>1. mnemonic[i] # p
        BY <3>3, DeploymentAssumption
      <4>2. productsOwners'[mnemonic[i]] = productsOwners[mnemonic[i]]
            /\ productIDReverseMapping'[mnemonic[i]] = productIDReverseMapping[mnemonic[i]]
        BY <3>1, <4>1, <1>6, <1>7
      <4>3. i \in Nat /\ (i <= n + 1 <=> i <= n)
        BY <3>3, <1>3, <1>4, <1>8
      <4> QED BY <4>2, <4>3, <1>7
    <3> QED BY <3>2, <3>3
  <2>5. n + 1 <= Cardinality(ProductID)
    BY <1>3, <1>8
  <2> HIDE DEF n, p
  <2> QED BY <2>1, <2>2, <2>3, <2>4, <2>5 DEF ProductsFit
<1>10. EffectsKept /\ productsOwners'[p] # None
  BY <1>3, <1>5, <1>6, <1>7 DEF EffectsKept, machineVars, processVars, registryVars
<1> HIDE DEF n
<1> QED BY <1>1, <1>2, <1>9, <1>10 DEF WorldFits

LEMMA NoMachineIsNone == \A k \in {"SP", "PP"} : \A i \in Numbers(k) : SeededMachines[k][i] # None
<1>1. None \notin MachineContract
  BY ContractsAssumption DEF Address
<1>2. \A i \in 1 .. 2 : SeededMachines["SP"][i] \in MachineContract
  BY MachinesOfProcesses DEF MachineContract
<1>3. \A i \in 1 .. 4 : SeededMachines["PP"][i] \in MachineContract
  BY MachinesOfProcesses DEF MachineContract
<1> QED BY <1>1, <1>2, <1>3, MachinesOfProcesses

\* A number of a process leads to the machine of the seed.
LEMMA Wire ==
  ASSUME WorldFits, NEW k \in {"SP", "PP"}, NEW i \in Numbers(k),
         setMachineAddress(k, i, SeededMachines[k][i]),
         UNCHANGED <<registryVars, funded, deployed>>
  PROVE  WorldFits' /\ EffectsKept /\ machines'[k][i] # None
<1> DEFINE m == SeededMachines[k][i]
<1> USE DEF setMachineAddress, productVars, authVars, idVars, opVars, infoVars, machineVars, taskVars,
            registryVars
<1>1. NothingElse' /\ AcceptanceFits' /\ ProductsFit' /\ LabelsFit' /\ (funded \subseteq Account)'
  BY DEF WorldFits, NothingElse, AcceptanceFits, ProductsFit, LabelsFit
<1>2. machines' = [machines EXCEPT ![k][i] = m]
  OBVIOUS
<1>3. /\ machines = [l \in {"SP", "PP"} |-> [j \in Numbers(l) |-> machines[l][j]]]
      /\ \A l \in {"SP", "PP"} : \A j \in Numbers(l) : machines[l][j] \in {None, SeededMachines[l][j]}
  BY DEF WorldFits, WiringFits
<1>4. \A l \in {"SP", "PP"} : machines'[l] = IF l = k THEN [machines[k] EXCEPT ![i] = m] ELSE machines[l]
  BY <1>2, <1>3
<1>5. \A l \in {"SP", "PP"} : machines[l] = [j \in Numbers(l) |-> machines[l][j]]
  BY <1>3
<1>6. \A l \in {"SP", "PP"} : machines'[l] = [j \in Numbers(l) |-> machines'[l][j]]
  BY <1>4, <1>5
<1>7. \A l \in {"SP", "PP"} : \A j \in Numbers(l) :
        machines'[l][j] = IF l = k /\ j = i THEN m ELSE machines[l][j]
  BY <1>4, <1>5
<1>8. m # None
  BY NoMachineIsNone
<1>9. WiringFits'
  <2>1. \A l \in {"SP", "PP"} : \A j \in Numbers(l) : machines'[l][j] \in {None, SeededMachines[l][j]}
    BY <1>3, <1>7
  <2>2. machines' = [l \in {"SP", "PP"} |-> machines'[l]]
    BY <1>2, <1>3
  <2>3. machines' = [l \in {"SP", "PP"} |-> [j \in Numbers(l) |-> machines'[l][j]]]
    BY <2>2, <1>6
  <2> QED BY <2>1, <2>3 DEF WiringFits
<1>10. EffectsKept
  BY <1>7, <1>8 DEF EffectsKept
<1>11. AcceptedProcessesAreWired'
  <2>1. \A l \in {"SP", "PP"} : DOMAIN machines[l] = Numbers(l) /\ DOMAIN machines'[l] = Numbers(l)
    BY <1>5, <1>6
  <2>2. \A o \in MachineContract : authorizedProcesses[o] \subseteq {"SP", "PP"}
    BY DEF WorldFits, AcceptanceFits, Users
  <2> QED BY <2>1, <2>2, <1>7, <1>8 DEF WorldFits, AcceptedProcessesAreWired
<1> QED BY <1>1, <1>7, <1>8, <1>9, <1>10, <1>11 DEF WorldFits

\* A machine accepts a process that knows its machines.
LEMMA Accept ==
  ASSUME WorldFits, NEW m \in MachineContract, NEW k \in Users(m),
         \A i \in Numbers(k) : machines[k][i] # None,
         M!authorizeProcess(m, k, "machineOwner"),
         UNCHANGED <<productVars, processVars, registryVars, funded, deployed>>
  PROVE  WorldFits' /\ EffectsKept /\ k \in authorizedProcesses'[m]
<1> USE DEF productVars, authVars, idVars, opVars, infoVars, processVars, registryVars
<1>1. authorizedProcesses' = [authorizedProcesses EXCEPT ![m] = @ \cup {k}]
      /\ UNCHANGED <<tasks, productsTasks, readings, alerts, info>>
  BY DEF M!authorizeProcess, M!taskVars, M!sensorVars
<1>2. NothingElse' /\ WiringFits' /\ ProductsFit' /\ LabelsFit' /\ (funded \subseteq Account)'
  BY <1>1 DEF WorldFits, NothingElse, WiringFits, ProductsFit, LabelsFit
<1>3. /\ authorizedProcesses = [o \in MachineContract |-> authorizedProcesses[o]]
      /\ \A o \in MachineContract : authorizedProcesses[o] \subseteq Users(o)
  BY DEF WorldFits, AcceptanceFits
<1>4. \A o \in MachineContract :
        authorizedProcesses'[o] = IF o = m THEN authorizedProcesses[o] \cup {k} ELSE authorizedProcesses[o]
  BY <1>1, <1>3
<1>5. AcceptanceFits'
  <2>1. authorizedProcesses' = [o \in MachineContract |-> authorizedProcesses'[o]]
    BY <1>1, <1>3
  <2>2. \A o \in MachineContract : authorizedProcesses'[o] \subseteq Users(o)
    BY <1>3, <1>4
  <2> QED BY <2>1, <2>2 DEF AcceptanceFits
<1>6. EffectsKept
  BY <1>4 DEF EffectsKept
<1>7. AcceptedProcessesAreWired'
  <2>1. k \in {"SP", "PP"}
    BY DEF Users
  <2>2. DOMAIN machines[k] = Numbers(k)
    <3>1. machines = [l \in {"SP", "PP"} |-> [j \in Numbers(l) |-> machines[l][j]]]
      BY DEF WorldFits, WiringFits
    <3>2. machines[k] = [j \in Numbers(k) |-> machines[k][j]]
      BY <2>1, <3>1
    <3> QED BY <3>2
  <2>3. \A i \in DOMAIN machines[k] : machines[k][i] # None
    BY <2>2
  <2>4. \A o \in MachineContract : \A l \in authorizedProcesses'[o] :
          l = k \/ l \in authorizedProcesses[o]
    BY <1>4
  <2>5. \A o \in MachineContract : \A l \in authorizedProcesses'[o] :
          \A i \in DOMAIN machines[l] : machines[l][i] # None
    BY <2>3, <2>4 DEF WorldFits, AcceptedProcessesAreWired
  <2> QED BY <2>5 DEF AcceptedProcessesAreWired
<1> QED BY <1>2, <1>4, <1>5, <1>6, <1>7 DEF WorldFits

\* The name of an address is set.
LEMMA Label ==
  ASSUME LabelsFit, NEW name \in Labels, NEW a \in Named,
         addressNameMapping' = [addressNameMapping EXCEPT ![a] = name]
  PROVE  /\ addressNameMapping' \in [Named \cup {None} -> Labels \cup {None}]
         /\ addressNameMapping'[a] # None
         /\ \A b \in Named : addressNameMapping[b] # None => addressNameMapping'[b] # None
<1>1. name # None
  BY DeploymentAssumption DEF Labels
<1> QED BY <1>1 DEF LabelsFit

\* Only names changed, and none was taken away.
LEMMA Relabelled ==
  ASSUME WorldFits, deployed \in 0 .. 8, UNCHANGED <<vars, funded, deployed>>,
         addressNameMapping' \in [Named \cup {None} -> Labels \cup {None}],
         \A b \in Named : addressNameMapping[b] # None => addressNameMapping'[b] # None
  PROVE  WorldFits' /\ EffectsKept
<1> USE DEF vars, productVars, authVars, idVars, opVars, infoVars, machineVars, taskVars, processVars
<1>1. NothingElse' /\ WiringFits' /\ AcceptanceFits' /\ ProductsFit'
  BY DEF WorldFits, NothingElse, WiringFits, AcceptanceFits, ProductsFit
<1>2. (funded \subseteq Account)' /\ AcceptedProcessesAreWired'
  BY DEF WorldFits, AcceptedProcessesAreWired
<1>3. EffectsKept
  BY DEF EffectsKept, Named
<1>4. LabelsFit'
  <2>1. \A i \in 3 .. deployed : Deployed[i] \in Named
    BY DEF Deployed, Named, MachineContract
  <2> QED BY <2>1 DEF WorldFits, LabelsFit
<1> QED BY <1>1, <1>2, <1>3, <1>4 DEF WorldFits

\* Whatever call is mined, in the order of its section.
LEMMA MinedCall ==
  ASSUME SeedInv, seeding, Mined, UNCHANGED deployed
  PROVE  WorldFits' /\ EffectsKept /\ Effect(Sections[section][position], World')
<1> DEFINE c == Sections[section][position]
<1>1. section \in DOMAIN Sections /\ position \in DOMAIN Sections[section] /\ position \in Nat
  BY SectionLength DEF SeedInv, SeedTypeOK, seeding
<1>2. Fits(c)
  BY <1>1, CallsFit
<1>3. WorldFits /\ \A i \in 1 .. position - 1 : Effect(Sections[section][i], World)
  BY DEF SeedInv, SectionDone
<1>4. call = c
  BY DEF call
<1>5. CASE c.call = "fund"
  <2>1. c.of \in Account
    BY <1>2, <1>5 DEF Fits
  <2>2. funded' = funded \cup {c.of} /\ UNCHANGED <<vars, registryVars>>
    BY <1>4, <1>5 DEF Mined
  <2>3. WorldFits' /\ EffectsKept
    BY <1>3, <2>1, <2>2, Fund
  <2> QED BY <1>5, <2>2, <2>3 DEF Effect, World
<1>6. CASE c.call = "createProduct"
  <2>1. section = 2 /\ position \in DOMAIN mnemonic /\ c = create(mnemonic[position])
    BY <1>1, <1>6, CreateCalls
  <2>2. c.of = mnemonic[position]
    BY <2>1 DEF create
  <2>3. \A i \in 1 .. position - 1 : productsOwners[mnemonic[i]] # None
    <3> TAKE i \in 1 .. position - 1
    <3>1. i \in DOMAIN Sections[section] /\ i \in DOMAIN mnemonic
      BY <1>1, <2>1, SectionLength, ProductCount, DeploymentAssumption
    <3>2. Sections[section][i] = create(mnemonic[i])
      BY <2>1, <3>1, SectionLengths DEF productsSection
    <3> QED BY <1>3, <3>2 DEF Effect, World, create
  <2>4. P!createProduct(mnemonic[position], "productOwner")
        /\ UNCHANGED <<machineVars, processVars, registryVars, funded>>
    BY <1>4, <1>6, <2>2 DEF Mined
  <2>5. WorldFits' /\ EffectsKept /\ productsOwners'[mnemonic[position]] # None
    BY <1>3, <2>1, <2>3, <2>4, Create
  <2> QED BY <1>6, <2>2, <2>5 DEF Effect, World
<1>7. CASE c.call = "setMachineAddress"
  <2>1. c.of \in {"SP", "PP"} /\ c.number \in Numbers(c.of) /\ c.to = SeededMachines[c.of][c.number]
    BY <1>2, <1>7 DEF Fits
  <2>2. setMachineAddress(c.of, c.number, c.to) /\ UNCHANGED <<registryVars, funded>>
    BY <1>4, <1>7 DEF Mined
  <2>3. WorldFits' /\ EffectsKept /\ machines'[c.of][c.number] # None
    BY <1>3, <2>1, <2>2, Wire
  <2> QED BY <1>7, <2>3 DEF Effect, World
<1>8. CASE c.call = "authorizeProcess"
  <2>1. c.of \in MachineContract /\ c.to \in Users(c.of)
    BY <1>2, <1>8 DEF Fits
  <2>2. \A n \in Numbers(c.to) : machines[c.to][n] # None
    <3> TAKE n \in Numbers(c.to)
    <3>1. PICK j \in 1 .. position - 1 : \E m : Sections[section][j] = wire(c.to, n, m)
      BY <1>1, <1>8, AuthorizeCalls
    <3> QED BY <1>3, <3>1 DEF Effect, World, wire
  <2>3. M!authorizeProcess(c.of, c.to, "machineOwner")
        /\ UNCHANGED <<productVars, processVars, registryVars, funded>>
    BY <1>4, <1>8 DEF Mined
  <2>4. WorldFits' /\ EffectsKept /\ c.to \in authorizedProcesses'[c.of]
    BY <1>3, <2>1, <2>2, <2>3, Accept
  <2> QED BY <1>8, <2>4 DEF Effect, World
<1>9. CASE c.call = "registerName"
  <2>1. c.of \in {"admin"} \cup Account
    BY <1>2, <1>9 DEF Fits
  <2>2. R!registerName(accountName(c.of), c.of) /\ UNCHANGED <<vars, funded>>
    BY <1>4, <1>9 DEF Mined
  <2>3. c.of \in Named /\ accountName(c.of) \in Labels
    BY <2>1 DEF Named, Labels
  <2>4. addressNameMapping' = [addressNameMapping EXCEPT ![c.of] = accountName(c.of)]
    BY <2>2 DEF R!registerName, R!nameRegistered
  <2> HIDE DEF c
  <2>5. /\ addressNameMapping' \in [Named \cup {None} -> Labels \cup {None}]
        /\ addressNameMapping'[c.of] # None
        /\ \A b \in Named : addressNameMapping[b] # None => addressNameMapping'[b] # None
    BY <1>3, <2>3, <2>4, Label DEF WorldFits
  <2>6. WorldFits' /\ EffectsKept
    BY <1>3, <2>2, <2>5, Relabelled DEF SeedInv, SeedTypeOK
  <2> USE DEF c
  <2> QED BY <1>9, <2>5, <2>6 DEF Effect, World
<1> QED BY <1>2, <1>5, <1>6, <1>7, <1>8, <1>9 DEF Fits

----
\* The steps.

\* Nothing is deployed.
LEMMA Initially == DeploymentInit => SeedInv
<1> SUFFICES ASSUME DeploymentInit PROVE SeedInv
  OBVIOUS
<1> USE DEF DeploymentInit
<1>1. SeedTypeOK
  BY SectionLengths DEF SeedTypeOK, seeding
<1>2. NothingElse
  BY DEF NothingElse, P!Init, M!Init
<1>3. WiringFits
  <2>1. machines = [k \in {"SP", "PP"} |-> [i \in Numbers(k) |-> None]]
    BY DeploymentAssumption DEF Numbers
  <2> HIDE DEF DeploymentInit
  <2>2. \A k \in {"SP", "PP"} : machines[k] = [i \in Numbers(k) |-> None]
    BY <2>1
  <2>3. \A k \in {"SP", "PP"} : \A i \in Numbers(k) : machines[k][i] = None
    BY <2>2
  <2>4. \A k \in {"SP", "PP"} : machines[k] = [i \in Numbers(k) |-> machines[k][i]]
    BY <2>2
  <2>5. machines = [k \in {"SP", "PP"} |-> machines[k]]
    BY <2>1
  <2>6. machines = [k \in {"SP", "PP"} |-> [i \in Numbers(k) |-> machines[k][i]]]
    BY <2>4, <2>5
  <2> QED BY <2>3, <2>6 DEF WiringFits
<1>4. AcceptanceFits /\ AcceptedProcessesAreWired
  BY DEF AcceptanceFits, AcceptedProcessesAreWired, M!Init
<1>5. ProductsFit
  <2>1. /\ productIDMapping = <<>>
        /\ productsOwners = [p \in ProductID |-> None]
        /\ productIDReverseMapping = [p \in ProductID |-> 0]
    BY DEF P!Init
  <2>2. \A j \in DOMAIN mnemonic : mnemonic[j] \in ProductID /\ j \in Nat /\ ~(j <= 0)
    BY ProductCount, DeploymentAssumption
  <2> QED BY <2>1, <2>2, ProductCount DEF ProductsFit
<1>6. LabelsFit
  BY DEF LabelsFit, R!RegistryInit, R!AnyAddress
<1>7. SectionDone /\ SeedDone
  BY SectionLengths DEF SectionDone, SeedDone, seeding
<1> QED BY <1>1, <1>2, <1>3, <1>4, <1>5, <1>6, <1>7 DEF SeedInv, WorldFits

\* The constructor names its contract.
LEMMA Deploying ==
  ASSUME SeedInv, customDeploy
  PROVE  SeedInv'
<1> DEFINE d == Deployed[deployed + 1]
<1>1. /\ deployed \in 0 .. 7 /\ deployed' = deployed + 1 /\ section = 0
      /\ UNCHANGED <<vars, funded, seedVars>>
      /\ WorldFits
  BY DEF SeedInv, SeedTypeOK, customDeploy, Deployed
<1>2. SeedTypeOK' /\ SectionDone' /\ SeedDone'
  <2>1. section' = 0 /\ deployed' \in 0 .. 8
    BY <1>1 DEF seedVars
  <2> QED BY <2>1, SectionLengths DEF SeedTypeOK, SectionDone, SeedDone, seeding
<1>3. /\ addressNameMapping' \in [Named \cup {None} -> Labels \cup {None}]
      /\ deployed + 1 \in 3 .. 8 => addressNameMapping'[d] # None
      /\ \A b \in Named : addressNameMapping[b] # None => addressNameMapping'[b] # None
  <2>1. CASE deployed + 1 \in 3 .. 8
    <3>1. d \in DOMAIN getName /\ d \in Named
      BY <2>1 DEF Deployed, getName, Named, MachineContract
    <3>2. getName[d] \in Labels
      BY <3>1 DEF Labels
    <3>3. addressNameMapping' = [addressNameMapping EXCEPT ![d] = getName[d]]
      <4>1. d \in {"SP", "PP"} \/ d \in MachineContract
        BY <3>1 DEF getName
      <4>2. R!registerProcess(getName[d], d) \/ R!registerMachine(getName[d], d)
        BY <4>1 DEF customDeploy, registersIn
      <4> QED BY <4>2 DEF R!registerProcess, R!registerMachine, R!nameRegistered
    <3> HIDE DEF d
    <3> QED BY <1>1, <3>1, <3>2, <3>3, Label DEF WorldFits
  <2>2. CASE deployed + 1 \notin 3 .. 8
    <3>1. d \in {"Product", "Registry"}
      BY <1>1, <2>2 DEF Deployed
    <3>2. UNCHANGED registryVars
      BY <3>1 DEF customDeploy, registersIn, MachineContract
    <3> QED BY <1>1, <2>2, <3>2 DEF WorldFits, LabelsFit, registryVars
  <2> QED BY <2>1, <2>2
<1>4. LabelsFit'
  <2>1. \A i \in 3 .. deployed : Deployed[i] \in Named /\ addressNameMapping[Deployed[i]] # None
    BY <1>1 DEF WorldFits, LabelsFit, Deployed, Named, MachineContract
  <2>2. \A i \in 3 .. deployed + 1 : addressNameMapping'[Deployed[i]] # None
    <3> TAKE i \in 3 .. deployed + 1
    <3>1. CASE i = deployed + 1
      <4>1. deployed + 1 \in 3 .. 8
        BY <1>1, <3>1
      <4> QED BY <3>1, <4>1, <1>3
    <3>2. CASE i # deployed + 1
      <4>1. i \in 3 .. deployed
        BY <1>1, <3>2
      <4> QED BY <4>1, <2>1, <1>3
    <3> QED BY <3>1, <3>2
  <2> QED BY <1>1, <1>3, <2>2 DEF LabelsFit
<1>5. NothingElse' /\ WiringFits' /\ AcceptanceFits' /\ ProductsFit' /\ (funded \subseteq Account)'
      /\ AcceptedProcessesAreWired'
  BY <1>1 DEF WorldFits, NothingElse, WiringFits, AcceptanceFits, ProductsFit, AcceptedProcessesAreWired,
     vars, productVars, authVars, idVars, opVars, infoVars, machineVars, taskVars, processVars
<1> QED BY <1>2, <1>4, <1>5 DEF SeedInv, WorldFits

\* The seed is run, for the first time or again.
LEMMA Starting ==
  ASSUME SeedInv, main
  PROVE  SeedInv'
<1>1. WorldFits'
  BY Nothing DEF SeedInv, main
<1>2. section' = 1 /\ position' = 1 /\ deployed' = 8
  BY DEF main, Deployed
<1>3. SeedTypeOK'
  BY <1>2, SectionLengths, SectionLength DEF SeedTypeOK
<1>4. SectionDone' /\ SeedDone'
  BY <1>2 DEF SectionDone, SeedDone
<1> QED BY <1>1, <1>3, <1>4 DEF SeedInv

\* What had its effect keeps it.
LEMMA EarlierEffectsKept ==
  ASSUME EffectsKept, NEW s \in DOMAIN Sections, NEW i \in DOMAIN Sections[s],
         Effect(Sections[s][i], World)
  PROVE  Effect(Sections[s][i], World')
BY CallsFit, EffectKept

\* A call had its effect: the next one follows, or the next section.
LEMMA Confirming ==
  ASSUME SeedInv, confirmed
  PROVE  SeedInv'
<1> DEFINE n == Len(Sections[section])
<1>1. /\ section \in 1 .. 5 /\ section \in DOMAIN Sections /\ n \in Nat
      /\ DOMAIN Sections[section] = 1 .. n /\ position \in 1 .. n
  BY SectionLengths, SectionLength DEF SeedInv, SeedTypeOK, confirmed, seeding
<1>2. WorldFits' /\ EffectsKept /\ Effect(Sections[section][position], World')
  BY MinedCall DEF confirmed
<1>3. \A i \in 1 .. position : Effect(Sections[section][i], World')
  <2> TAKE i \in 1 .. position
  <2>1. CASE i = position
    BY <1>2, <2>1
  <2>2. CASE i # position
    <3>1. i \in 1 .. position - 1 /\ i \in DOMAIN Sections[section]
      BY <1>1, <2>2
    <3>2. Effect(Sections[section][i], World)
      BY <3>1 DEF SeedInv, SectionDone, confirmed
    <3> QED BY <1>1, <1>2, <3>1, <3>2, EarlierEffectsKept
  <2> QED BY <2>1, <2>2
<1>4. ASSUME broken = {}, NEW s \in 1 .. section - 1, s \in DOMAIN Sections, NEW i \in DOMAIN Sections[s]
      PROVE  Effect(Sections[s][i], World')
  BY <1>2, <1>4, EarlierEffectsKept DEF SeedInv, SeedDone
<1>5. deployed = 8 /\ deployed' = 8 /\ broken' = broken
  BY <1>1 DEF SeedInv, SeedTypeOK, confirmed
<1>6. CASE position < n
  <2>1. section' = section /\ position' = position + 1
    BY <1>6 DEF confirmed
  <2>2. position + 1 \in 1 .. n /\ (position + 1) - 1 = position
    BY <1>1, <1>6
  <2>3. SeedTypeOK'
    BY <1>1, <1>5, <2>1, <2>2 DEF SeedTypeOK
  <2>4. SectionDone'
    BY <1>3, <2>1, <2>2 DEF SectionDone
  <2>5. SeedDone'
    BY <1>4, <1>5, <2>1 DEF SeedDone
  <2> QED BY <1>2, <2>3, <2>4, <2>5 DEF SeedInv
<1>7. CASE ~(position < n)
  <2>1. section' = section + 1 /\ position' = 1 /\ position = n
    <3>1. nextSection
      BY <1>7 DEF confirmed
    <3>2. position = n
      <4> HIDE DEF n
      <4> QED BY <1>1, <1>7
    <3> QED BY <3>1, <3>2 DEF nextSection
  <2>2. SeedTypeOK'
    <3>1. section' \in 0 .. 6
      BY <1>1, <2>1
    <3>2. \A s \in DOMAIN Sections : 1 \in DOMAIN Sections[s]
      BY SectionLength
    <3> QED BY <1>5, <2>1, <3>1, <3>2 DEF SeedTypeOK, seeding
  <2>3. SectionDone'
    BY <2>1 DEF SectionDone
  <2>4. ASSUME broken = {}, NEW s \in 1 .. section, s \in DOMAIN Sections, NEW i \in DOMAIN Sections[s]
        PROVE  Effect(Sections[s][i], World')
    <3>1. CASE s = section
      BY <1>1, <1>3, <2>1, <3>1
    <3>2. CASE s # section
      <4>1. s \in 1 .. section - 1
        BY <1>1, <3>2
      <4> QED BY <4>1, <2>4, <1>4
    <3> QED BY <3>1, <3>2
  <2>5. SeedDone'
    <3>1. (section + 1) - 1 = section
      BY <1>1
    <3> QED BY <1>5, <2>1, <2>4, <3>1 DEF SeedDone
  <2> QED BY <1>2, <2>2, <2>3, <2>5 DEF SeedInv
<1> QED BY <1>6, <1>7

\* A call failed, or was reported to fail: its section ends.
LEMMA Catching ==
  ASSUME SeedInv, caught
  PROVE  SeedInv'
<1>1. WorldFits'
  BY MinedCall, Nothing DEF caught, SeedInv
<1>2. section \in 1 .. 5 /\ section' = section + 1 /\ position' = 1 /\ broken' # {}
      /\ deployed = 8 /\ deployed' = 8
  BY SectionLengths DEF caught, nextSection, seeding, SeedInv, SeedTypeOK
<1>3. SeedTypeOK'
  <2>1. section' \in 0 .. 6
    BY <1>2
  <2>2. \A s \in DOMAIN Sections : 1 \in DOMAIN Sections[s]
    BY SectionLength
  <2> QED BY <1>2, <2>1, <2>2 DEF SeedTypeOK, seeding
<1>4. SectionDone' /\ SeedDone'
  BY <1>2 DEF SectionDone, SeedDone
<1> QED BY <1>1, <1>3, <1>4 DEF SeedInv

\* A step that changes nothing.
LEMMA Stuttering ==
  ASSUME SeedInv, UNCHANGED deploymentVars
  PROVE  SeedInv'
<1> USE DEF deploymentVars, seedVars
<1>1. WorldFits' /\ EffectsKept
  BY Nothing DEF SeedInv
<1>2. SeedTypeOK'
  BY DEF SeedInv, SeedTypeOK, seeding
<1>3. World' = World
  BY DEF World, vars, productVars, authVars, machineVars, processVars, registryVars
<1>4. SectionDone' /\ SeedDone'
  BY <1>3 DEF SeedInv, SectionDone, SeedDone, seeding
<1> QED BY <1>1, <1>2, <1>4 DEF SeedInv

\* The invariant holds in every state of the migration and the seed.
THEOREM SeedInvariant == DeploymentSpec => []SeedInv
<1>1. SeedInv /\ [DeploymentNext]_deploymentVars => SeedInv'
  BY Deploying, Starting, Confirming, Catching, Stuttering DEF DeploymentNext
<1> QED BY <1>1, Initially, PTL DEF DeploymentSpec

----
\* What follows of the invariant.

(***************************************************************************)
(* However the seed broke off and was run again, a machine accepts a       *)
(* process only when the process knows all its machines.                   *)
(***************************************************************************)
THEOREM AcceptedProcessesAreWiredHolds == DeploymentSpec => []AcceptedProcessesAreWired
<1>1. SeedInv => AcceptedProcessesAreWired
  BY DEF SeedInv, WorldFits
<1> QED BY <1>1, SeedInvariant, PTL

(***************************************************************************)
(* The n-th product of the contract is the n-th key of the mnemonic,       *)
(* however often the seed broke off between two products.                  *)
(***************************************************************************)
THEOREM ProductsFollowTheMnemonicHolds == DeploymentSpec => []ProductsFollowTheMnemonic
<1>1. SeedInv => ProductsFollowTheMnemonic
  <2> SUFFICES ASSUME ProductsFit, NEW i \in DOMAIN productIDMapping
               PROVE  productIDMapping[i] = productsSection[i].of
    BY DEF SeedInv, WorldFits, ProductsFollowTheMnemonic
  <2>1. i \in 1 .. Len(productIDMapping) /\ i \in DOMAIN mnemonic
    BY ProductCount, DeploymentAssumption DEF ProductsFit
  <2> QED BY <2>1 DEF ProductsFit, productsSection, create
<1> QED BY <1>1, SeedInvariant, PTL

\* A seed that reported no error had every effect.
LEMMA EverythingDone ==
  ASSUME SeedInv, seeded, broken = {}
  PROVE  /\ WorldFits /\ deployed = 8
         /\ \A s \in DOMAIN Sections : \A i \in DOMAIN Sections[s] : Effect(Sections[s][i], World)
<1>1. section = 6 /\ WorldFits /\ deployed = 8
  BY SectionLengths DEF SeedInv, SeedTypeOK, seeded, Sections
<1>2. \A s \in DOMAIN Sections : s \in 1 .. section - 1
  BY <1>1, SectionLengths
<1> QED BY <1>1, <1>2 DEF SeedInv, SeedDone

\* ... every account funded,
LEMMA EverybodyFunded ==
  ASSUME SeedInv, seeded, broken = {}
  PROVE  funded = Account
<1>1. \A a \in Account : \E i \in 1 .. 7 : fundingSection[i] = fund(a)
  BY FundingCalls DEF Account
<1>2. \A i \in 1 .. 7 : Effect(fundingSection[i], World)
  BY EverythingDone, SectionLengths
<1>3. \A a \in Account : a \in funded
  <2> TAKE a \in Account
  <2>1. Effect(fund(a), World)
    BY <1>1, <1>2
  <2> QED BY <2>1 DEF Effect, World, fund
<1>4. funded \subseteq Account
  BY DEF SeedInv, WorldFits
<1> QED BY <1>3, <1>4

\* ... everything named,
LEMMA EverybodyNamed ==
  ASSUME SeedInv, seeded, broken = {}
  PROVE  \A a \in Named : addressNameMapping[a] # None
<1>1. \A a \in {"admin"} \cup Account : \E i \in 1 .. 8 : namesSection[i] = label(a)
  BY NamesCalls DEF Account
<1>2. \A i \in 1 .. 8 : Effect(namesSection[i], World)
  BY EverythingDone, SectionLengths
<1>3. \A a \in {"admin"} \cup Account : addressNameMapping[a] # None
  <2> TAKE a \in {"admin"} \cup Account
  <2>1. Effect(label(a), World)
    BY <1>1, <1>2
  <2> QED BY <2>1 DEF Effect, World, label
<1>4. \A a \in MachineContract \cup {"SP", "PP"} : \E i \in 3 .. 8 : Deployed[i] = a
  BY DEF Deployed, MachineContract
<1>5. \A i \in 3 .. 8 : addressNameMapping[Deployed[i]] # None
  BY EverythingDone DEF WorldFits, LabelsFit
<1> QED BY <1>3, <1>4, <1>5 DEF Named

\* ... every number of a machine set,
LEMMA EverythingWired ==
  ASSUME SeedInv, seeded, broken = {}
  PROVE  machines = [k \in ProcessContract |-> SeededMachines[k]]
<1>1. Effect(supplyingSection[1], World) /\ Effect(supplyingSection[2], World)
      /\ Effect(productionSection[1], World) /\ Effect(productionSection[2], World)
      /\ Effect(productionSection[3], World) /\ Effect(productionSection[4], World)
  BY EverythingDone, SectionLengths
<1>2. \A i \in 1 .. 2 : machines["SP"][i] # None
  BY <1>1 DEF Effect, World, supplyingSection, wire
<1>3. \A i \in 1 .. 4 : machines["PP"][i] # None
  BY <1>1 DEF Effect, World, productionSection, wire
<1>4. /\ machines = [k \in {"SP", "PP"} |-> [i \in Numbers(k) |-> machines[k][i]]]
      /\ \A k \in {"SP", "PP"} : \A i \in Numbers(k) : machines[k][i] \in {None, SeededMachines[k][i]}
  BY DEF SeedInv, WorldFits, WiringFits
<1>5. \A k \in {"SP", "PP"} : \A i \in Numbers(k) : machines[k][i] = SeededMachines[k][i]
  BY <1>2, <1>3, <1>4, MachinesOfProcesses
<1>6. \A k \in {"SP", "PP"} : SeededMachines[k] = [i \in Numbers(k) |-> SeededMachines[k][i]]
  <2>1. SeededMachines["SP"] = <<"VGR", "HBW">> /\ SeededMachines["PP"] = <<"HBW", "VGR", "MPO", "SLD">>
    BY DEF SeededMachines
  <2>2. <<"VGR", "HBW">> = [i \in 1 .. 2 |-> <<"VGR", "HBW">>[i]]
    OBVIOUS
  <2>3. <<"HBW", "VGR", "MPO", "SLD">> = [i \in 1 .. 4 |-> <<"HBW", "VGR", "MPO", "SLD">>[i]]
    OBVIOUS
  <2> QED BY <2>1, <2>2, <2>3, MachinesOfProcesses
<1>7. \A k \in {"SP", "PP"} : machines[k] = SeededMachines[k]
  BY <1>4, <1>5, <1>6
<1> QED BY <1>4, <1>7, DeploymentAssumption

\* ... every process accepted by exactly its machines,
LEMMA EverythingAccepted ==
  ASSUME SeedInv, seeded, broken = {}
  PROVE  authorizedProcesses =
           [m \in MachineContract |->
              {k \in ProcessContract : \E i \in DOMAIN SeededMachines[k] : SeededMachines[k][i] = m}]
<1>1. Effect(supplyingSection[3], World) /\ Effect(supplyingSection[4], World)
      /\ Effect(productionSection[5], World) /\ Effect(productionSection[6], World)
      /\ Effect(productionSection[7], World) /\ Effect(productionSection[8], World)
  BY EverythingDone, SectionLengths
<1>2. "SP" \in authorizedProcesses["VGR"] /\ "SP" \in authorizedProcesses["HBW"]
  BY <1>1 DEF Effect, World, supplyingSection, authorize
<1>3. "PP" \in authorizedProcesses["VGR"] /\ "PP" \in authorizedProcesses["HBW"]
      /\ "PP" \in authorizedProcesses["MPO"] /\ "PP" \in authorizedProcesses["SLD"]
  BY <1>1 DEF Effect, World, productionSection, authorize
<1>4. /\ authorizedProcesses = [m \in MachineContract |-> authorizedProcesses[m]]
      /\ \A m \in MachineContract : authorizedProcesses[m] \subseteq Users(m)
  BY DEF SeedInv, WorldFits, AcceptanceFits
<1>5. \A m \in MachineContract : authorizedProcesses[m] = Users(m)
  BY <1>2, <1>3, <1>4, UsersOfMachines DEF MachineContract
<1>6. \A k \in {"SP", "PP"} : DOMAIN SeededMachines[k] = Numbers(k)
  <2>1. SeededMachines["SP"] = <<"VGR", "HBW">> /\ SeededMachines["PP"] = <<"HBW", "VGR", "MPO", "SLD">>
    BY DEF SeededMachines
  <2> QED BY <2>1, MachinesOfProcesses
<1>7. \A m \in MachineContract :
        Users(m) = {k \in ProcessContract : \E i \in DOMAIN SeededMachines[k] : SeededMachines[k][i] = m}
  BY <1>6, DeploymentAssumption DEF Users
<1> QED BY <1>4, <1>5, <1>7

\* ... and every product made, in the order of the keys.
LEMMA EverythingMade ==
  ASSUME SeedInv, seeded, broken = {}
  PROVE  /\ productIDMapping = mnemonic
         /\ productsOwners = [p \in ProductID |-> "productOwner"]
         /\ productIDReverseMapping = [p \in ProductID |-> CHOOSE i \in DOMAIN mnemonic : mnemonic[i] = p]
<1> DEFINE n == Cardinality(ProductID)
<1>1. ProductsFit /\ n \in Nat /\ DOMAIN mnemonic = 1 .. n
  BY ProductCount, DeploymentAssumption DEF SeedInv, WorldFits
<1>2. \A j \in DOMAIN mnemonic : productsOwners[mnemonic[j]] # None
  <2>1. \A j \in 1 .. n : Effect(productsSection[j], World)
    BY EverythingDone, SectionLengths
  <2> QED BY <1>1, <2>1 DEF Effect, World, productsSection, create
<1>3. \A j \in DOMAIN mnemonic : j <= Len(productIDMapping)
  BY <1>1, <1>2 DEF ProductsFit
<1>4. n # 0
  BY FS_EmptySet, ContractsAssumption, DeploymentAssumption
<1>5. Len(productIDMapping) = n
  <2>1. n \in DOMAIN mnemonic
    BY <1>1, <1>4
  <2>2. n <= Len(productIDMapping) /\ Len(productIDMapping) <= n /\ Len(productIDMapping) \in Nat
    BY <1>1, <1>3, <2>1 DEF ProductsFit
  <2> QED BY <1>1, <2>2
<1>6. productIDMapping = mnemonic
  <2>1. productIDMapping \in Seq(ProductID)
    BY <1>1 DEF ProductsFit
  <2>2. mnemonic \in Seq(ProductID) /\ Len(mnemonic) = n
    <3>1. mnemonic \in [1 .. n -> ProductID]
      BY DeploymentAssumption
    <3>2. n \in Nat
      BY <1>1
    <3> HIDE DEF n
    <3> QED BY <3>1, <3>2
  <2>3. \A i \in 1 .. n : productIDMapping[i] = mnemonic[i]
    BY <1>1, <1>5 DEF ProductsFit
  <2> HIDE DEF n
  <2> QED BY <2>1, <2>2, <2>3, <1>1, <1>5
<1>7. \A p \in ProductID : \E j \in DOMAIN mnemonic :
        /\ mnemonic[j] = p
        /\ productsOwners[p] = "productOwner" /\ productIDReverseMapping[p] = j
  <2> TAKE p \in ProductID
  <2>1. PICK j \in DOMAIN mnemonic : mnemonic[j] = p
    BY DeploymentAssumption
  <2>2. productsOwners[mnemonic[j]] = "productOwner" /\ productIDReverseMapping[mnemonic[j]] = j
    BY <1>1, <1>3 DEF ProductsFit
  <2> QED BY <2>1, <2>2
<1>8. \A p \in ProductID : productIDReverseMapping[p] = CHOOSE i \in DOMAIN mnemonic : mnemonic[i] = p
  <2> TAKE p \in ProductID
  <2>1. PICK j \in DOMAIN mnemonic : mnemonic[j] = p /\ productIDReverseMapping[p] = j
    BY <1>7
  <2>2. \A i \in DOMAIN mnemonic : mnemonic[i] = p => i = j
    BY <2>1, DeploymentAssumption
  <2> QED BY <2>1, <2>2
<1>9. /\ productsOwners = [p \in ProductID |-> productsOwners[p]]
      /\ productIDReverseMapping = [p \in ProductID |-> productIDReverseMapping[p]]
  BY <1>1 DEF ProductsFit
<1> QED BY <1>6, <1>7, <1>8, <1>9

(***************************************************************************)
(* A seed that reported no error leaves the contracts in a state that the  *)
(* specification of the contracts begins with, with everybody funded and   *)
(* every account and contract under its name.                              *)
(***************************************************************************)
THEOREM SeededIsInitHolds == DeploymentSpec => []SeededIsInit
<1>1. SeedInv => SeededIsInit
  <2> SUFFICES ASSUME SeedInv, seeded, broken = {}
               PROVE  Init /\ funded = Account /\ \A a \in Named : addressNameMapping[a] # None
    BY DEF SeededIsInit
  <2>1. NothingElse
    BY DEF SeedInv, WorldFits
  <2>2. /\ mnemonic \in [1 .. Cardinality(ProductID) -> ProductID]
        /\ \A i, j \in DOMAIN mnemonic : mnemonic[i] = mnemonic[j] => i = j
        /\ productIDMapping = mnemonic
        /\ productIDReverseMapping = [p \in ProductID |-> CHOOSE i \in DOMAIN mnemonic : mnemonic[i] = p]
    BY EverythingMade, DeploymentAssumption
  <2>3. \E order \in [1 .. Cardinality(ProductID) -> ProductID] :
          /\ \A i, j \in DOMAIN order : order[i] = order[j] => i = j
          /\ productIDMapping = order
          /\ productIDReverseMapping = [p \in ProductID |-> CHOOSE i \in DOMAIN order : order[i] = p]
    BY <2>2
  <2>4. Init
    BY <2>1, <2>3, EverythingMade, EverythingWired, EverythingAccepted DEF Init, NothingElse
  <2> QED BY <2>4, EverybodyFunded, EverybodyNamed
<1> QED BY <1>1, SeedInvariant, PTL
====
