---- MODULE Registry ----
(***************************************************************************)
(* contracts/Registry.sol: the names of the contracts and accounts, and    *)
(* the lists of machine and process contracts that the web application     *)
(* shows.  Every function may be called by anyone; the constructors of the *)
(* machine and process contracts call registerMachine and registerProcess, *)
(* the seed script calls registerName.                                     *)
(*                                                                         *)
(* No name and no address are the zero values of the two mappings: a name  *)
(* registered for the address zero stays available.                        *)
(***************************************************************************)
EXTENDS Naturals, Sequences

CONSTANTS
  Name,       \* names
  Contract,   \* addresses other than zero
  NoName,     \* the empty string
  Zero        \* address(0x0)

ASSUME RegistryAssumption == Zero \notin Contract /\ NoName \notin Name

VARIABLES
  nameAddressMapping,
  addressNameMapping,
  machinesContracts,  \* the key lists of two address sets, see KeySet
  processesContracts

registryVars == <<nameAddressMapping, addressNameMapping, machinesContracts, processesContracts>>

AnyAddress == Contract \cup {Zero}

Listed(list) == {list[i] : i \in 1 .. Len(list)}

RegistryInit ==
  /\ nameAddressMapping = [name \in Name |-> Zero]
  /\ addressNameMapping = [a \in AnyAddress |-> NoName]
  /\ machinesContracts = <<>>
  /\ processesContracts = <<>>

\* A mutation: the name is not checked.
nameOfAnyone(name) == TRUE

nameAvaliable(name) == nameAddressMapping[name] = Zero

nameRegistered(name, a) ==
  /\ nameAddressMapping' = [nameAddressMapping EXCEPT ![name] = a]
  /\ addressNameMapping' = [addressNameMapping EXCEPT ![a] = name]

registerName(name, a) ==
  /\ nameAvaliable(name)
  /\ nameRegistered(name, a)
  /\ UNCHANGED <<machinesContracts, processesContracts>>

\* A mutation: the machine stays in the list although its name is taken.
registerMachineKept(name, a) ==
  /\ a \notin Listed(machinesContracts)
  /\ machinesContracts' = Append(machinesContracts, a)
  /\ IF nameAvaliable(name) THEN nameRegistered(name, a)
     ELSE UNCHANGED <<nameAddressMapping, addressNameMapping>>
  /\ UNCHANGED processesContracts

\* The address is inserted before the name is checked; a name that is taken takes
\* the insertion back.
registerMachine(name, a) ==
  /\ a \notin Listed(machinesContracts)
  /\ machinesContracts' = Append(machinesContracts, a)
  /\ nameAvaliable(name)
  /\ nameRegistered(name, a)
  /\ UNCHANGED processesContracts

registerProcess(name, a) ==
  /\ a \notin Listed(processesContracts)
  /\ processesContracts' = Append(processesContracts, a)
  /\ nameAvaliable(name)
  /\ nameRegistered(name, a)
  /\ UNCHANGED machinesContracts

RegistryNext ==
  \E name \in Name, a \in AnyAddress :
    registerName(name, a) \/ registerMachine(name, a) \/ registerProcess(name, a)

RegistrySpec == RegistryInit /\ [][RegistryNext]_registryVars

----

RegistryTypeOK ==
  /\ nameAddressMapping \in [Name -> AnyAddress]
  /\ addressNameMapping \in [AnyAddress -> Name \cup {NoName}]
  /\ machinesContracts \in Seq(AnyAddress)
  /\ processesContracts \in Seq(AnyAddress)

(***************************************************************************)
(* The label of a contract leads back to it: getMachineContract and        *)
(* resolveAddress show a name that resolveName gives the same address for, *)
(* although anyone may give an address another name later, and the two     *)
(* mappings are separate.                                                  *)
(***************************************************************************)
LabelsLeadBack ==
  \A a \in Contract :
    addressNameMapping[a] # NoName => nameAddressMapping[addressNameMapping[a]] = a

(***************************************************************************)
(* Every machine and process in the lists has a label: a registration that *)
(* fails on the name leaves no nameless entry behind.                      *)
(***************************************************************************)
ListedContractsAreNamed ==
  \A a \in Listed(machinesContracts) \cup Listed(processesContracts) :
    addressNameMapping[a] # NoName

(***************************************************************************)
(* A name that was registered for an address means that address forever.   *)
(***************************************************************************)
NamesKept ==
  \A name \in Name :
    nameAddressMapping[name] # Zero => nameAddressMapping'[name] = nameAddressMapping[name]

NamesAreForever == [][NamesKept]_registryVars
====
