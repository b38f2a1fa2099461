---- MODULE MCFactory ----
(***************************************************************************)
(* The gateway and the contracts on small instances.  MaxInstances bounds  *)
(* the instances of each process, one at a time for a product; MaxFaults   *)
(* and MaxKills bound how often something goes wrong, and MaxPending how   *)
(* many events and messages are on their way at once.                      *)
(***************************************************************************)
EXTENDS Factory, TLC

CONSTANTS MaxInstances, MaxFaults, MaxKills, MaxPending

VARIABLES faults, kills

MCSymmetry == Permutations(ProductID) \cup Permutations(Tag)

mcVars == <<factoryVars, faults, kills>>

MCInit == FactoryInit /\ faults = 0 /\ kills = 0

MCWork == Work /\ UNCHANGED <<faults, kills>>

MCStarts ==
  /\ StartWhenEnded
  /\ \A k \in ProcessContract : Len(instances'[k]) <= MaxInstances
  /\ UNCHANGED <<faults, kills>>

MCFaults == faults < MaxFaults /\ Faults /\ faults' = faults + 1 /\ UNCHANGED kills

MCKills == kills < MaxKills /\ ownersKill /\ kills' = kills + 1 /\ UNCHANGED faults

Pending ==
  Cardinality(deliveries) + Cardinality(orders)
  + Cardinality(UNION {{m} \X {c} \X DOMAIN acks[m][c] : m \in MachineContract, c \in 1 .. MaxCopies})

BoundedNext ==
  /\ MCWork \/ MCStarts \/ MCFaults \/ MCKills
  /\ Pending' <= MaxPending

MCSpec == MCInit /\ [][BoundedNext]_mcVars

----
\* The clients may connect again, but nothing is lost and nobody kills anything.

MCReconnects ==
  /\ faults < MaxFaults
  /\ handlerReconnects \/ \E client \in Client : clientReconnects(client)
  /\ faults' = faults + 1
  /\ UNCHANGED kills

LiveSpec ==
  /\ MCInit
  /\ [][MCWork \/ MCStarts \/ MCReconnects]_mcVars
  /\ WF_mcVars(MCWork)
====
