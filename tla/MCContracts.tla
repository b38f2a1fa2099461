---- MODULE MCContracts ----
(***************************************************************************)
(* The contracts called by every role in any order: the owner of the       *)
(* products, the owner of the processes, the machines' clients, the        *)
(* machines' owner, and anyone for the functions that ask for no role.     *)
(*                                                                         *)
(* MaxInstances, MaxTasks and MaxOperations bound the logs.  MaxOdd bounds *)
(* how far a state is from a run of the process steps: it counts the tasks *)
(* killed or failed, the instances that ended, the machines rewired, the   *)
(* tasks that no step assigned or the steps that assigned no task, the     *)
(* products without their process, and the operations saved outside a      *)
(* task's course.                                                          *)
(***************************************************************************)
EXTENDS Contracts

CONSTANTS MaxInstances, MaxTasks, MaxOperations, MaxOdd

AllTasks == UNION {{m} \X DOMAIN tasks[m] : m \in MachineContract}

TaskCount == Len(tasks["VGR"]) + Len(tasks["HBW"]) + Len(tasks["MPO"]) + Len(tasks["SLD"])

AllInstances == UNION {{k} \X DOMAIN instances[k] : k \in ProcessContract}

StepTasks ==
  Cardinality(UNION {{i} \X (1 .. instances[i[1]][i[2]].currentStep) : i \in AllInstances})
  + Cardinality({i \in AllInstances : i[1] = "PP" /\ instances[i[1]][i[2]].currentStep >= 3})

OpsNamed(S) == Cardinality({i \in DOMAIN operations : operations[i].name \in S})

Odd ==
     Cardinality({t \in AllTasks : tasks[t[1]][t[2]].status \in {"Killed", "FinishedUnsuccessfully"}})
     + Cardinality({p \in ProductID : /\ \E i \in AllInstances : getProductDID(i[1], i[2]) = p
                                      /\ productsAuthorizedProcesses[p] = None})
     + Cardinality({i \in AllInstances : instances[i[1]][i[2]].finished})
     + Cardinality({<<k, i>> \in ProcessContract \X (1 .. 4) :
                      i \in DOMAIN machines[k] /\ machines[k][i] # SeededMachines[k][i]})
     + (IF TaskCount > StepTasks THEN TaskCount - StepTasks ELSE StepTasks - TaskCount)
     + OpsNamed({"PhysicalIdentification"}) - OpsNamed({"NFCTagReading"})
     + Cardinality({i \in DOMAIN operations : /\ operations[i].name \in {"Melting", "Milling"}
                                              /\ operations[i].machineDID # "MPO_DID"})

BoundedNext ==
  /\ Next
  /\ \A k \in ProcessContract : Len(instances'[k]) <= MaxInstances
  /\ TaskCount' <= MaxTasks
  /\ Len(operations') <= MaxOperations
  /\ Odd' <= MaxOdd

MCSpec == Init /\ [][BoundedNext]_vars
====
