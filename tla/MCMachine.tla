---- MODULE MCMachine ----
(***************************************************************************)
(* One machine contract under its owner, its client and a process, which   *)
(* call it in any order.  MaxTasks and MaxReadings bound its logs.         *)
(***************************************************************************)
EXTENDS Machine, TLC

CONSTANTS MaxTasks, MaxReadings, mock, owner, client, process, Temperature

MCMachineOwner == mock :> owner

MCMachineDID == mock :> client

MCAlertReading == mock :> Temperature

MCAlertReadingType == mock :> "Critical"

BoundedNext ==
  /\ Next
  /\ Len(tasks'[mock]) <= MaxTasks
  /\ Len(readings'[mock]) <= MaxReadings

MCSpec == Init /\ [][BoundedNext]_vars
====
