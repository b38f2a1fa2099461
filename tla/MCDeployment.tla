---- MODULE MCDeployment ----
(***************************************************************************)
(* A deployment and a seed of two products that is run up to MaxSeeds      *)
(* times, in which any section may break off at any call.                  *)
(***************************************************************************)
EXTENDS Deployment

LOCAL INSTANCE SequencesExt

CONSTANT MaxSeeds

MCMnemonic == SetToSeq(ProductID)

VARIABLE seeds  \* the runs of the seed so far

BoundedNext ==
  /\ DeploymentNext
  /\ seeds' = IF section' = 1 /\ position' = 1 THEN seeds + 1 ELSE seeds
  /\ seeds' <= MaxSeeds

MCInit == DeploymentInit /\ seeds = 0

MCSpec == MCInit /\ [][BoundedNext]_<<deploymentVars, seeds>>
====
