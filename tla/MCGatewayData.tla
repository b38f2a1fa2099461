---- MODULE MCGatewayData ----
(***************************************************************************)
(* The data of the gateway for each of the four machines in turn.          *)
(* MaxInputs bounds the tasks started and the readings asked for,          *)
(* MaxFaults the connections made again, stops and lost messages, and      *)
(* MaxDeployments the deployments.  At most one reading is asked for, and  *)
(* the light sensor is quiet until then: nothing else looks at it.         *)
(***************************************************************************)
EXTENDS GatewayData

CONSTANTS MaxInputs, MaxFaults, MaxDeployments

VARIABLES inputs, faults

mcVars == <<vars, inputs, faults>>

MCInit == Init /\ inputs = 0 /\ faults = 0

MCInputs ==
  /\ inputs < MaxInputs /\ Inputs /\ asked' <= 1
  /\ inputs' = inputs + 1
  /\ UNCHANGED faults

MCFaults == faults < MaxFaults /\ Faults /\ faults' = faults + 1 /\ UNCHANGED inputs

MCRest ==
  /\ GatewayWork \/ onRequest \/ onOperation \/ Environment
  /\ deployment' <= MaxDeployments
  /\ recentReading'["ldr"] /\ ~recentReading["ldr"] => asked = 1
  /\ UNCHANGED <<inputs, faults>>

MCSpec ==
  /\ MCInit
  /\ [][MCInputs \/ MCFaults \/ MCRest]_mcVars
  /\ Fairness
====
