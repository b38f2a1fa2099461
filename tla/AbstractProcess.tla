---- MODULE AbstractProcess ----
(***************************************************************************)
(* What the process contracts and their clients promise the owner of a     *)
(* product: an instance makes its steps one by one, each when the task of  *)
(* the step before was successful, and it is ended as its tasks allow.     *)
(* Which machines work, who calls, and what is sent is left open.          *)
(***************************************************************************)
EXTENDS Naturals, Sequences

CONSTANTS ProcessContract, ProductID, NumberOfSteps

VARIABLE runs

Outcome == {"FinishedSuccessfully", "FinishedUnsuccessfully"}

\* The outcome of the step that was reached is empty while its task is not done.
NewRun(p) == [productDID |-> p, currentStep |-> 0, outcome |-> {}, status |-> "Started"]

Init == runs = [k \in ProcessContract |-> <<>>]

Begin(k, p) == runs' = [runs EXCEPT ![k] = Append(@, NewRun(p))]

\* The run of an instance goes on as next.
Becomes(k, n, next) == runs' = [runs EXCEPT ![k][n] = next]

\* An instance that was killed may still make a step: the contracts do not ask.
Advance(k, n) ==
  LET run == runs[k][n] IN
  /\ run.status \notin Outcome
  /\ run.currentStep < NumberOfSteps[k]
  /\ run.currentStep = 0 \/ run.outcome = {"FinishedSuccessfully"}
  /\ Becomes(k, n, [run EXCEPT !.currentStep = @ + 1, !.outcome = {}])

Settle(k, n) ==
  LET run == runs[k][n] IN
  /\ run.currentStep # 0
  /\ run.outcome = {}
  /\ \E how \in Outcome : Becomes(k, n, [run EXCEPT !.outcome = {how}])

\* The end of the last step's task is a success whatever came of the task.
MayEnd(k, run, status) ==
  \/ status = "FinishedSuccessfully" /\ run.currentStep = NumberOfSteps[k] /\ run.outcome # {}
  \/ status = "FinishedUnsuccessfully" /\ run.outcome = {"FinishedUnsuccessfully"}
  \/ status = "Killed"

End(k, n) ==
  LET run == runs[k][n] IN
  /\ run.status = "Started"
  /\ \E status \in Outcome \cup {"Killed"} :
       MayEnd(k, run, status) /\ Becomes(k, n, [run EXCEPT !.status = status])

Next ==
  \E k \in ProcessContract :
    \/ \E p \in ProductID : Begin(k, p)
    \/ \E n \in DOMAIN runs[k] : Advance(k, n) \/ Settle(k, n) \/ End(k, n)

Spec == Init /\ [][Next]_runs
====
