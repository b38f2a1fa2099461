---- MODULE Stepper ----
(***************************************************************************)
(* The display of a process's steps (frontend process/ProcessStepper.js).  *)
(* It follows the process contract, all of whose instances it shows in one *)
(* place, by three subscriptions: each brings its events in order, but two *)
(* may bring theirs in any order.  The display of a finished instance is   *)
(* cleared three seconds later, whatever is shown by then.                 *)
(***************************************************************************)
EXTENDS Integers, Sequences

CONSTANTS
  MaxInstances,  \* bounds the instances of the process
  LastStep       \* the process's number of steps

ASSUME StepperAssumption == MaxInstances \in Nat /\ LastStep \in Nat

VARIABLES
  progress,       \* of each instance: 0 not started, 1 started, s + 1 in step s
  ended,          \* instances that finished
  arriving,       \* of each subscription, the events it has not brought yet
  steps,          \* the number of steps the display knows of
  activeStep,     \* the step shown as active, counted from 0
  shownInstance,  \* the instance shown, 0 for none
  timers,         \* timers that will clear the display
  fatalError      \* the display is an error message

chainVars == <<progress, ended>>
stepperVars == <<chainVars, arriving, steps, activeStep, shownInstance, timers, fatalError>>

Instances == 1 .. MaxInstances

Subscriptions == {"ProcessStarted", "ProcessStepStarted", "ProcessFinished"}

StepperInit ==
  /\ progress = [i \in Instances |-> 0] /\ ended = {}
  /\ arriving = [s \in Subscriptions |-> <<>>]
  /\ steps = 0 /\ activeStep = -1 /\ shownInstance = 0 /\ timers = 0 /\ fatalError = FALSE

----
\* The process contract.  An instance that was killed just goes no further: the
\* display does not ask for that event.  A finished one may still start steps.

told(subscription, i, step) ==
  arriving' = [arriving EXCEPT ![subscription] = Append(@, [instance |-> i, step |-> step])]

startsProcess(i) ==
  /\ progress[i] = 0 /\ \A j \in Instances : j < i => progress[j] # 0
  /\ progress' = [progress EXCEPT ![i] = 1]
  /\ told("ProcessStarted", i, 0)
  /\ UNCHANGED <<ended, steps, activeStep, shownInstance, timers, fatalError>>

markStepAsStarted(i) ==
  /\ progress[i] \in 1 .. LastStep
  /\ progress' = [progress EXCEPT ![i] = @ + 1]
  /\ told("ProcessStepStarted", i, progress[i])
  /\ UNCHANGED <<ended, steps, activeStep, shownInstance, timers, fatalError>>

finishesProcess(i) ==
  /\ progress[i] # 0 /\ i \notin ended
  /\ ended' = ended \cup {i}
  /\ told("ProcessFinished", i, 0)
  /\ UNCHANGED <<progress, steps, activeStep, shownInstance, timers, fatalError>>

----
\* The display.

\* The contract cannot be loaded, or its number of steps cannot be read.
setUpFails ==
  /\ steps = 0
  /\ fatalError' = TRUE
  /\ UNCHANGED <<chainVars, arriving, steps, activeStep, shownInstance, timers>>

\* All the steps' names were read; when one cannot be, none is shown.
getStepsInfo ==
  /\ steps = 0 /\ ~fatalError
  /\ steps' = LastStep
  /\ UNCHANGED <<chainVars, arriving, activeStep, shownInstance, timers, fatalError>>

\* What the callbacks of the subscriptions have in common.
brings(subscription, step) ==
  /\ arriving[subscription] # <<>>
  /\ activeStep' = step
  /\ shownInstance' = Head(arriving[subscription]).instance
  /\ arriving' = [arriving EXCEPT ![subscription] = Tail(@)]

onProcessStarted ==
  /\ brings("ProcessStarted", 0)
  /\ UNCHANGED <<chainVars, steps, timers, fatalError>>

\* A mutation: the contract's number of the step is taken for the display's.
onProcessStepStartedAsNumbered ==
  /\ arriving["ProcessStepStarted"] # <<>>
  /\ brings("ProcessStepStarted", Head(arriving["ProcessStepStarted"]).step)
  /\ UNCHANGED <<chainVars, steps, timers, fatalError>>

onProcessStepStarted ==
  /\ arriving["ProcessStepStarted"] # <<>>
  /\ brings("ProcessStepStarted", Head(arriving["ProcessStepStarted"]).step - 1)
  /\ UNCHANGED <<chainVars, steps, timers, fatalError>>

onProcessFinished ==
  /\ brings("ProcessFinished", steps)
  /\ timers' = timers + 1
  /\ UNCHANGED <<chainVars, steps, fatalError>>

onTimer ==
  /\ timers > 0
  /\ timers' = timers - 1
  /\ activeStep' = -1 /\ shownInstance' = 0
  /\ UNCHANGED <<chainVars, arriving, steps, fatalError>>

StepperNext ==
  \/ \E i \in Instances : startsProcess(i) \/ markStepAsStarted(i) \/ finishesProcess(i)
  \/ setUpFails \/ getStepsInfo
  \/ onProcessStarted \/ onProcessStepStarted \/ onProcessFinished \/ onTimer

StepperSpec == StepperInit /\ [][StepperNext]_stepperVars

----
(***************************************************************************)
(* However the events of several instances arrive, the step shown as       *)
(* active is one the shown instance has really started, all steps are      *)
(* shown as done only for an instance that finished, and there is a step   *)
(* if and only if there is an instance.  (A step can well be shown that is *)
(* over, and an instance be cleared by the timer of another.)              *)
(***************************************************************************)
ShownStepWasReached ==
  /\ (activeStep = -1) <=> (shownInstance = 0)
  /\ shownInstance # 0 =>
       \/ activeStep = 0 /\ progress[shownInstance] > 0
       \/ activeStep \in 1 .. LastStep - 1 /\ progress[shownInstance] > activeStep + 1
       \/ activeStep = LastStep /\ shownInstance \in ended
====
