---- MODULE Views_proof ----
(***************************************************************************)
(* Proofs about the views of the web application: the display of a         *)
(* process's steps, the forms, the connection, the tables and the events.  *)
(***************************************************************************)
EXTENDS Stepper, Forms, Connection, Tables, Events, SequenceTheorems, FiniteSetTheorems, TLAPS

----
(***************************************************************************)
(* The display of a process's steps shows only what the shown instance     *)
(* reached, for any number of instances and steps.  The display's state    *)
(* alone is not enough for an induction: every event that is still on its  *)
(* way must tell the truth about its instance, which it goes on doing      *)
(* because an instance never goes back and never un-finishes.              *)
(***************************************************************************)

Event == [instance : Instances, step : Nat]

StepperTypeOK ==
  /\ progress \in [Instances -> 0 .. LastStep + 1]
  /\ ended \subseteq Instances
  /\ arriving \in [Subscriptions -> Seq(Event)]
  /\ steps \in {0, LastStep}
  /\ activeStep \in Int /\ shownInstance \in {0} \cup Instances
  /\ timers \in Nat /\ fatalError \in BOOLEAN

\* What an event of each subscription says of its instance, when the instances are as
\* far as given.
Truth(s, e, reached, over) ==
  /\ s = "ProcessStarted" => reached[e.instance] > 0
  /\ s = "ProcessStepStarted" => e.step \in 1 .. LastStep /\ reached[e.instance] > e.step
  /\ s = "ProcessFinished" => e.instance \in over

TellsTruth(s, e) == Truth(s, e, progress, ended)

EventsTellTruth ==
  \A s \in Subscriptions : \A j \in 1 .. Len(arriving[s]) : TellsTruth(s, arriving[s][j])

EndedWereStarted == \A i \in ended : progress[i] > 0

StepperInvariant == StepperTypeOK /\ EventsTellTruth /\ EndedWereStarted /\ ShownStepWasReached

\* The process only goes on.
GoesOn ==
  /\ progress' \in [Instances -> 0 .. LastStep + 1]
  /\ \A i \in Instances : progress'[i] >= progress[i]
  /\ ended \subseteq ended' /\ ended' \subseteq Instances
  /\ \A i \in ended' : progress'[i] > 0

DisplayKept == UNCHANGED <<steps, activeStep, shownInstance, timers, fatalError>>

LEMMA TruthRemains ==
  ASSUME StepperTypeOK, GoesOn, NEW s \in Subscriptions, NEW e \in Event, TellsTruth(s, e)
  PROVE  Truth(s, e, progress', ended')
<1>1. e.instance \in Instances /\ e.step \in Nat
  BY DEF Event
<1>2. /\ progress[e.instance] \in Nat /\ progress'[e.instance] \in Nat
      /\ progress'[e.instance] >= progress[e.instance]
  BY <1>1, StepperAssumption DEF StepperTypeOK, GoesOn
<1> QED BY <1>1, <1>2, StepperAssumption DEF TellsTruth, Truth, GoesOn

\* A step of the process, with the event it tells.
LEMMA ProcessStep ==
  ASSUME StepperInvariant, GoesOn, DisplayKept, NEW s \in Subscriptions, NEW i \in Instances, NEW n \in Nat,
         told(s, i, n), Truth(s, [instance |-> i, step |-> n], progress', ended')
  PROVE  StepperInvariant'
<1> DEFINE e == [instance |-> i, step |-> n]
<1>1. e \in Event
  BY DEF Event
<1>2. /\ arriving[s] \in Seq(Event) /\ Len(arriving[s]) \in Nat
      /\ Append(arriving[s], e) \in Seq(Event)
      /\ Len(Append(arriving[s], e)) = Len(arriving[s]) + 1
      /\ \A j \in 1 .. Len(arriving[s]) : Append(arriving[s], e)[j] = arriving[s][j]
      /\ Append(arriving[s], e)[Len(arriving[s]) + 1] = e
  BY <1>1, AppendProperties, LenProperties DEF StepperInvariant, StepperTypeOK
<1>3. /\ arriving' \in [Subscriptions -> Seq(Event)]
      /\ arriving'[s] = Append(arriving[s], e)
      /\ \A u \in Subscriptions \ {s} : arriving'[u] = arriving[u]
  BY <1>2 DEF told, StepperInvariant, StepperTypeOK
<1>4. StepperTypeOK'
  BY <1>3 DEF StepperInvariant, StepperTypeOK, GoesOn, DisplayKept
<1>5. EventsTellTruth'
  <2> SUFFICES ASSUME NEW u \in Subscriptions, NEW j \in 1 .. Len(arriving'[u])
               PROVE  Truth(u, arriving'[u][j], progress', ended')
    BY DEF EventsTellTruth, TellsTruth
  <2>1. \A k \in 1 .. Len(arriving[u]) : arriving[u][k] \in Event
    BY ElementOfSeq DEF StepperInvariant, StepperTypeOK
  <2>2. \A k \in 1 .. Len(arriving[u]) : Truth(u, arriving[u][k], progress', ended')
    BY <2>1, TruthRemains DEF StepperInvariant, EventsTellTruth
  <2>3. CASE u = s /\ j = Len(arriving[s]) + 1
    BY <1>2, <1>3, <2>3
  <2>4. CASE u = s /\ j # Len(arriving[s]) + 1
    <3>1. j \in 1 .. Len(arriving[s])
      BY <1>2, <1>3, <2>4
    <3> QED BY <1>2, <1>3, <2>2, <2>4, <3>1
  <2>5. CASE u # s
    BY <1>3, <2>2, <2>5
  <2> QED BY <2>3, <2>4, <2>5
<1>6. EndedWereStarted'
  BY DEF GoesOn, EndedWereStarted
<1>7. ShownStepWasReached'
  BY StepperAssumption DEF StepperInvariant, ShownStepWasReached, GoesOn, DisplayKept, StepperTypeOK
<1> QED BY <1>4, <1>5, <1>6, <1>7 DEF StepperInvariant

\* A subscription brings an event to the display.
LEMMA EventShown ==
  ASSUME StepperInvariant, NEW s \in Subscriptions, NEW step \in Int, brings(s, step),
         UNCHANGED <<chainVars, steps, fatalError>>, timers' \in Nat,
         LET e == Head(arriving[s]) IN
           TellsTruth(s, e) =>
             \/ step = 0 /\ progress[e.instance] > 0
             \/ step \in 1 .. LastStep - 1 /\ progress[e.instance] > step + 1
             \/ step = LastStep /\ e.instance \in ended
  PROVE  StepperInvariant'
<1> DEFINE e == Head(arriving[s])
<1>1. arriving[s] \in Seq(Event) /\ arriving[s] # <<>>
  BY DEF StepperInvariant, StepperTypeOK, brings
<1>2. /\ e \in Event
      /\ Tail(arriving[s]) \in Seq(Event)
      /\ Len(Tail(arriving[s])) = Len(arriving[s]) - 1
      /\ \A j \in 1 .. Len(Tail(arriving[s])) : Tail(arriving[s])[j] = arriving[s][j + 1]
  BY <1>1, HeadTailProperties
<1>3. Len(arriving[s]) \in Nat /\ Len(arriving[s]) > 0
  BY <1>1, LenProperties, EmptySeq
<1>4. TellsTruth(s, e)
  <2>1. e = arriving[s][1] /\ 1 \in 1 .. Len(arriving[s])
    BY <1>1, <1>3
  <2> QED BY <2>1 DEF StepperInvariant, EventsTellTruth
<1>5. /\ arriving' \in [Subscriptions -> Seq(Event)]
      /\ arriving'[s] = Tail(arriving[s])
      /\ \A u \in Subscriptions \ {s} : arriving'[u] = arriving[u]
      /\ activeStep' = step /\ shownInstance' = e.instance
      /\ progress' = progress /\ ended' = ended /\ steps' = steps
  BY <1>2 DEF brings, StepperInvariant, StepperTypeOK, chainVars
<1>6. e.instance \in Instances /\ e.instance # 0
  BY <1>2 DEF Event, Instances
<1>7. StepperTypeOK'
  BY <1>5, <1>6 DEF StepperInvariant, StepperTypeOK
<1>8. EventsTellTruth'
  <2> SUFFICES ASSUME NEW u \in Subscriptions, NEW j \in 1 .. Len(arriving'[u])
               PROVE  Truth(u, arriving'[u][j], progress', ended')
    BY DEF EventsTellTruth, TellsTruth
  <2>2. CASE u = s
    <3>1. j + 1 \in 1 .. Len(arriving[s]) /\ arriving'[u][j] = arriving[s][j + 1]
      <4>1. Len(arriving'[u]) = Len(arriving[s]) - 1
        BY <1>2, <1>5, <2>2
      <4>2. j \in 1 .. Len(Tail(arriving[s])) /\ j + 1 \in 1 .. Len(arriving[s])
        BY <1>2, <1>3, <4>1
      <4> QED BY <1>2, <1>5, <2>2, <4>2
    <3>2. TellsTruth(s, arriving[s][j + 1])
      BY <3>1 DEF StepperInvariant, EventsTellTruth
    <3>3. TellsTruth(u, arriving'[u][j])
      BY <2>2, <3>1, <3>2
    <3> QED BY <1>5, <3>3 DEF TellsTruth
  <2>3. CASE u # s
    <3>1. arriving'[u] = arriving[u]
      BY <1>5, <2>3
    <3>2. TellsTruth(u, arriving'[u][j])
      BY <3>1 DEF StepperInvariant, EventsTellTruth
    <3> QED BY <1>5, <3>2 DEF TellsTruth
  <2> QED BY <2>2, <2>3
<1>9. EndedWereStarted'
  BY <1>5 DEF StepperInvariant, EndedWereStarted
<1>10. ShownStepWasReached'
  <2>1. \/ step = 0 /\ progress[e.instance] > 0
        \/ step \in 1 .. LastStep - 1 /\ progress[e.instance] > step + 1
        \/ step = LastStep /\ e.instance \in ended
    BY <1>4
  <2>2. step # -1
    BY <2>1, StepperAssumption
  <2> HIDE DEF e
  <2> QED BY <1>5, <1>6, <2>1, <2>2 DEF ShownStepWasReached
<1> QED BY <1>7, <1>8, <1>9, <1>10 DEF StepperInvariant

LEMMA StepperStart == StepperInit => StepperInvariant
<1> SUFFICES ASSUME StepperInit PROVE StepperInvariant
  OBVIOUS
<1>1. StepperTypeOK
  <2>1. 0 \in 0 .. LastStep + 1 /\ -1 \in Int /\ <<>> \in Seq(Event)
    BY StepperAssumption, EmptySeq
  <2> QED BY <2>1 DEF StepperInit, StepperTypeOK
<1>2. \A s \in Subscriptions : 1 .. Len(arriving[s]) = {}
  BY EmptySeq DEF StepperInit
<1>3. EventsTellTruth
  BY <1>2 DEF EventsTellTruth
<1>4. EndedWereStarted /\ ShownStepWasReached
  BY DEF StepperInit, EndedWereStarted, ShownStepWasReached
<1> QED BY <1>1, <1>3, <1>4 DEF StepperInvariant

LEMMA StepperSteps == StepperInvariant /\ [StepperNext]_stepperVars => StepperInvariant'
<1> SUFFICES ASSUME StepperInvariant, [StepperNext]_stepperVars PROVE StepperInvariant'
  OBVIOUS
<1>0. /\ StepperTypeOK /\ EndedWereStarted
      /\ {"ProcessStarted", "ProcessStepStarted", "ProcessFinished"} = Subscriptions
  BY DEF StepperInvariant, Subscriptions
<1>1. ASSUME NEW i \in Instances, startsProcess(i) PROVE StepperInvariant'
  <2>1. GoesOn
    BY <1>0, <1>1, StepperAssumption DEF startsProcess, GoesOn, StepperTypeOK, EndedWereStarted
  <2>2. Truth("ProcessStarted", [instance |-> i, step |-> 0], progress', ended')
    BY <1>0, <1>1 DEF startsProcess, Truth, StepperTypeOK
  <2>3. told("ProcessStarted", i, 0) /\ DisplayKept
    BY <1>1 DEF startsProcess, DisplayKept
  <2>4. "ProcessStarted" \in Subscriptions /\ 0 \in Nat
    BY DEF Subscriptions
  <2> QED BY <2>1, <2>2, <2>3, <2>4, ProcessStep
<1>2. ASSUME NEW i \in Instances, markStepAsStarted(i) PROVE StepperInvariant'
  <2>1. GoesOn
    BY <1>0, <1>2, StepperAssumption DEF markStepAsStarted, GoesOn, StepperTypeOK, EndedWereStarted
  <2>2. Truth("ProcessStepStarted", [instance |-> i, step |-> progress[i]], progress', ended')
    BY <1>0, <1>2, StepperAssumption DEF markStepAsStarted, Truth, StepperTypeOK
  <2>3. progress[i] \in Nat
    BY <1>0, StepperAssumption DEF StepperTypeOK
  <2>4. told("ProcessStepStarted", i, progress[i]) /\ DisplayKept
    BY <1>2 DEF markStepAsStarted, DisplayKept
  <2>5. "ProcessStepStarted" \in Subscriptions
    BY DEF Subscriptions
  <2> QED BY <2>1, <2>2, <2>3, <2>4, <2>5, ProcessStep
<1>3. ASSUME NEW i \in Instances, finishesProcess(i) PROVE StepperInvariant'
  <2>1. GoesOn
    BY <1>0, <1>3, StepperAssumption DEF finishesProcess, GoesOn, StepperTypeOK, EndedWereStarted
  <2>2. Truth("ProcessFinished", [instance |-> i, step |-> 0], progress', ended')
    BY <1>3 DEF finishesProcess, Truth
  <2>3. told("ProcessFinished", i, 0) /\ DisplayKept
    BY <1>3 DEF finishesProcess, DisplayKept
  <2>4. "ProcessFinished" \in Subscriptions /\ 0 \in Nat
    BY DEF Subscriptions
  <2> QED BY <2>1, <2>2, <2>3, <2>4, ProcessStep
<1>4. CASE setUpFails \/ getStepsInfo \/ onTimer \/ UNCHANGED stepperVars
  <2>1. UNCHANGED <<chainVars, arriving>>
    BY <1>4 DEF setUpFails, getStepsInfo, onTimer, stepperVars, chainVars
  <2>2. StepperTypeOK'
    <3>1. CASE setUpFails
      BY <1>0, <2>1, <3>1 DEF StepperTypeOK, setUpFails, chainVars
    <3>2. CASE getStepsInfo
      BY <1>0, <2>1, <3>2 DEF StepperTypeOK, getStepsInfo, chainVars
    <3>3. CASE onTimer
      <4>1. timers' \in Nat /\ activeStep' \in Int /\ shownInstance' = 0
        BY <1>0, <3>3 DEF StepperTypeOK, onTimer
      <4> QED BY <1>0, <2>1, <3>3, <4>1 DEF StepperTypeOK, onTimer, chainVars
    <3>4. CASE UNCHANGED stepperVars
      BY <1>0, <2>1, <3>4 DEF StepperTypeOK, stepperVars, chainVars
    <3> QED BY <1>4, <3>1, <3>2, <3>3, <3>4
  <2>3. EventsTellTruth' /\ EndedWereStarted'
    BY <2>1 DEF StepperInvariant, EventsTellTruth, TellsTruth, Truth, EndedWereStarted, chainVars
  <2>4. ShownStepWasReached'
    BY <1>4, <2>1 DEF StepperInvariant, ShownStepWasReached, setUpFails, getStepsInfo, onTimer,
                      stepperVars, chainVars
  <2> QED BY <2>2, <2>3, <2>4 DEF StepperInvariant
<1>5. CASE onProcessStarted
  <2> DEFINE e == Head(arriving["ProcessStarted"])
  <2>1. TellsTruth("ProcessStarted", e) => 0 = 0 /\ progress[e.instance] > 0
    BY DEF TellsTruth, Truth
  <2>2. brings("ProcessStarted", 0) /\ timers' \in Nat /\ UNCHANGED <<chainVars, steps, fatalError>>
    BY <1>0, <1>5 DEF onProcessStarted, StepperTypeOK
  <2>3. "ProcessStarted" \in Subscriptions /\ 0 \in Int
    BY DEF Subscriptions
  <2> QED BY <2>1, <2>2, <2>3, EventShown
<1>6. CASE onProcessStepStarted
  <2> DEFINE e == Head(arriving["ProcessStepStarted"])
  <2>1. arriving["ProcessStepStarted"] \in Seq(Event) /\ arriving["ProcessStepStarted"] # <<>>
    BY <1>0, <1>6 DEF onProcessStepStarted, StepperTypeOK
  <2>2. e \in Event
    BY <2>1, HeadTailProperties
  <2>3. e.step \in Nat /\ progress[e.instance] \in Nat
    BY <1>0, <2>2, StepperAssumption DEF Event, StepperTypeOK
  <2>4. TellsTruth("ProcessStepStarted", e) =>
          \/ e.step - 1 = 0 /\ progress[e.instance] > 0
          \/ e.step - 1 \in 1 .. LastStep - 1 /\ progress[e.instance] > e.step - 1 + 1
    BY <2>3, StepperAssumption DEF TellsTruth, Truth
  <2>5. e.step - 1 \in Int
    BY <2>3
  <2> QED BY <1>0, <1>6, <2>4, <2>5, EventShown DEF onProcessStepStarted, StepperInvariant, StepperTypeOK
<1>7. CASE onProcessFinished
  <2> DEFINE e == Head(arriving["ProcessFinished"])
  <2>1. TellsTruth("ProcessFinished", e) =>
          \/ steps = 0 /\ progress[e.instance] > 0
          \/ steps = LastStep /\ e.instance \in ended
    BY <1>0 DEF TellsTruth, Truth, StepperTypeOK, EndedWereStarted
  <2>2. steps \in Int /\ timers' \in Nat
    BY <1>0, <1>7, StepperAssumption DEF StepperTypeOK, onProcessFinished
  <2> QED BY <1>0, <1>7, <2>1, <2>2, EventShown DEF onProcessFinished
<1> QED BY <1>1, <1>2, <1>3, <1>4, <1>5, <1>6, <1>7 DEF StepperNext

\* The types, the truth of the events on their way, and that of the display.
THEOREM StepperInvariantHolds == StepperSpec => []StepperInvariant
BY StepperStart, StepperSteps, PTL DEF StepperSpec

\* However the events of the instances arrive, the step that is shown is one the shown
\* instance reached.
THEOREM ShownStepWasReachedHolds == StepperSpec => []ShownStepWasReached
<1>1. StepperInvariant => ShownStepWasReached
  BY DEF StepperInvariant
<1> QED BY <1>1, StepperInvariantHolds, PTL

----
(***************************************************************************)
(* Proofs about the forms, for any number of transactions under way.       *)
(*                                                                         *)
(* That what was sent had passed the check is not inductive: a click       *)
(* copies what is typed, and the reset by another transaction's hash comes *)
(* in between.  It follows when the button is enabled only for what passes *)
(* the check, and when the clicks that still ask for the account took what *)
(* had passed it.  A reset keeps the first: it disables the button as it   *)
(* empties the fields, in all forms but the one the property leaves out.   *)
(***************************************************************************)

\* What the open form's check accepts.
Passes(f, i) == IF f \in AddressForms THEN isAddress(i) ELSE isInfo(i)

FormsInvariant ==
  /\ form \in AllForms
  /\ enabled \in BOOLEAN
  /\ form # "SaveProductInfo" =>
       /\ enabled => Passes(form, typed)
       /\ \A r \in requests : Passes(form, r.input)

\* A click takes what is typed, however it goes on.
LEMMA ClickTakesWhatIsTyped ==
  ASSUME FormsInvariant, NEW f \in AllForms, clicks(f)
  PROVE  FormsInvariant'
<1>1. request(typed, "account").input = typed
  BY DEF request
<1> QED
  BY <1>1 DEF FormsInvariant, clicks, Passes, isAddress, isInfo

\* A transaction that goes a step on keeps its input.
LEMMA ProgressKeepsTheInput ==
  ASSUME FormsInvariant, NEW r \in requests, NEW step,
         requests' = (requests \ {r}) \cup {request(r.input, step)},
         form' = form
  PROVE  form' # "SaveProductInfo" => \A q \in requests' : Passes(form', q.input)
<1>1. request(r.input, step).input = r.input
  BY DEF request
<1> QED
  BY <1>1 DEF FormsInvariant, Passes, isAddress, isInfo

\* Each step preserves the invariant.
LEMMA FormsStep == FormsInvariant /\ [FormsNext]_formsVars => FormsInvariant'
<1> SUFFICES ASSUME FormsInvariant, [FormsNext]_formsVars
             PROVE  FormsInvariant'
  OBVIOUS
<1>1. ASSUME NEW i \in inputs(form), typesAddress(i)
      PROVE  FormsInvariant'
  BY <1>1 DEF FormsInvariant, typesAddress, Passes, isAddress, isInfo
<1>2. ASSUME NEW i \in inputs(form), typesInfo(i)
      PROVE  FormsInvariant'
  BY <1>2 DEF FormsInvariant, typesInfo, Passes, isAddress, isInfo, AddressForms, InfoForms
<1>3. ASSUME NEW i \in inputs(form), choosesReading(i)
      PROVE  FormsInvariant'
  BY <1>3 DEF FormsInvariant, choosesReading, Passes, isAddress, isInfo, AddressForms
<1>4. CASE \/ onAuthorizeButtonClicked \/ onStartClicked \/ onCreateButtonClicked
           \/ onSaveMachineInfoClicked \/ onSaveProductInfoClicked \/ onRequestButtonClicked
  BY <1>4, ClickTakesWhatIsTyped
     DEF onAuthorizeButtonClicked, onStartClicked, onCreateButtonClicked,
         onSaveMachineInfoClicked, onSaveProductInfoClicked, onRequestButtonClicked,
         AllForms, AddressForms, InfoForms
<1>5. ASSUME NEW r \in requests, sends(r)
      PROVE  FormsInvariant'
  BY <1>5, ProgressKeepsTheInput DEF sends, FormsInvariant
<1>6. ASSUME NEW r \in requests, fails(r)
      PROVE  FormsInvariant'
  BY <1>6 DEF FormsInvariant, fails, Passes, isAddress, isInfo
<1>7. ASSUME NEW r \in requests, resetInputs(r)
      PROVE  FormsInvariant'
  <2>1. form' = form /\ enabled' = (form = "SaveProductInfo" /\ enabled)
    BY <1>7 DEF resetInputs
  <2>2. form' # "SaveProductInfo" => \A q \in requests' : Passes(form', q.input)
    BY <1>7, ProgressKeepsTheInput DEF resetInputs
  <2> QED
    BY <2>1, <2>2 DEF FormsInvariant
<1>8. ASSUME NEW r \in requests, hashKnown(r)
      PROVE  FormsInvariant'
  BY <1>8, ProgressKeepsTheInput DEF hashKnown, FormsInvariant
<1>9. CASE UNCHANGED formsVars
  BY <1>9 DEF FormsInvariant, formsVars, Passes, isAddress, isInfo
<1> QED
  BY <1>1, <1>2, <1>3, <1>4, <1>5, <1>6, <1>7, <1>8, <1>9 DEF FormsNext

(***************************************************************************)
(* However many transactions are under way (AuthorizeParty.js,             *)
(* StartProcess.js, CreateProduct.js, SaveMachineInfo.js,                  *)
(* RequestReading.js): what is sent had passed the form's check.           *)
(***************************************************************************)
THEOREM SentInputsAreValidHolds == FormsSpec => []SentInputsAreValid
<1>1. FormsInit => FormsInvariant
  BY DEF FormsInit, FormsInvariant
<1>2. FormsInvariant => SentInputsAreValid
  BY DEF FormsInvariant, SentInputsAreValid, Passes
<1> QED
  BY FormsStep, <1>1, <1>2, PTL DEF FormsSpec

----
(***************************************************************************)
(* Proofs about the application's connection, for every set of networks    *)
(* and of credentials and any number of loads and verifications.           *)
(*                                                                         *)
(* What is shown is written whole by one step, or reset to nothing; only   *)
(* the loads change a part of the application's state at a time, and then  *)
(* an error or a loader hides the pages.  So ShownIsSound needs beside it  *)
(* only the fields of the two records and that no missing thing is a       *)
(* proper one.                                                             *)
(***************************************************************************)

\* The shape of the application's state and of the credentials page.
ShownType ==
  /\ app \in [loading : BOOLEAN, error : BOOLEAN, contracts : Network \cup {NoContracts}]
  /\ shownVC \in [text : Credential \cup {NoText}, output : BOOLEAN, error : BOOLEAN,
                  result : 0 .. 3, loading : BOOLEAN]

ConnectionInvariant == ShownType /\ ShownIsSound

\* The credentials page with nothing on it says nothing false.
LEMMA EmptyPage ==
  /\ emptyVC \in [text : Credential \cup {NoText}, output : BOOLEAN, error : BOOLEAN,
                  result : 0 .. 3, loading : BOOLEAN]
  /\ emptyVC.result = 0 /\ emptyVC.output = FALSE /\ emptyVC.error = FALSE
BY DEF emptyVC

\* Each step preserves the invariant.
LEMMA ConnectionStep == ConnectionInvariant /\ [ConnectionNext]_connectionVars => ConnectionInvariant'
<1> SUFFICES ASSUME ConnectionInvariant, [ConnectionNext]_connectionVars
             PROVE  ConnectionInvariant'
  OBVIOUS
<1> USE EmptyPage, ConnectionAssumption
        DEF ConnectionInvariant, ShownType, ShownIsSound, RenderedIsLoaded, VerdictIsOfItsText,
            Rendered, appVars, vcVars
<1>1. CASE noProvider
  BY <1>1 DEF noProvider
<1>2. CASE componentDidMountApp
  BY <1>2 DEF componentDidMountApp
<1>3. ASSUME NEW n \in Network, handleChainChanged(n)
      PROVE  ConnectionInvariant'
  BY <1>3 DEF handleChainChanged
<1>4. ASSUME NEW n \in Network, loadFails(n)
      PROVE  ConnectionInvariant'
  <2>1. shownVC' = emptyVC
    BY <1>4 DEF loadFails
  <2>2. /\ shownVC'.result = 0 /\ shownVC'.output = FALSE /\ shownVC'.error = FALSE
        /\ shownVC' \in [text : Credential \cup {NoText}, output : BOOLEAN, error : BOOLEAN,
                         result : 0 .. 3, loading : BOOLEAN]
    BY <2>1
  <2>3. /\ app'.error = TRUE
        /\ app' \in [loading : BOOLEAN, error : BOOLEAN, contracts : Network \cup {NoContracts}]
    BY <1>4 DEF loadFails
  <2> QED
    BY <2>2, <2>3
<1>5. ASSUME NEW n \in Network, load(n)
      PROVE  ConnectionInvariant'
  BY <1>5 DEF load
<1>6. ASSUME NEW c \in Credential, componentDidMountVC(c)
      PROVE  ConnectionInvariant'
  <2>1. shownVC' = [emptyVC EXCEPT !.loading = TRUE]
    BY <1>6 DEF componentDidMountVC
  <2>2. /\ shownVC'.result = 0 /\ shownVC'.output = FALSE /\ shownVC'.error = FALSE
        /\ shownVC' \in [text : Credential \cup {NoText}, output : BOOLEAN, error : BOOLEAN,
                         result : 0 .. 3, loading : BOOLEAN]
    BY <2>1
  <2> QED
    BY <1>6, <2>2 DEF componentDidMountVC
<1>7. ASSUME NEW c \in Credential, handleChange(c)
      PROVE  ConnectionInvariant'
  BY <1>7 DEF handleChange
<1>8. ASSUME NEW c \in Credential, resolve(c)
      PROVE  ConnectionInvariant'
  <2>1. CASE c \in Verified /\ shownVC' = [text |-> c, output |-> TRUE, error |-> FALSE,
                                           result |-> 1, loading |-> FALSE]
    BY <1>8, <2>1 DEF resolve
  <2>2. CASE c \in Decodable /\ shownVC' = [text |-> c, output |-> TRUE, error |-> FALSE,
                                            result |-> 2, loading |-> FALSE]
    BY <1>8, <2>2 DEF resolve
  <2>3. CASE c \notin Decodable /\ shownVC' = [text |-> c, output |-> FALSE, error |-> TRUE,
                                               result |-> 3, loading |-> FALSE]
    BY <1>8, <2>3 DEF resolve
  <2> QED
    BY <1>8, <2>1, <2>2, <2>3 DEF resolve
<1>9. CASE handleChangeEmpty
  BY <1>9 DEF handleChangeEmpty
<1>10. CASE UNCHANGED connectionVars
  BY <1>10 DEF connectionVars
<1> QED
  BY <1>1, <1>2, <1>3, <1>4, <1>5, <1>6, <1>7, <1>8, <1>9, <1>10 DEF ConnectionNext

\* The application starts with a loader and an empty credentials page.
LEMMA ConnectionStart == ConnectionInit => ConnectionInvariant
BY EmptyPage DEF ConnectionInit, ConnectionInvariant, ShownType, ShownIsSound, RenderedIsLoaded,
                 VerdictIsOfItsText, Rendered

(***************************************************************************)
(* For any networks and credentials, in whatever order loads and           *)
(* verifications end (App.js, VCResolver.js): no page without contracts,   *)
(* and no verdict beside another credential's text.                        *)
(***************************************************************************)
THEOREM ShownIsSoundHolds == ConnectionSpec => []ShownIsSound
<1>1. ConnectionInvariant => ShownIsSound
  BY DEF ConnectionInvariant
<1> QED
  BY ConnectionStart, ConnectionStep, <1>1, PTL DEF ConnectionSpec

----
(***************************************************************************)
(* The tables, for any number of records and of calls that fail.  What is  *)
(* shown is not enough for an induction: the calls under way are for       *)
(* counted records that are not shown yet, and together with the rows they *)
(* are all that were counted as long as no call failed.  A page that reads *)
(* in turn has read the records up to the one it waits for.                *)
(***************************************************************************)

upTo(n) == [i \in 1 .. n |-> i]

RowsOnce(s) == \A i, j \in 1 .. Len(s) : s[i] = s[j] => i = j

TablesTypeOK ==
  /\ page \in Pages /\ stage \in {"loading", "counting", "reading", "over", "error"}
  /\ recorded \in Nat /\ counted \in Nat /\ failed \in BOOLEAN
  /\ rows \in Seq(Nat) /\ found \in Seq(Nat)

NothingYet ==
  /\ stage # "reading" => awaited = {}
  /\ stage \in {"loading", "counting", "error"} => rows = <<>> /\ found = <<>> /\ counted = 0
  /\ page = "MachineInfo" => stage # "reading"
  /\ page = "ProcessInfo" => recorded = 4
  /\ page = "MachineMetrics" => recorded = 3

ConcurrentRows ==
  page \in Concurrent =>
    /\ Shown \cup awaited \subseteq recordIDs(counted)
    /\ Shown \cap awaited = {}
    /\ ~failed /\ stage \in {"reading", "over"} => Shown \cup awaited = recordIDs(counted)

InTurnRows ==
  page \in InTurn =>
    /\ stage = "reading" =>
         /\ rows = <<>> /\ Len(found) < counted
         /\ found = upTo(Len(found)) /\ awaited = {Len(found) + 1}
    /\ rows = <<>> \/ rows = upTo(counted)
    /\ stage = "over" /\ ~failed /\ page # "MachineInfo" => rows = upTo(counted)

OneByOneRows ==
  page \in OneByOne =>
    /\ rows = upTo(Len(rows)) /\ Len(rows) <= counted
    /\ stage = "reading" => Len(rows) < counted /\ awaited = {Len(rows) + 1}
    /\ stage = "over" /\ ~failed => Len(rows) = counted

TablesInvariant ==
  /\ TablesTypeOK /\ NothingYet /\ RowsOnce(rows)
  /\ ConcurrentRows /\ InTurnRows /\ OneByOneRows

LEMMA UpTo ==
  ASSUME NEW n \in Nat
  PROVE  /\ upTo(n) \in Seq(Nat) /\ Len(upTo(n)) = n /\ RowsOnce(upTo(n))
         /\ {upTo(n)[i] : i \in DOMAIN upTo(n)} = 1 .. n
         /\ Append(upTo(n), n + 1) = upTo(n + 1)
<1>1. upTo(n) \in Seq(Nat) /\ Len(upTo(n)) = n
  BY DEF upTo
<1>2. upTo(n + 1) \in Seq(Nat) /\ Len(upTo(n + 1)) = n + 1
  BY DEF upTo
<1>3. \A i \in 1 .. n : upTo(n)[i] = i
  BY DEF upTo
<1>4. Append(upTo(n), n + 1) = upTo(n + 1)
  <2>1. /\ Append(upTo(n), n + 1) \in Seq(Nat) /\ Len(Append(upTo(n), n + 1)) = n + 1
        /\ \A i \in 1 .. n : Append(upTo(n), n + 1)[i] = i
        /\ Append(upTo(n), n + 1)[n + 1] = n + 1
    BY <1>1, <1>3, AppendProperties
  <2>2. \A i \in 1 .. n + 1 : Append(upTo(n), n + 1)[i] = upTo(n + 1)[i]
    <3>1. \A i \in 1 .. n + 1 : i \in 1 .. n \/ i = n + 1
      OBVIOUS
    <3>2. \A i \in 1 .. n + 1 : upTo(n + 1)[i] = i
      BY DEF upTo
    <3> QED BY <2>1, <3>1, <3>2
  <2> QED BY <1>2, <2>1, <2>2, SeqEqual
<1>5. {upTo(n)[i] : i \in DOMAIN upTo(n)} = 1 .. n
  BY <1>3 DEF upTo
<1> QED BY <1>1, <1>3, <1>4, <1>5 DEF RowsOnce

\* One more row, when the next record arrives.
LEMMA OneMore ==
  ASSUME NEW s \in Seq(Nat), NEW n, NEW id, n = Len(s), s = upTo(n), id = n + 1
  PROVE  /\ id \in Nat /\ Append(s, id) = upTo(id) /\ Append(s, id) \in Seq(Nat)
         /\ Len(Append(s, id)) = id /\ RowsOnce(Append(s, id))
<1>1. n \in Nat /\ id \in Nat
  BY LenProperties
<1>2. Append(s, id) = upTo(id)
  BY <1>1, UpTo
<1> QED BY <1>1, <1>2, UpTo

\* The rows as a set, when one is added.
LEMMA RowAdded ==
  ASSUME rows \in Seq(Nat), NEW id \in Nat, id \notin Shown, RowsOnce(rows), rows' = Append(rows, id)
  PROVE  rows' \in Seq(Nat) /\ RowsOnce(rows') /\ Shown' = Shown \cup {id}
<1>1. /\ rows' \in Seq(Nat) /\ Len(rows') = Len(rows) + 1 /\ Len(rows) \in Nat
      /\ \A i \in 1 .. Len(rows) : rows'[i] = rows[i]
      /\ rows'[Len(rows) + 1] = id
  BY AppendProperties, LenProperties
<1>2. DOMAIN rows = 1 .. Len(rows) /\ DOMAIN rows' = 1 .. Len(rows) + 1
  BY <1>1, LenProperties
<1>3. \A i \in 1 .. Len(rows) + 1 : i \in 1 .. Len(rows) \/ i = Len(rows) + 1
  BY <1>1
<1>4. \A i \in 1 .. Len(rows) : i \in 1 .. Len(rows) + 1 /\ rows[i] # id
  BY <1>1, <1>2 DEF Shown
<1>5. RowsOnce(rows')
  BY <1>1, <1>3, <1>4 DEF RowsOnce
<1>6. Shown' = Shown \cup {id}
  <2>1. Shown' \subseteq Shown \cup {id}
    BY <1>1, <1>2, <1>3 DEF Shown
  <2>2. Shown \subseteq Shown'
    BY <1>1, <1>2, <1>4 DEF Shown
  <2>3. id \in Shown'
    <3>1. Len(rows) + 1 \in DOMAIN rows'
      BY <1>1, <1>2
    <3> QED BY <1>1, <3>1 DEF Shown
  <2> QED BY <2>1, <2>2, <2>3
<1> QED BY <1>1, <1>5, <1>6

LEMMA NoRows == rows = <<>> => Shown = {} /\ RowsOnce(rows) /\ rows = upTo(0) /\ Len(rows) = 0
<1>1. rows = <<>> => DOMAIN rows = {} /\ Len(rows) = 0
  OBVIOUS
<1>2. <<>> = upTo(0)
  BY DEF upTo
<1> QED BY <1>1, <1>2 DEF Shown, RowsOnce

\* A page that counts asks for the records that were counted, or for the first.
LEMMA FirstCalls ==
  ASSUME NEW n \in Nat
  PROVE  /\ nextOf(fromOne(n)) = IF n = 0 THEN {} ELSE {1}
         /\ \A id \in 1 .. n :
              nextOf({i \in fromOne(n) : i > id}) = IF id = n THEN {} ELSE {id + 1}
<1>1. CASE n = 0
  BY <1>1 DEF nextOf, fromOne
<1>2. ASSUME n # 0 PROVE nextOf(fromOne(n)) = {1}
  <2>1. 1 \in fromOne(n) /\ \A j \in fromOne(n) : 1 <= j
    BY <1>2 DEF fromOne
  <2>2. \A i \in fromOne(n) : (\A j \in fromOne(n) : i <= j) => i = 1
    BY <2>1 DEF fromOne
  <2>3. (CHOOSE i \in fromOne(n) : \A j \in fromOne(n) : i <= j) = 1
    BY <2>1, <2>2
  <2> QED BY <2>1, <2>3 DEF nextOf
<1>3. ASSUME NEW id \in 1 .. n
      PROVE  nextOf({i \in fromOne(n) : i > id}) = IF id = n THEN {} ELSE {id + 1}
  <2> DEFINE later == {i \in fromOne(n) : i > id}
  <2>1. CASE id = n
    <3>1. later = {}
      BY <2>1 DEF fromOne
    <3> QED BY <2>1, <3>1 DEF nextOf
  <2>2. CASE id # n
    <3>1. id + 1 \in later /\ \A j \in later : j \in Int /\ id + 1 <= j
      BY <2>2 DEF fromOne
    <3>2. \A i \in later : (\A j \in later : i <= j) => i = id + 1
      BY <3>1
    <3> HIDE DEF later
    <3>3. (CHOOSE i \in later : \A j \in later : i <= j) = id + 1
      BY <3>1, <3>2
    <3>4. later # {}
      BY <3>1
    <3>5. nextOf(later) = {id + 1}
      BY <3>3, <3>4 DEF nextOf
    <3> QED BY <2>2, <3>5 DEF later
  <2> QED BY <2>1, <2>2
<1> QED BY <1>1, <1>2, <1>3

LEMMA PagesApart ==
  /\ Concurrent \cap InTurn = {} /\ Concurrent \cap OneByOne = {} /\ InTurn \cap OneByOne = {}
  /\ "MachineInfo" \in InTurn /\ "AuthorizedParties" \in InTurn
  /\ "ProcessInfo" \in Concurrent /\ "MachineMetrics" \in Concurrent
  /\ {"MachinesRegistry", "ProcessesRegistry"} \subseteq Concurrent
BY DEF Concurrent, InTurn, OneByOne

LEMMA AsksForAll ==
  ASSUME TablesInvariant, NEW p \in Concurrent, NEW first, asksFor(p, first), first = recordIDs(recorded)
  PROVE  TablesInvariant'
<1>1. /\ page = p /\ stage = "counting" /\ counted' = recorded /\ awaited' = first
      /\ stage' = IF first = {} THEN "over" ELSE "reading"
      /\ UNCHANGED <<page, recorded, found, rows, failed>>
  BY DEF asksFor
<1>2. rows = <<>> /\ rows' = <<>>
  BY <1>1 DEF TablesInvariant, NothingYet
<1>3. Shown' = {} /\ RowsOnce(rows')
  <2>1. DOMAIN rows' = {} /\ Len(rows') = 0
    BY <1>2
  <2> QED BY <2>1 DEF Shown, RowsOnce
<1>4. TablesTypeOK'
  BY <1>1 DEF TablesInvariant, TablesTypeOK
<1>5. NothingYet'
  BY <1>1, PagesApart DEF TablesInvariant, NothingYet
<1>6. ConcurrentRows'
  BY <1>1, <1>3 DEF ConcurrentRows, recordIDs
<1>7. InTurnRows' /\ OneByOneRows'
  BY <1>1, PagesApart DEF InTurnRows, OneByOneRows
<1> QED BY <1>3, <1>4, <1>5, <1>6, <1>7 DEF TablesInvariant

LEMMA AsksForTheFirst ==
  ASSUME TablesInvariant, NEW p \in (InTurn \cup OneByOne) \ {"MachineInfo"},
         asksFor(p, nextOf(fromOne(recorded)))
  PROVE  TablesInvariant'
<1> DEFINE first == nextOf(fromOne(recorded))
<1>0. recorded \in Nat
  BY DEF TablesInvariant, TablesTypeOK
<1>1. /\ page = p /\ stage = "counting" /\ counted' = recorded /\ awaited' = first
      /\ stage' = IF first = {} THEN "over" ELSE "reading"
      /\ UNCHANGED <<page, recorded, found, rows, failed>>
  BY DEF asksFor
<1>2. first = IF recorded = 0 THEN {} ELSE {1}
  BY <1>0, FirstCalls
<1> HIDE DEF first
<1>3. rows = <<>> /\ rows' = <<>> /\ found' = <<>>
  BY <1>1 DEF TablesInvariant, NothingYet
<1>4. Len(rows') = 0 /\ Len(found') = 0 /\ RowsOnce(rows') /\ rows' = upTo(0) /\ found' = upTo(0)
  <2>1. <<>> = upTo(0)
    BY DEF upTo
  <2>2. Len(rows') = 0 /\ Len(found') = 0
    BY <1>3
  <2> QED BY <1>3, <2>1, <2>2 DEF RowsOnce
<1>5. TablesTypeOK'
  BY <1>1 DEF TablesInvariant, TablesTypeOK
<1>6. NothingYet'
  BY <1>1, PagesApart DEF TablesInvariant, NothingYet
<1>7. ConcurrentRows'
  BY <1>1, PagesApart DEF ConcurrentRows
<1>8. InTurnRows'
  BY <1>0, <1>1, <1>2, <1>3, <1>4 DEF InTurnRows
<1>9. OneByOneRows'
  BY <1>0, <1>1, <1>2, <1>4 DEF OneByOneRows
<1> QED BY <1>4, <1>5, <1>6, <1>7, <1>8, <1>9 DEF TablesInvariant

LEMMA CountAnswered ==
  ASSUME TablesInvariant,
         \/ getMachineReadings \/ getMachineAlerts \/ getProcessInstances \/ getMachinesList
         \/ getProcessesList \/ getOperations \/ getProcessInfo \/ getMetrics
         \/ getMachineTasks \/ getProducts \/ getProductData
  PROVE  TablesInvariant'
<1>1. CASE \/ getMachineReadings \/ getMachineAlerts \/ getProcessInstances \/ getOperations
  <2>1. PICK p \in {"MachineReadings", "MachineAlerts", "ProcessInstances", "ProductOperations"} :
          asksFor(p, fromOne(recorded))
    BY <1>1 DEF getMachineReadings, getMachineAlerts, getProcessInstances, getOperations
  <2>2. p \in Concurrent /\ page = p
    BY <2>1 DEF Concurrent, asksFor
  <2>3. fromOne(recorded) = recordIDs(recorded)
    BY <2>1, <2>2 DEF recordIDs, fromOne
  <2> QED BY <2>1, <2>2, <2>3, AsksForAll
<1>2. CASE getMachinesList \/ getProcessesList
  <2>1. PICK p \in {"MachinesRegistry", "ProcessesRegistry"} : asksFor(p, fromZero(recorded))
    BY <1>2 DEF getMachinesList, getProcessesList
  <2>2. p \in Concurrent /\ page = p
    BY <2>1 DEF Concurrent, asksFor
  <2>3. fromZero(recorded) = recordIDs(recorded)
    BY <2>1, <2>2 DEF recordIDs, fromZero
  <2> QED BY <2>1, <2>2, <2>3, AsksForAll
<1>3. CASE getProcessInfo
  <2>1. asksFor("ProcessInfo", fromOne(4)) /\ page = "ProcessInfo"
    BY <1>3 DEF getProcessInfo, asksFor
  <2>2. recorded = 4
    BY <2>1 DEF TablesInvariant, NothingYet
  <2>3. fromOne(4) = recordIDs(recorded)
    BY <2>1, <2>2 DEF recordIDs, fromOne
  <2> QED BY <2>1, <2>3, AsksForAll, PagesApart
<1>4. CASE getMetrics
  <2>1. asksFor("MachineMetrics", fromOne(3)) /\ page = "MachineMetrics"
    BY <1>4 DEF getMetrics, asksFor
  <2>2. recorded = 3
    BY <2>1 DEF TablesInvariant, NothingYet
  <2>3. fromOne(3) = recordIDs(recorded)
    BY <2>1, <2>2 DEF recordIDs, fromOne
  <2> QED BY <2>1, <2>3, AsksForAll, PagesApart
<1>5. CASE getMachineTasks \/ getProducts \/ getProductData
  <2>1. PICK p \in {"MachineTasks", "Products", "Product"} : asksFor(p, nextOf(fromOne(recorded)))
    BY <1>5 DEF getMachineTasks, getProducts, getProductData
  <2>2. p \in (InTurn \cup OneByOne) \ {"MachineInfo"}
    BY DEF InTurn, OneByOne
  <2> QED BY <2>1, <2>2, AsksForTheFirst
<1> QED BY <1>1, <1>2, <1>3, <1>4, <1>5

\* The whole list in one answer, and the list that is not shown.
LEMMA ListAnswered ==
  ASSUME TablesInvariant, getAuthorizedParties \/ getMachineInfo
  PROVE  TablesInvariant'
<1>0. recorded \in Nat
  BY DEF TablesInvariant, TablesTypeOK
<1>1. /\ page \in InTurn /\ stage = "counting" /\ stage' = "over" /\ counted' = recorded
      /\ UNCHANGED <<page, recorded, awaited, found, failed>>
  BY PagesApart DEF getAuthorizedParties, getMachineInfo
<1>2. rows = <<>> /\ awaited = {}
  BY <1>1 DEF TablesInvariant, NothingYet
<1>3. \/ rows' = upTo(recorded)
      \/ page = "MachineInfo" /\ rows' = <<>>
  BY <1>2 DEF getAuthorizedParties, getMachineInfo, upTo, fromOne
<1>4. rows' \in Seq(Nat) /\ RowsOnce(rows')
  <2>1. CASE rows' = upTo(recorded)
    BY <1>0, <2>1, UpTo
  <2>2. CASE rows' = <<>>
    <3>1. Len(rows') = 0 /\ rows' \in Seq(Nat)
      BY <2>2
    <3> QED BY <3>1 DEF RowsOnce
  <2> QED BY <1>3, <2>1, <2>2
<1>5. TablesTypeOK' /\ NothingYet'
  BY <1>1, <1>2, <1>4, PagesApart DEF TablesInvariant, TablesTypeOK, NothingYet
<1>6. ConcurrentRows' /\ OneByOneRows'
  BY <1>1, PagesApart DEF ConcurrentRows, OneByOneRows
<1>7. InTurnRows'
  BY <1>1, <1>3 DEF InTurnRows
<1> QED BY <1>4, <1>5, <1>6, <1>7 DEF TablesInvariant

\* The answers to the calls for records.
LEMMA RowArrives ==
  ASSUME TablesInvariant, NEW id \in awaited, rowAdded(id) \/ rowMissed(id)
  PROVE  TablesInvariant'
<1>1. /\ page \in Concurrent /\ awaited' = awaited \ {id}
      /\ stage' = IF awaited = {id} THEN "over" ELSE stage
      /\ UNCHANGED <<page, recorded, counted, found>>
  BY DEF rowAdded, rowMissed
<1>2. /\ Shown \cup awaited \subseteq recordIDs(counted) /\ Shown \cap awaited = {}
      /\ ~failed /\ stage \in {"reading", "over"} => Shown \cup awaited = recordIDs(counted)
      /\ stage = "reading" /\ counted \in Nat /\ rows \in Seq(Nat) /\ RowsOnce(rows)
  BY <1>1 DEF TablesInvariant, ConcurrentRows, NothingYet, TablesTypeOK
<1>3. id \in Nat /\ id \notin Shown /\ recordIDs(counted)' = recordIDs(counted)
  BY <1>1, <1>2 DEF recordIDs
<1>4. CASE rowAdded(id)
  <2>1. rows' = Append(rows, id) /\ failed' = failed
    BY <1>4 DEF rowAdded
  <2>2. rows' \in Seq(Nat) /\ RowsOnce(rows') /\ Shown' = Shown \cup {id}
    BY <1>2, <1>3, <2>1, RowAdded
  <2>3. Shown' \cup awaited' = Shown \cup awaited /\ Shown' \cap awaited' = {}
    BY <1>1, <1>2, <2>2
  <2>4. ConcurrentRows'
    BY <1>2, <1>3, <2>1, <2>3 DEF ConcurrentRows
  <2>5. TablesTypeOK' /\ NothingYet'
    BY <1>1, <1>2, <2>1, <2>2, PagesApart DEF TablesInvariant, TablesTypeOK, NothingYet
  <2>6. InTurnRows' /\ OneByOneRows'
    BY <1>1, PagesApart DEF InTurnRows, OneByOneRows
  <2> QED BY <2>2, <2>4, <2>5, <2>6 DEF TablesInvariant
<1>5. CASE rowMissed(id)
  <2>1. rows' = rows /\ failed' = TRUE
    BY <1>5 DEF rowMissed
  <2>2. Shown' = Shown
    BY <2>1 DEF Shown
  <2>3. ConcurrentRows'
    BY <1>1, <1>2, <1>3, <2>1, <2>2 DEF ConcurrentRows
  <2>4. TablesTypeOK' /\ NothingYet'
    BY <1>1, <1>2, <2>1, PagesApart DEF TablesInvariant, TablesTypeOK, NothingYet
  <2>5. InTurnRows' /\ OneByOneRows'
    BY <1>1, PagesApart DEF InTurnRows, OneByOneRows
  <2> QED BY <1>2, <2>1, <2>3, <2>4, <2>5 DEF TablesInvariant
<1> QED BY <1>4, <1>5

LEMMA RecordArrives ==
  ASSUME TablesInvariant, NEW id \in awaited, recordRead(id)
  PROVE  TablesInvariant'
<1>1. /\ page \in InTurn /\ found' = Append(found, id) /\ awaited' = following(id)
      /\ \/ following(id) = {} /\ rows' = found' /\ stage' = "over"
         \/ following(id) # {} /\ rows' = rows /\ stage' = stage
      /\ UNCHANGED <<page, recorded, counted, failed>>
  BY DEF recordRead
<1>2. stage = "reading" /\ counted \in Nat /\ found \in Seq(Nat) /\ rows \in Seq(Nat)
  BY <1>1 DEF TablesInvariant, NothingYet, TablesTypeOK
<1>3. rows = <<>> /\ Len(found) < counted /\ found = upTo(Len(found)) /\ id = Len(found) + 1
  BY <1>1, <1>2 DEF TablesInvariant, InTurnRows
<1>4. Len(found) \in Nat /\ id \in 1 .. counted
  BY <1>2, <1>3, LenProperties
<1>5. found' = upTo(id) /\ found' \in Seq(Nat) /\ Len(found') = id /\ RowsOnce(found')
  BY <1>1, <1>2, <1>3, OneMore
<1>6. following(id) = IF id = counted THEN {} ELSE {id + 1}
  BY <1>2, <1>4, FirstCalls DEF following
<1>7. CASE id = counted
  <2>1. rows' = upTo(counted) /\ stage' = "over" /\ awaited' = {}
    BY <1>1, <1>5, <1>6, <1>7
  <2>2. TablesTypeOK' /\ NothingYet' /\ RowsOnce(rows')
    BY <1>1, <1>2, <1>5, <1>7, <2>1 DEF TablesInvariant, TablesTypeOK, NothingYet
  <2>3. InTurnRows'
    BY <1>1, <2>1 DEF InTurnRows
  <2>4. ConcurrentRows' /\ OneByOneRows'
    BY <1>1, PagesApart DEF ConcurrentRows, OneByOneRows
  <2> QED BY <2>2, <2>3, <2>4 DEF TablesInvariant
<1>8. CASE id # counted
  <2>0. following(id) = {id + 1} /\ id < counted
    BY <1>2, <1>4, <1>6, <1>8
  <2>1. rows' = rows /\ stage' = stage /\ awaited' = {id + 1} /\ id < counted
    <3>1. following(id) # {}
      BY <2>0
    <3> QED BY <1>1, <2>0, <3>1
  <2>2. TablesTypeOK' /\ NothingYet' /\ RowsOnce(rows')
    BY <1>1, <1>2, <1>5, <2>1 DEF TablesInvariant, TablesTypeOK, NothingYet
  <2>3. InTurnRows'
    BY <1>1, <1>2, <1>3, <1>5, <2>1 DEF InTurnRows
  <2>4. ConcurrentRows' /\ OneByOneRows'
    BY <1>1, PagesApart DEF ConcurrentRows, OneByOneRows
  <2> QED BY <2>2, <2>3, <2>4 DEF TablesInvariant
<1> QED BY <1>7, <1>8

LEMMA RecordArrivesAndIsShown ==
  ASSUME TablesInvariant, NEW id \in awaited, recordReadAndShown(id)
  PROVE  TablesInvariant'
<1>1. /\ page \in OneByOne /\ rows' = Append(rows, id) /\ awaited' = following(id)
      /\ stage' = IF following(id) = {} THEN "over" ELSE stage
      /\ UNCHANGED <<page, recorded, counted, found, failed>>
  BY DEF recordReadAndShown
<1>2. stage = "reading" /\ counted \in Nat /\ rows \in Seq(Nat)
  BY <1>1 DEF TablesInvariant, NothingYet, TablesTypeOK
<1>3. rows = upTo(Len(rows)) /\ Len(rows) < counted /\ id = Len(rows) + 1
  BY <1>1, <1>2 DEF TablesInvariant, OneByOneRows
<1>4. Len(rows) \in Nat /\ id \in 1 .. counted
  BY <1>2, <1>3, LenProperties
<1>5. rows' = upTo(id) /\ rows' \in Seq(Nat) /\ Len(rows') = id /\ RowsOnce(rows')
  BY <1>1, <1>2, <1>3, OneMore
<1>6. following(id) = IF id = counted THEN {} ELSE {id + 1}
  BY <1>2, <1>4, FirstCalls DEF following
<1>7. TablesTypeOK' /\ NothingYet'
  BY <1>1, <1>2, <1>5, <1>6 DEF TablesInvariant, TablesTypeOK, NothingYet
<1>8. OneByOneRows'
  BY <1>1, <1>2, <1>4, <1>5, <1>6 DEF OneByOneRows
<1>9. ConcurrentRows' /\ InTurnRows'
  BY <1>1, PagesApart DEF ConcurrentRows, InTurnRows
<1> QED BY <1>5, <1>7, <1>8, <1>9 DEF TablesInvariant

\* Failures, and the steps that answer no call for a record.
LEMMA OtherTablesSteps ==
  ASSUME TablesInvariant,
         \/ records \/ loadContract \/ initiateGetProductData \/ countFails
         \/ \E id \in awaited : recordMissed(id)
         \/ UNCHANGED tablesVars
  PROVE  TablesInvariant'
<1>1. /\ UNCHANGED <<page, counted, found, rows>>
      /\ recorded' \in Nat /\ (page \in Fixed => recorded' = recorded)
      /\ \/ UNCHANGED <<stage, awaited, failed>>
         \/ /\ stage = "loading" /\ awaited' = awaited /\ stage' \in {"counting", "error"}
            /\ failed' \in {failed, TRUE}
         \/ /\ stage = "counting" \/ page \in InTurn \cup OneByOne
            /\ stage' = "over" /\ failed' = TRUE
            /\ awaited' = {}
  <2>1. CASE countFails
    BY <2>1 DEF countFails, TablesInvariant, NothingYet, TablesTypeOK
  <2>2. CASE records
    BY <2>2 DEF records, TablesInvariant, TablesTypeOK
  <2>5. CASE loadContract \/ initiateGetProductData
    <3>1. /\ stage = "loading" /\ UNCHANGED <<page, recorded, counted, awaited, found, rows>>
          /\ stage' \in {"counting", "error"} /\ failed' \in {failed, TRUE}
      BY <2>5 DEF loadContract, initiateGetProductData
    <3> QED BY <3>1 DEF TablesInvariant, TablesTypeOK
  <2>3. CASE \E id \in awaited : recordMissed(id)
    BY <2>3 DEF recordMissed, TablesInvariant, TablesTypeOK
  <2>4. CASE UNCHANGED tablesVars
    BY <2>4 DEF tablesVars, TablesInvariant, TablesTypeOK
  <2> QED BY <2>1, <2>2, <2>3, <2>4, <2>5
<1>2. Shown' = Shown /\ recordIDs(counted)' = recordIDs(counted)
  BY <1>1 DEF Shown, recordIDs
<1>3. TablesTypeOK'
  BY <1>1 DEF TablesInvariant, TablesTypeOK
<1>4. NothingYet'
  BY <1>1 DEF TablesInvariant, NothingYet, Fixed
<1>5. CASE UNCHANGED <<stage, awaited, failed>>
  <2>1. ConcurrentRows'
    BY <1>1, <1>2, <1>5 DEF TablesInvariant, ConcurrentRows
  <2>2. InTurnRows'
    BY <1>1, <1>5 DEF TablesInvariant, InTurnRows
  <2>3. OneByOneRows'
    BY <1>1, <1>5 DEF TablesInvariant, OneByOneRows
  <2> QED BY <1>1, <1>3, <1>4, <2>1, <2>2, <2>3 DEF TablesInvariant
<1>6. CASE stage = "loading" /\ awaited' = awaited /\ stage' \in {"counting", "error"}
  <2>1. rows = <<>> /\ awaited = {} /\ counted = 0 /\ found = <<>>
    BY <1>6 DEF TablesInvariant, NothingYet
  <2>2. Shown = {} /\ rows = upTo(0) /\ Len(rows) = 0
    BY <2>1, NoRows
  <2>3. ConcurrentRows'
    BY <1>1, <1>2, <1>6, <2>1, <2>2 DEF ConcurrentRows
  <2>4. InTurnRows'
    BY <1>1, <1>6, <2>1 DEF InTurnRows
  <2>5. OneByOneRows'
    BY <1>1, <1>6, <2>1, <2>2 DEF OneByOneRows
  <2> QED BY <1>1, <1>3, <1>4, <2>3, <2>4, <2>5 DEF TablesInvariant
<1>7. CASE /\ stage = "counting" \/ page \in InTurn \cup OneByOne
           /\ stage' = "over" /\ failed' = TRUE
           /\ awaited' = {}
  <2>1. stage = "counting" => rows = <<>> /\ awaited = {}
    BY DEF TablesInvariant, NothingYet
  <2>2. rows = <<>> => Shown = {}
    BY NoRows
  <2>3. ConcurrentRows'
    BY <1>1, <1>2, <1>7, <2>1, <2>2, PagesApart DEF ConcurrentRows
  <2>4. InTurnRows'
    BY <1>1, <1>7 DEF TablesInvariant, InTurnRows
  <2>5. OneByOneRows'
    BY <1>1, <1>7 DEF TablesInvariant, OneByOneRows
  <2> QED BY <1>1, <1>3, <1>4, <2>3, <2>4, <2>5 DEF TablesInvariant
<1> QED BY <1>1, <1>5, <1>6, <1>7

LEMMA TablesStep == TablesInvariant /\ [TablesNext]_tablesVars => TablesInvariant'
BY CountAnswered, ListAnswered, RowArrives, RecordArrives, RecordArrivesAndIsShown, OtherTablesSteps
   DEF TablesNext

LEMMA TablesStart == TablesInit => TablesInvariant
<1> SUFFICES ASSUME TablesInit PROVE TablesInvariant
  OBVIOUS
<1>1. rows = <<>> /\ found = <<>> /\ counted = 0 /\ awaited = {} /\ stage \in {"counting", "loading"}
  BY DEF TablesInit
<1>2. Shown = {} /\ RowsOnce(rows) /\ rows = upTo(0) /\ Len(rows) = 0
  BY <1>1, NoRows
<1>3. TablesTypeOK
  <2>1. recorded \in Nat /\ failed \in BOOLEAN /\ page \in Pages
    BY DEF TablesInit
  <2>2. rows \in Seq(Nat) /\ found \in Seq(Nat) /\ awaited \subseteq Nat /\ counted \in Nat
    BY <1>1
  <2> QED BY <1>1, <2>1, <2>2 DEF TablesTypeOK
<1>5. NothingYet
  <2>1. page = "ProcessInfo" => recorded = 4
    BY DEF TablesInit
  <2>2. page = "MachineMetrics" => recorded = 3
    BY DEF TablesInit
  <2> QED BY <1>1, <2>1, <2>2 DEF NothingYet
<1>4. ConcurrentRows /\ InTurnRows /\ OneByOneRows
  BY <1>1, <1>2 DEF ConcurrentRows, InTurnRows, OneByOneRows
<1> QED BY <1>2, <1>3, <1>4, <1>5 DEF TablesInvariant

\* A table without a record twice has as many records as rows.
LEMMA RowsCounted ==
  ASSUME rows \in Seq(Nat), RowsOnce(rows)
  PROVE  Cardinality(Shown) = Len(rows)
<1>1. DOMAIN rows = 1 .. Len(rows) /\ Len(rows) \in Nat /\ rows \in [1 .. Len(rows) -> Nat]
  BY LenProperties
<1>2. rows \in Bijection(1 .. Len(rows), Shown)
  <2>1. rows \in [1 .. Len(rows) -> Shown]
    BY <1>1 DEF Shown
  <2> QED BY <1>1, <2>1 DEF Bijection, Injection, Surjection, IsInjective, RowsOnce, Shown
<1> QED BY <1>1, <1>2, FS_CountingElements DEF ExistsBijection

(***************************************************************************)
(* For any number of records, whatever is recorded meanwhile and whichever *)
(* calls fail (the pages of machine, process, product and registry): no    *)
(* row is twice or of no record, nothing counted is missing in the end     *)
(* when no call failed, and the lists shown at the end are shown whole.    *)
(***************************************************************************)
THEOREM TablesShowWhatWasCountedHolds == TablesSpec => []TablesShowWhatWasCounted
<1>1. TablesInvariant => TablesShowWhatWasCounted
  <2> SUFFICES ASSUME TablesInvariant PROVE TablesShowWhatWasCounted
    OBVIOUS
  <2>0. rows \in Seq(Nat) /\ RowsOnce(rows) /\ counted \in Nat /\ page \in Pages
    BY DEF TablesInvariant, TablesTypeOK
  <2>1. Cardinality(Shown) = Len(rows)
    BY <2>0, RowsCounted
  <2>2. page \in InTurn => rows = <<>> \/ rows = [i \in 1 .. counted |-> i]
    BY DEF TablesInvariant, InTurnRows, upTo
  <2>3. \A n \in Nat : rows = upTo(n) => Shown = 1 .. n
    <3> SUFFICES ASSUME NEW n \in Nat, rows = upTo(n) PROVE Shown = 1 .. n
      OBVIOUS
    <3>1. {upTo(n)[i] : i \in DOMAIN upTo(n)} = 1 .. n
      BY UpTo
    <3> QED BY <3>1 DEF Shown
  <2>4. CASE page \in Concurrent
    <3>1. stage = "over" => awaited = {}
      BY DEF TablesInvariant, NothingYet
    <3>2. page # "MachineInfo"
      BY <2>4, PagesApart
    <3> QED BY <2>1, <2>2, <2>4, <3>1, <3>2
            DEF TablesShowWhatWasCounted, TablesInvariant, ConcurrentRows
  <2>5. CASE page \in InTurn
    <3>1. recordIDs(counted) = 1 .. counted
      BY <2>5, PagesApart DEF recordIDs
    <3>2. Shown \subseteq recordIDs(counted)
      BY <2>0, <2>2, <2>3, <2>5, <3>1, NoRows DEF upTo
    <3>3. stage = "over" /\ ~failed /\ page # "MachineInfo" => Shown = recordIDs(counted)
      BY <2>0, <2>3, <2>5, <3>1 DEF TablesInvariant, InTurnRows
    <3> QED BY <2>1, <2>2, <3>2, <3>3 DEF TablesShowWhatWasCounted
  <2>6. CASE page \in OneByOne
    <3>1. recordIDs(counted) = 1 .. counted
      BY <2>6, PagesApart DEF recordIDs
    <3>2. Len(rows) \in Nat /\ Shown = 1 .. Len(rows) /\ Len(rows) <= counted
      BY <2>0, <2>3, <2>6, LenProperties DEF TablesInvariant, OneByOneRows
    <3>3. stage = "over" /\ ~failed => Len(rows) = counted
      BY <2>6 DEF TablesInvariant, OneByOneRows
    <3>4. Shown \subseteq recordIDs(counted)
      BY <2>0, <3>1, <3>2
    <3> QED BY <2>1, <2>2, <3>1, <3>2, <3>3, <3>4 DEF TablesShowWhatWasCounted
  <2> QED BY <2>0, <2>4, <2>5, <2>6 DEF Pages
<1> QED BY TablesStart, TablesStep, <1>1, PTL DEF TablesSpec

----
(***************************************************************************)
(* The live table and the explorer of events, for any contracts.  Of one   *)
(* subscription, with the blocks bs, the rows rs and the blocks under way  *)
(* the table's property is inductive with the types: what is under way is  *)
(* of the subscription's kind, and newer than all its rows.                *)
(***************************************************************************)
EventKinds == MachineKinds \cup ProcessKinds

Block == [emitter : Emitter, kind : EventKinds]

Of(e, k) == [emitter |-> e, kind |-> k]

IsTold(b, rs, way) == (\E i \in 1 .. Len(rs) : rs[i] = b) \/ (\E i \in 1 .. Len(way) : way[i] = b)

OnChain(bs, rs, way, r) ==
  /\ bs \in Seq(Block) /\ rs \in Seq(Nat) /\ way \in Seq(Nat)
  /\ \A i \in 1 .. Len(rs) : rs[i] \in 1 .. Len(bs)
  /\ \A i \in 1 .. Len(way) : way[i] \in 1 .. Len(bs) /\ bs[way[i]] = r

NewestFirst(bs, rs, way, r) ==
  /\ \A i, j \in 1 .. Len(rs) : i < j /\ bs[rs[i]] = r /\ bs[rs[j]] = r => rs[i] > rs[j]
  /\ \A i \in 1 .. Len(way) : \A j \in 1 .. Len(rs) : bs[rs[j]] = r => way[i] > rs[j]
  /\ \A i, j \in 1 .. Len(way) : i < j => way[i] < way[j]

NoneMissing(bs, rs, way, r) ==
  \A c, b \in 1 .. Len(bs) :
    c <= b /\ bs[c] = r /\ bs[b] = r /\ IsTold(c, rs, way) => IsTold(b, rs, way)

Follows(bs, rs, way, r) ==
  OnChain(bs, rs, way, r) /\ NewestFirst(bs, rs, way, r) /\ NoneMissing(bs, rs, way, r)

Unheard(bs, rs, way, r) == way = <<>> /\ \A i \in 1 .. Len(rs) : bs[rs[i]] # r

\* Blocks that were there stay.
LEMMA BlocksStay ==
  ASSUME NEW bs \in Seq(Block), NEW x \in Block
  PROVE  /\ Append(bs, x) \in Seq(Block) /\ Len(Append(bs, x)) = Len(bs) + 1 /\ Len(bs) \in Nat
         /\ \A b \in 1 .. Len(bs) : Append(bs, x)[b] = bs[b]
         /\ Append(bs, x)[Len(bs) + 1] = x
OBVIOUS

\* An event of another kind, or of a subscription that was not made.
LEMMA EventOfOthers ==
  ASSUME NEW bs, NEW rs, NEW way, NEW r, NEW x \in Block, Follows(bs, rs, way, r),
         x # r \/ Unheard(bs, rs, way, r)
  PROVE  /\ Follows(Append(bs, x), rs, way, r)
         /\ Unheard(bs, rs, way, r) => Unheard(Append(bs, x), rs, way, r)
<1> DEFINE cs == Append(bs, x)
<1>1. /\ cs \in Seq(Block) /\ Len(cs) = Len(bs) + 1 /\ Len(bs) \in Nat
      /\ \A b \in 1 .. Len(bs) : cs[b] = bs[b]
      /\ cs[Len(bs) + 1] = x
  BY BlocksStay DEF Follows, OnChain
<1> HIDE DEF cs
<1>2. OnChain(bs, rs, way, r)
  BY DEF Follows
<1>3. \A i \in 1 .. Len(rs) : rs[i] \in 1 .. Len(bs) /\ cs[rs[i]] = bs[rs[i]] /\ rs[i] \in 1 .. Len(cs)
  BY <1>1, <1>2 DEF OnChain
<1>4. \A i \in 1 .. Len(way) : way[i] \in 1 .. Len(cs) /\ cs[way[i]] = r
  BY <1>1, <1>2 DEF OnChain
<1>5. OnChain(cs, rs, way, r)
  BY <1>1, <1>2, <1>3, <1>4 DEF OnChain
<1>6. NewestFirst(cs, rs, way, r)
  BY <1>3 DEF Follows, NewestFirst
<1>7. NoneMissing(cs, rs, way, r)
  <2> SUFFICES ASSUME NEW c \in 1 .. Len(cs), NEW b \in 1 .. Len(cs),
                      c <= b, cs[c] = r, cs[b] = r, IsTold(c, rs, way)
               PROVE  IsTold(b, rs, way)
    BY DEF NoneMissing
  <2>1. c \in 1 .. Len(bs)
    BY <1>2 DEF IsTold, OnChain
  <2>2. ~Unheard(bs, rs, way, r)
    BY <1>1, <2>1 DEF IsTold, Unheard
  <2>3. b \in 1 .. Len(bs)
    BY <1>1, <2>2
  <2> QED BY <1>1, <2>1, <2>3 DEF Follows, NoneMissing
<1>8. Unheard(bs, rs, way, r) => Unheard(cs, rs, way, r)
  BY <1>3 DEF Unheard
<1> QED BY <1>5, <1>6, <1>7, <1>8 DEF Follows, cs

\* An event of the subscription goes on its way.
LEMMA EventSent ==
  ASSUME NEW bs, NEW rs, NEW way, NEW r \in Block, Follows(bs, rs, way, r)
  PROVE  Follows(Append(bs, r), rs, Append(way, Len(bs) + 1), r)
<1> DEFINE cs == Append(bs, r)
           on == Append(way, Len(bs) + 1)
<1>1. /\ cs \in Seq(Block) /\ Len(cs) = Len(bs) + 1 /\ Len(bs) \in Nat
      /\ \A b \in 1 .. Len(bs) : cs[b] = bs[b]
      /\ cs[Len(bs) + 1] = r
  BY BlocksStay DEF Follows, OnChain
<1>2. OnChain(bs, rs, way, r)
  BY DEF Follows
<1>3. /\ on \in Seq(Nat) /\ Len(on) = Len(way) + 1 /\ Len(way) \in Nat
      /\ \A i \in 1 .. Len(way) : on[i] = way[i]
      /\ on[Len(way) + 1] = Len(bs) + 1
  BY <1>1, <1>2 DEF OnChain
<1> HIDE DEF cs, on
<1>4. \A i \in 1 .. Len(rs) : rs[i] \in 1 .. Len(bs) /\ cs[rs[i]] = bs[rs[i]] /\ rs[i] \in 1 .. Len(cs)
  BY <1>1, <1>2 DEF OnChain
<1>5. \A i \in 1 .. Len(on) : IF i <= Len(way) THEN on[i] = way[i] /\ i \in 1 .. Len(way)
                                               ELSE on[i] = Len(bs) + 1 /\ i = Len(way) + 1
  BY <1>3
<1>6. \A i \in 1 .. Len(on) : on[i] \in 1 .. Len(cs) /\ cs[on[i]] = r
  <2> TAKE i \in 1 .. Len(on)
  <2>1. CASE i <= Len(way)
    <3>1. i \in 1 .. Len(way) /\ on[i] = way[i]
      BY <1>5, <2>1
    <3>2. on[i] \in 1 .. Len(bs) /\ bs[on[i]] = r
      BY <1>2, <3>1 DEF OnChain
    <3> QED BY <1>1, <3>2
  <2>2. CASE ~(i <= Len(way))
    <3>1. on[i] = Len(bs) + 1
      BY <1>5, <2>2
    <3> QED BY <1>1, <3>1
  <2> QED BY <2>1, <2>2
<1>7. OnChain(cs, rs, on, r)
  BY <1>1, <1>2, <1>3, <1>4, <1>6 DEF OnChain
<1>8. NewestFirst(cs, rs, on, r)
  <2>1. \A i, j \in 1 .. Len(rs) : i < j /\ cs[rs[i]] = r /\ cs[rs[j]] = r => rs[i] > rs[j]
    BY <1>4 DEF Follows, NewestFirst
  <2>2. \A i \in 1 .. Len(on) : \A j \in 1 .. Len(rs) : cs[rs[j]] = r => on[i] > rs[j]
    <3> TAKE i \in 1 .. Len(on)
    <3> TAKE j \in 1 .. Len(rs)
    <3> HAVE cs[rs[j]] = r
    <3>1. rs[j] \in 1 .. Len(bs) /\ bs[rs[j]] = r
      BY <1>4
    <3>2. CASE i <= Len(way)
      <4>1. i \in 1 .. Len(way) /\ on[i] = way[i]
        BY <1>5, <3>2
      <4> QED BY <3>1, <4>1 DEF Follows, NewestFirst
    <3>3. CASE ~(i <= Len(way))
      <4>1. on[i] = Len(bs) + 1
        BY <1>5, <3>3
      <4> QED BY <1>1, <3>1, <4>1
    <3> QED BY <3>2, <3>3
  <2>3. \A i \in 1 .. Len(way) : way[i] < Len(bs) + 1
    BY <1>1, <1>2 DEF OnChain
  <2>4. \A i, j \in 1 .. Len(on) : i < j => on[i] < on[j]
    BY <1>3, <1>5, <2>3 DEF Follows, NewestFirst
  <2> QED BY <2>1, <2>2, <2>4 DEF NewestFirst
<1>9. NoneMissing(cs, rs, on, r)
  <2> SUFFICES ASSUME NEW c \in 1 .. Len(cs), NEW b \in 1 .. Len(cs),
                      c <= b, cs[c] = r, cs[b] = r, IsTold(c, rs, on)
               PROVE  IsTold(b, rs, on)
    BY DEF NoneMissing
  <2>1. IsTold(Len(bs) + 1, rs, on)
    <3>1. Len(way) + 1 \in 1 .. Len(on)
      BY <1>3
    <3> QED BY <1>3, <3>1 DEF IsTold
  <2>2. CASE b = Len(bs) + 1
    BY <2>1, <2>2
  <2>3. CASE b # Len(bs) + 1
    <3>1. b \in 1 .. Len(bs) /\ c \in 1 .. Len(bs)
      BY <1>1, <2>3
    <3>2. IsTold(c, rs, way)
      BY <1>1, <1>5, <3>1 DEF IsTold
    <3>3. IsTold(b, rs, way)
      BY <1>1, <3>1, <3>2 DEF Follows, NoneMissing
    <3>4. \A i \in 1 .. Len(way) : i \in 1 .. Len(on) /\ on[i] = way[i]
      BY <1>3
    <3> QED BY <3>3, <3>4 DEF IsTold
  <2> QED BY <2>2, <2>3
<1> QED BY <1>7, <1>8, <1>9 DEF Follows, cs, on

\* A row on top of the others.
LEMMA RowOnTop ==
  ASSUME NEW rs \in Seq(Nat), NEW y \in Nat
  PROVE  /\ <<y>> \o rs \in Seq(Nat) /\ Len(<<y>> \o rs) = Len(rs) + 1 /\ Len(rs) \in Nat
         /\ (<<y>> \o rs)[1] = y
         /\ \A i \in 1 .. Len(rs) : (<<y>> \o rs)[i + 1] = rs[i]
         /\ \A i \in 1 .. Len(rs) + 1 :
              i = 1 \/ (i - 1 \in 1 .. Len(rs) /\ (<<y>> \o rs)[i] = rs[i - 1])
OBVIOUS

\* An event of another subscription arrives.
LEMMA RowOfOthers ==
  ASSUME NEW bs, NEW rs, NEW way, NEW r, Follows(bs, rs, way, r),
         NEW y \in 1 .. Len(bs), bs[y] # r
  PROVE  /\ Follows(bs, <<y>> \o rs, way, r)
         /\ Unheard(bs, rs, way, r) => Unheard(bs, <<y>> \o rs, way, r)
<1> DEFINE ts == <<y>> \o rs
<1>1. OnChain(bs, rs, way, r) /\ y \in Nat
  BY DEF Follows, OnChain
<1>2. /\ ts \in Seq(Nat) /\ Len(ts) = Len(rs) + 1 /\ Len(rs) \in Nat /\ ts[1] = y
      /\ \A i \in 1 .. Len(rs) : ts[i + 1] = rs[i]
      /\ \A i \in 1 .. Len(ts) : i = 1 \/ (i - 1 \in 1 .. Len(rs) /\ ts[i] = rs[i - 1])
  BY <1>1, RowOnTop DEF OnChain
<1> HIDE DEF ts
<1>3. OnChain(bs, ts, way, r)
  <2>1. \A i \in 1 .. Len(ts) : ts[i] \in 1 .. Len(bs)
    BY <1>1, <1>2 DEF OnChain
  <2> QED BY <1>1, <1>2, <2>1 DEF OnChain
<1>4. \A i \in 1 .. Len(ts) : bs[ts[i]] = r => i - 1 \in 1 .. Len(rs) /\ ts[i] = rs[i - 1]
  BY <1>2
<1>5. NewestFirst(bs, ts, way, r)
  <2>1. \A i, j \in 1 .. Len(ts) : i < j /\ bs[ts[i]] = r /\ bs[ts[j]] = r => ts[i] > ts[j]
    <3> TAKE i, j \in 1 .. Len(ts)
    <3> HAVE i < j /\ bs[ts[i]] = r /\ bs[ts[j]] = r
    <3>1. i - 1 \in 1 .. Len(rs) /\ ts[i] = rs[i - 1] /\ j - 1 \in 1 .. Len(rs) /\ ts[j] = rs[j - 1]
      BY <1>4
    <3>2. i - 1 < j - 1
      OBVIOUS
    <3> QED BY <3>1, <3>2 DEF Follows, NewestFirst
  <2>2. \A i \in 1 .. Len(way) : \A j \in 1 .. Len(ts) : bs[ts[j]] = r => way[i] > ts[j]
    <3> TAKE i \in 1 .. Len(way)
    <3> TAKE j \in 1 .. Len(ts)
    <3> HAVE bs[ts[j]] = r
    <3>1. j - 1 \in 1 .. Len(rs) /\ ts[j] = rs[j - 1]
      BY <1>4
    <3> QED BY <3>1 DEF Follows, NewestFirst
  <2> QED BY <2>1, <2>2 DEF Follows, NewestFirst
<1>6. NoneMissing(bs, ts, way, r)
  <2> SUFFICES ASSUME NEW c \in 1 .. Len(bs), NEW b \in 1 .. Len(bs),
                      c <= b, bs[c] = r, bs[b] = r, IsTold(c, ts, way)
               PROVE  IsTold(b, ts, way)
    BY DEF NoneMissing
  <2>1. IsTold(c, rs, way)
    BY <1>4 DEF IsTold
  <2>2. IsTold(b, rs, way)
    BY <2>1 DEF Follows, NoneMissing
  <2>3. \A i \in 1 .. Len(rs) : i + 1 \in 1 .. Len(ts) /\ ts[i + 1] = rs[i]
    BY <1>2
  <2> QED BY <2>2, <2>3 DEF IsTold
<1>7. Unheard(bs, rs, way, r) => Unheard(bs, ts, way, r)
  BY <1>4 DEF Unheard
<1> QED BY <1>3, <1>5, <1>6, <1>7 DEF Follows, ts

\* The oldest event under way arrives.
LEMMA EventArrives ==
  ASSUME NEW bs, NEW rs, NEW way, NEW r, Follows(bs, rs, way, r), way # <<>>
  PROVE  Follows(bs, <<Head(way)>> \o rs, Tail(way), r)
<1> DEFINE y == Head(way)
           ts == <<y>> \o rs
           on == Tail(way)
<1>1. OnChain(bs, rs, way, r)
  BY DEF Follows
<1>2. /\ on \in Seq(Nat) /\ Len(on) = Len(way) - 1 /\ Len(way) \in Nat /\ Len(way) > 0
      /\ 1 \in 1 .. Len(way) /\ y = way[1] /\ y \in Nat
      /\ \A i \in 1 .. Len(on) : on[i] = way[i + 1] /\ i + 1 \in 1 .. Len(way) /\ 1 < i + 1
  BY <1>1 DEF OnChain
<1>3. /\ ts \in Seq(Nat) /\ Len(ts) = Len(rs) + 1 /\ Len(rs) \in Nat /\ ts[1] = y
      /\ \A i \in 1 .. Len(rs) : ts[i + 1] = rs[i]
      /\ \A i \in 1 .. Len(ts) : i = 1 \/ (i - 1 \in 1 .. Len(rs) /\ ts[i] = rs[i - 1])
  BY <1>1, <1>2, RowOnTop DEF OnChain
<1> HIDE DEF ts, on, y
<1>4. OnChain(bs, ts, on, r)
  <2>1. \A i \in 1 .. Len(ts) : ts[i] \in 1 .. Len(bs)
    BY <1>1, <1>2, <1>3 DEF OnChain
  <2>2. \A i \in 1 .. Len(on) : on[i] \in 1 .. Len(bs) /\ bs[on[i]] = r
    BY <1>1, <1>2 DEF OnChain
  <2> QED BY <1>1, <1>2, <1>3, <2>1, <2>2 DEF OnChain
<1>5. NewestFirst(bs, ts, on, r)
  <2>1. \A j \in 1 .. Len(rs) : bs[rs[j]] = r => y > rs[j]
    BY <1>2 DEF Follows, NewestFirst
  <2>2. \A i, j \in 1 .. Len(ts) : i < j /\ bs[ts[i]] = r /\ bs[ts[j]] = r => ts[i] > ts[j]
    <3> TAKE i, j \in 1 .. Len(ts)
    <3> HAVE i < j /\ bs[ts[i]] = r /\ bs[ts[j]] = r
    <3>1. j - 1 \in 1 .. Len(rs) /\ ts[j] = rs[j - 1]
      BY <1>3
    <3>2. CASE i = 1
      BY <1>3, <2>1, <3>1, <3>2
    <3>3. CASE i # 1
      <4>1. i - 1 \in 1 .. Len(rs) /\ ts[i] = rs[i - 1] /\ i - 1 < j - 1
        BY <1>3, <3>3
      <4> QED BY <3>1, <4>1 DEF Follows, NewestFirst
    <3> QED BY <3>2, <3>3
  <2>3. \A i \in 1 .. Len(on) : \A j \in 1 .. Len(ts) : bs[ts[j]] = r => on[i] > ts[j]
    <3> TAKE i \in 1 .. Len(on)
    <3> TAKE j \in 1 .. Len(ts)
    <3> HAVE bs[ts[j]] = r
    <3>1. on[i] = way[i + 1] /\ i + 1 \in 1 .. Len(way) /\ 1 < i + 1
      BY <1>2
    <3>2. CASE j = 1
      <4>1. y < way[i + 1]
        BY <1>2, <3>1 DEF Follows, NewestFirst
      <4>2. y \in Int /\ way[i + 1] \in Int
        BY <1>1, <1>2, <3>1 DEF OnChain
      <4> QED BY <1>3, <3>1, <3>2, <4>1, <4>2
    <3>3. CASE j # 1
      <4>1. j - 1 \in 1 .. Len(rs) /\ ts[j] = rs[j - 1]
        BY <1>3, <3>3
      <4> QED BY <3>1, <4>1 DEF Follows, NewestFirst
    <3> QED BY <3>2, <3>3
  <2>4. \A i, j \in 1 .. Len(on) : i < j => on[i] < on[j]
    <3> TAKE i, j \in 1 .. Len(on)
    <3> HAVE i < j
    <3>1. on[i] = way[i + 1] /\ i + 1 \in 1 .. Len(way) /\ on[j] = way[j + 1] /\ j + 1 \in 1 .. Len(way)
          /\ i + 1 < j + 1
      BY <1>2
    <3> QED BY <3>1 DEF Follows, NewestFirst
  <2> QED BY <2>2, <2>3, <2>4 DEF NewestFirst
<1>6. \A b : IsTold(b, ts, on) <=> IsTold(b, rs, way)
  <2> TAKE b
  <2>1. ASSUME IsTold(b, ts, on) PROVE IsTold(b, rs, way)
    <3>1. CASE \E i \in 1 .. Len(ts) : ts[i] = b
      BY <1>2, <1>3, <3>1 DEF IsTold
    <3>2. CASE \E i \in 1 .. Len(on) : on[i] = b
      BY <1>2, <3>2 DEF IsTold
    <3> QED BY <2>1, <3>1, <3>2 DEF IsTold
  <2>2. ASSUME IsTold(b, rs, way) PROVE IsTold(b, ts, on)
    <3>1. CASE \E i \in 1 .. Len(rs) : rs[i] = b
      <4>1. \A i \in 1 .. Len(rs) : i + 1 \in 1 .. Len(ts) /\ ts[i + 1] = rs[i]
        BY <1>3
      <4> QED BY <3>1, <4>1 DEF IsTold
    <3>2. ASSUME NEW i \in 1 .. Len(way), way[i] = b PROVE IsTold(b, ts, on)
      <4>1. CASE i = 1
        <5>1. 1 \in 1 .. Len(ts) /\ ts[1] = b
          BY <1>2, <1>3, <3>2, <4>1
        <5> QED BY <5>1 DEF IsTold
      <4>2. CASE i # 1
        <5>1. i - 1 \in 1 .. Len(on) /\ (i - 1) + 1 = i
          BY <1>2, <4>2
        <5>2. on[i - 1] = b
          BY <1>2, <3>2, <5>1
        <5> QED BY <5>1, <5>2 DEF IsTold
      <4> QED BY <4>1, <4>2
    <3> QED BY <2>2, <3>1, <3>2 DEF IsTold
  <2> QED BY <2>1, <2>2
<1>7. NoneMissing(bs, ts, on, r)
  BY <1>6 DEF Follows, NoneMissing
<1> QED BY <1>4, <1>5, <1>7 DEF Follows, ts, on, y

\* What is shown of a subscription is what its events bring, and the explorer's rows
\* are blocks of the chain.
EventsTypeOK ==
  /\ blocks \in Seq(Block)
  /\ liveRows \in Seq(Nat)
  /\ coming \in [Emitter -> [EventKinds -> Seq(Nat)]]
  /\ choice \in [contract : SUBSET Emitter, kinds : SUBSET EventKinds, fromBlock : Nat]
  /\ searching \subseteq [emitter : Emitter, kind : EventKinds, range : Nat]

SubscriptionsFollow ==
  \A e \in Emitter : \A k \in EventKinds :
    /\ Follows(blocks, liveRows, coming[e][k], Of(e, k))
    /\ <<e, k>> \notin subscribed => Unheard(blocks, liveRows, coming[e][k], Of(e, k))

FoundAreBlocks ==
  /\ foundRows \in Seq(Nat)
  /\ \A i \in 1 .. Len(foundRows) : foundRows[i] \in 1 .. Len(blocks)

EventsInvariant == EventsTypeOK /\ SubscriptionsFollow /\ FoundAreBlocks /\ FoundRowsAreOneAnswer

\* Every contract emits known kinds.
LEMMA KindsAreKinds == \A e \in Emitter : kindsOf(e) \subseteq EventKinds
BY DEF kindsOf, EventKinds

\* An empty chain and empty tables.
LEMMA EventsStart == EventsInit => EventsInvariant
<1> SUFFICES ASSUME EventsInit PROVE EventsInvariant
  OBVIOUS
<1>1. EventsTypeOK
  BY DEF EventsInit, EventsTypeOK, EventKinds
<1>2. SubscriptionsFollow
  <2> SUFFICES ASSUME NEW e \in Emitter, NEW k \in EventKinds
               PROVE  Follows(<<>>, <<>>, <<>>, Of(e, k)) /\ Unheard(<<>>, <<>>, <<>>, Of(e, k))
    BY DEF EventsInit, SubscriptionsFollow, EventKinds
  <2> QED BY DEF Follows, OnChain, NewestFirst, NoneMissing, Unheard
<1>3. FoundAreBlocks /\ FoundRowsAreOneAnswer
  BY DEF EventsInit, FoundAreBlocks, FoundRowsAreOneAnswer
<1> QED BY <1>1, <1>2, <1>3 DEF EventsInvariant

\* The explorer's table when the chain grows.
LEMMA FoundStays ==
  ASSUME EventsInvariant, NEW x \in Block, blocks' = Append(blocks, x), UNCHANGED foundRows
  PROVE  FoundAreBlocks' /\ FoundRowsAreOneAnswer'
<1>1. /\ Len(blocks') = Len(blocks) + 1 /\ Len(blocks) \in Nat
      /\ \A b \in 1 .. Len(blocks) : blocks'[b] = blocks[b]
  BY BlocksStay DEF EventsInvariant, EventsTypeOK
<1>2. foundRows \in Seq(Nat) /\ \A i \in 1 .. Len(foundRows) : foundRows[i] \in 1 .. Len(blocks)
  BY DEF EventsInvariant, FoundAreBlocks
<1>3. FoundAreBlocks'
  BY <1>1, <1>2 DEF FoundAreBlocks
<1>4. FoundRowsAreOneAnswer'
  <2> SUFFICES ASSUME NEW i \in 1 .. Len(foundRows) - 1
               PROVE  /\ foundRows[i] < foundRows[i + 1]
                      /\ blocks'[foundRows[i]] = blocks'[foundRows[i + 1]]
                      /\ \A between \in foundRows[i] + 1 .. foundRows[i + 1] - 1 :
                           blocks'[between] # blocks'[foundRows[i]]
    BY DEF FoundRowsAreOneAnswer
  <2>1. /\ foundRows[i] < foundRows[i + 1]
        /\ blocks[foundRows[i]] = blocks[foundRows[i + 1]]
        /\ \A between \in foundRows[i] + 1 .. foundRows[i + 1] - 1 :
             blocks[between] # blocks[foundRows[i]]
    BY DEF EventsInvariant, FoundRowsAreOneAnswer
  <2>2. foundRows[i] \in 1 .. Len(blocks) /\ foundRows[i + 1] \in 1 .. Len(blocks)
    BY <1>2
  <2>3. \A between \in foundRows[i] + 1 .. foundRows[i + 1] - 1 : between \in 1 .. Len(blocks)
    BY <1>1, <2>2
  <2> QED BY <1>1, <2>1, <2>2, <2>3
<1> QED BY <1>3, <1>4

\* A contract emits an event.
LEMMA EmitsStep ==
  ASSUME EventsInvariant, NEW e \in Emitter, NEW k \in EventKinds, emits(e, k)
  PROVE  EventsInvariant'
<1> DEFINE x == Of(e, k)
<1>1. x \in Block /\ blocks' = Append(blocks, x) /\ UNCHANGED <<subscribed, liveRows, explorerVars>>
  BY DEF emits, Of, Block
<1>2. blocks' \in Seq(Block) /\ blocks \in Seq(Block) /\ Len(blocks) + 1 \in Nat
  BY <1>1 DEF EventsInvariant, EventsTypeOK
<1>3. /\ coming \in [Emitter -> [EventKinds -> Seq(Nat)]]
      /\ coming' \in [Emitter -> [EventKinds -> Seq(Nat)]]
      /\ \A f \in Emitter : \A l \in EventKinds :
           coming'[f][l] = IF f = e /\ l = k /\ <<e, k>> \in subscribed
                             THEN Append(coming[f][l], Len(blocks) + 1) ELSE coming[f][l]
  <2>1. coming \in [Emitter -> [EventKinds -> Seq(Nat)]]
    BY DEF EventsInvariant, EventsTypeOK
  <2>2. CASE <<e, k>> \in subscribed
    <3>1. Append(coming[e][k], Len(blocks) + 1) \in Seq(Nat)
      BY <1>2, <2>1
    <3>2. coming' = [coming EXCEPT ![e][k] = Append(coming[e][k], Len(blocks) + 1)]
      BY <2>2 DEF emits
    <3> QED BY <2>1, <2>2, <3>1, <3>2
  <2>3. CASE <<e, k>> \notin subscribed
    BY <2>1, <2>3 DEF emits
  <2> QED BY <2>1, <2>2, <2>3
<1>4. EventsTypeOK'
  BY <1>1, <1>2, <1>3 DEF EventsInvariant, EventsTypeOK, explorerVars
<1>5. SubscriptionsFollow'
  <2> SUFFICES ASSUME NEW f \in Emitter, NEW l \in EventKinds
               PROVE  /\ Follows(blocks', liveRows, coming'[f][l], Of(f, l))
                      /\ <<f, l>> \notin subscribed => Unheard(blocks', liveRows, coming'[f][l], Of(f, l))
    BY <1>1 DEF SubscriptionsFollow
  <2>1. /\ Follows(blocks, liveRows, coming[f][l], Of(f, l))
        /\ <<f, l>> \notin subscribed => Unheard(blocks, liveRows, coming[f][l], Of(f, l))
    BY DEF EventsInvariant, SubscriptionsFollow
  <2>2. CASE f = e /\ l = k /\ <<e, k>> \in subscribed
    <3>1. Follows(Append(blocks, x), liveRows, Append(coming[f][l], Len(blocks) + 1), x)
      BY <1>1, <2>1, <2>2, EventSent
    <3> QED BY <1>1, <1>3, <2>2, <3>1
  <2>3. CASE ~(f = e /\ l = k /\ <<e, k>> \in subscribed)
    <3>1. x # Of(f, l) \/ Unheard(blocks, liveRows, coming[f][l], Of(f, l))
      BY <2>1, <2>3 DEF Of
    <3>2. /\ Follows(Append(blocks, x), liveRows, coming[f][l], Of(f, l))
          /\ Unheard(blocks, liveRows, coming[f][l], Of(f, l)) =>
               Unheard(Append(blocks, x), liveRows, coming[f][l], Of(f, l))
      BY <1>1, <2>1, <3>1, EventOfOthers
    <3>3. coming'[f][l] = coming[f][l]
      BY <1>3, <2>3
    <3> QED BY <1>1, <2>1, <3>2, <3>3
  <2> QED BY <2>2, <2>3
<1>6. FoundAreBlocks' /\ FoundRowsAreOneAnswer'
  BY <1>1, FoundStays DEF explorerVars
<1> QED BY <1>4, <1>5, <1>6 DEF EventsInvariant

\* The live table gets a row.
LEMMA ArrivesStep ==
  ASSUME EventsInvariant, NEW e \in Emitter, NEW k \in EventKinds, onNewEvent(e, k)
  PROVE  EventsInvariant'
<1> DEFINE way == coming[e][k]
           y == Head(way)
<1>1. /\ way # <<>> /\ liveRows' = <<y>> \o liveRows /\ coming' = [coming EXCEPT ![e][k] = Tail(way)]
      /\ UNCHANGED <<blocks, subscribed, explorerVars>>
  BY DEF onNewEvent
<1>2. /\ coming \in [Emitter -> [EventKinds -> Seq(Nat)]] /\ way \in Seq(Nat)
      /\ liveRows \in Seq(Nat) /\ blocks \in Seq(Block)
  BY DEF EventsInvariant, EventsTypeOK
<1>3. y \in 1 .. Len(blocks) /\ blocks[y] = Of(e, k) /\ y \in Nat
  <2>1. OnChain(blocks, liveRows, way, Of(e, k))
    BY DEF EventsInvariant, SubscriptionsFollow, Follows
  <2>2. 1 \in 1 .. Len(way) /\ y = way[1]
    BY <1>1, <1>2
  <2> QED BY <2>1, <2>2 DEF OnChain
<1>4. /\ coming' \in [Emitter -> [EventKinds -> Seq(Nat)]]
      /\ \A f \in Emitter : \A l \in EventKinds :
           coming'[f][l] = IF f = e /\ l = k THEN Tail(way) ELSE coming[f][l]
  <2>1. Tail(way) \in Seq(Nat)
    BY <1>1, <1>2
  <2> HIDE DEF way
  <2> QED BY <1>1, <1>2, <2>1
<1>5. EventsTypeOK'
  <2>1. liveRows' \in Seq(Nat)
    BY <1>1, <1>2, <1>3, RowOnTop
  <2> QED BY <1>1, <1>4, <2>1 DEF EventsInvariant, EventsTypeOK, explorerVars
<1>6. SubscriptionsFollow'
  <2> SUFFICES ASSUME NEW f \in Emitter, NEW l \in EventKinds
               PROVE  /\ Follows(blocks, liveRows', coming'[f][l], Of(f, l))
                      /\ <<f, l>> \notin subscribed => Unheard(blocks, liveRows', coming'[f][l], Of(f, l))
    BY <1>1 DEF SubscriptionsFollow
  <2>1. /\ Follows(blocks, liveRows, coming[f][l], Of(f, l))
        /\ <<f, l>> \notin subscribed => Unheard(blocks, liveRows, coming[f][l], Of(f, l))
    BY DEF EventsInvariant, SubscriptionsFollow
  <2>2. CASE f = e /\ l = k
    <3>1. Follows(blocks, <<y>> \o liveRows, Tail(way), Of(f, l))
      BY <1>1, <2>1, <2>2, EventArrives
    <3>2. <<f, l>> \in subscribed
      BY <1>1, <2>1, <2>2 DEF Unheard
    <3> QED BY <1>1, <1>4, <2>2, <3>1, <3>2
  <2>3. CASE ~(f = e /\ l = k)
    <3>1. blocks[y] # Of(f, l)
      BY <1>3, <2>3 DEF Of
    <3>2. /\ Follows(blocks, <<y>> \o liveRows, coming[f][l], Of(f, l))
          /\ Unheard(blocks, liveRows, coming[f][l], Of(f, l)) =>
               Unheard(blocks, <<y>> \o liveRows, coming[f][l], Of(f, l))
      <4> HIDE DEF y
      <4> QED BY <1>3, <2>1, <3>1, RowOfOthers
    <3>3. coming'[f][l] = coming[f][l]
      BY <1>4, <2>3
    <3> QED BY <1>1, <2>1, <3>2, <3>3
  <2> QED BY <2>2, <2>3
<1>7. FoundAreBlocks' /\ FoundRowsAreOneAnswer'
  BY <1>1 DEF EventsInvariant, FoundAreBlocks, FoundRowsAreOneAnswer, explorerVars
<1> QED BY <1>5, <1>6, <1>7 DEF EventsInvariant

\* A subscription is made.
LEMMA SubscribesStep ==
  ASSUME EventsInvariant, NEW e, NEW kinds, setListeners(e, kinds)
  PROVE  EventsInvariant'
<1>1. subscribed \subseteq subscribed' /\ UNCHANGED <<blocks, coming, liveRows, explorerVars>>
  BY DEF setListeners
<1>2. EventsTypeOK' /\ FoundAreBlocks' /\ FoundRowsAreOneAnswer'
  BY <1>1 DEF EventsInvariant, EventsTypeOK, FoundAreBlocks, FoundRowsAreOneAnswer, explorerVars
<1>3. SubscriptionsFollow'
  BY <1>1 DEF EventsInvariant, SubscriptionsFollow
<1> QED BY <1>2, <1>3 DEF EventsInvariant

\* An answer has no gap.
LEMMA AnswersStep ==
  ASSUME EventsInvariant, NEW s \in searching, onNewEvents(s)
  PROVE  EventsInvariant'
<1>1. /\ foundRows' \in answersTo(s) /\ searching' \subseteq searching
      /\ UNCHANGED <<blocks, liveVars, choice>>
  BY DEF onNewEvents
<1>2. s.range \in Nat /\ blocks \in Seq(Block) /\ DOMAIN blocks = 1 .. Len(blocks) /\ Len(blocks) \in Nat
  BY DEF EventsInvariant, EventsTypeOK
<1>3. PICK n \in 0 .. Len(blocks) : foundRows' \in [1 .. n -> matching(s)]
  BY <1>1 DEF answersTo
<1>4. /\ \A b \in matching(s) : \E i \in DOMAIN foundRows' : foundRows'[i] = b
      /\ \A i, j \in DOMAIN foundRows' : i < j => foundRows'[i] < foundRows'[j]
  BY <1>1 DEF answersTo
<1>5. /\ matching(s) \subseteq 1 .. Len(blocks)
      /\ \A b \in matching(s) : b >= s.range /\ blocks[b] = Of(s.emitter, s.kind)
      /\ \A b \in 1 .. Len(blocks) : b >= s.range /\ blocks[b] = Of(s.emitter, s.kind) => b \in matching(s)
  BY <1>2 DEF matching, Of
<1>6. foundRows' \in Seq(Nat) /\ Len(foundRows') = n /\ n \in Nat /\ DOMAIN foundRows' = 1 .. n
  <2>1. foundRows' \in [1 .. n -> Nat] /\ n \in Nat
    BY <1>2, <1>3, <1>5
  <2> QED BY <2>1
<1>7. FoundAreBlocks'
  <2>1. \A i \in 1 .. n : foundRows'[i] \in 1 .. Len(blocks)
    BY <1>3, <1>5
  <2> QED BY <1>1, <1>6, <2>1 DEF FoundAreBlocks
<1>8. FoundRowsAreOneAnswer'
  <2> SUFFICES ASSUME NEW i \in 1 .. n - 1
               PROVE  /\ foundRows'[i] < foundRows'[i + 1]
                      /\ blocks[foundRows'[i]] = blocks[foundRows'[i + 1]]
                      /\ \A between \in foundRows'[i] + 1 .. foundRows'[i + 1] - 1 :
                           blocks[between] # blocks[foundRows'[i]]
    BY <1>1, <1>6 DEF FoundRowsAreOneAnswer
  <2>1. i \in 1 .. n /\ i + 1 \in 1 .. n /\ i < i + 1
    BY <1>6
  <2>2. foundRows'[i] \in matching(s) /\ foundRows'[i + 1] \in matching(s)
    BY <1>3, <2>1
  <2>3. foundRows'[i] < foundRows'[i + 1]
    BY <1>4, <1>6, <2>1
  <2>4. ASSUME NEW between \in foundRows'[i] + 1 .. foundRows'[i + 1] - 1,
               blocks[between] = blocks[foundRows'[i]]
        PROVE  FALSE
    <3>1. between \in 1 .. Len(blocks) /\ between >= s.range
          /\ foundRows'[i] < between /\ between < foundRows'[i + 1]
      <4>1. foundRows'[i] \in 1 .. Len(blocks) /\ foundRows'[i + 1] \in 1 .. Len(blocks)
        BY <1>5, <2>2, Zenon
      <4>2. foundRows'[i] >= s.range
        BY <1>5, <2>2, Zenon
      <4> QED BY <1>2, <4>1, <4>2
    <3>2. between \in matching(s)
      BY <1>5, <2>2, <2>4, <3>1
    <3>3. PICK j \in 1 .. n : foundRows'[j] = between
      BY <1>4, <1>6, <3>2
    <3>4. foundRows'[i] \in Nat /\ foundRows'[i + 1] \in Nat /\ foundRows'[j] \in Nat
      BY <1>5, <2>2, <3>2, <3>3
    <3>5. CASE j < i
      <4>1. foundRows'[j] < foundRows'[i]
        BY <1>4, <1>6, <2>1, <3>5
      <4> QED BY <3>1, <3>3, <3>4, <4>1
    <3>6. CASE i + 1 < j
      <4>1. foundRows'[i + 1] < foundRows'[j]
        BY <1>4, <1>6, <2>1, <3>6
      <4> QED BY <3>1, <3>3, <3>4, <4>1
    <3>7. CASE j = i \/ j = i + 1
      BY <3>1, <3>3, <3>4, <3>7
    <3> QED BY <2>1, <3>5, <3>6, <3>7
  <2> QED BY <1>5, <2>2, <2>3, <2>4
<1>9. EventsTypeOK' /\ SubscriptionsFollow'
  BY <1>1 DEF EventsInvariant, EventsTypeOK, SubscriptionsFollow, liveVars
<1> QED BY <1>7, <1>8, <1>9 DEF EventsInvariant

\* What only changes what is chosen and searched for.
LEMMA SearchSteps ==
  ASSUME EventsInvariant, UNCHANGED <<blocks, liveVars, foundRows>>,
         choice' \in [contract : SUBSET Emitter, kinds : SUBSET EventKinds, fromBlock : Nat],
         searching' \subseteq [emitter : Emitter, kind : EventKinds, range : Nat]
  PROVE  EventsInvariant'
BY DEF EventsInvariant, EventsTypeOK, SubscriptionsFollow, FoundAreBlocks, FoundRowsAreOneAnswer, liveVars

\* The steps of the explorer, of the live table, and of both.
LEMMA ExplorerStep ==
  ASSUME EventsInvariant, ExplorerNext
  PROVE  EventsInvariant'
<1>1. /\ choice \in [contract : SUBSET Emitter, kinds : SUBSET EventKinds, fromBlock : Nat]
      /\ searching \subseteq [emitter : Emitter, kind : EventKinds, range : Nat]
  BY DEF EventsInvariant, EventsTypeOK
<1>2. CASE Emitting
  BY <1>2, EmitsStep, KindsAreKinds DEF Emitting
<1>3. ASSUME NEW e \in Emitter, handleContractSelect(e) PROVE EventsInvariant'
  <2>1. choice' \in [contract : SUBSET Emitter, kinds : SUBSET EventKinds, fromBlock : Nat]
    BY <1>1, <1>3 DEF handleContractSelect
  <2> QED BY <1>1, <1>3, <2>1, SearchSteps DEF handleContractSelect
<1>4. ASSUME NEW kinds \in SUBSET EventKinds, handleEventsSelect(kinds) PROVE EventsInvariant'
  <2>1. choice' \in [contract : SUBSET Emitter, kinds : SUBSET EventKinds, fromBlock : Nat]
    BY <1>1, <1>4 DEF handleEventsSelect
  <2> QED BY <1>1, <1>4, <2>1, SearchSteps DEF handleEventsSelect
<1>5. ASSUME NEW b \in 1 .. MaxBlocks, onFromBlockChanged(b) PROVE EventsInvariant'
  <2>1. choice' \in [contract : SUBSET Emitter, kinds : SUBSET EventKinds, fromBlock : Nat]
    BY <1>1, <1>5 DEF onFromBlockChanged
  <2> QED BY <1>1, <1>5, <2>1, SearchSteps DEF onFromBlockChanged
<1>6. CASE onFindClick
  <2>1. loadEventsForContracts \subseteq [emitter : Emitter, kind : EventKinds, range : Nat]
    BY <1>1 DEF loadEventsForContracts
  <2> QED BY <1>1, <1>6, <2>1, SearchSteps DEF onFindClick
<1>7. ASSUME NEW s \in searching, loadEventForContract(s) PROVE EventsInvariant'
  <2>1. [s EXCEPT !.range = choice.fromBlock] \in [emitter : Emitter, kind : EventKinds, range : Nat]
    BY <1>1
  <2> QED BY <1>1, <1>7, <2>1, SearchSteps DEF loadEventForContract
<1>8. ASSUME NEW s \in searching, onNewEvents(s) PROVE EventsInvariant'
  BY <1>8, AnswersStep
<1>9. ASSUME NEW s \in searching, searchFails(s) PROVE EventsInvariant'
  BY <1>1, <1>9, SearchSteps DEF searchFails
<1> QED BY <1>2, <1>3, <1>4, <1>5, <1>6, <1>7, <1>8, <1>9 DEF ExplorerNext, EventKinds

LEMMA LiveStep ==
  ASSUME EventsInvariant, LiveNext
  PROVE  EventsInvariant'
<1>1. CASE Emitting
  BY <1>1, EmitsStep, KindsAreKinds DEF Emitting
<1>2. ASSUME NEW e \in Emitter, setMachineListeners(e) \/ setProcessListeners(e) PROVE EventsInvariant'
  BY <1>2, SubscribesStep DEF setMachineListeners, setProcessListeners
<1>3. ASSUME NEW e \in Emitter, NEW k \in kindsOf(e), onNewEvent(e, k) PROVE EventsInvariant'
  BY <1>3, ArrivesStep, KindsAreKinds
<1> QED BY <1>1, <1>2, <1>3 DEF LiveNext

LEMMA EventsStep == EventsInvariant /\ [EventsNext]_eventsVars => EventsInvariant'
<1>1. ASSUME EventsInvariant, UNCHANGED eventsVars PROVE EventsInvariant'
  BY <1>1 DEF EventsInvariant, EventsTypeOK, SubscriptionsFollow, FoundAreBlocks, FoundRowsAreOneAnswer,
     eventsVars, liveVars, explorerVars
<1> QED BY <1>1, LiveStep, ExplorerStep DEF EventsNext

\* The invariant holds whatever is subscribed and searched for.
THEOREM EventsInvariantHolds == EventsSpec => []EventsInvariant
BY EventsStart, EventsStep, PTL DEF EventsSpec

(***************************************************************************)
(* For any contracts and subscriptions the live table shows no event       *)
(* twice, those of one subscription with the newest first, and misses none *)
(* since the first it showed but those under way.                          *)
(***************************************************************************)
THEOREM LiveRowsFollowTheChainHolds == EventsSpec => []LiveRowsFollowTheChain
<1>1. EventsInvariant => LiveRowsFollowTheChain
  <2> SUFFICES ASSUME EventsInvariant, NEW e \in Emitter, NEW k \in kindsOf(e)
               PROVE  /\ \A i, j \in rowsFrom(e, k) : i < j => liveRows[i] > liveRows[j]
                      /\ \A i \in DOMAIN coming[e][k] : \A j \in rowsFrom(e, k) :
                           coming[e][k][i] > liveRows[j]
                      /\ \A i, j \in DOMAIN coming[e][k] : i < j => coming[e][k][i] < coming[e][k][j]
                      /\ \A c \in toldBy(e, k) : \A b \in c .. Len(blocks) :
                           blocks[b] = Of(e, k) => b \in toldBy(e, k)
    BY DEF LiveRowsFollowTheChain, Of
  <2> DEFINE way == coming[e][k]
  <2>1. Follows(blocks, liveRows, way, Of(e, k))
    BY KindsAreKinds DEF EventsInvariant, SubscriptionsFollow
  <2>2. OnChain(blocks, liveRows, way, Of(e, k))
    BY <2>1 DEF Follows
  <2>3. DOMAIN liveRows = 1 .. Len(liveRows) /\ DOMAIN way = 1 .. Len(way)
    BY <2>2 DEF OnChain
  <2>4. rowsFrom(e, k) = {i \in 1 .. Len(liveRows) : blocks[liveRows[i]] = Of(e, k)}
    BY <2>3 DEF rowsFrom, Of
  <2>5. \A b : b \in toldBy(e, k) <=>
               \/ \E i \in 1 .. Len(liveRows) : blocks[liveRows[i]] = Of(e, k) /\ liveRows[i] = b
               \/ \E i \in 1 .. Len(way) : way[i] = b
    BY <2>3, <2>4 DEF toldBy
  <2> HIDE DEF way
  <2>6. ASSUME NEW c \in toldBy(e, k), NEW b \in c .. Len(blocks), blocks[b] = Of(e, k)
        PROVE  b \in toldBy(e, k)
    <3>1. c \in 1 .. Len(blocks) /\ blocks[c] = Of(e, k) /\ IsTold(c, liveRows, way)
      <4>1. CASE \E i \in 1 .. Len(liveRows) : blocks[liveRows[i]] = Of(e, k) /\ liveRows[i] = c
        BY <2>2, <4>1 DEF OnChain, IsTold
      <4>2. CASE \E i \in 1 .. Len(way) : way[i] = c
        BY <2>2, <4>2 DEF OnChain, IsTold
      <4> QED BY <2>5, <4>1, <4>2
    <3>2. b \in 1 .. Len(blocks) /\ c <= b
      BY <3>1
    <3>3. IsTold(b, liveRows, way)
      BY <2>1, <2>6, <3>1, <3>2 DEF Follows, NoneMissing
    <3> QED BY <2>5, <2>6, <3>3 DEF IsTold
  <2>7. /\ \A i, j \in rowsFrom(e, k) : i < j => liveRows[i] > liveRows[j]
        /\ \A i \in DOMAIN way : \A j \in rowsFrom(e, k) : way[i] > liveRows[j]
        /\ \A i, j \in DOMAIN way : i < j => way[i] < way[j]
    BY <2>1, <2>3, <2>4 DEF Follows, NewestFirst
  <2> QED BY <2>6, <2>7 DEF way
<1> QED BY <1>1, EventsInvariantHolds, PTL

(***************************************************************************)
(* However many searches are under way, the explorer's table is one        *)
(* answer, in the chain's order and without a gap.                         *)
(***************************************************************************)
THEOREM FoundRowsAreOneAnswerHolds == EventsSpec => []FoundRowsAreOneAnswer
<1>1. EventsInvariant => FoundRowsAreOneAnswer
  BY DEF EventsInvariant
<1> QED BY <1>1, EventsInvariantHolds, PTL
====
