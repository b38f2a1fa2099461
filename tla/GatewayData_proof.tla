---- MODULE GatewayData_proof ----
(***************************************************************************)
(* Proofs about the data of the gateway, for any number of copies of a     *)
(* client and of callbacks, and any number of tasks.                       *)
(*                                                                         *)
(* currentTaskID is set when the start of a task is heard of.  By then the *)
(* task's order was not sent, so that nobody can have answered it: a task  *)
(* whose start is not heard of is never one that is being told, answered   *)
(* or settled (StartsComeFirst), because every task is started once        *)
(* (StartsAreUnique) and all tasks that were told are among the contract's *)
(* (ToldAreTasks), which a new one is not.  That a new deployment numbers  *)
(* its tasks from one again does no harm since the gateway is down and     *)
(* remembers nothing (StoppedIsEmpty).                                     *)
(*                                                                         *)
(* For the credentials it is enough that every event under way carries the *)
(* ID of an operation of the present deployment and that no document is of *)
(* a later one.                                                            *)
(***************************************************************************)
EXTENDS GatewayData, SequenceTheorems, TLAPS

Code == {"melted", "milled", "done", "failed"}

TaskName == {"GetInfo", "PickSorted", "FetchContainer", "StoreProduct", "Processing", "Sorting"}

TaskRecord == [name : TaskName, finished : BOOLEAN]

Ack == [task : Nat, code : Code]

Receipt == [copy : Copy, task : Nat, of : {"startTask", "finish"}]

DataTypeOK ==
  /\ machine \in Machine
  /\ running \in BOOLEAN
  /\ tasks \in Seq(TaskRecord)
  /\ currentTaskID \in [Copy -> Nat]
  /\ receipts \subseteq Receipt
  /\ sending \subseteq [copy : Copy, task : Nat]
  /\ orders \subseteq Nat
  /\ acks \in [Copy -> Seq(Ack)]
  /\ settled \subseteq Copy \X Nat \X Code

\* Task t was told to the machine, or is just being told.
ToldIn(s, o, a, d, t) ==
  \/ \E x \in s : x.task = t
  \/ t \in o
  \/ \E c \in Copy : \E i \in DOMAIN a[c] : a[c][i].task = t
  \/ \E x \in d : x[2] = t

Told(t) == ToldIn(sending, orders, acks, settled, t)

Starts(rs) == {r \in rs : r.of = "startTask"}

StartsComeFirst ==
  \A r \in Starts(receipts) : r.task \in DOMAIN tasks /\ ~Told(r.task)

StartsAreUnique ==
  \A q, r \in Starts(receipts) : q.task = r.task => q = r

ToldAreTasks == \A t : Told(t) => t \in DOMAIN tasks

StoppedIsEmpty ==
  ~running =>
    /\ receipts = {} /\ sending = {} /\ orders = {} /\ settled = {}
    /\ \A c \in Copy : acks[c] = <<>> /\ currentTaskID[c] = 0

\* MPO has no code for a task that failed.
MilledIsNeverFailed ==
  machine = "MPO" => \A c \in Copy : \A i \in DOMAIN acks[c] : acks[c][i].code # "failed"

Order == StartsComeFirst /\ StartsAreUnique /\ ToldAreTasks

DataInvariant ==
  /\ DataTypeOK
  /\ Order
  /\ StoppedIsEmpty
  /\ MilledIsNeverFailed
  /\ CurrentTaskIsUnderWay

----
\* A step that starts no task and tells of none keeps the order.
LEMMA QuietSteps ==
  ASSUME Order,
         DOMAIN tasks \subseteq DOMAIN tasks',
         Starts(receipts') \subseteq Starts(receipts),
         \A t : ToldIn(sending', orders', acks', settled', t) => Told(t)
  PROVE  Order'
<1>1. StartsComeFirst'
  BY DEF Order, StartsComeFirst, Told
<1>2. StartsAreUnique'
  BY DEF Order, StartsAreUnique
<1>3. ToldAreTasks'
  BY DEF Order, ToldAreTasks, Told
<1> QED
  BY <1>1, <1>2, <1>3 DEF Order

\* What the invariant speaks of.
dataVars == <<machine, running, tasks, currentTaskID, taskVars>>

LEMMA DataUnchanged == DataInvariant /\ UNCHANGED dataVars => DataInvariant'
BY DEF DataInvariant, dataVars, taskVars, DataTypeOK, Order, StartsComeFirst, StartsAreUnique,
       ToldAreTasks, StoppedIsEmpty, MilledIsNeverFailed, CurrentTaskIsUnderWay, Told, ToldIn, Starts

----
\* The order of things, one kind of step at a time.

LEMMA StartedOrder ==
  ASSUME DataInvariant, NEW c \in Copy, NEW name \in TaskNames[machine], startTask(c, name)
  PROVE  DataInvariant'
<1> DEFINE new == [copy |-> c, task |-> Len(tasks) + 1, of |-> "startTask"]
<1>1. DataTypeOK /\ Len(tasks) \in Nat /\ DOMAIN tasks = 1 .. Len(tasks)
  BY DEF DataInvariant, DataTypeOK
<1>2. name \in TaskName
  <2>1. machine \in {"VGR", "HBW", "MPO", "SLD"}
    BY <1>1, GatewayDataAssumption DEF DataTypeOK
  <2>2. /\ TaskNames["VGR"] = {"GetInfo", "PickSorted"}
        /\ TaskNames["HBW"] = {"FetchContainer", "StoreProduct"}
        /\ TaskNames["MPO"] = {"Processing"}
        /\ TaskNames["SLD"] = {"Sorting"}
    BY DEF TaskNames
  <2> QED
    BY <2>1, <2>2 DEF TaskName
<1>3. /\ tasks' = Append(tasks, [name |-> name, finished |-> FALSE])
      /\ receipts' = receipts \cup {new}
      /\ UNCHANGED <<machine, running, currentTaskID, sending, orders, acks, settled>>
      /\ running
  BY DEF startTask, clientVars
<1>4. DataTypeOK'
  <2>1. tasks' \in Seq(TaskRecord)
    BY <1>1, <1>2, <1>3 DEF DataTypeOK, TaskRecord
  <2>2. new \in Receipt
    BY <1>1 DEF Receipt
  <2> QED
    BY <1>1, <1>3, <2>1, <2>2 DEF DataTypeOK
<1>5. DOMAIN tasks' = 1 .. Len(tasks) + 1
  BY <1>1, <1>3 DEF DataTypeOK
<1>6. ~Told(Len(tasks) + 1) /\ \A r \in Starts(receipts) : r.task # Len(tasks) + 1
  BY <1>1 DEF DataInvariant, Order, ToldAreTasks, StartsComeFirst
<1>7. Starts(receipts') = Starts(receipts) \cup {new}
  BY <1>3 DEF Starts
<1>8. \A t : ToldIn(sending', orders', acks', settled', t) = Told(t)
  BY <1>3 DEF Told, ToldIn
<1> HIDE DEF new
<1>9. new.task = Len(tasks) + 1
  BY DEF new
<1>10. StartsComeFirst'
  BY <1>1, <1>5, <1>6, <1>7, <1>8, <1>9 DEF DataInvariant, Order, StartsComeFirst, Told
<1>11. StartsAreUnique'
  BY <1>6, <1>7, <1>9 DEF DataInvariant, Order, StartsAreUnique
<1>12. ToldAreTasks'
  BY <1>1, <1>5, <1>8 DEF DataInvariant, Order, ToldAreTasks, Told
<1>13. (StoppedIsEmpty /\ MilledIsNeverFailed)'
  BY <1>3 DEF DataInvariant, StoppedIsEmpty, MilledIsNeverFailed
<1>14. CurrentTaskIsUnderWay'
  BY <1>1, <1>3, <1>5 DEF DataInvariant, CurrentTaskIsUnderWay
<1> QED
  BY <1>4, <1>10, <1>11, <1>12, <1>13, <1>14 DEF DataInvariant, Order

LEMMA HeardOrder ==
  ASSUME DataInvariant, NEW r \in receipts, onTaskStarted(r)
  PROVE  DataInvariant'
<1>1. DataTypeOK /\ r \in Starts(receipts) /\ r \in Receipt
  BY DEF DataInvariant, DataTypeOK, onTaskStarted, Starts
<1>2. r.copy \in Copy /\ r.task \in Nat /\ r.task \in DOMAIN tasks /\ ~Told(r.task)
  BY <1>1 DEF DataInvariant, Order, StartsComeFirst, Receipt
<1>3. /\ receipts' = receipts \ {r}
      /\ currentTaskID' = [currentTaskID EXCEPT ![r.copy] = r.task]
      /\ UNCHANGED <<machine, running, tasks, acks, settled>>
  BY DEF onTaskStarted, chainVars
<1> DEFINE s == [copy |-> r.copy, task |-> r.task]
<1>4. \/ sending' = sending \cup {s} /\ orders' = orders
      \/ sending' = sending /\ orders' = orders \cup {r.task}
  BY DEF onTaskStarted
<1>5. s \in [copy : Copy, task : Nat] /\ s.task = r.task
  BY <1>2
<1> HIDE DEF s
<1>6. DataTypeOK'
  <2>1. sending' \subseteq [copy : Copy, task : Nat] /\ orders' \subseteq Nat
    BY <1>1, <1>2, <1>4, <1>5 DEF DataTypeOK
  <2> QED
    BY <1>1, <1>2, <1>3, <2>1 DEF DataTypeOK
<1>7. \A t : ToldIn(sending', orders', acks', settled', t) <=> Told(t) \/ t = r.task
  <2>1. CASE sending' = sending \cup {s} /\ orders' = orders
    BY <1>3, <1>5, <2>1 DEF Told, ToldIn
  <2>2. CASE sending' = sending /\ orders' = orders \cup {r.task}
    BY <1>3, <2>2 DEF Told, ToldIn
  <2> QED
    BY <1>4, <2>1, <2>2
<1>8. Starts(receipts') = Starts(receipts) \ {r}
  BY <1>3 DEF Starts
<1>9. StartsComeFirst'
  BY <1>1, <1>3, <1>7, <1>8 DEF DataInvariant, Order, StartsComeFirst, StartsAreUnique, Told
<1>10. StartsAreUnique'
  BY <1>8 DEF DataInvariant, Order, StartsAreUnique
<1>11. ToldAreTasks'
  BY <1>2, <1>3, <1>7 DEF DataInvariant, Order, ToldAreTasks, Told
<1>12. running
  BY DEF DataInvariant, StoppedIsEmpty
<1>13. (StoppedIsEmpty /\ MilledIsNeverFailed)'
  BY <1>3, <1>12 DEF DataInvariant, StoppedIsEmpty, MilledIsNeverFailed
<1>14. \A x \in settled : x[2] # r.task
  BY <1>2 DEF Told, ToldIn
<1>15. \A c \in Copy : \A code : <<c, r.task, code>> \notin settled
  BY <1>14
<1>16. CurrentTaskIsUnderWay'
  BY <1>1, <1>2, <1>3, <1>15 DEF DataInvariant, CurrentTaskIsUnderWay, DataTypeOK
<1> QED
  BY <1>6, <1>9, <1>10, <1>11, <1>13, <1>16 DEF DataInvariant, Order

LEMMA FinishHeardOrder ==
  ASSUME DataInvariant, NEW r \in receipts, onTaskFinished(r)
  PROVE  DataInvariant'
<1>1. DataTypeOK /\ r.copy \in Copy
  BY DEF DataInvariant, DataTypeOK, Receipt
<1>2. /\ receipts' = receipts \ {r}
      /\ currentTaskID' = [currentTaskID EXCEPT ![r.copy] = 0]
      /\ UNCHANGED <<machine, running, tasks, sending, orders, acks, settled>>
  BY DEF onTaskFinished, chainVars, forgets
<1>3. Order'
  BY <1>2, QuietSteps DEF DataInvariant, Starts, Told
<1>4. DataTypeOK' /\ StoppedIsEmpty' /\ MilledIsNeverFailed'
  BY <1>1, <1>2 DEF DataInvariant, DataTypeOK, StoppedIsEmpty, MilledIsNeverFailed
<1>5. CurrentTaskIsUnderWay'
  BY <1>1, <1>2 DEF DataInvariant, CurrentTaskIsUnderWay, DataTypeOK
<1> QED
  BY <1>3, <1>4, <1>5 DEF DataInvariant

LEMMA InputsReadOrder ==
  ASSUME DataInvariant, NEW s \in sending, onInputsRead(s)
  PROVE  DataInvariant'
<1>1. /\ sending' = sending \ {s}
      /\ orders' = orders \cup {s.task}
      /\ UNCHANGED <<machine, running, tasks, currentTaskID, receipts, acks, settled>>
  BY DEF onInputsRead, chainVars, clientVars
<1>2. Order'
  BY <1>1, QuietSteps DEF DataInvariant, Told, ToldIn
<1>3. DataTypeOK'
  BY <1>1 DEF DataInvariant, DataTypeOK
<1>4. running
  BY DEF DataInvariant, StoppedIsEmpty
<1>5. (StoppedIsEmpty /\ MilledIsNeverFailed /\ CurrentTaskIsUnderWay)'
  BY <1>1, <1>4 DEF DataInvariant, StoppedIsEmpty, MilledIsNeverFailed, CurrentTaskIsUnderWay
<1> QED
  BY <1>2, <1>3, <1>5 DEF DataInvariant

----
\* A machine's answer: the codes of one task, after those that are on their way.
LEMMA AnswerOrder ==
  ASSUME DataInvariant, NEW t \in orders, machineExecutes(t)
  PROVE  DataInvariant'
<1>1. DataTypeOK /\ t \in Nat
  BY DEF DataInvariant, DataTypeOK
<1>2. PICK codes \in outcomes :
        acks' = [c \in Copy |->
          IF callbacks[c] > 0
            THEN acks[c] \o [i \in DOMAIN codes |-> [task |-> t, code |-> codes[i]]]
            ELSE acks[c]]
  BY DEF machineExecutes
<1> DEFINE answer == [i \in DOMAIN codes |-> [task |-> t, code |-> codes[i]]]
<1>3. codes \in Seq(Code) /\ (machine = "MPO" => \A i \in DOMAIN codes : codes[i] # "failed")
  <2>1. codes \in {<<"melted", "milled", "done">>, <<"done">>, <<"failed">>}
    BY DEF outcomes
  <2>2. machine = "MPO" => codes = <<"melted", "milled", "done">>
    BY DEF outcomes
  <2>3. <<"melted", "milled", "done">> \in Seq(Code) /\ <<"done">> \in Seq(Code)
        /\ <<"failed">> \in Seq(Code)
    BY DEF Code
  <2>4. \A i \in DOMAIN <<"melted", "milled", "done">> :
          <<"melted", "milled", "done">>[i] # "failed"
    OBVIOUS
  <2> QED
    BY <2>1, <2>2, <2>3, <2>4
<1>4. answer \in Seq(Ack) /\ DOMAIN answer = DOMAIN codes
  <2>1. Len(codes) \in Nat /\ DOMAIN codes = 1 .. Len(codes)
    BY <1>3
  <2>2. \A i \in 1 .. Len(codes) : [task |-> t, code |-> codes[i]] \in Ack
    BY <1>1, <1>3, <2>1 DEF Ack
  <2> QED
    BY <2>1, <2>2
<1>5. \A i \in DOMAIN answer : answer[i].task = t /\ answer[i].code = codes[i]
  OBVIOUS
<1> HIDE DEF answer
<1>6. ASSUME NEW c \in Copy
      PROVE  /\ acks'[c] \in Seq(Ack)
             /\ \A i \in DOMAIN acks'[c] :
                  \/ \E j \in DOMAIN acks[c] : acks'[c][i] = acks[c][j]
                  \/ \E j \in DOMAIN answer : acks'[c][i] = answer[j]
  <2>1. acks[c] \in Seq(Ack)
    BY <1>1 DEF DataTypeOK
  <2>2. CASE acks'[c] = acks[c]
    BY <2>1, <2>2
  <2>3. CASE acks'[c] = acks[c] \o answer
    <3>1. /\ Len(acks[c] \o answer) = Len(acks[c]) + Len(answer)
          /\ \A i \in 1 .. Len(acks[c]) + Len(answer) :
               (acks[c] \o answer)[i] = IF i <= Len(acks[c]) THEN acks[c][i]
                                                            ELSE answer[i - Len(acks[c])]
      BY <1>4, <2>1, ConcatProperties
    <3>2. /\ acks[c] \o answer \in Seq(Ack)
          /\ DOMAIN (acks[c] \o answer) = 1 .. Len(acks[c]) + Len(answer)
      BY <1>4, <2>1, <3>1, ConcatProperties
    <3>3. /\ Len(acks[c]) \in Nat /\ DOMAIN acks[c] = 1 .. Len(acks[c])
          /\ Len(answer) \in Nat /\ DOMAIN answer = 1 .. Len(answer)
      BY <1>4, <2>1
    <3>4. ASSUME NEW i \in DOMAIN acks'[c], i <= Len(acks[c])
          PROVE  i \in DOMAIN acks[c] /\ acks'[c][i] = acks[c][i]
      BY <2>3, <3>1, <3>2, <3>3, <3>4
    <3>5. ASSUME NEW i \in DOMAIN acks'[c], ~(i <= Len(acks[c]))
          PROVE  i - Len(acks[c]) \in DOMAIN answer /\ acks'[c][i] = answer[i - Len(acks[c])]
      BY <2>3, <3>1, <3>2, <3>3, <3>5
    <3> QED
      BY <2>3, <3>2, <3>4, <3>5
  <2> QED
    BY <1>2, <2>2, <2>3 DEF answer
<1>7. /\ orders' = orders \ {t}
      /\ UNCHANGED <<machine, running, tasks, currentTaskID, receipts, sending, settled>>
  BY DEF machineExecutes, chainVars, clientVars
<1>8. DataTypeOK'
  <2>1. acks' = [c \in Copy |-> acks'[c]]
    BY <1>2
  <2> QED
    BY <1>1, <1>6, <1>7, <2>1 DEF DataTypeOK
<1>9. \A u : ToldIn(sending', orders', acks', settled', u) => Told(u)
  BY <1>5, <1>6, <1>7 DEF Told, ToldIn
<1>10. Order'
  BY <1>7, <1>9, QuietSteps DEF DataInvariant
<1>11. running
  BY DEF DataInvariant, StoppedIsEmpty
<1>12. StoppedIsEmpty'
  BY <1>7, <1>11 DEF StoppedIsEmpty
<1>13. MilledIsNeverFailed'
  BY <1>3, <1>4, <1>5, <1>6, <1>7 DEF DataInvariant, MilledIsNeverFailed
<1>14. CurrentTaskIsUnderWay'
  BY <1>7 DEF DataInvariant, CurrentTaskIsUnderWay
<1> QED
  BY <1>8, <1>10, <1>12, <1>13, <1>14 DEF DataInvariant

----
\* What handling an acknowledgement does to the tasks and the receipts.
LEMMA FinishKeepsTasks ==
  ASSUME DataTypeOK, NEW c \in Copy, NEW t \in DOMAIN tasks, NEW names, NEW waits \in BOOLEAN,
         TryFinish(c, t, names, waits)
  PROVE  /\ tasks' \in Seq(TaskRecord)
         /\ DOMAIN tasks' = DOMAIN tasks
         /\ receipts' \subseteq Receipt
         /\ Starts(receipts') = Starts(receipts)
<1>1. CASE tasks[t].finished
  BY <1>1 DEF TryFinish, DataTypeOK
<1>2. CASE ~tasks[t].finished
  <2>1. tasks' = [tasks EXCEPT ![t].finished = TRUE]
    BY <1>2 DEF TryFinish
  <2>2. tasks' \in Seq(TaskRecord) /\ DOMAIN tasks' = DOMAIN tasks
    <3>1. [tasks[t] EXCEPT !.finished = TRUE] \in [name : TaskName, finished : BOOLEAN]
      <4>1. tasks[t] \in TaskRecord
        BY ElementOfSeq, LenProperties DEF DataTypeOK
      <4> QED
        BY <4>1 DEF TaskRecord
    <3>2. tasks' = [tasks EXCEPT ![t] = [tasks[t] EXCEPT !.finished = TRUE]]
      BY <2>1
    <3> QED
      BY <3>1, <3>2, ExceptSeq DEF DataTypeOK, TaskRecord
  <2>3. t \in Nat
    BY DEF DataTypeOK
  <2>4. [copy |-> c, task |-> t, of |-> "finish"] \in Receipt
    BY <2>3 DEF Receipt
  <2>5. receipts' = receipts \/ receipts' = receipts \cup {[copy |-> c, task |-> t, of |-> "finish"]}
    BY <1>2 DEF TryFinish
  <2> QED
    BY <2>2, <2>4, <2>5 DEF DataTypeOK, Starts
<1> QED
  BY <1>1, <1>2

\* What a client does with an acknowledgement: whatever it says, the copy forgets its
\* task or, unless it says that the task is done, keeps it; VGR forgets it always.
LEMMA AckEffect ==
  ASSUME DataTypeOK, NEW c \in Copy, NEW a \in Ack, a.task \in DOMAIN tasks,
         machine = "MPO" => a.code # "failed",
         \/ machine = "VGR" /\ vgrAckReceived(c, a)
         \/ machine = "HBW" /\ hbwAckReceived(c, a)
         \/ machine = "MPO" /\ mpoAckReceived(c, a)
         \/ machine = "SLD" /\ sldAckReceived(c, a)
  PROVE  /\ tasks' \in Seq(TaskRecord)
         /\ DOMAIN tasks' = DOMAIN tasks
         /\ receipts' \subseteq Receipt
         /\ Starts(receipts') = Starts(receipts)
         /\ \/ forgets(c)
            \/ /\ currentTaskID' = currentTaskID /\ a.code # "done"
               /\ machine \in {"VGR", "MPO"} => a.code # "failed"
<1>1. CASE machine = "VGR" /\ vgrAckReceived(c, a)
  BY <1>1, FinishKeepsTasks DEF vgrAckReceived
<1>2. CASE machine = "HBW" /\ hbwAckReceived(c, a)
  BY <1>2, FinishKeepsTasks DEF hbwAckReceived
<1>3. CASE machine = "MPO" /\ mpoAckReceived(c, a)
  <2>1. CASE a.code = "done"
    BY <1>3, <2>1, FinishKeepsTasks DEF mpoAckReceived
  <2>2. CASE a.code # "done"
    BY <1>3, <2>2 DEF mpoAckReceived, DataTypeOK
  <2> QED
    BY <2>1, <2>2
<1>4. CASE machine = "SLD" /\ sldAckReceived(c, a)
  BY <1>4, FinishKeepsTasks DEF sldAckReceived
<1> QED
  BY <1>1, <1>2, <1>3, <1>4

LEMMA AckOrder ==
  ASSUME DataInvariant, NEW c \in Copy, onAckReceived(c)
  PROVE  DataInvariant'
<1> DEFINE a == Head(acks[c])
<1>1. DataTypeOK /\ acks[c] \in Seq(Ack) /\ acks[c] # <<>>
  BY DEF DataInvariant, DataTypeOK, onAckReceived
<1>2. a \in Ack /\ 1 \in DOMAIN acks[c] /\ a = acks[c][1]
  BY <1>1
<1>3. a.task \in Nat /\ a.code \in Code /\ Told(a.task)
  BY <1>2 DEF Ack, Told, ToldIn
<1>4. a.task \in DOMAIN tasks
  BY <1>3 DEF DataInvariant, Order, ToldAreTasks
<1>5. machine = "MPO" => a.code # "failed"
  BY <1>2 DEF DataInvariant, MilledIsNeverFailed
<1>6. /\ acks' = [acks EXCEPT ![c] = Tail(@)]
      /\ \/ settled' = settled \cup {<<c, a.task, a.code>>} /\ a.code \in {"done", "failed"}
         \/ settled' = settled /\ a.code \notin {"done", "failed"}
      /\ UNCHANGED <<machine, running, sending, orders>>
  BY DEF onAckReceived
<1>7. /\ tasks' \in Seq(TaskRecord)
      /\ DOMAIN tasks' = DOMAIN tasks
      /\ receipts' \subseteq Receipt
      /\ Starts(receipts') = Starts(receipts)
      /\ \/ forgets(c)
         \/ /\ currentTaskID' = currentTaskID /\ a.code # "done"
            /\ machine \in {"VGR", "MPO"} => a.code # "failed"
  <2>1. \/ machine = "VGR" /\ vgrAckReceived(c, a)
        \/ machine = "HBW" /\ hbwAckReceived(c, a)
        \/ machine = "MPO" /\ mpoAckReceived(c, a)
        \/ machine = "SLD" /\ sldAckReceived(c, a)
    BY DEF onAckReceived
  <2> HIDE DEF a
  <2> QED
    BY <1>1, <1>2, <1>4, <1>5, <2>1, AckEffect
<1> HIDE DEF a
<1>8. /\ Tail(acks[c]) \in Seq(Ack)
      /\ \A i \in DOMAIN Tail(acks[c]) :
           i + 1 \in DOMAIN acks[c] /\ Tail(acks[c])[i] = acks[c][i + 1]
  BY <1>1
<1>9. \A b \in Copy : \A i \in DOMAIN acks'[b] :
        \E j \in DOMAIN acks[b] : acks'[b][i] = acks[b][j]
  BY <1>1, <1>6, <1>8 DEF DataTypeOK
<1>10. DataTypeOK'
  <2>1. acks' \in [Copy -> Seq(Ack)]
    BY <1>1, <1>6, <1>8 DEF DataTypeOK
  <2>2. settled' \subseteq Copy \X Nat \X Code
    BY <1>1, <1>3, <1>6 DEF DataTypeOK
  <2>3. currentTaskID' \in [Copy -> Nat]
    BY <1>1, <1>7 DEF DataTypeOK, forgets
  <2> QED
    BY <1>1, <1>6, <1>7, <2>1, <2>2, <2>3 DEF DataTypeOK
<1>11. \A t : ToldIn(sending', orders', acks', settled', t) => Told(t)
  BY <1>3, <1>6, <1>9 DEF Told, ToldIn
<1>12. Order'
  BY <1>7, <1>11, QuietSteps DEF DataInvariant
<1>13. running
  BY <1>1 DEF DataInvariant, StoppedIsEmpty
<1>14. (StoppedIsEmpty /\ MilledIsNeverFailed)'
  BY <1>6, <1>9, <1>13 DEF DataInvariant, StoppedIsEmpty, MilledIsNeverFailed
<1>15. CurrentTaskIsUnderWay'
  <2>1. ASSUME NEW b \in Copy, currentTaskID'[b] # 0
        PROVE  currentTaskID'[b] = currentTaskID[b]
    BY <1>1, <1>7, <2>1 DEF DataTypeOK, forgets
  <2>2. ASSUME currentTaskID'[c] # 0
        PROVE  a.code # "done" /\ (machine \in {"VGR", "MPO"} => a.code # "failed")
    BY <1>1, <1>7, <2>2 DEF DataTypeOK, forgets
  <2> QED
    BY <1>6, <1>7, <2>1, <2>2 DEF DataInvariant, CurrentTaskIsUnderWay
<1> QED
  BY <1>10, <1>12, <1>14, <1>15 DEF DataInvariant

----
\* Stops, deployments and losses.

LEMMA StopOrder ==
  ASSUME DataInvariant, Stopped
  PROVE  DataInvariant'
<1>1. /\ running' = FALSE
      /\ receipts' = {} /\ sending' = {} /\ orders' = {} /\ settled' = {}
      /\ acks' = [c \in Copy |-> <<>>]
      /\ currentTaskID' = [c \in Copy |-> 0]
      /\ UNCHANGED <<machine, tasks>>
  BY DEF Stopped, NoAcks, chainVars
<1>2. \A t : ~ToldIn(sending', orders', acks', settled', t)
  BY <1>1 DEF ToldIn
<1>3. Order'
  BY <1>1, <1>2, QuietSteps DEF DataInvariant, Starts
<1>4. DataTypeOK'
  <2>1. acks' \in [Copy -> Seq(Ack)]
    BY <1>1
  <2>2. currentTaskID' \in [Copy -> Nat]
    BY <1>1
  <2> QED
    BY <1>1, <2>1, <2>2 DEF DataInvariant, DataTypeOK
<1>5. (StoppedIsEmpty /\ MilledIsNeverFailed /\ CurrentTaskIsUnderWay)'
  BY <1>1 DEF StoppedIsEmpty, MilledIsNeverFailed, CurrentTaskIsUnderWay
<1> QED
  BY <1>3, <1>4, <1>5 DEF DataInvariant

LEMMA DeploymentOrder ==
  ASSUME DataInvariant, deploysAnew
  PROVE  DataInvariant'
<1>1. /\ ~running
      /\ tasks' = <<>>
      /\ UNCHANGED <<machine, running, currentTaskID, receipts, sending, orders, acks, settled>>
  BY DEF deploysAnew, taskVars, clientVars
<1>2. /\ receipts = {} /\ sending = {} /\ orders = {} /\ settled = {}
      /\ \A c \in Copy : acks[c] = <<>> /\ currentTaskID[c] = 0
  BY <1>1 DEF DataInvariant, StoppedIsEmpty
<1>3. \A t : ~ToldIn(sending', orders', acks', settled', t)
  BY <1>1, <1>2 DEF ToldIn
<1>4. StartsComeFirst' /\ StartsAreUnique'
  BY <1>1, <1>2 DEF StartsComeFirst, StartsAreUnique, Starts
<1>5. ToldAreTasks'
  BY <1>3 DEF ToldAreTasks, Told
<1>6. DataTypeOK'
  BY <1>1 DEF DataInvariant, DataTypeOK
<1>7. (StoppedIsEmpty /\ MilledIsNeverFailed /\ CurrentTaskIsUnderWay)'
  BY <1>1, <1>2 DEF DataInvariant, StoppedIsEmpty, MilledIsNeverFailed, CurrentTaskIsUnderWay
<1> QED
  BY <1>4, <1>5, <1>6, <1>7 DEF DataInvariant, Order

LEMMA LossOrder ==
  ASSUME DataInvariant, messageLost
  PROVE  DataInvariant'
<1>1. /\ UNCHANGED <<machine, running, tasks, currentTaskID, receipts, sending, settled>>
      /\ orders' \subseteq orders
  BY DEF messageLost, chainVars, clientVars
<1>2. /\ acks' \in [Copy -> Seq(Ack)]
      /\ \A b \in Copy : \A i \in DOMAIN acks'[b] :
           \E j \in DOMAIN acks[b] : acks'[b][i] = acks[b][j]
  <2>1. CASE UNCHANGED acks
    BY <2>1 DEF DataInvariant, DataTypeOK
  <2>2. ASSUME NEW c \in Copy, acks[c] # <<>>, acks' = [acks EXCEPT ![c] = Tail(@)]
        PROVE  /\ acks' \in [Copy -> Seq(Ack)]
               /\ \A b \in Copy : \A i \in DOMAIN acks'[b] :
                    \E j \in DOMAIN acks[b] : acks'[b][i] = acks[b][j]
    <3>1. acks[c] \in Seq(Ack) /\ acks \in [Copy -> Seq(Ack)]
      BY DEF DataInvariant, DataTypeOK
    <3>2. /\ Tail(acks[c]) \in Seq(Ack)
          /\ \A i \in DOMAIN Tail(acks[c]) :
               i + 1 \in DOMAIN acks[c] /\ Tail(acks[c])[i] = acks[c][i + 1]
      BY <2>2, <3>1
    <3> QED
      BY <2>2, <3>1, <3>2
  <2> QED
    BY <2>1, <2>2 DEF messageLost
<1>3. \A t : ToldIn(sending', orders', acks', settled', t) => Told(t)
  BY <1>1, <1>2 DEF Told, ToldIn
<1>4. Order'
  BY <1>1, <1>3, QuietSteps DEF DataInvariant
<1>5. DataTypeOK'
  BY <1>1, <1>2 DEF DataInvariant, DataTypeOK
<1>6. running
  BY DEF DataInvariant, StoppedIsEmpty, messageLost
<1>7. (StoppedIsEmpty /\ MilledIsNeverFailed /\ CurrentTaskIsUnderWay)'
  BY <1>1, <1>2, <1>6 DEF DataInvariant, StoppedIsEmpty, MilledIsNeverFailed, CurrentTaskIsUnderWay
<1> QED
  BY <1>4, <1>5, <1>7 DEF DataInvariant

----
\* Each step preserves the invariant.
LEMMA DataStep == DataInvariant /\ [Next]_vars => DataInvariant'
<1> SUFFICES ASSUME DataInvariant, [Next]_vars
             PROVE  DataInvariant'
  OBVIOUS
<1> USE DataUnchanged DEF dataVars
<1>1. CASE GatewayWork
  <2>1. ASSUME NEW s \in Sensor, onSensorMessage(s)
        PROVE  DataInvariant'
    BY <2>1 DEF onSensorMessage, chainVars
  <2>2. ASSUME NEW r \in receipts, onTaskStarted(r) \/ onTaskFinished(r)
        PROVE  DataInvariant'
    BY <2>2, HeardOrder, FinishHeardOrder
  <2>3. ASSUME NEW s \in sending, onInputsRead(s)
        PROVE  DataInvariant'
    BY <2>3, InputsReadOrder
  <2>4. ASSUME NEW c \in Copy, onAckReceived(c)
        PROVE  DataInvariant'
    BY <2>4, AckOrder
  <2>5. CASE gatewayCrashes
    BY <2>5, StopOrder DEF gatewayCrashes
  <2>6. CASE gatewayStarts
    BY <2>6 DEF gatewayStarts, chainVars, taskVars, DataInvariant, DataTypeOK, Order,
                StartsComeFirst, StartsAreUnique, ToldAreTasks, StoppedIsEmpty,
                MilledIsNeverFailed, CurrentTaskIsUnderWay, Told, ToldIn, Starts
  <2> QED
    BY <1>1, <2>1, <2>2, <2>3, <2>4, <2>5, <2>6 DEF GatewayWork
<1>2. CASE onRequest
  BY <1>2 DEF onRequest, onNewReadingRequest, clientVars
<1>3. CASE onOperation
  BY <1>3 DEF onOperation, onProductOperationSaved, chainVars, clientVars
<1>4. CASE Inputs
  <2>1. ASSUME NEW type \in ReadingType, getNewReading(type)
        PROVE  DataInvariant'
    BY <2>1 DEF getNewReading, clientVars
  <2> QED
    BY <1>4, <2>1, StartedOrder DEF Inputs
<1>5. CASE Environment
  BY <1>5, AnswerOrder, DeploymentOrder DEF Environment
<1>6. CASE Faults
  <2>1. ASSUME NEW c \in Copy, handlerReconnects(c) \/ clientReconnects(c)
        PROVE  DataInvariant'
    BY <2>1 DEF handlerReconnects, clientReconnects, chainVars
  <2> QED
    BY <1>6, <2>1, StopOrder, LossOrder DEF Faults, gatewayStops
<1>7. CASE UNCHANGED vars
  BY <1>7 DEF vars, chainVars, clientVars
<1> QED
  BY <1>1, <1>2, <1>3, <1>4, <1>5, <1>6, <1>7 DEF Next

\* The gateway starts with a new chain and nothing on its way.
LEMMA DataStart == Init => DataInvariant
<1> SUFFICES ASSUME Init PROVE DataInvariant
  OBVIOUS
<1> USE DEF Init, NoAcks
<1>1. \A t : ~Told(t)
  BY DEF Told, ToldIn
<1>2. Order
  BY <1>1 DEF Order, StartsComeFirst, StartsAreUnique, ToldAreTasks, Starts
<1> QED
  BY <1>2 DEF DataInvariant, DataTypeOK, StoppedIsEmpty, MilledIsNeverFailed, CurrentTaskIsUnderWay

(***************************************************************************)
(* For any number of copies and callbacks of a machine's client, any tasks *)
(* and any faults (vgr-client.js, hbw-client.js, mpo-client.js,            *)
(* sld-client.js): a reading is saved for no task that the copy was told   *)
(* is done.                                                                *)
(***************************************************************************)
THEOREM CurrentTaskIsUnderWayHolds == Spec => []CurrentTaskIsUnderWay
<1>1. DataInvariant => CurrentTaskIsUnderWay
  BY DEF DataInvariant
<1> QED
  BY DataStart, DataStep, <1>1, PTL DEF Spec
----
\* Credentials.
\*
\* A callback documents what the contract recorded under the ID the event carries, and
\* nothing is ever taken back from the contract's operations while it is deployed
\* (Extends); a later deployment begins with no event under way, and the documents of
\* the earlier ones are not of it.

OperationName ==
  {"NFCTagReading", "ColorDetection", "PhysicalIdentification", "Sorting", "Melting", "Milling"}

Operation == [name : OperationName, task : Nat]

Extends(o, q) == DOMAIN o \subseteq DOMAIN q /\ \A i \in DOMAIN o : q[i] = o[i]

\* Document d tells what the operations o hold.
Tells(d, o) ==
  /\ d.operationID \in DOMAIN o
  /\ d.vc.taskID = o[d.operationID].task
  /\ d.vc.operationName = eventName(o[d.operationID].name)

EventsOK ==
  /\ operations \in Seq(Operation)
  /\ saved \in [Callback -> Seq(Nat)]
  /\ \A r \in Callback : \A i \in DOMAIN saved[r] : saved[r][i] \in DOMAIN operations

CredentialInvariant ==
  /\ deployment \in Nat
  /\ EventsOK
  /\ ~running => \A r \in Callback : saved[r] = <<>>
  /\ \A x \in credentials : x.document.deployment \in Nat /\ x.document.deployment <= deployment
  /\ CredentialsTellTheChain

\* As the operations grow, the documents remain true.
LEMMA DocumentsRemain ==
  ASSUME CredentialInvariant, UNCHANGED <<deployment, credentials>>,
         Extends(operations, operations'), EventsOK',
         ~running' => \A r \in Callback : saved'[r] = <<>>
  PROVE  CredentialInvariant'
<1>1. \A x \in credentials : x.document.deployment = deployment => Tells(x.document, operations)
  BY DEF CredentialInvariant, CredentialsTellTheChain, Tells
<1>2. \A x \in credentials : x.document.deployment = deployment => Tells(x.document, operations')
  BY <1>1 DEF Tells, Extends
<1>3. CredentialsTellTheChain'
  BY <1>2 DEF CredentialsTellTheChain, Tells
<1> QED
  BY <1>3 DEF CredentialInvariant

LEMMA EventsUntouched ==
  ASSUME CredentialInvariant, UNCHANGED <<deployment, running, operations, saved, credentials>>
  PROVE  CredentialInvariant'
BY DEF CredentialInvariant, EventsOK, CredentialsTellTheChain

\* A transaction appends its operations, and every event is of one of them.
LEMMA SavesExtends ==
  ASSUME EventsOK, NEW names \in Seq(OperationName), NEW t \in Nat, Saves(names, t)
  PROVE  EventsOK' /\ Extends(operations, operations')
<1> DEFINE more == [i \in DOMAIN names |-> [name |-> names[i], task |-> t]]
           ids == [i \in DOMAIN names |-> Len(operations) + i]
<1>1. /\ operations \in Seq(Operation) /\ Len(operations) \in Nat
      /\ DOMAIN operations = 1 .. Len(operations)
      /\ Len(names) \in Nat /\ DOMAIN names = 1 .. Len(names)
  BY DEF EventsOK
<1>2. more \in Seq(Operation) /\ Len(more) = Len(names)
  <2>1. \A i \in 1 .. Len(names) : [name |-> names[i], task |-> t] \in Operation
    BY <1>1 DEF Operation
  <2> QED
    BY <1>1, <2>1
<1>3. ids \in Seq(Nat) /\ Len(ids) = Len(names)
  BY <1>1
<1>4. \A i \in 1 .. Len(names) : ids[i] = Len(operations) + i
  BY <1>1
<1>5. /\ operations' = operations \o more
      /\ saved' = [r \in Callback |-> IF r \in Registered THEN saved[r] \o ids ELSE saved[r]]
  BY DEF Saves
<1> HIDE DEF more, ids
<1>6. /\ operations' \in Seq(Operation)
      /\ DOMAIN operations' = 1 .. Len(operations) + Len(names)
      /\ \A i \in DOMAIN operations : operations'[i] = operations[i]
  <2>1. /\ operations \o more \in Seq(Operation)
        /\ Len(operations \o more) = Len(operations) + Len(more)
        /\ \A i \in 1 .. Len(operations) + Len(more) :
             (operations \o more)[i] = IF i <= Len(operations) THEN operations[i]
                                       ELSE more[i - Len(operations)]
    BY <1>1, <1>2, ConcatProperties
  <2>2. DOMAIN (operations \o more) = 1 .. Len(operations \o more)
    BY <2>1
  <2>3. \A i \in DOMAIN operations : (operations \o more)[i] = operations[i]
    BY <1>1, <1>2, <2>1
  <2> QED
    BY <1>2, <1>5, <2>1, <2>2, <2>3
<1>7. /\ Extends(operations, operations')
      /\ \A k \in 1 .. Len(names) : Len(operations) + k \in DOMAIN operations'
  <2>1. DOMAIN operations \subseteq DOMAIN operations'
    BY <1>1, <1>6
  <2>2. \A k \in 1 .. Len(names) : Len(operations) + k \in DOMAIN operations'
    BY <1>1, <1>6
  <2> QED
    BY <1>6, <2>1, <2>2 DEF Extends
<1>8. ASSUME NEW r \in Callback
      PROVE  /\ saved'[r] \in Seq(Nat)
             /\ \A i \in DOMAIN saved'[r] : saved'[r][i] \in DOMAIN operations'
  <2>1. /\ saved[r] \in Seq(Nat) /\ Len(saved[r]) \in Nat /\ DOMAIN saved[r] = 1 .. Len(saved[r])
        /\ \A i \in DOMAIN saved[r] : saved[r][i] \in DOMAIN operations
    BY DEF EventsOK
  <2>2. CASE saved'[r] = saved[r]
    BY <1>7, <2>1, <2>2 DEF Extends
  <2>3. CASE saved'[r] = saved[r] \o ids
    <3>1. /\ saved[r] \o ids \in Seq(Nat)
          /\ Len(saved[r] \o ids) = Len(saved[r]) + Len(ids)
          /\ \A i \in 1 .. Len(saved[r]) + Len(ids) :
               (saved[r] \o ids)[i] = IF i <= Len(saved[r]) THEN saved[r][i]
                                      ELSE ids[i - Len(saved[r])]
      BY <1>3, <2>1, ConcatProperties
    <3>2. DOMAIN (saved[r] \o ids) = 1 .. Len(saved[r]) + Len(names)
      BY <1>3, <3>1
    <3>3. ASSUME NEW i \in 1 .. Len(saved[r]) + Len(names)
          PROVE  (saved[r] \o ids)[i] \in DOMAIN operations'
      <4>1. CASE i <= Len(saved[r])
        <5>1. i \in DOMAIN saved[r] /\ (saved[r] \o ids)[i] = saved[r][i]
          BY <1>1, <1>3, <2>1, <3>1, <4>1
        <5> QED
          BY <1>7, <2>1, <5>1 DEF Extends
      <4>2. CASE ~(i <= Len(saved[r]))
        <5>1. i - Len(saved[r]) \in 1 .. Len(names)
          BY <1>1, <2>1, <4>2
        <5>2. (saved[r] \o ids)[i] = ids[i - Len(saved[r])]
          BY <1>1, <1>3, <2>1, <3>1, <4>2
        <5> QED
          BY <1>4, <1>7, <5>1, <5>2
      <4> QED
        BY <4>1, <4>2
    <3> QED
      BY <2>3, <3>1, <3>2, <3>3
  <2> QED
    BY <1>5, <2>2, <2>3
<1>9. EventsOK'
  <2>1. saved' = [r \in Callback |-> saved'[r]]
    BY <1>5
  <2> QED
    BY <1>6, <1>8, <2>1 DEF EventsOK
<1> QED
  BY <1>7, <1>9

\* What an acknowledgement saves.
LEMMA AckSaves ==
  ASSUME NEW c \in Copy, NEW a \in Ack, machine = "MPO" => a.code # "failed",
         \/ machine = "VGR" /\ vgrAckReceived(c, a)
         \/ machine = "HBW" /\ hbwAckReceived(c, a)
         \/ machine = "MPO" /\ mpoAckReceived(c, a)
         \/ machine = "SLD" /\ sldAckReceived(c, a)
  PROVE  \/ UNCHANGED <<operations, saved>>
         \/ \E names \in Seq(OperationName) : Saves(names, a.task)
<1>1. \A name : finalOperations(name) \in Seq(OperationName)
  <2>1. <<"NFCTagReading", "ColorDetection", "PhysicalIdentification">> \in Seq(OperationName)
        /\ <<"Sorting">> \in Seq(OperationName) /\ <<>> \in Seq(OperationName)
    BY DEF OperationName
  <2> QED
    BY <2>1 DEF finalOperations
<1>2. <<>> \in Seq(OperationName)
  OBVIOUS
<1>3. CASE machine = "VGR" /\ vgrAckReceived(c, a)
  BY <1>1, <1>2, <1>3 DEF vgrAckReceived, TryFinish
<1>4. CASE machine = "HBW" /\ hbwAckReceived(c, a)
  BY <1>2, <1>4 DEF hbwAckReceived, TryFinish
<1>5. CASE machine = "MPO" /\ mpoAckReceived(c, a)
  <2>1. CASE a.code = "done"
    BY <1>2, <1>5, <2>1 DEF mpoAckReceived, TryFinish
  <2>2. CASE a.code # "done"
    <3>1. a.code \in {"melted", "milled"}
      BY <1>5, <2>2 DEF Ack, Code
    <3>2. <<mpoOperation[a.code]>> \in Seq(OperationName)
      <4>1. mpoOperation["melted"] = "Melting" /\ mpoOperation["milled"] = "Milling"
        BY DEF mpoOperation
      <4> QED
        BY <3>1, <4>1 DEF OperationName
    <3> QED
      BY <1>5, <2>2, <3>2 DEF mpoAckReceived
  <2> QED
    BY <2>1, <2>2
<1>6. CASE machine = "SLD" /\ sldAckReceived(c, a)
  BY <1>1, <1>2, <1>6 DEF sldAckReceived, TryFinish
<1> QED
  BY <1>3, <1>4, <1>5, <1>6

LEMMA AckCredentials ==
  ASSUME DataInvariant, CredentialInvariant, NEW c \in Copy, onAckReceived(c)
  PROVE  CredentialInvariant'
<1> DEFINE a == Head(acks[c])
<1>1. a \in Ack /\ a = acks[c][1] /\ 1 \in DOMAIN acks[c] /\ acks[c] # <<>>
  BY DEF DataInvariant, DataTypeOK, onAckReceived
<1>2. machine = "MPO" => a.code # "failed"
  BY <1>1 DEF DataInvariant, MilledIsNeverFailed
<1>3. \/ machine = "VGR" /\ vgrAckReceived(c, a)
      \/ machine = "HBW" /\ hbwAckReceived(c, a)
      \/ machine = "MPO" /\ mpoAckReceived(c, a)
      \/ machine = "SLD" /\ sldAckReceived(c, a)
  BY DEF onAckReceived
<1>4. UNCHANGED <<deployment, credentials, running>>
  BY DEF onAckReceived
<1>5. running
  BY <1>1 DEF DataInvariant, StoppedIsEmpty
<1> HIDE DEF a
<1>6. \/ UNCHANGED <<operations, saved>>
      \/ \E names \in Seq(OperationName) : Saves(names, a.task)
  BY <1>1, <1>2, <1>3, AckSaves
<1>7. a.task \in Nat
  BY <1>1 DEF Ack
<1>8. CASE UNCHANGED <<operations, saved>>
  BY <1>4, <1>8, EventsUntouched
<1>9. ASSUME NEW names \in Seq(OperationName), Saves(names, a.task)
      PROVE  CredentialInvariant'
  <2>1. EventsOK' /\ Extends(operations, operations')
    BY <1>7, <1>9, SavesExtends DEF CredentialInvariant
  <2> QED
    BY <1>4, <1>5, <2>1, DocumentsRemain
<1> QED
  BY <1>6, <1>8, <1>9

\* A callback inserts a document of the event it takes.
LEMMA Documented ==
  ASSUME CredentialInvariant, NEW r \in Callback, onProductOperationSaved(r)
  PROVE  CredentialInvariant'
<1> DEFINE n == Head(saved[r])
           new == [document |-> document(n), by |-> r]
<1>1. saved[r] \in Seq(Nat) /\ saved[r] # <<>> /\ saved \in [Callback -> Seq(Nat)]
  BY DEF CredentialInvariant, EventsOK, onProductOperationSaved
<1>2. n = saved[r][1] /\ n \in DOMAIN operations
  BY <1>1 DEF CredentialInvariant, EventsOK
<1>3. /\ saved' = [saved EXCEPT ![r] = Tail(@)]
      /\ credentials' = credentials \cup {new}
      /\ UNCHANGED <<deployment, operations, running>>
  BY DEF onProductOperationSaved, chainVars, clientVars
<1>4. new.document = document(n)
  OBVIOUS
<1>5. /\ document(n).deployment = deployment
      /\ document(n).operationID = n
      /\ document(n).vc.taskID = operations[n].task
      /\ document(n).vc.operationName = eventName(operations[n].name)
  BY DEF document, getProductOperationFromEvent
<1> HIDE DEF n, new
<1>6. CredentialsTellTheChain'
  <2>1. ASSUME NEW x \in credentials', x.document.deployment = deployment
        PROVE  Tells(x.document, operations)
    <3>1. CASE x \in credentials
      BY <2>1, <3>1 DEF CredentialInvariant, CredentialsTellTheChain, Tells
    <3>2. CASE x = new
      BY <1>2, <1>4, <1>5, <3>2 DEF Tells
    <3> QED
      BY <1>3, <3>1, <3>2
  <2> QED
    BY <1>3, <2>1 DEF CredentialsTellTheChain, Tells
<1>7. EventsOK'
  <2>1. /\ Tail(saved[r]) \in Seq(Nat)
        /\ \A i \in DOMAIN Tail(saved[r]) :
             i + 1 \in DOMAIN saved[r] /\ Tail(saved[r])[i] = saved[r][i + 1]
    BY <1>1
  <2> QED
    BY <1>1, <1>3, <2>1 DEF CredentialInvariant, EventsOK
<1>8. running
  BY <1>1 DEF CredentialInvariant
<1> QED
  BY <1>3, <1>4, <1>5, <1>6, <1>7, <1>8 DEF CredentialInvariant

LEMMA CredentialsAnew ==
  ASSUME CredentialInvariant, deploysAnew
  PROVE  CredentialInvariant'
<1>1. /\ ~running /\ deployment' = deployment + 1 /\ operations' = <<>>
      /\ UNCHANGED <<running, saved, credentials>>
  BY DEF deploysAnew, eventVars, clientVars
<1>2. \A r \in Callback : saved[r] = <<>>
  BY <1>1 DEF CredentialInvariant
<1>3. EventsOK'
  BY <1>1, <1>2 DEF CredentialInvariant, EventsOK
<1>4. \A x \in credentials : x.document.deployment # deployment'
  BY <1>1 DEF CredentialInvariant
<1>5. CredentialsTellTheChain'
  BY <1>1, <1>4 DEF CredentialsTellTheChain
<1> QED
  BY <1>1, <1>2, <1>3, <1>5 DEF CredentialInvariant

LEMMA StopKeepsCredentials ==
  ASSUME CredentialInvariant, Stopped
  PROVE  CredentialInvariant'
<1>1. /\ saved' = [r \in Callback |-> <<>>]
      /\ UNCHANGED <<deployment, operations, credentials>>
  BY DEF Stopped, NoneSaved, chainVars
<1>2. EventsOK'
  BY <1>1 DEF CredentialInvariant, EventsOK
<1>3. Extends(operations, operations')
  BY <1>1 DEF Extends
<1> QED
  BY <1>1, <1>2, <1>3, DocumentsRemain

\* Each step preserves the invariant.
LEMMA CredentialStep ==
  DataInvariant /\ CredentialInvariant /\ [Next]_vars => CredentialInvariant'
<1> SUFFICES ASSUME DataInvariant, CredentialInvariant, [Next]_vars
             PROVE  CredentialInvariant'
  OBVIOUS
<1> USE EventsUntouched DEF chainVars, eventVars, taskVars, clientVars
<1>1. CASE GatewayWork
  <2>1. ASSUME NEW s \in Sensor, onSensorMessage(s)
        PROVE  CredentialInvariant'
    BY <2>1 DEF onSensorMessage
  <2>2. ASSUME NEW r \in receipts, onTaskStarted(r) \/ onTaskFinished(r)
        PROVE  CredentialInvariant'
    BY <2>2 DEF onTaskStarted, onTaskFinished
  <2>3. ASSUME NEW s \in sending, onInputsRead(s)
        PROVE  CredentialInvariant'
    BY <2>3 DEF onInputsRead
  <2>4. ASSUME NEW c \in Copy, onAckReceived(c)
        PROVE  CredentialInvariant'
    BY <2>4, AckCredentials
  <2>5. CASE gatewayCrashes
    BY <2>5, StopKeepsCredentials DEF gatewayCrashes
  <2>6. CASE gatewayStarts
    BY <2>6 DEF gatewayStarts, CredentialInvariant, EventsOK, CredentialsTellTheChain
  <2> QED
    BY <1>1, <2>1, <2>2, <2>3, <2>4, <2>5, <2>6 DEF GatewayWork
<1>2. CASE onRequest
  BY <1>2 DEF onRequest, onNewReadingRequest
<1>3. CASE onOperation
  BY <1>3, Documented DEF onOperation
<1>4. CASE Inputs
  BY <1>4 DEF Inputs, startTask, getNewReading
<1>5. CASE Environment
  BY <1>5, CredentialsAnew DEF Environment, machineExecutes
<1>6. CASE Faults
  <2>1. ASSUME NEW c \in Copy, handlerReconnects(c) \/ clientReconnects(c)
        PROVE  CredentialInvariant'
    BY <2>1 DEF handlerReconnects, clientReconnects
  <2>2. CASE messageLost
    BY <2>2 DEF messageLost
  <2> QED
    BY <1>6, <2>1, <2>2, StopKeepsCredentials DEF Faults, gatewayStops
<1>7. CASE UNCHANGED vars
  BY <1>7 DEF vars
<1> QED
  BY <1>1, <1>2, <1>3, <1>4, <1>5, <1>6, <1>7 DEF Next

\* The store starts empty.
LEMMA CredentialStart == Init => CredentialInvariant
BY DEF Init, NoneSaved, CredentialInvariant, EventsOK, CredentialsTellTheChain

(***************************************************************************)
(* For any copies, callbacks, operations and deployments                   *)
(* (client-utilities.js, db.js): a credential of the contracts that are    *)
(* deployed tells what they recorded, whichever callback inserted it.      *)
(***************************************************************************)
THEOREM CredentialsTellTheChainHolds == Spec => []CredentialsTellTheChain
<1>1. CredentialInvariant => CredentialsTellTheChain
  BY DEF CredentialInvariant
<1> QED
  BY DataStart, DataStep, CredentialStart, CredentialStep, <1>1, PTL DEF Spec
====
