----------------------- MODULE SubscriptionFlowProofs -----------------------
(***************************************************************************)
(* SubscriptionFlow for any numbers of requests, slots and failures.       *)
(***************************************************************************)
EXTENDS SubscriptionFlow, SubscriptionSagaProofs

WorkerProofs == INSTANCE EmailWorkerProofs
                  WITH Saga <- Request, Release <- {}, Nobody <- None

-----------------------------------------------------------------------------
(* The composition takes steps of each module, or none of it.              *)

LEMMA FlowStepsSaga == [FlowNext]_flowVars /\ TypeOK => [Next]_vars
<1> SUFFICES ASSUME FlowNext, TypeOK PROVE [Next]_vars
  BY DEF flowVars
<1>1. ASSUME NEW r \in Request, AddEmail(r) \/ AddEmailReplyLost(r) PROVE Next
  BY <1>1 DEF Next, CallStep
<1>2. ASSUME NEW w \in Slot,
             Deliver(slot[w].id) \/ ReportSent(slot[w].id) \/ ReportFailed(slot[w].id)
      PROVE  Next
  <2>1. PICK s : s = slot[w].id
    OBVIOUS
  <2>2. Deliver(s) \/ ReportSent(s) \/ ReportFailed(s)
    BY <1>2, <2>1
  <2>3. s \in Request
    BY <2>2 DEF Deliver, ReportSent, ReportFailed, Reports, TypeOK
  <2> QED
    BY <2>2, <2>3 DEF Next
<1> QED
  BY <1>1, <1>2 DEF FlowNext

LEMMA FlowStepsWorker == [FlowNext]_flowVars => [Worker!Next]_workerVars
<1> SUFFICES ASSUME FlowNext PROVE [Worker!Next]_workerVars
  BY DEF flowVars
<1>1. ASSUME NEW r \in Request, Worker!AddEmail(r) PROVE Worker!Next
  BY <1>1 DEF Worker!Next
<1>2. ASSUME NEW w \in Slot, Worker!Step(w) PROVE Worker!Next
  BY <1>2 DEF Worker!Next
<1> QED
  BY <1>1, <1>2 DEF FlowNext

(* A behaviour of the two services together is one of the Main API ...     *)
THEOREM FlowRunsSaga == FlowSpec => Spec
<1>1. FlowInit => Init
  BY DEF FlowInit
<1>2. TypeInv /\ [FlowNext]_flowVars => [Next]_vars /\ TypeInv'
  BY FlowStepsSaga, TypeInvStep DEF TypeInv
<1> QED
  BY <1>1, <1>2, TypeInvInit, PTL DEF FlowSpec, Spec

(* ... and one of the Notification Service.                                *)
THEOREM FlowRunsWorker == FlowSpec => Worker!Spec
<1>1. FlowInit => Worker!Init
  BY DEF FlowInit
<1> QED
  BY <1>1, FlowStepsWorker, PTL DEF FlowSpec, Worker!Spec, workerVars, Worker!vars

LEMMA WorkerAssumptions ==
  /\ None \notin Request \cup {} \cup Slot
  /\ Request \cap {} = {}
  /\ MaxCrashes \in Nat
  /\ MaxLockLosses \in Nat
  /\ MaxStops \in Nat
BY SagaAssumption, FlowAssumption DEF SagaAssumption, FlowAssumption

(* EmailWorkerProofs speaks of the same worker.                            *)
LEMMA SameInit == Worker!Init <=> WorkerProofs!Init
BY DEF Worker!Init, WorkerProofs!Init, Worker!Mail, WorkerProofs!Mail,
       Worker!IdleSlot, WorkerProofs!IdleSlot, Worker!NoJob, WorkerProofs!NoJob

LEMMA SameTypes == Worker!TypeOK <=> WorkerProofs!TypeOK
BY DEF Worker!TypeOK, WorkerProofs!TypeOK, Worker!Mail, WorkerProofs!Mail,
       Worker!SlotPc, WorkerProofs!SlotPc, Worker!Job, WorkerProofs!Job,
       Worker!JobState, WorkerProofs!JobState, Worker!Report, WorkerProofs!Report

LEMMA SameStep == ASSUME NEW w, Worker!Step(w) PROVE WorkerProofs!Step(w)
BY DEF Worker!Step, WorkerProofs!Step, Worker!Goto, WorkerProofs!Goto,
       Worker!faults, WorkerProofs!faults, Worker!IsFinal, WorkerProofs!IsFinal,
       Worker!HandleSucceeds, WorkerProofs!HandleSucceeds,
       Worker!HandleFails, WorkerProofs!HandleFails,
       Worker!UpdateProgress, WorkerProofs!UpdateProgress,
       Worker!Publishes, WorkerProofs!Publishes,
       Worker!PublishSent, WorkerProofs!PublishSent,
       Worker!PublishFailed, WorkerProofs!PublishFailed,
       Worker!Return, WorkerProofs!Return, Worker!Rethrow, WorkerProofs!Rethrow,
       Worker!Finish, WorkerProofs!Finish, Worker!IdleSlot, WorkerProofs!IdleSlot,
       Worker!Succeeded, WorkerProofs!Succeeded, Worker!Failed, WorkerProofs!Failed

LEMMA SameTake ==
  ASSUME NEW w, NEW m
  PROVE  /\ Worker!AddEmail(m) => WorkerProofs!AddEmail(m)
         /\ Worker!AddRelease(m) => WorkerProofs!AddRelease(m)
         /\ Worker!Take(w, m) => WorkerProofs!Take(w, m)
         /\ Worker!LoseLock(m) => WorkerProofs!LoseLock(m)
BY DEF Worker!AddEmail, WorkerProofs!AddEmail, Worker!AddRelease, WorkerProofs!AddRelease,
       Worker!Take, WorkerProofs!Take, Worker!Taking, WorkerProofs!Taking,
       Worker!LoseLock, WorkerProofs!LoseLock, Worker!faults, WorkerProofs!faults,
       Worker!Added, WorkerProofs!Added, Worker!Taken, WorkerProofs!Taken,
       Worker!Stalled, WorkerProofs!Stalled

LEMMA SameProcess ==
  /\ Worker!Crash => WorkerProofs!Crash
  /\ Worker!Shutdown => WorkerProofs!Shutdown
  /\ Worker!Exit => WorkerProofs!Exit
BY DEF Worker!Crash, WorkerProofs!Crash, Worker!Shutdown, WorkerProofs!Shutdown,
       Worker!Exit, WorkerProofs!Exit, Worker!Restarted, WorkerProofs!Restarted,
       Worker!Mail, WorkerProofs!Mail, Worker!faults, WorkerProofs!faults,
       Worker!IdleSlot, WorkerProofs!IdleSlot, Worker!Stalled, WorkerProofs!Stalled

LEMMA SameNext == [Worker!Next]_workerVars => [WorkerProofs!Next]_(WorkerProofs!vars)
<1>1. workerVars = WorkerProofs!vars /\ workerVars' = WorkerProofs!vars'
  BY DEF workerVars, WorkerProofs!vars
<1>2. Worker!Mail = WorkerProofs!Mail
  BY DEF Worker!Mail, WorkerProofs!Mail
<1>3. Worker!Next => WorkerProofs!Next
  BY <1>2, SameStep, SameTake, SameProcess DEF Worker!Next, WorkerProofs!Next
<1> QED
  BY <1>1, <1>3

LEMMA FlowRunsProvedWorker == FlowSpec => WorkerProofs!Spec
<1>1. FlowInit => WorkerProofs!Init
  BY SameInit DEF FlowInit
<1>2. [FlowNext]_flowVars => [WorkerProofs!Next]_(WorkerProofs!vars)
  BY FlowStepsWorker, SameNext
<1> QED
  BY <1>1, <1>2, PTL DEF FlowSpec, WorkerProofs!Spec

-----------------------------------------------------------------------------
LEMMA HistoriesType ==
  ASSUME unpublished \subseteq Request, cutShort \subseteq Request, [FlowNext]_flowVars
  PROVE  unpublished' \subseteq Request /\ cutShort' \subseteq Request
BY DEF FlowNext, flowVars

LEMMA WorkerTypes == WorkerProofs!Spec => []WorkerProofs!TypeOK
BY WorkerProofs!TypeCorrect, WorkerAssumptions, BullJobAssumption, PTL

(* The two services stay well typed together, for any number of requests,  *)
(* activations and failures.                                               *)
THEOREM FlowTypeCorrect == FlowSpec => []FlowTypeOK
<1> DEFINE Histories == unpublished \subseteq Request /\ cutShort \subseteq Request
<1>1. FlowInit => Histories
  BY DEF FlowInit
<1>2. TypeOK /\ WorkerProofs!TypeOK /\ Histories => FlowTypeOK
  BY SameTypes DEF FlowTypeOK
<1>3. Histories /\ [FlowNext]_flowVars => Histories'
  BY HistoriesType
<1> HIDE DEF Histories
<1> QED
  BY <1>1, <1>2, <1>3, FlowRunsSaga, TypeCorrect, FlowRunsProvedWorker, WorkerTypes, PTL
  DEF FlowSpec

LEMMA WorkerTypesWell == WorkerProofs!Spec => []WorkerProofs!TypeInv
BY WorkerProofs!TypeAlways, WorkerAssumptions, BullJobAssumption, PTL

LEMMA WorkerAttempts == WorkerProofs!Spec => []WorkerProofs!AttemptsInv
BY WorkerProofs!AttemptsAlways, WorkerAssumptions, BullJobAssumption, PTL

LEMMA WorkerReports == WorkerProofs!Spec => []WorkerProofs!CompletedSagaReported
BY WorkerProofs!CompletedReportedAlways, WorkerAssumptions, BullJobAssumption, PTL

-----------------------------------------------------------------------------
(* What was added to one queue by one service is the other's.              *)
LEMMA SharedAlways == FlowSpec => []Shared
<1>1. FlowInit => Shared
  BY DEF FlowInit, Init, Shared, Worker!Init, Worker!Mail, Worker!NoJob, NoJob
<1>2. Shared /\ [FlowNext]_flowVars => Shared'
  <2>1. Shared /\ UNCHANGED flowVars => Shared'
    BY DEF Shared, flowVars, vars, workerVars
  <2> QED
    BY <2>1 DEF FlowNext
<1> QED
  BY <1>1, <1>2, PTL DEF FlowSpec

-----------------------------------------------------------------------------
(***************************************************************************)
(* Without a fault of the Main API a saga is compensated either by the     *)
(* request that failed before it queued the mail, or for a failure that    *)
(* was reported.                                                           *)
(***************************************************************************)
Compensates(s, a) ==
  task[s][a] \in {"markCompensating", "undoSubscription", "undoRepository", "markCompensated"}

OverUnqueued(s) == s \notin queued /\ ~BeforeCommit(s) /\ ~AfterCommit(s)

SentNeverCompensates ==
  \A s \in Request, a \in Activation : Compensates(s, a) => a[1] # "sent"

CompensationInv ==
  /\ SentNeverCompensates
  /\ faults = 0 =>
       \A s \in Request :
         /\ task[s][Start] # "idle" => OverUnqueued(s)
         /\ saga[s].status \in {"COMPENSATING", "COMPENSATED"} =>
              OverUnqueued(s) \/ result[s]["failed"].state # "none"

LEMMA CompensationInvInit == Init => CompensationInv
BY Activations
DEF Init, CompensationInv, SentNeverCompensates, Compensates, Report, NoSaga

(* A request queues its mail as the last thing it does.                    *)
LEMMA QueuesLast ==
  ASSUME TypeOK, [Next]_vars, NEW s \in Request, s \in queued', s \notin queued
  PROVE  /\ AddEmail(s) \/ AddEmailReplyLost(s)
         /\ ~AfterCommit(s)' /\ ~BeforeCommit(s)'
<1>1. AddEmail(s) \/ AddEmailReplyLost(s)
  BY QueuedBy
<1>2. call'[s].pc \in {"accepted", "failed"}
  BY <1>1 DEF AddEmail, AddEmailReplyLost, Catch, CallEnds, TypeOK, NoCall
<1> QED
  BY <1>1, <1>2 DEF AfterCommit, BeforeCommit

LEMMA OverUnqueuedStays ==
  ASSUME TypeOK, [Next]_vars, NEW s \in Request, OverUnqueued(s)
  PROVE  OverUnqueued(s)'
<1>1. ~CommitTransaction(s)
  BY DEF OverUnqueued, BeforeCommit, CommitTransaction
<1> QED
  BY <1>1, CallSteps, QueueSteps DEF OverUnqueued

LEMMA FaultsGrow == ASSUME TypeOK, [Next]_vars PROVE faults' \in {faults, faults + 1}
<1> USE DEF database, work
<1>1. ASSUME NEW x \in Request, CallStep(x) PROVE faults' \in {faults, faults + 1}
  BY <1>1 DEF CallStep, VerificationFails, FindSubscription, CommitTransaction,
              TransactionConflicts, TransactionFails, MarkEmailSendRequested, AddEmail,
              StartFails, AddEmailReplyLost, Catch
<1>2. ASSUME NEW x \in Request, NEW a \in Activation, TaskStep(x, a) \/ LoseLock(x, a)
      PROVE  faults' \in {faults, faults + 1}
  BY <1>2 DEF TaskStep, MarkCompensating, UndoSubscription, UndoRepository, MarkCompensated,
              MarkCompleted, Return, TaskFails, Find, LoseLock
<1>3. ASSUME NEW c \in Click, ClickStep(c) PROVE UNCHANGED faults
  BY <1>3 DEF ClickStep, Confirm, Cancel, FollowLink, ConfirmUpdates, CancelUpdates
<1>4. ASSUME NEW x \in Request, Deliver(x) \/ ReportSent(x) \/ ReportFailed(x)
      PROVE  UNCHANGED faults
  BY <1>4 DEF Deliver, ReportSent, ReportFailed, Reports
<1>5. ASSUME NEW x \in Request, NEW y \in Report, TakeResult(x, y) \/ LoseLockFirst(x, y)
      PROVE  faults' \in {faults, faults + 1}
  BY <1>5 DEF TakeResult, LoseLockFirst
<1>6. ASSUME NEW x \in Request, NEW e \in Email, NEW n \in RepoName, FindRepository(x, e, n)
      PROVE  UNCHANGED faults
  BY <1>6 DEF FindRepository
<1>7. Crash \/ UNCHANGED vars => faults' \in {faults, faults + 1}
  BY DEF Crash, vars
<1> QED
  BY <1>1, <1>2, <1>3, <1>4, <1>5, <1>6, <1>7 DEF Next

(* Where a compensation is, and how it came there.                         *)
LEMMA CompensationSteps ==
  ASSUME TypeInv, [Next]_vars, NEW s \in Request, NEW a \in Activation, Compensates(s, a)'
  PROVE  Compensates(s, a) \/ a[1] # "sent"
<1>1. AfterFind(s, a) = "markCompensating" => a[1] # "sent"
  BY DEF AfterFind
<1>2. AfterFind(s, a) \in {"return", "markCompleted", "markCompensating"}
  BY DEF AfterFind
<1>3. UndoSubscription(s, a) => task[s][a] = "undoSubscription"
  BY DEF UndoSubscription
<1> QED
  BY <1>1, <1>2, <1>3, TaskSteps DEF Compensates

LEMMA CompensationInvStep ==
  ASSUME TypeInv, SafeInv, OverlapInv, CompensationInv, [Next]_vars
  PROVE  CompensationInv'
<1>0. TypeOK /\ faults \in Nat
  BY SagaAssumption DEF TypeInv, TypeOK, SagaAssumption
<1>1. faults' = 0 => faults = 0
  BY <1>0, FaultsGrow
<1>2. SentNeverCompensates'
  BY CompensationSteps DEF CompensationInv, SentNeverCompensates
<1>3. ASSUME NEW s \in Request, faults' = 0, task'[s][Start] # "idle" PROVE OverUnqueued(s)'
  <2>1. CASE task[s][Start] # "idle"
    BY <1>0, <1>1, <1>3, <2>1, OverUnqueuedStays DEF CompensationInv
  <2>2. CASE task[s][Start] = "idle"
    <3>1. StartFails(s) \/ AddEmailReplyLost(s)
      BY <1>3, <2>2, TaskSteps, Activations DEF UndoSubscription
    <3>2. ~AddEmailReplyLost(s)
      <4>1. AddEmailReplyLost(s) => faults' = faults + 1
        BY DEF AddEmailReplyLost
      <4> QED
        BY <1>0, <1>3, <4>1
    <3>3. StartFails(s)
      BY <3>1, <3>2
    <3>4. AfterCommit(s) /\ queued' = queued /\ call'[s].pc = "failed"
      BY <1>0, <3>3 DEF StartFails, Catch, CallEnds, AfterCommit, TypeOK, NoCall
    <3>5. s \notin queued
      BY <3>4 DEF OverlapInv, StartAlone
    <3> QED
      BY <3>4, <3>5 DEF OverUnqueued, AfterCommit, BeforeCommit
  <2> QED
    BY <2>1, <2>2
<1>4. ASSUME NEW s \in Request, faults' = 0, saga'[s].status \in {"COMPENSATING", "COMPENSATED"}
      PROVE  OverUnqueued(s)' \/ result'[s]["failed"].state # "none"
  <2>1. \/ saga[s].status \in {"COMPENSATING", "COMPENSATED"}
        \/ \E a \in Activation : Compensates(s, a)
    BY <1>0, <1>4, SagaSteps DEF Compensates
  <2>2. ASSUME NEW a \in Activation, Compensates(s, a)
        PROVE  OverUnqueued(s) \/ result[s]["failed"].state # "none"
    <3>1. task[s][a] # "idle" /\ a[1] # "sent"
      BY <2>2 DEF CompensationInv, SentNeverCompensates, Compensates
    <3>2. CASE a = Start
      BY <1>1, <1>4, <3>1, <3>2 DEF CompensationInv
    <3>3. CASE a # Start
      <4>1. a[1] = "failed"
        BY <3>1, <3>3, Activations DEF Report
      <4> QED
        BY <3>1, <3>3, <4>1 DEF TypeInv, JobsSound
    <3> QED
      BY <3>2, <3>3
  <2>3. OverUnqueued(s) \/ result[s]["failed"].state # "none"
    BY <1>1, <1>4, <2>1, <2>2 DEF CompensationInv
  <2>4. "failed" \in Report
    BY DEF Report
  <2> QED
    BY <1>0, <2>3, <2>4, OverUnqueuedStays, ResultSteps
<1> QED
  BY <1>2, <1>3, <1>4 DEF CompensationInv

LEMMA CompensationAlways == Spec => []CompensationInv
<1>1. TypeInv /\ SafeInv /\ OverlapInv /\ CompensationInv /\ [Next]_vars => CompensationInv'
  BY CompensationInvStep
<1> QED
  BY <1>1, OverlapInvariance, CompensationInvInit, PTL DEF Spec

(* A temporary SMTP error compensates nothing while the mail's job has     *)
(* attempts left, if the Main API is not at fault itself.                  *)
THEOREM CompensatesOnLastAttempt == FlowSpec => []CompensatedOnLastAttempt
<1>1. CompensationInv /\ Shared /\ WorkerProofs!AttemptsInv /\ WorkerProofs!TypeInv
        => CompensatedOnLastAttempt
  <2> SUFFICES ASSUME CompensationInv, Shared, WorkerProofs!AttemptsInv, WorkerProofs!TypeInv,
                      NEW s \in Request,
                      saga[s].status \in {"COMPENSATING", "COMPENSATED"},
                      s \in queued, faults = 0
               PROVE  IsFinal(job[s].attempts)
    BY DEF CompensatedOnLastAttempt
  <2>1. result[s]["failed"].state # "none"
    BY DEF CompensationInv, OverUnqueued
  <2>2. "failed" \in reported[s]
    BY <2>1 DEF Shared, Report
  <2>3. job[s].attempts >= MaxAttempts - 1
    BY <2>2 DEF WorkerProofs!AttemptsInv, WorkerProofs!FailureReportedLast
  <2>4. job[s].attempts \in Nat
    BY DEF WorkerProofs!TypeInv, WorkerProofs!JobsOK, WorkerProofs!Job, WorkerProofs!Mail
  <2> QED
    BY <2>3, <2>4, BullJobAssumption DEF BullJobAssumption, IsFinal
<1> QED
  BY <1>1, FlowRunsSaga, CompensationAlways, SharedAlways, FlowRunsProvedWorker, WorkerAttempts,
     WorkerTypesWell, PTL

-----------------------------------------------------------------------------
(***************************************************************************)
(* Where a saga can stay unfinished.  What the Main API still has to do    *)
(* for a saga is seen in its request, its activations and its result jobs. *)
(* As long as the saga is unfinished something of that is left, or work    *)
(* that nobody does again was cut short:                                   *)
(*   - before its mail is queued, its request or the compensation of the   *)
(*     catch block goes on;                                                *)
(*   - what marked it COMPENSATING goes on, or is taken up again by the    *)
(*     job of the failure report.                                          *)
(* An activation that is cut short has its lock, and then its job goes     *)
(* back to wait or has failed for good, or it has none.                    *)
(***************************************************************************)
Untouched(s) == saga[s].status \in {"SUBSCRIPTION_CREATED", "EMAIL_SEND_REQUESTED"}

Compensating(s) == saga[s].status = "COMPENSATING"

UnqueuedGoesOn ==
  \A s \in Request :
    Untouched(s) /\ s \notin queued /\ s \notin cutShort =>
      AfterCommit(s) \/ task[s][Start] = "markCompensating"

CompensationGoesOn ==
  \A s \in Request :
    Compensating(s) /\ s \notin cutShort =>
      \/ \E a \in Activation : Compensates(s, a)
      \/ result[s]["failed"].state \in {"wait", "failed"}

ProgressInv == UnqueuedGoesOn /\ CompensationGoesOn

LEMMA ProgressInvInit == FlowInit => ProgressInv
BY DEF FlowInit, Init, ProgressInv, UnqueuedGoesOn, CompensationGoesOn, NoSaga, Untouched,
       Compensating

(* What is cut short, is noted.                                            *)
LEMMA CutShortGrows ==
  ASSUME [FlowNext]_flowVars
  PROVE  /\ cutShort \subseteq cutShort'
         /\ \A s \in Request : s \notin cutShort' => ~CutsShort(s) \/ UNCHANGED flowVars
BY DEF FlowNext, flowVars

(* How an activation ends, other than by its return.                       *)
LEMMA ActivationEnds ==
  ASSUME TypeInv, [Next]_vars, NEW s \in Request, NEW a \in Activation, task'[s][a] = "idle",
         task[s][a] \notin {"idle", "return"}
  PROVE  TaskFails(s, a) \/ Crash
<1> USE DEF work
<1>0. TypeOK
  BY DEF TypeInv
<1>1. ASSUME NEW x \in Request, NEW b \in Activation, NEW pc \in TaskPc,
             TaskGoes(x, b, pc) \/ TaskStarts(x, b, pc)
      PROVE  x = s /\ b = a /\ pc = "idle"
  <2>1. task'[s][a] = IF s = x /\ a = b THEN pc ELSE task[s][a]
    BY <1>0, <1>1, TaskMoves
  <2> QED
    BY <2>1
<1>2. ASSUME NEW x \in Request, NEW b \in Activation, TaskStep(x, b) PROVE TaskFails(s, a)
  <2>1. CASE TaskFails(x, b)
    <3>1. TaskGoes(x, b, "idle")
      BY <2>1 DEF TaskFails, Finish
    <3> QED
      BY <1>1, <2>1, <3>1 DEF TaskPc
  <2>2. CASE Return(x, b)
    <3>1. TaskGoes(x, b, "idle") /\ task[x][b] = "return"
      BY <2>2 DEF Return, Finish
    <3> QED
      BY <1>1, <3>1 DEF TaskPc
  <2>3. CASE Find(x, b)
    BY <1>1, <2>3, FindMoves DEF Find
  <2>4. CASE ~TaskFails(x, b) /\ ~Return(x, b) /\ ~Find(x, b)
    <3>1. PICK pc \in TaskPc \ {"idle"} : TaskGoes(x, b, pc)
      BY <1>2, <2>4 DEF TaskStep, MarkCompensating, UndoSubscription, UndoRepository,
                        MarkCompensated, MarkCompleted, TaskPc
    <3> QED
      BY <1>1, <3>1
  <2> QED
    BY <2>1, <2>2, <2>3, <2>4
<1>3. ASSUME NEW x \in Request, NEW b \in Activation, LoseLock(x, b) PROVE FALSE
  BY <1>3 DEF LoseLock
<1>4. ASSUME NEW x \in Request, NEW k \in Report, TakeResult(x, k) \/ LoseLockFirst(x, k)
      PROVE  FALSE
  <2> DEFINE b == <<k, result[x][k].stalls>>
  <2>1. b \in Activation
    BY <1>0, Activations DEF TypeOK, Job
  <2>2. TaskStarts(x, b, AfterFind(x, b)) \/ TaskStarts(x, b, "find")
    BY <1>4 DEF TakeResult, LoseLockFirst
  <2>3. AfterFind(x, b) \in TaskPc \ {"idle"} /\ "find" \in TaskPc \ {"idle"}
    BY <2>1, FindMoves DEF TaskPc
  <2> HIDE DEF b
  <2> QED
    BY <1>1, <2>1, <2>2, <2>3
<1>5. ASSUME NEW x \in Request, CallStep(x) PROVE FALSE
  <2>1. UNCHANGED task \/ TaskStarts(x, Start, AfterFind(x, Start))
    BY <1>5 DEF CallStep, VerificationFails, FindSubscription, CommitTransaction,
                TransactionConflicts, TransactionFails, MarkEmailSendRequested, AddEmail,
                StartFails, AddEmailReplyLost, Catch
  <2> QED
    BY <1>1, <2>1, FindMoves, Activations
<1>6. ASSUME NEW c \in Click, ClickStep(c) PROVE FALSE
  BY <1>6 DEF ClickStep, Confirm, Cancel, FollowLink, ConfirmUpdates, CancelUpdates
<1>7. ASSUME NEW x \in Request, Deliver(x) \/ ReportSent(x) \/ ReportFailed(x) PROVE FALSE
  BY <1>7 DEF Deliver, ReportSent, ReportFailed, Reports
<1>8. ASSUME NEW x \in Request, NEW e \in Email, NEW n \in RepoName, FindRepository(x, e, n)
      PROVE  FALSE
  BY <1>8 DEF FindRepository
<1>9. ~(UNCHANGED vars)
  BY DEF vars
<1> QED
  BY <1>2, <1>3, <1>4, <1>5, <1>6, <1>7, <1>8, <1>9 DEF Next

(* Its job, of which it has the lock, is left to be done again.            *)
LEMMA JobGoesBack ==
  ASSUME TypeInv, NEW s \in Request, NEW a \in Activation, HasLock(s, a),
         TaskFails(s, a) \/ Crash
  PROVE  result'[s][a[1]].state \in {"wait", "failed"}
<1>1. a[1] \in Report /\ result[s][a[1]].state = "active" /\ result[s][a[1]] \in Job
  BY Activations DEF HasLock, TypeInv, TypeOK
<1>2. CASE TaskFails(s, a)
  <2>1. result' = [result EXCEPT ![s][a[1]] = Failed(result[s][a[1]])]
    BY <1>2 DEF TaskFails, Finish
  <2>2. result'[s][a[1]] = Failed(result[s][a[1]])
    BY <1>1, <2>1 DEF TypeInv, TypeOK
  <2> QED
    BY <1>1, <2>2 DEF Failed, Job
<1>3. CASE Crash
  <2>1. result'[s][a[1]] = Stalled(result[s][a[1]])
    BY <1>1, <1>3 DEF Crash
  <2> QED
    BY <1>1, <2>1 DEF Stalled, Job
<1> QED
  BY <1>2, <1>3

(* How a request that has committed ends.                                  *)
LEMMA RequestEnds ==
  ASSUME TypeOK, [Next]_vars, NEW s \in Request, AfterCommit(s), ~AfterCommit(s)'
  PROVE  StartFails(s) \/ AddEmail(s) \/ AddEmailReplyLost(s) \/ Crash
<1> USE DEF database, work
<1>1. ASSUME NEW x \in Request, CallStep(x), x # s PROVE call'[s] = call[s]
  BY <1>1 DEF TypeOK, CallStep, VerificationFails, FindSubscription, CommitTransaction,
              TransactionConflicts, TransactionFails, MarkEmailSendRequested, AddEmail,
              StartFails, AddEmailReplyLost, Catch, CallEnds, CallGoes
<1>2. ASSUME CallStep(s) PROVE StartFails(s) \/ AddEmail(s) \/ AddEmailReplyLost(s)
  <2>1. CASE MarkEmailSendRequested(s)
    <3>1. call'[s].pc = "addEmail"
      BY <2>1, CallMoves DEF MarkEmailSendRequested, CallPc
    <3> QED
      BY <3>1 DEF AfterCommit
  <2>2. CASE ~MarkEmailSendRequested(s)
    BY <1>2, <2>2 DEF AfterCommit, CallStep, VerificationFails, FindSubscription,
              CommitTransaction, TransactionConflicts, TransactionFails
  <2> QED
    BY <2>1, <2>2
<1>3. ASSUME NEW x \in Request, NEW e \in Email, NEW n \in RepoName, FindRepository(x, e, n)
      PROVE  call'[s] = call[s]
  BY <1>3 DEF TypeOK, FindRepository, AfterCommit
<1>4. ASSUME NEW x \in Request, NEW a \in Activation, TaskStep(x, a) \/ LoseLock(x, a)
      PROVE  UNCHANGED call
  BY <1>4 DEF TaskStep, MarkCompensating, UndoSubscription, UndoRepository, MarkCompensated,
              MarkCompleted, Return, TaskFails, Find, Finish, LoseLock
<1>5. ASSUME NEW c \in Click, ClickStep(c) PROVE UNCHANGED call
  BY <1>5 DEF ClickStep, Confirm, Cancel, FollowLink, ConfirmUpdates, CancelUpdates
<1>6. ASSUME NEW x \in Request, Deliver(x) \/ ReportSent(x) \/ ReportFailed(x) PROVE UNCHANGED call
  BY <1>6 DEF Deliver, ReportSent, ReportFailed, Reports
<1>7. ASSUME NEW x \in Request, NEW y \in Report, TakeResult(x, y) \/ LoseLockFirst(x, y)
      PROVE  UNCHANGED call
  BY <1>7 DEF TakeResult, LoseLockFirst
<1>8. UNCHANGED vars => UNCHANGED call
  BY DEF vars
<1>9. StartFails(s) \/ AddEmail(s) \/ AddEmailReplyLost(s) \/ Crash \/ call'[s] = call[s]
  BY <1>1, <1>2, <1>3, <1>4, <1>5, <1>6, <1>7, <1>8 DEF Next
<1> QED
  BY <1>9 DEF AfterCommit

LEMMA UnqueuedGoesOnStep ==
  ASSUME TypeInv, SafeInv, OverlapInv, UnqueuedGoesOn, [FlowNext]_flowVars
  PROVE  UnqueuedGoesOn'
<1>0. TypeOK
  BY DEF TypeInv
<1>n. [Next]_vars
  BY <1>0, FlowStepsSaga
<1> SUFFICES ASSUME NEW s \in Request, Untouched(s)', s \notin queued', s \notin cutShort'
             PROVE  AfterCommit(s)' \/ task'[s][Start] = "markCompensating"
  BY DEF UnqueuedGoesOn
<1>1. s \notin cutShort
  BY CutShortGrows
<1>2. s \notin queued
  BY <1>n, QueueSteps
<1>3. CASE CommitTransaction(s)
  <2>1. call'[s].pc = "markEmailSendRequested"
    BY <1>0, <1>3, CallMoves DEF CommitTransaction, CallPc
  <2> QED
    BY <2>1 DEF AfterCommit
<1>4. CASE UNCHANGED flowVars
  <2>1. AfterCommit(s) \/ task[s][Start] = "markCompensating"
    BY <1>1, <1>2, <1>4 DEF UnqueuedGoesOn, Untouched, flowVars, vars
  <2> QED
    BY <1>4, <2>1 DEF AfterCommit, flowVars, vars
<1>5. CASE ~CommitTransaction(s) /\ ~CutsShort(s)
  <2>1. AfterCommit(s) \/ task[s][Start] = "markCompensating"
    <3>1. Untouched(s) \/ AfterCommit(s)
      BY <1>0, <1>n, <1>5, SagaSteps DEF Untouched
    <3> QED
      BY <1>1, <1>2, <3>1 DEF UnqueuedGoesOn
  <2>2. CASE AfterCommit(s) /\ ~AfterCommit(s)'
    <3>1. StartFails(s) \/ Crash
      <4>1. AddEmail(s) \/ AddEmailReplyLost(s) => s \in queued'
        BY DEF AddEmail, AddEmailReplyLost
      <4> QED
        BY <1>0, <1>n, <2>2, <4>1, RequestEnds
    <3>2. CASE StartFails(s)
      <4>1. saga' = saga /\ AfterFind(s, Start) = "markCompensating"
        <5>1. UNCHANGED saga
          BY <3>2 DEF StartFails, database
        <5> QED
          BY <5>1, Activations DEF Untouched, AfterFind
      <4>2. TaskStarts(s, Start, "markCompensating") /\ "markCompensating" \in TaskPc
        BY <3>2, <4>1 DEF StartFails, Catch, TaskPc
      <4> QED
        BY <1>0, <4>2, TaskMoves, Activations
    <3>3. CASE Crash
      <4>1. call'[s].pc = "failed" /\ task'[s][Start] = "idle"
        BY <2>2, <3>3, Activations DEF Crash, AfterCommit, Answered, NoCall
      <4> QED
        BY <1>5, <2>2, <4>1 DEF CutsShort, AfterCommit
    <3> QED
      BY <3>1, <3>2, <3>3
  <2>3. CASE task[s][Start] = "markCompensating"
    <3>1. task'[s][Start] # "idle"
      <4>1. ~HasLock(s, Start)
        BY DEF HasLock
      <4> QED
        BY <1>5, <2>3, <4>1, Activations DEF CutsShort
    <3>2. ~MarkCompensating(s, Start)
      <4>1. MarkCompensating(s, Start) => saga'[s].status = "COMPENSATING"
        BY <1>0, SagaMoves DEF MarkCompensating, SagaStatus
      <4> QED
        BY <4>1 DEF Untouched
    <3>3. ~UndoSubscription(s, Start)
      BY <2>3 DEF UndoSubscription
    <3>4. ~StartFails(s) /\ ~AddEmailReplyLost(s)
      <4>1. ~AfterCommit(s)
        BY <2>3 DEF OverlapInv, StartAlone, AfterCommit
      <4> QED
        BY <4>1 DEF StartFails, AddEmailReplyLost, AfterCommit
    <3> QED
      BY <1>n, <2>3, <3>1, <3>2, <3>3, <3>4, TaskSteps, Activations
  <2> QED
    BY <2>1, <2>2, <2>3
<1> QED
  BY <1>3, <1>4, <1>5, CutShortGrows

(* Only the worker makes a job active.                                     *)
LEMMA ResultTaken ==
  ASSUME TypeInv, [Next]_vars, NEW s \in Request, NEW k \in Report,
         result[s][k].state # "active", result'[s][k].state = "active"
  PROVE  TakeResult(s, k)
<1>0. TypeOK
  BY DEF TypeInv
<1>1. ASSUME NEW x \in Request, NEW y \in Report, NEW j \in Job, j.state # "active",
             result' = [result EXCEPT ![x][y] = j]
      PROVE  FALSE
  BY <1>0, <1>1, JobMoves
<1>2. ASSUME NEW x \in Request, NEW y \in Report, result[x][y].state \in {"wait", "active"}
      PROVE  LET j == Stalled(result[x][y]) IN j \in Job /\ j.state # "active"
  <2>1. SoundJob(result[x][y])
    BY DEF TypeInv, JobsSound
  <2> QED
    BY <1>2, <2>1, StalledSound DEF SoundJob
<1>3. ASSUME NEW x \in Request, NEW a \in Activation, TaskStep(x, a) PROVE FALSE
  <2>1. CASE Return(x, a) \/ TaskFails(x, a)
    <3>1. \/ Finish(x, a, Succeeded(result[x][a[1]]))
          \/ Finish(x, a, Failed(result[x][a[1]]))
      BY <2>1 DEF Return, TaskFails
    <3>2. CASE HasLock(x, a)
      <4>1. /\ a[1] \in Report /\ SoundJob(result[x][a[1]])
            /\ result[x][a[1]].state = "active"
        BY <3>2, Activations DEF HasLock, TypeInv, JobsSound
      <4>2. /\ Succeeded(result[x][a[1]]).state = "completed"
            /\ Failed(result[x][a[1]]).state \in {"wait", "failed"}
            /\ SoundJob(Succeeded(result[x][a[1]])) /\ SoundJob(Failed(result[x][a[1]]))
        BY <4>1, SucceededSound, FailedSound
      <4>3. /\ Succeeded(result[x][a[1]]) \in Job
            /\ Failed(result[x][a[1]]) \in Job
        BY <4>2 DEF SoundJob
      <4>4. \/ result' = [result EXCEPT ![x][a[1]] = Succeeded(result[x][a[1]])]
            \/ result' = [result EXCEPT ![x][a[1]] = Failed(result[x][a[1]])]
        BY <3>1, <3>2 DEF Finish
      <4> QED
        BY <1>1, <4>1, <4>2, <4>3, <4>4
    <3>3. CASE ~HasLock(x, a)
      BY <3>1, <3>3 DEF Finish
    <3> QED
      BY <3>2, <3>3
  <2>2. CASE ~Return(x, a) /\ ~TaskFails(x, a)
    BY <1>3, <2>2 DEF TaskStep, MarkCompensating, UndoSubscription, UndoRepository,
                      MarkCompensated, MarkCompleted, Find
  <2> QED
    BY <2>1, <2>2
<1>4. ASSUME NEW x \in Request, NEW a \in Activation, LoseLock(x, a) PROVE FALSE
  <2>1. /\ a[1] \in Report /\ result[x][a[1]].state = "active"
        /\ result' = [result EXCEPT ![x][a[1]] = Stalled(result[x][a[1]])]
    BY <1>4, Activations DEF LoseLock, HasLock
  <2> QED
    BY <1>1, <1>2, <2>1
<1>5. ASSUME NEW x \in Request, NEW y \in Report, LoseLockFirst(x, y) PROVE FALSE
  <2>1. /\ result[x][y].state = "wait"
        /\ result' = [result EXCEPT ![x][y] = Stalled(result[x][y])]
    BY <1>5 DEF LoseLockFirst
  <2> QED
    BY <1>1, <1>2, <2>1
<1>6. ASSUME NEW x \in Request, NEW y \in Report, TakeResult(x, y) PROVE TakeResult(s, k)
  <2>1. result' = [result EXCEPT ![x][y] = Taken(result[x][y])]
    BY <1>6 DEF TakeResult
  <2>2. x = s /\ y = k
    BY <1>0, <2>1 DEF TypeOK
  <2> QED
    BY <1>6, <2>2
<1>7. ASSUME NEW x \in Request, NEW y \in Report, Reports(x, y) PROVE FALSE
  <2>1. /\ result' = [result EXCEPT ![x][y] = Added(result[x][y])]
        /\ result[x][y].state = "none" /\ result[x][y] \in Job
    BY <1>0, <1>7 DEF Reports, TypeOK
  <2>2. Added(result[x][y]) \in Job /\ Added(result[x][y]).state # "active"
    BY <2>1 DEF Added, Job, JobState
  <2> QED
    BY <1>1, <2>1, <2>2
<1>8. ASSUME NEW x \in Request, Deliver(x) \/ ReportSent(x) \/ ReportFailed(x) PROVE FALSE
  BY <1>7, <1>8 DEF Deliver, ReportSent, ReportFailed, Report
<1>9. ASSUME NEW x \in Request, CallStep(x) PROVE FALSE
  BY <1>9 DEF CallStep, VerificationFails, FindSubscription, CommitTransaction,
              TransactionConflicts, TransactionFails, MarkEmailSendRequested, AddEmail,
              StartFails, AddEmailReplyLost
<1>10. ASSUME NEW c \in Click, ClickStep(c) PROVE FALSE
  BY <1>10 DEF ClickStep, Confirm, Cancel, FollowLink, ConfirmUpdates, CancelUpdates
<1>11. ASSUME NEW x \in Request, NEW e \in Email, NEW n \in RepoName, FindRepository(x, e, n)
       PROVE  FALSE
  BY <1>11 DEF FindRepository
<1>12. ~(UNCHANGED vars)
  BY DEF vars
<1>13. ~Crash
  <2>1. Crash => result'[s][k] = result[s][k]
    BY DEF Crash
  <2> QED
    BY <2>1
<1> QED
  BY <1>3, <1>4, <1>5, <1>6, <1>8, <1>9, <1>10, <1>11, <1>12, <1>13 DEF Next

LEMMA CompensationGoesOnStep ==
  ASSUME TypeInv, SafeInv, CompensationInv, CompensationGoesOn, [FlowNext]_flowVars
  PROVE  CompensationGoesOn'
<1>0. TypeOK
  BY DEF TypeInv
<1>n. [Next]_vars
  BY <1>0, FlowStepsSaga
<1> SUFFICES ASSUME NEW s \in Request, Compensating(s)', s \notin cutShort'
             PROVE  \/ \E a \in Activation : Compensates(s, a)'
                    \/ result'[s]["failed"].state \in {"wait", "failed"}
  BY DEF CompensationGoesOn
<1> "failed" \in Report /\ "sent" \in Report
  BY DEF Report
<1>1. s \notin cutShort
  BY CutShortGrows
<1>2. CASE UNCHANGED flowVars
  <2>1. \/ \E a \in Activation : Compensates(s, a)
        \/ result[s]["failed"].state \in {"wait", "failed"}
    BY <1>1, <1>2 DEF CompensationGoesOn, Compensating, flowVars, vars
  <2> QED
    BY <1>2, <2>1 DEF Compensates, flowVars, vars
<1>3. ASSUME NEW a \in Activation, MarkCompensating(s, a) PROVE Compensates(s, a)'
  BY <1>0, <1>3, TaskMoves DEF MarkCompensating, TaskPc, Compensates
<1>4. CASE Compensating(s) /\ ~CutsShort(s)
  <2>1. ASSUME NEW a \in Activation, Compensates(s, a)
        PROVE  Compensates(s, a)' \/ result'[s]["failed"].state \in {"wait", "failed"}
    <3>1. task[s][a] \notin {"idle", "return", "markCompleted"} /\ a[1] # "sent"
      BY <2>1 DEF Compensates, CompensationInv, SentNeverCompensates
    <3>2. a # Start => a[1] = "failed"
      BY <3>1, Activations DEF Report
    <3>3. CASE task'[s][a] = "idle"
      <4>1. HasLock(s, a)
        BY <1>4, <3>1, <3>3 DEF CutsShort
      <4>2. a[1] = "failed"
        BY <3>2, <4>1 DEF HasLock
      <4> QED
        BY <1>n, <3>1, <3>3, <4>1, <4>2, ActivationEnds, JobGoesBack
    <3>4. CASE task'[s][a] # "idle"
      <4>1. ~MarkCompensated(s, a) /\ ~MarkCompleted(s, a)
        <5>1. MarkCompensated(s, a) => saga'[s].status = "COMPENSATED"
          BY <1>0, SagaMoves DEF MarkCompensated, SagaStatus
        <5>2. MarkCompleted(s, a) => saga'[s].status = "COMPLETED"
          BY <1>0, SagaMoves DEF MarkCompleted, SagaStatus
        <5> QED
          BY <5>1, <5>2 DEF Compensating
      <4>2. AfterFind(s, a) = "markCompensating"
        BY <1>4, <3>1 DEF AfterFind, Compensating
      <4>3. a # Start /\ LoseLockFirst(s, a[1]) => result'[s]["failed"].state \in {"wait", "failed"}
        <5> SUFFICES ASSUME LoseLockFirst(s, "failed")
                     PROVE  result'[s]["failed"].state \in {"wait", "failed"}
          BY <3>2
        <5>1. /\ result[s]["failed"] \in Job
              /\ result'[s]["failed"] = Stalled(result[s]["failed"])
          BY <1>0 DEF LoseLockFirst, TypeOK
        <5> QED
          BY <5>1 DEF Stalled, Job
      <4> QED
        BY <1>n, <2>1, <3>4, <4>1, <4>2, <4>3, TaskSteps DEF Compensates
    <3> QED
      BY <3>3, <3>4
  <2>2. CASE result[s]["failed"].state \in {"wait", "failed"}
    <3>1. CASE result'[s]["failed"].state = "active"
      <4>1. TakeResult(s, "failed")
        BY <1>n, <2>2, <3>1, ResultTaken
      <4>2. PICK a \in Activation : a = <<"failed", result[s]["failed"].stalls>>
        <5>1. result[s]["failed"].stalls \in 0..MaxStalls
          BY <1>0 DEF TypeOK, Job
        <5> QED
          BY <5>1, Activations
      <4>3. TaskStarts(s, a, AfterFind(s, a))
        BY <4>1, <4>2 DEF TakeResult
      <4>4. AfterFind(s, a) = "markCompensating"
        BY <1>4, <4>2 DEF AfterFind, Compensating
      <4>5. task'[s][a] = "markCompensating"
        BY <1>0, <4>3, <4>4, FindMoves, TaskMoves
      <4> QED
        BY <4>5 DEF Compensates
    <3>2. CASE result'[s]["failed"].state # "active"
      BY <1>n, <2>2, <3>2, ResultSteps
    <3> QED
      BY <3>1, <3>2
  <2> QED
    BY <1>1, <1>4, <2>1, <2>2 DEF CompensationGoesOn
<1>5. Compensating(s) \/ \E a \in Activation : MarkCompensating(s, a)
  BY <1>0, <1>n, SagaSteps DEF Compensating
<1> QED
  BY <1>2, <1>3, <1>4, <1>5, CutShortGrows

LEMMA ProgressAlways == FlowSpec => []ProgressInv
<1>1. /\ TypeInv /\ SafeInv /\ OverlapInv /\ CompensationInv /\ ProgressInv
      /\ [FlowNext]_flowVars
      => ProgressInv'
  BY UnqueuedGoesOnStep, CompensationGoesOnStep DEF ProgressInv
<1> QED
  BY <1>1, FlowRunsSaga, OverlapInvariance, CompensationAlways, ProgressInvInit, PTL DEF FlowSpec

-----------------------------------------------------------------------------
LEMMA WorkerHolds == WorkerProofs!Spec => []WorkerProofs!HoldsAttempts
BY WorkerProofs!HoldsAttemptsAlways, WorkerAssumptions, BullJobAssumption, PTL

-----------------------------------------------------------------------------
(* Whoever gives up the mail of a saga has told of it, or could not.       *)
Told(s) == s \in unpublished \/ reported[s] # {}

ToldInv ==
  /\ \A w \in Slot : WorkerProofs!GivesUp(w) /\ slot[w].id \in Request => Told(slot[w].id)
  /\ \A s \in Request : WorkerProofs!UsedUp(job[s]) => Told(s)

LEMMA ToldInvInit == FlowInit => ToldInv
BY DEF FlowInit, Worker!Init, Worker!Mail, Worker!NoJob, Worker!IdleSlot, ToldInv,
       WorkerProofs!GivesUp, WorkerProofs!UsedUp

LEMMA ToldStays ==
  ASSUME WorkerProofs!TypeInv, [FlowNext]_flowVars, [WorkerProofs!Next]_(WorkerProofs!vars),
         NEW s \in Request, Told(s)
  PROVE  Told(s)'
<1>1. unpublished \subseteq unpublished'
  BY DEF FlowNext, flowVars
<1>2. CASE reported'[s] = reported[s]
  BY <1>1, <1>2 DEF Told
<1>3. CASE reported'[s] # reported[s]
  <2>1. reported'[s] = reported[s] \cup {"sent"} \/ reported'[s] = reported[s] \cup {"failed"}
    BY <1>3, WorkerProofs!ReportsMove, WorkerAssumptions, BullJobAssumption
  <2> QED
    BY <2>1 DEF Told
<1> QED
  BY <1>2, <1>3

LEMMA ToldInvStep ==
  ASSUME WorkerProofs!TypeInv, WorkerProofs!HoldsAttempts, ToldInv,
         [FlowNext]_flowVars, [WorkerProofs!Next]_(WorkerProofs!vars)
  PROVE  ToldInv'
<1>1. ASSUME NEW w \in Slot, WorkerProofs!GivesUp(w)', slot'[w].id \in Request
      PROVE  Told(slot[w].id)' /\ slot'[w].id = slot[w].id
  <2>1. PICK s \in Request : slot'[w].id = s
    BY <1>1
  <2>2. CASE slot'[w] = slot[w]
    <3>1. WorkerProofs!GivesUp(w)
      BY <1>1, <2>2 DEF WorkerProofs!GivesUp
    <3>2. Told(s)
      BY <2>1, <2>2, <3>1 DEF ToldInv
    <3>3. Told(s)'
      BY <3>2, ToldStays
    <3> QED
      BY <2>1, <2>2, <3>3
  <2>3. CASE /\ slot[w].id = slot'[w].id
             /\ slot[w].pc \in {"updateProgress", "publishSent", "publishFailed"}
             /\ reported'[slot[w].id] = reported[slot[w].id] \/ reported'[slot[w].id] # {}
    <3>1. CASE reported'[s] # {}
      BY <2>1, <2>3, <3>1 DEF Told
    <3>2. CASE reported'[s] = reported[s]
      <4>1. slot'[w].pc = "rethrow"
        BY <1>1 DEF WorkerProofs!GivesUp
      <4>2. GivesUpReporting(w, s)
        BY <2>1, <2>3, <3>2, <4>1 DEF GivesUpReporting
      <4>3. FlowNext
        BY <2>3, <4>1 DEF flowVars, workerVars
      <4>4. s \in unpublished'
        BY <4>2, <4>3 DEF FlowNext
      <4> QED
        BY <2>1, <2>3, <4>4 DEF Told
    <3> QED
      BY <2>1, <2>3, <3>1, <3>2
  <2> QED
    BY <1>1, <2>2, <2>3, WorkerProofs!GivesUpAfterReporting, WorkerAssumptions, BullJobAssumption
<1>2. ASSUME NEW s \in Request, WorkerProofs!UsedUp(job'[s]) PROVE Told(s)'
  <2>1. s \in WorkerProofs!Mail
    BY DEF WorkerProofs!Mail
  <2>2. \/ WorkerProofs!UsedUp(job[s])
        \/ \E w \in Slot : WorkerProofs!GivesUp(w) /\ slot[w].id = s
    BY <1>2, <2>1, WorkerProofs!UsedUpByLast, WorkerAssumptions, BullJobAssumption
  <2>3. Told(s)
    BY <2>2 DEF ToldInv
  <2> QED
    BY <2>3, ToldStays
<1> QED
  BY <1>1, <1>2 DEF ToldInv

LEMMA ToldAlways == FlowSpec => []ToldInv
<1>1. /\ WorkerProofs!TypeInv /\ WorkerProofs!HoldsAttempts /\ ToldInv
      /\ [FlowNext]_flowVars
      => ToldInv'
  BY ToldInvStep, FlowStepsWorker, SameNext
<1> QED
  BY <1>1, ToldInvInit, FlowRunsProvedWorker, WorkerTypesWell, WorkerHolds, PTL DEF FlowSpec


-----------------------------------------------------------------------------
LEMMA StuckIsExplained ==
  ASSUME TypeInv, OverlapInv, ProgressInv, Shared, ToldInv,
         WorkerProofs!TypeInv, WorkerProofs!CompletedSagaReported
  PROVE  StuckOnlyInItsWindows
<1> SUFFICES ASSUME NEW s \in Request, Stuck(s),
                    ~(s \in unpublished /\ reported[s] = {}),
                    ~(job[s].state = "failed" /\ job[s].attempts < MaxAttempts),
                    \A k \in Report : result[s][k].state # "failed"
             PROVE  s \in cutShort /\ (s \notin queued \/ saga[s].status = "COMPENSATING")
  BY DEF StuckOnlyInItsWindows
<1> "failed" \in Report /\ "sent" \in Report
  BY DEF Report
<1>0. saga[s] \in SagaRow /\ \A k \in Report : result[s][k] \in Job
  BY DEF TypeInv, TypeOK
<1>1. /\ Untouched(s) \/ Compensating(s)
      /\ ~AfterCommit(s)
      /\ \A a \in Activation : task[s][a] = "idle"
      /\ job[s].state \notin {"wait", "active"}
      /\ \A k \in Report : result[s][k].state \in {"none", "completed"}
  BY <1>0 DEF Stuck, AtRest, Answered, AfterCommit, Untouched, Compensating, SagaRow, SagaStatus,
              Job, JobState
<1>2. CASE Compensating(s)
  <2>1. s \in cutShort
    BY <1>1, <1>2 DEF ProgressInv, CompensationGoesOn, Compensates
  <2> QED
    BY <1>2, <2>1 DEF Compensating
<1>3. CASE Untouched(s) /\ s \notin queued
  <2>1. s \in cutShort
    BY <1>1, <1>3, Activations DEF ProgressInv, UnqueuedGoesOn
  <2> QED
    BY <1>3, <2>1
<1>4. CASE Untouched(s) /\ s \in queued
  <2>1. s \in WorkerProofs!Mail /\ job[s] \in WorkerProofs!Job
    BY DEF WorkerProofs!Mail, WorkerProofs!TypeInv, WorkerProofs!JobsOK
  <2>2. reported[s] # {}
    <3>1. job[s].state \in {"completed", "failed"}
      BY <1>1, <1>4, <2>1 DEF Shared, WorkerProofs!Job, WorkerProofs!JobState
    <3>2. CASE job[s].state = "completed"
      BY <3>2 DEF WorkerProofs!CompletedSagaReported
    <3>3. CASE job[s].state = "failed"
      <4>1. job[s].attempts = MaxAttempts
        BY <2>1, <3>3, BullJobAssumption DEF BullJobAssumption, WorkerProofs!Job
      <4>2. Told(s)
        BY <3>3, <4>1 DEF ToldInv, WorkerProofs!UsedUp
      <4> QED
        BY <4>2 DEF Told
    <3> QED
      BY <3>1, <3>2, <3>3
  <2>3. PICK k \in Report : result[s][k].state # "none"
    BY <2>2 DEF Shared
  <2>4. Touched(s)
    BY <1>1, <2>3 DEF OverlapInv, JobsTouch
  <2> QED
    BY <1>4, <2>4 DEF Touched, Untouched
<1> QED
  BY <1>1, <1>2, <1>3, <1>4

(* With both services at rest, a saga that is neither COMPLETED nor        *)
(* COMPENSATED is in one of the windows that the code leaves open, and     *)
(* there is no other, however often on either side a statement, a mail or  *)
(* a publication fails, a process dies or a lock expires.                  *)
THEOREM StuckIsInAWindow == FlowSpec => []StuckOnlyInItsWindows
<1>1. TypeInv /\ OverlapInv /\ ProgressInv /\ Shared /\ ToldInv
      /\ WorkerProofs!TypeInv /\ WorkerProofs!CompletedSagaReported
      => StuckOnlyInItsWindows
  BY StuckIsExplained
<1> QED
  BY <1>1, FlowRunsSaga, OverlapInvariance, ProgressAlways, SharedAlways, ToldAlways,
     FlowRunsProvedWorker, WorkerTypesWell, WorkerReports, PTL

-----------------------------------------------------------------------------
(***************************************************************************)
(* What the two services do together.                                      *)
(***************************************************************************)

(* The system with the real mail worker in the place of what               *)
(* ConfirmationDelivery promises keeps SubscriptionPromise.                *)
THEOREM FlowKeepsPromise == FlowSpec => ImplementsPromise
  BY FlowRunsSaga, ImplementsSubscriptionPromise, PTL

(* A row is ACTIVE or UNSUBSCRIBED only if the mail provider accepted the  *)
(* confirmation of some saga that names the row.  It need not be that of   *)
(* the token the row now holds: a link read before a re-subscription may   *)
(* activate the row after it.                                              *)
ActiveWasDelivered ==
  \A i \in Request : subscription[i].status \in {"ACTIVE", "UNSUBSCRIBED"} =>
    \E s \in delivered : saga[s].subscriptionId = i

THEOREM ActiveRowsWereDelivered == FlowSpec => []ActiveWasDelivered
<1>1. SagaInv /\ OptInInv /\ Shared => ActiveWasDelivered
  BY DEF OptInInv, RowsMailed, Mailed, Shared, ActiveWasDelivered
<1> QED
  BY <1>1, FlowRunsSaga, OptInInvariance, SharedAlways, PTL

(* None of the windows of StuckOnlyInItsWindows was met.  Refused mails,   *)
(* failed statements, retries, restarts, expired locks and stalls below    *)
(* their limit may all have been.                                          *)
NoWindowMet ==
  /\ cutShort = {}
  /\ unpublished = {}
  /\ \A s \in Request : ~(job[s].state = "failed" /\ job[s].attempts < MaxAttempts)
  /\ \A s \in Request, k \in Report : result[s][k].state # "failed"

(* A saga has ended: it never began, its confirmation was accepted by the  *)
(* provider, or no subscription waits for it.  (The repository a           *)
(* compensated saga had created may stay: see RepositoriesUndone.)         *)
Ended(s) ==
  \/ saga[s].status = "ABSENT"
  \/ saga[s].status = "COMPLETED" /\ s \in delivered
  \/ saga[s].status = "COMPENSATED" /\ Undone(s)

RestIsTheEnd == AtRest /\ NoWindowMet => \A s \in Request : Ended(s)

(* When nothing is left to do and no window was met, every saga has ended. *)
THEOREM AllSagasEnd == FlowSpec => []RestIsTheEnd
<1>1. SafeInv /\ Shared /\ StuckOnlyInItsWindows => RestIsTheEnd
  <2> SUFFICES ASSUME SafeInv, Shared, StuckOnlyInItsWindows, AtRest, NoWindowMet,
                      NEW s \in Request
               PROVE  Ended(s)
    BY DEF RestIsTheEnd
  <2>1. ~Stuck(s)
    BY DEF StuckOnlyInItsWindows, NoWindowMet
  <2>2. CASE saga[s].status = "COMPLETED"
    <3>1. <<"confirm", s>> \in links
      BY <2>2 DEF SafeInv, HandlerInv, WasSent, NothingUnasked
    <3> QED
      BY <2>2, <3>1 DEF Shared, Ended
  <2>3. CASE saga[s].status = "COMPENSATED"
    BY <2>3 DEF SafeInv, HandlerInv, Ended
  <2> QED
    BY <2>1, <2>2, <2>3 DEF Stuck, Ended
<1> QED
  BY <1>1, FlowRunsSaga, Invariance, SharedAlways, StuckIsInAWindow, PTL
=============================================================================
