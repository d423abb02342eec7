----------------------- MODULE SubscriptionSagaProofs -----------------------
(***************************************************************************)
(* The subscription saga's invariants for any number of requests, users,   *)
(* repositories, attempts, stalls and faults.                              *)
(***************************************************************************)
EXTENDS SubscriptionSaga, BullJobTheorems

(* A result's handler, with its lock or without it, runs for a job.        *)
JobsSound ==
  \A s \in Request :
    /\ \A k \in Report : SoundJob(result[s][k])
    /\ \A a \in Activation : task[s][a] # "idle" /\ a # Start => result[s][a[1]].state # "none"

(* A link that is being followed has found its row.                        *)
ClicksFound ==
  \A c \in Click : click[c].pc # "idle" => click[c].row \in Request

(* Every row of Subscription holds a token.                                *)
TokensDrawn ==
  \A i \in Request : Exists(i) => subscription[i].token \in Request

TypeInv == TypeOK /\ JobsSound /\ ClicksFound /\ TokensDrawn

-----------------------------------------------------------------------------
(* What an update of one entry makes of a table, entry by entry.           *)

LEMMA TaskMoves ==
  ASSUME TypeOK, NEW s \in Request, NEW a \in Activation, NEW pc \in TaskPc,
         TaskGoes(s, a, pc) \/ TaskStarts(s, a, pc)
  PROVE  /\ task' \in [Request -> [Activation -> TaskPc]]
         /\ overlapped' \in SUBSET Request
         /\ \A x \in Request, b \in Activation :
              task'[x][b] = IF x = s /\ b = a THEN pc ELSE task[x][b]
<1>1. task \in [Request -> [Activation -> TaskPc]] /\ overlapped \in SUBSET Request
  BY DEF TypeOK
<1>2. task' = [task EXCEPT ![s][a] = pc]
  BY DEF TaskGoes, TaskStarts
<1>3. overlapped' = overlapped \/ overlapped' = overlapped \cup {s}
  BY DEF TaskGoes, TaskStarts
<1>4. task' \in [Request -> [Activation -> TaskPc]]
  BY <1>1, <1>2
<1>5. \A x \in Request, b \in Activation :
        task'[x][b] = IF x = s /\ b = a THEN pc ELSE task[x][b]
  BY <1>1, <1>2
<1> QED
  BY <1>1, <1>3, <1>4, <1>5

(* An activation is start's own, or that of a result.                      *)
LEMMA Activations ==
  /\ Start \in Activation
  /\ Start[1] = "start"
  /\ \A k \in Report, n \in 0..MaxStalls :
       <<k, n>> \in Activation \ {Start} /\ <<k, n>>[1] = k
  /\ \A a \in Activation : a # Start => /\ a[1] \in Report
                                        /\ a[2] \in 0..MaxStalls
                                        /\ a = <<a[1], a[2]>>
  BY BullJobAssumption DEF BullJobAssumption, Activation, Start, Report

LEMMA FindMoves ==
  ASSUME NEW s \in Request, NEW a \in Activation
  PROVE  AfterFind(s, a) \in TaskPc \ {"idle"}
  BY DEF AfterFind, TaskPc

LEMMA FinishMoves ==
  ASSUME TypeOK, NEW s \in Request, NEW a \in Activation, NEW job, HasLock(s, a) => job \in Job,
         Finish(s, a, job)
  PROVE  /\ result' \in [Request -> [Report -> Job]]
         /\ \A x \in Request, k \in Report :
              result'[x][k] = IF HasLock(s, a) /\ x = s /\ k = a[1] THEN job ELSE result[x][k]
<1>1. CASE HasLock(s, a)
  <2>1. a[1] \in Report
    BY <1>1, Activations DEF HasLock
  <2>2. result' = [result EXCEPT ![s][a[1]] = job]
    BY <1>1 DEF Finish
  <2>3. QED
    BY <1>1, <2>1, <2>2 DEF TypeOK
<1>2. CASE ~HasLock(s, a)
  BY <1>2 DEF Finish, TypeOK
<1>3. QED
  BY <1>1, <1>2

LEMMA JobMoves ==
  ASSUME TypeOK, NEW s \in Request, NEW k \in Report, NEW job \in Job,
         result' = [result EXCEPT ![s][k] = job]
  PROVE  /\ result' \in [Request -> [Report -> Job]]
         /\ \A x \in Request, y \in Report :
              result'[x][y] = IF x = s /\ y = k THEN job ELSE result[x][y]
  BY DEF TypeOK

LEMMA SagaMoves ==
  ASSUME TypeOK, NEW s \in Request, NEW status \in SagaStatus,
         saga' = [saga EXCEPT ![s].status = status]
  PROVE  /\ saga' \in [Request -> SagaRow]
         /\ \A x \in Request :
              /\ saga'[x].status = IF x = s THEN status ELSE saga[x].status
              /\ saga'[x].subscriptionId = saga[x].subscriptionId
<1>1. saga[s] \in SagaRow /\ saga \in [Request -> SagaRow]
  BY DEF TypeOK
<1>2. [saga[s] EXCEPT !.status = status] \in SagaRow
  BY <1>1 DEF SagaRow
<1>3. saga' = [saga EXCEPT ![s] = [saga[s] EXCEPT !.status = status]]
  BY <1>1
<1>4. saga' \in [Request -> SagaRow]
  BY <1>1, <1>2, <1>3
<1>5. ASSUME NEW x \in Request
      PROVE  /\ saga'[x].status = IF x = s THEN status ELSE saga[x].status
             /\ saga'[x].subscriptionId = saga[x].subscriptionId
  <2>1. saga[x] \in SagaRow
    BY <1>1
  <2>2. CASE x = s
    BY <1>1, <1>3, <2>2 DEF SagaRow
  <2>3. CASE x # s
    BY <1>1, <1>3, <2>3
  <2>4. QED
    BY <2>2, <2>3
<1>6. QED
  BY <1>4, <1>5

LEMMA CallMoves ==
  ASSUME TypeOK, NEW r \in Request, NEW pc \in CallPc, CallGoes(r, pc)
  PROVE  /\ call' \in [Request -> Call]
         /\ \A x \in Request : call'[x].pc = IF x = r THEN pc ELSE call[x].pc
<1>1. call[r] \in Call /\ call \in [Request -> Call]
  BY DEF TypeOK
<1>2. [call[r] EXCEPT !.pc = pc] \in Call
  BY <1>1 DEF Call
<1>3. call' = [call EXCEPT ![r] = [call[r] EXCEPT !.pc = pc]]
  BY <1>1 DEF CallGoes
<1>4. QED
  BY <1>1, <1>2, <1>3 DEF Call

LEMMA SubscriptionMoves ==
  ASSUME TypeOK, NEW i \in Request, NEW status \in SubscriptionStatus,
         subscription' = [subscription EXCEPT ![i].status = status]
  PROVE  /\ subscription' \in [Request -> SubscriptionRow]
         /\ \A x \in Request :
              /\ subscription'[x].status = IF x = i THEN status ELSE subscription[x].status
              /\ subscription'[x].token = subscription[x].token
  BY DEF TypeOK, SubscriptionRow

LEMMA SubscriptionGoes ==
  ASSUME TypeOK, NEW i \in Request,
         subscription' = [subscription EXCEPT ![i] = NoSubscription]
  PROVE  /\ subscription' \in [Request -> SubscriptionRow]
         /\ \A x \in Request :
              /\ subscription'[x].status = IF x = i THEN "ABSENT" ELSE subscription[x].status
              /\ subscription'[x].token = IF x = i THEN None ELSE subscription[x].token
  BY DEF TypeOK, SubscriptionRow, SubscriptionStatus, NoSubscription

-----------------------------------------------------------------------------
LEMMA TypeInvInit == Init => TypeInv
<1> SUFFICES ASSUME Init PROVE TypeInv
  OBVIOUS
<1>1. SoundJob(NoJob)
  BY NoJobSound
<1>2. NoJob \in Job /\ NoSaga \in SagaRow /\ NoSubscription \in SubscriptionRow
      /\ NoCall \in Call /\ NoClick \in ClickState
  BY <1>1 DEF SoundJob, NoSaga, SagaRow, SagaStatus, NoSubscription, SubscriptionRow,
              SubscriptionStatus, NoCall, Call, CallPc, NoClick, ClickState
<1>3. TypeOK
  BY <1>2, SagaAssumption DEF SagaAssumption, Init, TypeOK, TaskPc
<1>4. QED
  BY <1>1, <1>3
  DEF Init, TypeInv, JobsSound, ClicksFound, TokensDrawn, Activation, NoClick, Exists, NoSubscription

(* The steps that write the table Subscription.                            *)
SubscriptionStep ==
  \/ \E r \in Request : CommitTransaction(r)
  \/ \E s \in Request, a \in Activation : UndoSubscription(s, a)
  \/ \E c \in Click : ConfirmUpdates(c) \/ CancelUpdates(c)

LEMMA OnlySubscriptionSteps == [Next]_vars => UNCHANGED subscription \/ SubscriptionStep
<1> SUFFICES ASSUME [Next]_vars, ~SubscriptionStep PROVE UNCHANGED subscription
  OBVIOUS
<1> USE DEF database, work
<1>1. ASSUME NEW r \in Request, CallStep(r) PROVE UNCHANGED subscription
  BY <1>1 DEF SubscriptionStep, CallStep, VerificationFails, FindSubscription,
              TransactionConflicts, TransactionFails, MarkEmailSendRequested, AddEmail, StartFails,
              AddEmailReplyLost, Catch
<1>2. ASSUME NEW s \in Request, NEW a \in Activation, TaskStep(s, a) \/ LoseLock(s, a)
      PROVE  UNCHANGED subscription
  BY <1>2 DEF SubscriptionStep, TaskStep, MarkCompensating, UndoRepository, MarkCompensated,
              MarkCompleted, Return, TaskFails, Find, Finish, LoseLock
<1>3. ASSUME NEW c \in Click, ClickStep(c) PROVE UNCHANGED subscription
  BY <1>3 DEF SubscriptionStep, ClickStep, Confirm, Cancel, FollowLink
<1>4. ASSUME NEW s \in Request, Deliver(s) \/ ReportSent(s) \/ ReportFailed(s)
      PROVE  UNCHANGED subscription
  BY <1>4 DEF Deliver, ReportSent, ReportFailed, Reports
<1>5. ASSUME NEW s \in Request, NEW k \in Report, TakeResult(s, k) \/ LoseLockFirst(s, k)
      PROVE  UNCHANGED subscription
  BY <1>5 DEF TakeResult, LoseLockFirst
<1>6. ASSUME NEW r \in Request, NEW e \in Email, NEW n \in RepoName, FindRepository(r, e, n)
      PROVE  UNCHANGED subscription
  BY <1>6 DEF FindRepository
<1>7. CASE Crash
  BY <1>7 DEF Crash
<1>8. CASE UNCHANGED vars
  BY <1>8 DEF vars
<1>9. QED
  BY <1>1, <1>2, <1>3, <1>4, <1>5, <1>6, <1>7, <1>8 DEF Next

(* What one step makes of a row: it stays, it goes, its status changes and *)
(* its token does not, or a request's transaction gives it a new token.    *)
LEMMA RowSteps ==
  ASSUME TypeOK, ClicksFound, [Next]_vars, NEW i \in Request
  PROVE  \/ /\ subscription'[i].status = subscription[i].status
            /\ subscription'[i].token = subscription[i].token
         \/ /\ subscription'[i].status = "ABSENT"
            /\ subscription'[i].token = None
         \/ /\ Exists(i)
            /\ subscription'[i].status \in {"ACTIVE", "UNSUBSCRIBED"}
            /\ subscription'[i].token = subscription[i].token
         \/ \E r \in Request :
              /\ CommitTransaction(r)
              /\ saga'[r].subscriptionId = i
              /\ Exists(i) \/ r = i
              /\ subscription'[i].status = "PENDING"
              /\ subscription'[i].token = r
<1>1. CASE UNCHANGED subscription
  BY <1>1
<1>2. ASSUME NEW r \in Request, CommitTransaction(r)
      PROVE  \/ subscription'[i] = subscription[i]
             \/ /\ saga'[r].subscriptionId = i
                /\ Exists(i) \/ r = i
                /\ subscription'[i].status = "PENDING"
                /\ subscription'[i].token = r
  <2>1. call[r] \in Call /\ r # None
    BY SagaAssumption DEF SagaAssumption, TypeOK
  <2>2. saga'[r].subscriptionId = IF call[r].foundSubscription = None
                                  THEN r ELSE call[r].foundSubscription
    BY <1>2 DEF TypeOK, CommitTransaction
  <2>3. CASE call[r].foundSubscription = None
    BY <1>2, <2>1, <2>2, <2>3 DEF TypeOK, CommitTransaction
  <2>4. CASE call[r].foundSubscription # None
    <3>1. call[r].foundSubscription \in Request /\ subscription[i] \in SubscriptionRow
      BY <2>1, <2>4 DEF Call, TypeOK
    <3>2. subscription' =
            [subscription EXCEPT ![call[r].foundSubscription].status = "PENDING",
                                 ![call[r].foundSubscription].token = r]
      BY <1>2, <2>4 DEF CommitTransaction
    <3>3. Exists(call[r].foundSubscription)
      BY <1>2, <2>4 DEF CommitTransaction, RowGone
    <3>4. QED
      BY <2>2, <2>4, <3>1, <3>2, <3>3 DEF TypeOK, SubscriptionRow
  <2>5. QED
    BY <2>3, <2>4
<1>3. ASSUME NEW s \in Request, NEW a \in Activation, UndoSubscription(s, a)
      PROVE  \/ subscription'[i] = subscription[i]
             \/ /\ subscription'[i].status = "ABSENT"
                /\ subscription'[i].token = None
             \/ /\ Exists(i)
                /\ subscription'[i].status = "UNSUBSCRIBED"
                /\ subscription'[i].token = subscription[i].token
  <2>1. saga[s].subscriptionId \in Request \cup {None}
    BY DEF TypeOK, SagaRow
  <2>2. CASE \/ saga[s].subscriptionId = None
             \/ subscription[saga[s].subscriptionId].status # "PENDING"
    BY <1>3, <2>2 DEF UndoSubscription
  <2>3. CASE ~(\/ saga[s].subscriptionId = None
               \/ subscription[saga[s].subscriptionId].status # "PENDING")
    BY <1>3, <2>1, <2>3, SubscriptionMoves, SubscriptionGoes
    DEF UndoSubscription, SubscriptionStatus, Exists
  <2>4. QED
    BY <2>2, <2>3
<1>4. ASSUME NEW c \in Click, ConfirmUpdates(c) \/ CancelUpdates(c)
      PROVE  \/ /\ subscription'[i].status = subscription[i].status
                /\ subscription'[i].token = subscription[i].token
             \/ /\ Exists(i)
                /\ subscription'[i].status \in {"ACTIVE", "UNSUBSCRIBED"}
                /\ subscription'[i].token = subscription[i].token
  <2>1. click[c].row \in Request
    BY <1>4 DEF ClicksFound, ConfirmUpdates, CancelUpdates
  <2>2. CASE ~Exists(click[c].row)
    BY <1>4, <2>2 DEF ConfirmUpdates, CancelUpdates
  <2>3. CASE Exists(click[c].row)
    BY <1>4, <2>1, <2>3, SubscriptionMoves
    DEF ConfirmUpdates, CancelUpdates, SubscriptionStatus
  <2>4. QED
    BY <2>2, <2>3
<1>5. QED
  BY <1>1, <1>2, <1>3, <1>4, OnlySubscriptionSteps DEF SubscriptionStep

(* A step that leaves the result jobs and the links alone, and moves one   *)
(* activation of saga s only from one place of its handler to another.     *)
LEMMA HandlerStepKeepsJobs ==
  ASSUME TypeInv, NEW s \in Request, NEW a \in Activation, NEW pc \in TaskPc,
         task[s][a] # "idle", TaskGoes(s, a, pc), UNCHANGED <<result, click>>
  PROVE  JobsSound' /\ ClicksFound'
<1>1. ASSUME NEW x \in Request, NEW b \in Activation
      PROVE  task'[x][b] # "idle" => task[x][b] # "idle"
  <2>1. TypeOK
    BY DEF TypeInv
  <2>2. task'[x][b] = IF x = s /\ b = a THEN pc ELSE task[x][b]
    BY <2>1, TaskMoves
  <2>3. QED
    BY <2>2
<1>2. JobsSound'
  BY <1>1 DEF TypeInv, JobsSound
<1>3. ClicksFound'
  BY DEF TypeInv, ClicksFound
<1>4. QED
  BY <1>2, <1>3

LEMMA TypeInvStep == TypeInv /\ [Next]_vars => TypeInv'
<1> SUFFICES ASSUME TypeInv, [Next]_vars PROVE TypeInv'
  OBVIOUS
<1> USE SagaAssumption DEF SagaAssumption, database, work
<1>0. TypeOK
  BY DEF TypeInv
<1>t. TokensDrawn'
  BY <1>0, RowSteps DEF TypeInv, TokensDrawn, Exists
<1> USE <1>t
<1>a. ASSUME UNCHANGED <<task, result, click>> PROVE JobsSound' /\ ClicksFound'
  BY <1>a DEF TypeInv, JobsSound, ClicksFound
<1>1. ASSUME NEW r \in Request, VerificationFails(r) PROVE TypeInv'
  BY <1>1, <1>a DEF TypeInv, TypeOK, VerificationFails, CallEnds, NoCall, Call, CallPc
<1>2. ASSUME NEW r \in Request, NEW e \in Email, NEW n \in RepoName, FindRepository(r, e, n)
      PROVE  TypeInv'
  BY <1>2, <1>a DEF TypeInv, TypeOK, FindRepository, Call, CallPc
<1>3. ASSUME NEW r \in Request, FindSubscription(r) PROVE TypeInv'
  BY <1>3, <1>a DEF TypeInv, TypeOK, FindSubscription, Call, CallPc
<1>4. ASSUME NEW r \in Request, CommitTransaction(r) PROVE TypeInv'
  <2>1. call[r] \in Call /\ call' \in [Request -> Call]
    BY <1>0, <1>4, CallMoves DEF TypeOK, CommitTransaction, CallPc
  <2>2. repository' \in [Request -> RepoName \cup {None}]
    BY <1>0, <1>4, <2>1 DEF TypeOK, CommitTransaction, Call
  <2>3. saga' \in [Request -> SagaRow]
    BY <1>0, <1>4, <2>1 DEF TypeOK, CommitTransaction, Call, SagaRow, SagaStatus
  <2>4. subscription' \in [Request -> SubscriptionRow]
    <3>1. CASE call[r].foundSubscription = None
      BY <1>0, <1>4, <2>1, <3>1
      DEF TypeOK, CommitTransaction, Call, SubscriptionRow, SubscriptionStatus
    <3>2. CASE call[r].foundSubscription # None
      <4>1. PICK i \in Request :
              subscription' = [subscription EXCEPT ![i].status = "PENDING", ![i].token = r]
        BY <1>4, <2>1, <3>2 DEF CommitTransaction, Call
      <4>2. subscription[i] \in SubscriptionRow
        BY <1>0 DEF TypeOK
      <4>3. [subscription[i] EXCEPT !.status = "PENDING", !.token = r] \in SubscriptionRow
        BY <4>2 DEF SubscriptionRow, SubscriptionStatus
      <4>4. subscription' =
              [subscription EXCEPT ![i] = [subscription[i] EXCEPT !.status = "PENDING", !.token = r]]
        BY <1>0, <4>1 DEF TypeOK
      <4>5. QED
        BY <1>0, <4>3, <4>4 DEF TypeOK
    <3>3. QED
      BY <3>1, <3>2
  <2>5. QED
    BY <1>0, <1>4, <1>a, <2>1, <2>2, <2>3, <2>4 DEF TypeInv, TypeOK, CommitTransaction
<1>5. ASSUME NEW r \in Request, TransactionConflicts(r) PROVE TypeInv'
  BY <1>5, <1>a DEF TypeInv, TypeOK, TransactionConflicts, CallEnds, NoCall, Call, CallPc
<1>6. ASSUME NEW r \in Request, TransactionFails(r) PROVE TypeInv'
  BY <1>6, <1>a DEF TypeInv, TypeOK, TransactionFails, CallEnds, NoCall, Call, CallPc
<1>7. ASSUME NEW r \in Request, MarkEmailSendRequested(r) PROVE TypeInv'
  <2>1. call' \in [Request -> Call]
    BY <1>0, <1>7, CallMoves DEF MarkEmailSendRequested, CallPc
  <2>2. saga' \in [Request -> SagaRow]
    BY <1>0, <1>7, SagaMoves DEF MarkEmailSendRequested, SagaStatus
  <2>3. QED
    BY <1>0, <1>7, <1>a, <2>1, <2>2 DEF TypeInv, TypeOK, MarkEmailSendRequested
<1>8. ASSUME NEW r \in Request, AddEmail(r) PROVE TypeInv'
  BY <1>8, <1>a DEF TypeInv, TypeOK, AddEmail, CallEnds, NoCall, Call, CallPc
<1>9. ASSUME NEW r \in Request, StartFails(r) \/ AddEmailReplyLost(r) PROVE TypeInv'
  <2>1. AfterFind(r, Start) \in TaskPc /\ Start \in Activation
    BY FindMoves, Activations
  <2>2. /\ TaskStarts(r, Start, AfterFind(r, Start))
        /\ CallEnds(r, "failed")
        /\ UNCHANGED <<repository, subscription, saga, result, links, click>>
        /\ queued' \subseteq queued \cup {r}
        /\ faults' \in 0..MaxFaults
    BY <1>0, <1>9 DEF StartFails, AddEmailReplyLost, Catch, TypeOK
  <2>3. call' \in [Request -> Call]
    BY <1>0, <2>2 DEF TypeOK, CallEnds, NoCall, Call, CallPc
  <2>4. /\ task' \in [Request -> [Activation -> TaskPc]]
        /\ overlapped' \in SUBSET Request
        /\ \A x \in Request, b \in Activation : b # Start => task'[x][b] = task[x][b]
    BY <1>0, <2>1, <2>2, TaskMoves
  <2>5. TypeOK'
    BY <1>0, <2>2, <2>3, <2>4 DEF TypeOK
  <2>6. JobsSound' /\ ClicksFound'
    BY <2>2, <2>4 DEF TypeInv, JobsSound, ClicksFound
  <2>7. QED
    BY <2>5, <2>6 DEF TypeInv
<1>10. ASSUME NEW s \in Request, Deliver(s) PROVE TypeInv'
  BY <1>10, <1>a DEF TypeInv, TypeOK, Deliver, LinkKind
<1>11. ASSUME NEW s \in Request, ReportSent(s) \/ ReportFailed(s) PROVE TypeInv'
  <2>1. PICK k \in Report : result' = [result EXCEPT ![s][k] = Added(result[s][k])]
    BY <1>0, <1>11 DEF TypeOK, ReportSent, ReportFailed, Reports, Report
  <2>2. SoundJob(Added(result[s][k])) /\ Added(result[s][k]) \in Job
    BY AddedSound DEF TypeInv, JobsSound, SoundJob
  <2>3. Added(result[s][k]).state # "none"
    BY <2>2 DEF Added, TypeInv, JobsSound, SoundJob, Job
  <2>4. TypeOK'
    BY <1>0, <1>11, <2>1, <2>2, JobMoves DEF TypeOK, ReportSent, ReportFailed, Reports, work
  <2>5. JobsSound'
    <3>1. UNCHANGED task
      BY <1>11 DEF ReportSent, ReportFailed, Reports, work
    <3>2. QED
      BY <1>0, <2>1, <2>2, <2>3, <3>1, JobMoves, Activations DEF TypeInv, JobsSound
  <2>6. ClicksFound'
    BY <1>11 DEF TypeInv, ClicksFound, ReportSent, ReportFailed, Reports
  <2>7. QED
    BY <2>4, <2>5, <2>6 DEF TypeInv
<1>12. ASSUME NEW s \in Request, NEW k \in Report, TakeResult(s, k) \/ LoseLockFirst(s, k)
      PROVE  TypeInv'
  <2> DEFINE a == <<k, result[s][k].stalls>>
  <2>1. result[s][k] \in Job /\ SoundJob(result[s][k])
    BY DEF TypeInv, JobsSound, SoundJob
  <2>2. a \in Activation /\ a # Start /\ a[1] = k
    BY <2>1, Activations DEF Job
  <2>3. PICK job \in Job : /\ SoundJob(job) /\ job.state # "none"
                           /\ result' = [result EXCEPT ![s][k] = job]
    <3>1. CASE TakeResult(s, k)
      BY <1>0, <2>1, <3>1, TakenSound DEF TypeOK, TakeResult, SoundJob
    <3>2. CASE LoseLockFirst(s, k)
      <4>1. SoundJob(Stalled(result[s][k])) /\ Stalled(result[s][k]) \in Job
        BY <2>1, <3>2, StalledSound DEF LoseLockFirst, SoundJob
      <4>2. Stalled(result[s][k]).state # "none"
        BY <2>1 DEF Stalled, Job
      <4>3. QED
        BY <1>0, <3>2, <4>1, <4>2 DEF TypeOK, LoseLockFirst
    <3>3. QED
      BY <1>12, <3>1, <3>2
  <2>4. PICK pc \in TaskPc : TaskStarts(s, a, pc)
    BY <1>12, <2>2, FindMoves DEF TakeResult, LoseLockFirst, TaskPc
  <2> HIDE DEF a
  <2>5. /\ UNCHANGED <<database, call, queued, links, click>>
        /\ faults' \in 0..MaxFaults
    BY <1>0, <1>12 DEF TypeOK, TakeResult, LoseLockFirst
  <2>6. /\ result' \in [Request -> [Report -> Job]]
        /\ \A x \in Request, y \in Report :
             result'[x][y] = IF x = s /\ y = k THEN job ELSE result[x][y]
    BY <1>0, <2>3, JobMoves
  <2>7. /\ task' \in [Request -> [Activation -> TaskPc]]
        /\ overlapped' \in SUBSET Request
        /\ \A x \in Request, b \in Activation :
             task'[x][b] = IF x = s /\ b = a THEN pc ELSE task[x][b]
    BY <1>0, <2>2, <2>4, TaskMoves
  <2>8. TypeOK'
    BY <1>0, <2>5, <2>6, <2>7 DEF TypeOK
  <2>9. JobsSound'
    <3>1. ASSUME NEW x \in Request, NEW y \in Report PROVE SoundJob(result'[x][y])
      BY <2>3, <2>6 DEF TypeInv, JobsSound
    <3>2. ASSUME NEW x \in Request, NEW b \in Activation, task'[x][b] # "idle", b # Start
          PROVE  result'[x][b[1]].state # "none"
      <4>1. b[1] \in Report
        BY <3>2, Activations
      <4>2. CASE x = s /\ b[1] = k
        BY <2>3, <2>6, <4>1, <4>2
      <4>3. CASE ~(x = s /\ b[1] = k)
        BY <2>2, <2>6, <2>7, <3>2, <4>1, <4>3 DEF TypeInv, JobsSound
      <4>4. QED
        BY <4>2, <4>3
    <3>3. QED
      BY <3>1, <3>2 DEF JobsSound
  <2>10. ClicksFound'
    BY <2>5 DEF TypeInv, ClicksFound
  <2>11. QED
    BY <2>8, <2>9, <2>10 DEF TypeInv
<1>13. ASSUME NEW s \in Request, NEW a \in Activation, Find(s, a) PROVE TypeInv'
  <2>1. AfterFind(s, a) \in TaskPc
    BY FindMoves
  <2>2. TypeOK'
    BY <1>0, <1>13, <2>1, TaskMoves DEF TypeOK, Find
  <2>3. JobsSound' /\ ClicksFound'
    BY <1>13, <2>1, HandlerStepKeepsJobs DEF Find
  <2>4. QED
    BY <2>2, <2>3 DEF TypeInv
<1>14. ASSUME NEW s \in Request, NEW a \in Activation, MarkCompensating(s, a) PROVE TypeInv'
  <2>1. saga' \in [Request -> SagaRow]
    BY <1>0, <1>14, SagaMoves DEF MarkCompensating, SagaStatus
  <2>2. TypeOK'
    BY <1>0, <1>14, <2>1, TaskMoves DEF TypeOK, MarkCompensating, TaskPc
  <2>3. JobsSound' /\ ClicksFound'
    BY <1>14, HandlerStepKeepsJobs DEF MarkCompensating, TaskPc
  <2>4. QED
    BY <2>2, <2>3 DEF TypeInv
<1>15. ASSUME NEW s \in Request, NEW a \in Activation, UndoSubscription(s, a) PROVE TypeInv'
  <2>1. subscription' \in [Request -> SubscriptionRow]
    <3>1. saga[s].subscriptionId \in Request \cup {None}
      BY <1>0 DEF TypeOK, SagaRow
    <3>2. QED
      BY <1>0, <1>15, <3>1, SubscriptionMoves, SubscriptionGoes
      DEF TypeOK, UndoSubscription, SubscriptionStatus
  <2>2. TypeOK'
    BY <1>0, <1>15, <2>1, TaskMoves DEF TypeOK, UndoSubscription, TaskPc
  <2>3. JobsSound' /\ ClicksFound'
    BY <1>15, HandlerStepKeepsJobs DEF UndoSubscription, TaskPc
  <2>4. QED
    BY <2>2, <2>3 DEF TypeInv
<1>16. ASSUME NEW s \in Request, NEW a \in Activation, UndoRepository(s, a) PROVE TypeInv'
  <2>1. repository' \in [Request -> RepoName \cup {None}]
    BY <1>0, <1>16 DEF TypeOK, UndoRepository
  <2>2. TypeOK'
    BY <1>0, <1>16, <2>1, TaskMoves DEF TypeOK, UndoRepository, TaskPc
  <2>3. JobsSound' /\ ClicksFound'
    BY <1>16, HandlerStepKeepsJobs DEF UndoRepository, TaskPc
  <2>4. QED
    BY <2>2, <2>3 DEF TypeInv
<1>17. ASSUME NEW s \in Request, NEW a \in Activation,
              MarkCompensated(s, a) \/ MarkCompleted(s, a)
       PROVE  TypeInv'
  <2>1. saga' \in [Request -> SagaRow]
    BY <1>0, <1>17, SagaMoves DEF MarkCompensated, MarkCompleted, SagaStatus
  <2>2. TypeOK'
    BY <1>0, <1>17, <2>1, TaskMoves DEF TypeOK, MarkCompensated, MarkCompleted, TaskPc
  <2>3. JobsSound' /\ ClicksFound'
    BY <1>17, HandlerStepKeepsJobs DEF MarkCompensated, MarkCompleted, TaskPc
  <2>4. QED
    BY <2>2, <2>3 DEF TypeInv
<1>19. ASSUME NEW s \in Request, NEW a \in Activation, Return(s, a) \/ TaskFails(s, a)
       PROVE  TypeInv'
  <2>1. PICK job \in {Succeeded(result[s][a[1]]), Failed(result[s][a[1]])} : Finish(s, a, job)
    BY <1>19 DEF Return, TaskFails
  <2>2. /\ TaskGoes(s, a, "idle") /\ "idle" \in TaskPc
        /\ UNCHANGED <<database, call, queued, links, click>>
        /\ faults' \in 0..MaxFaults
    BY <1>0, <1>19, <2>1 DEF TypeOK, Return, TaskFails, Finish, TaskPc
  <2>3. HasLock(s, a) => SoundJob(job) /\ job \in Job
    BY <2>1, Activations, SucceededSound, FailedSound DEF TypeInv, JobsSound, SoundJob, HasLock
  <2>4. /\ result' \in [Request -> [Report -> Job]]
        /\ \A x \in Request, k \in Report :
             result'[x][k] = IF HasLock(s, a) /\ x = s /\ k = a[1] THEN job ELSE result[x][k]
    BY <1>0, <2>1, <2>3, FinishMoves
  <2>5. /\ task' \in [Request -> [Activation -> TaskPc]]
        /\ overlapped' \in SUBSET Request
        /\ \A x \in Request, b \in Activation :
             task'[x][b] = IF x = s /\ b = a THEN "idle" ELSE task[x][b]
    BY <1>0, <2>2, TaskMoves
  <2>6. TypeOK'
    BY <1>0, <2>2, <2>4, <2>5 DEF TypeOK
  <2>7. JobsSound'
    <3>1. HasLock(s, a) => job.state # "none"
      <4>1. HasLock(s, a) => SoundJob(result[s][a[1]]) /\ result[s][a[1]].state = "active"
        BY Activations DEF TypeInv, JobsSound, HasLock
      <4> QED
        BY <2>1, <4>1, SucceededSound, FailedSound
    <3>2. ASSUME NEW x \in Request, NEW k \in Report PROVE SoundJob(result'[x][k])
      BY <2>3, <2>4 DEF TypeInv, JobsSound
    <3>3. ASSUME NEW x \in Request, NEW b \in Activation, task'[x][b] # "idle", b # Start
          PROVE  result'[x][b[1]].state # "none"
      <4>1. b[1] \in Report /\ result[x][b[1]].state # "none"
        BY <2>5, <3>3, Activations DEF TypeInv, JobsSound
      <4> QED
        BY <2>4, <3>1, <4>1
    <3> QED
      BY <3>2, <3>3 DEF JobsSound
  <2>8. ClicksFound'
    BY <2>2 DEF TypeInv, ClicksFound
  <2> QED
    BY <2>6, <2>7, <2>8 DEF TypeInv
<1>20. ASSUME NEW s \in Request, NEW a \in Activation, LoseLock(s, a) PROVE TypeInv'
  <2> DEFINE k == a[1]
             job == Stalled(result[s][k])
  <2>1. k \in Report /\ result[s][k].state = "active"
    BY <1>20, Activations DEF LoseLock, HasLock
  <2>2. SoundJob(job) /\ job \in Job
    BY <2>1, StalledSound DEF TypeInv, JobsSound, SoundJob
  <2>3. job.state # "none"
    BY <2>1 DEF Stalled, TypeInv, JobsSound, SoundJob, Job
  <2>4. /\ UNCHANGED <<database, call, task, overlapped, queued, links, click>>
        /\ faults' \in 0..MaxFaults
        /\ result' = [result EXCEPT ![s][k] = job]
    BY <1>0, <1>20, <2>1 DEF TypeOK, LoseLock
  <2> HIDE DEF k, job
  <2>5. /\ result' \in [Request -> [Report -> Job]]
        /\ \A x \in Request, y \in Report :
             result'[x][y] = IF x = s /\ y = k THEN job ELSE result[x][y]
    BY <1>0, <2>1, <2>2, <2>4, JobMoves
  <2>6. TypeOK'
    BY <1>0, <2>4, <2>5 DEF TypeOK
  <2>7. JobsSound' /\ ClicksFound'
    BY <2>2, <2>3, <2>4, <2>5, Activations DEF TypeInv, JobsSound, ClicksFound
  <2> QED
    BY <2>6, <2>7 DEF TypeInv
<1>21. ASSUME NEW c \in Click, NEW t \in Request, NEW i \in Request,
              Confirm(c, t, i) \/ Cancel(c, t, i)
       PROVE  TypeInv'
  <2>1. click' \in [Click -> ClickState]
    BY <1>0, <1>21 DEF TypeOK, Confirm, Cancel, ClickState
  <2>2. ClicksFound'
    BY <1>0, <1>21 DEF TypeInv, TypeOK, ClicksFound, Confirm, Cancel
  <2>3. QED
    BY <1>0, <1>21, <2>1, <2>2 DEF TypeInv, TypeOK, JobsSound, Confirm, Cancel, FollowLink
<1>22. ASSUME NEW c \in Click, ConfirmUpdates(c) \/ CancelUpdates(c) PROVE TypeInv'
  <2>1. click[c].row \in Request
    BY <1>22 DEF TypeInv, ClicksFound, ConfirmUpdates, CancelUpdates
  <2>2. subscription' \in [Request -> SubscriptionRow]
    BY <1>0, <1>22, <2>1, SubscriptionMoves
    DEF TypeOK, ConfirmUpdates, CancelUpdates, SubscriptionStatus
  <2>3. links' \subseteq LinkKind \X Request
    <3>1. Exists(click[c].row) => subscription[click[c].row].token \in Request
      BY <2>1 DEF TypeInv, TokensDrawn
    <3>2. QED
      BY <1>0, <1>22, <3>1 DEF TypeOK, ConfirmUpdates, CancelUpdates, LinkKind
  <2>4. click' \in [Click -> ClickState]
    <3>1. NoClick \in ClickState
      BY DEF NoClick, ClickState
    <3>2. QED
      BY <1>0, <1>22, <3>1 DEF TypeOK, ConfirmUpdates, CancelUpdates
  <2>5. ClicksFound'
    BY <1>0, <1>22 DEF TypeInv, TypeOK, ClicksFound, ConfirmUpdates, CancelUpdates, NoClick
  <2>6. QED
    BY <1>0, <1>22, <2>2, <2>3, <2>4, <2>5
    DEF TypeInv, TypeOK, JobsSound, ConfirmUpdates, CancelUpdates
<1>24. CASE Crash
  <2>1. call' \in [Request -> Call]
    BY <1>0, <1>24 DEF TypeOK, Crash, NoCall, Call, CallPc
  <2>2. /\ task' \in [Request -> [Activation -> TaskPc]]
        /\ \A s \in Request, a \in Activation : task'[s][a] = "idle"
    BY <1>24 DEF Crash, TaskPc
  <2>3. \A s \in Request, k \in Report : SoundJob(result'[s][k])
    BY <1>24, StalledSound DEF TypeInv, JobsSound, Crash
  <2>4. result' \in [Request -> [Report -> Job]]
    <3>1. \A s \in Request, k \in Report :
            (IF result[s][k].state = "active" THEN Stalled(result[s][k]) ELSE result[s][k]) \in Job
      BY StalledSound DEF TypeInv, JobsSound, SoundJob
    <3>2. QED
      BY <1>24, <3>1 DEF Crash
  <2>5. click' \in [Click -> ClickState] /\ ClicksFound'
    BY <1>24 DEF Crash, NoClick, ClickState, ClicksFound
  <2>6. faults' \in 0..MaxFaults
    BY <1>0, <1>24 DEF TypeOK, Crash
  <2>7. QED
    BY <1>0, <1>24, <2>1, <2>2, <2>3, <2>4, <2>5, <2>6 DEF TypeInv, TypeOK, JobsSound, Crash
<1>25. CASE UNCHANGED vars
  BY <1>0, <1>25, <1>a DEF TypeInv, TypeOK, vars
<1>99. QED
  BY <1>1, <1>2, <1>3, <1>4, <1>5, <1>6, <1>7, <1>8, <1>9, <1>10, <1>11, <1>12, <1>13,
     <1>14, <1>15, <1>16, <1>17, <1>19, <1>20, <1>21, <1>22, <1>24, <1>25
  DEF Next, CallStep, TaskStep, ClickStep

(* Every state of the saga is well typed: among others, no job is retried  *)
(* beyond its attempts or handed out beyond its stalls.                    *)
THEOREM TypeCorrect == Spec => []TypeOK
<1>1. TypeInv => TypeOK
  BY DEF TypeInv
<1>2. QED
  BY <1>1, TypeInvInit, TypeInvStep, PTL DEF Spec

-----------------------------------------------------------------------------
(***************************************************************************)
(* The inductive invariant.  Undone(s) is what COMPENSATED promises; it is *)
(* kept by every step because a row gets token s only from the commit of   *)
(* request s, and that is over once the saga exists.  So the rest of the   *)
(* invariant says what exists before the commit (nothing), which row a     *)
(* token can be on (the saga's) and how far a handler has come.            *)
(***************************************************************************)
BeforeCommit(r) == call[r].pc \in {"idle", "findSubscription", "commit"}

AfterCommit(r) == call[r].pc \in {"markEmailSendRequested", "addEmail"}

HasSaga(s) == saga[s].status # "ABSENT"

CommitInv ==
  \A r \in Request : /\ BeforeCommit(r) => ~HasSaga(r)
                     /\ AfterCommit(r) => HasSaga(r)

NothingWithoutSaga ==
  \A s \in Request :
    ~HasSaga(s) => /\ s \notin queued
                   /\ \A a \in Activation : task[s][a] = "idle"
                   /\ ~Exists(s)
                   /\ \A i \in Request : subscription[i].token # s

NothingUnasked ==
  \A s \in Request :
    /\ <<"confirm", s>> \in links => s \in queued
    /\ \A k \in Report : result[s][k].state # "none" => s \in queued
    /\ result[s]["sent"].state # "none" => <<"confirm", s>> \in links

TokenRow ==
  \A i, s \in Request : subscription[i].token = s => saga[s].subscriptionId = i

WasSent(s) == result[s]["sent"].state # "none"

HandlerInv ==
  \A s \in Request :
    /\ \A a \in Activation :
         /\ task[s][a] \in {"undoRepository", "markCompensated"} => Undone(s)
         /\ task[s][a] = "markCompleted" => a[1] = "sent"
         /\ task[s][a] = "return" /\ a[1] = "failed" => Undone(s) \/ WasSent(s)
    /\ saga[s].status = "COMPENSATED" => Undone(s)
    /\ saga[s].status = "COMPLETED" => WasSent(s)
    /\ result[s]["failed"].state = "completed" => Undone(s) \/ WasSent(s)

SafeInv == CommitInv /\ NothingWithoutSaga /\ NothingUnasked /\ TokenRow /\ HandlerInv

LEMMA SafeInvInit == Init => SafeInv
  BY SagaAssumption
  DEF SagaAssumption, Init, SafeInv, CommitInv, BeforeCommit, AfterCommit, HasSaga,
      NothingWithoutSaga, NothingUnasked, TokenRow, HandlerInv, WasSent, Undone, Exists,
      NoCall, NoSaga, NoSubscription, NoJob, Activation, Report

(* What one step makes of a request.                                       *)
LEMMA CallSteps ==
  ASSUME TypeOK, [Next]_vars, NEW r \in Request
  PROVE  /\ BeforeCommit(r)' => BeforeCommit(r) /\ ~CommitTransaction(r)
         /\ AfterCommit(r)' => AfterCommit(r) \/ CommitTransaction(r)
<1> USE DEF BeforeCommit, AfterCommit
<1>1. ASSUME NEW x \in Request, CommitTransaction(x)
      PROVE  call'[r].pc = IF r = x THEN "markEmailSendRequested" ELSE call[r].pc
  BY <1>1, CallMoves DEF CommitTransaction, CallPc
<1>2. ASSUME NEW x \in Request, CallStep(x), ~CommitTransaction(x)
      PROVE  /\ BeforeCommit(r)' => BeforeCommit(r)
             /\ AfterCommit(r)' => AfterCommit(r)
  <2>1. CASE MarkEmailSendRequested(x)
    BY <2>1, CallMoves DEF MarkEmailSendRequested, CallPc
  <2>2. CASE FindSubscription(x)
    BY <2>2 DEF TypeOK, FindSubscription, Call, CallPc
  <2>3. CASE ~MarkEmailSendRequested(x) /\ ~FindSubscription(x)
    BY <1>2, <2>3
    DEF TypeOK, CallStep, VerificationFails, TransactionConflicts, TransactionFails, AddEmail,
        StartFails, AddEmailReplyLost, Catch, CallEnds, NoCall
  <2>4. QED
    BY <2>1, <2>2, <2>3
<1>3. ASSUME NEW x \in Request, NEW e \in Email, NEW n \in RepoName, FindRepository(x, e, n)
      PROVE  /\ BeforeCommit(r)' => BeforeCommit(r)
             /\ AfterCommit(r)' => AfterCommit(r)
  BY <1>3 DEF TypeOK, FindRepository
<1>4. ASSUME Crash
      PROVE  /\ BeforeCommit(r)' => BeforeCommit(r)
             /\ AfterCommit(r)' => AfterCommit(r)
  <2>1. call'[r] = IF call[r].pc \in Answered \cup {"idle"} THEN call[r]
                   ELSE [NoCall EXCEPT !.pc = "failed"]
    BY <1>4 DEF Crash
  <2>2. [NoCall EXCEPT !.pc = "failed"].pc = "failed"
    BY DEF NoCall
  <2>3. QED
    BY <2>1, <2>2
<1>5. ASSUME NEW s \in Request, NEW a \in Activation, TaskStep(s, a) \/ LoseLock(s, a)
      PROVE  UNCHANGED call
  BY <1>5 DEF TaskStep, MarkCompensating, UndoSubscription, UndoRepository, MarkCompensated,
              MarkCompleted, Return, TaskFails, Find, Finish, LoseLock
<1>6. ASSUME NEW c \in Click, ClickStep(c) PROVE UNCHANGED call
  BY <1>6 DEF ClickStep, Confirm, Cancel, FollowLink, ConfirmUpdates, CancelUpdates
<1>7. ASSUME NEW s \in Request, Deliver(s) \/ ReportSent(s) \/ ReportFailed(s) PROVE UNCHANGED call
  BY <1>7 DEF Deliver, ReportSent, ReportFailed, Reports
<1>8. ASSUME NEW s \in Request, NEW k \in Report, TakeResult(s, k) \/ LoseLockFirst(s, k)
      PROVE  UNCHANGED call
  BY <1>8 DEF TakeResult, LoseLockFirst
<1>9. /\ BeforeCommit(r)' => BeforeCommit(r)
      /\ AfterCommit(r)' => AfterCommit(r) \/ CommitTransaction(r)
  <2>1. CASE UNCHANGED call
    BY <2>1
  <2>2. ASSUME NEW x \in Request, CommitTransaction(x)
        PROVE  /\ BeforeCommit(r)' => BeforeCommit(r)
               /\ AfterCommit(r)' => AfterCommit(r) \/ CommitTransaction(r)
    <3>1. CASE r = x
      BY <1>1, <2>2, <3>1
    <3>2. CASE r # x
      BY <1>1, <2>2, <3>2
    <3>3. QED
      BY <3>1, <3>2
  <2>3. QED
    BY <1>2, <1>3, <1>4, <1>5, <1>6, <1>7, <1>8, <2>1, <2>2 DEF Next, vars
<1>10. BeforeCommit(r)' => ~CommitTransaction(r)
  BY <1>1
<1>11. QED
  BY <1>9, <1>10

(* What one step makes of an activation.                                   *)
LEMMA TaskSteps ==
  ASSUME TypeInv, [Next]_vars, NEW s \in Request, NEW a \in Activation
  PROVE  \/ task'[s][a] \in {task[s][a], "idle"}
         \/ /\ task'[s][a] = AfterFind(s, a)
            /\ \/ /\ a = Start /\ AfterCommit(s)
                  /\ StartFails(s) \/ AddEmailReplyLost(s)
               \/ a # Start /\ result[s][a[1]].state = "wait" /\ TakeResult(s, a[1])
               \/ task[s][a] = "find" /\ Find(s, a)
         \/ /\ task'[s][a] = "find"
            /\ a # Start /\ result[s][a[1]].state = "wait" /\ LoseLockFirst(s, a[1])
         \/ /\ task[s][a] = "markCompensating" /\ task'[s][a] = "undoSubscription"
            /\ MarkCompensating(s, a)
         \/ UndoSubscription(s, a) /\ task'[s][a] = "undoRepository"
         \/ /\ task[s][a] = "undoRepository" /\ task'[s][a] = "markCompensated"
            /\ UndoRepository(s, a)
         \/ /\ task[s][a] \in {"markCompensated", "markCompleted"} /\ task'[s][a] = "return"
            /\ MarkCompensated(s, a) \/ MarkCompleted(s, a)
<1> USE DEF work
<1>0. TypeOK
  BY DEF TypeInv
<1>1. ASSUME NEW x \in Request, CallStep(x)
      PROVE  \/ task'[s][a] = task[s][a]
             \/ /\ a = Start /\ AfterCommit(s) /\ task'[s][a] = AfterFind(s, a)
                /\ StartFails(s) \/ AddEmailReplyLost(s)
  <2>1. CASE StartFails(x) \/ AddEmailReplyLost(x)
    <3>1. AfterFind(x, Start) \in TaskPc /\ Start \in Activation
      BY FindMoves, Activations
    <3>2. TaskStarts(x, Start, AfterFind(x, Start)) /\ AfterCommit(x)
      BY <2>1 DEF StartFails, AddEmailReplyLost, Catch, AfterCommit
    <3>3. task'[s][a] = IF s = x /\ a = Start THEN AfterFind(x, Start) ELSE task[s][a]
      BY <1>0, <3>1, <3>2, TaskMoves
    <3>4. CASE s = x /\ a = Start
      BY <2>1, <3>2, <3>3, <3>4
    <3>5. CASE ~(s = x /\ a = Start)
      BY <3>3, <3>5
    <3>6. QED
      BY <3>4, <3>5
  <2>2. CASE ~StartFails(x) /\ ~AddEmailReplyLost(x)
    BY <1>1, <2>2
    DEF CallStep, VerificationFails, FindSubscription, CommitTransaction, TransactionConflicts,
        TransactionFails, MarkEmailSendRequested, AddEmail
  <2>3. QED
    BY <2>1, <2>2
<1>2. ASSUME NEW x \in Request, NEW b \in Activation, TaskStep(x, b) \/ LoseLock(x, b)
      PROVE  \/ task'[s][a] \in {task[s][a], "idle"}
             \/ task'[s][a] = AfterFind(s, a) /\ task[s][a] = "find" /\ Find(s, a)
             \/ /\ task[s][a] = "markCompensating" /\ task'[s][a] = "undoSubscription"
                /\ MarkCompensating(s, a)
             \/ UndoSubscription(s, a) /\ task'[s][a] = "undoRepository"
             \/ /\ task[s][a] = "undoRepository" /\ task'[s][a] = "markCompensated"
                /\ UndoRepository(s, a)
             \/ /\ task[s][a] \in {"markCompensated", "markCompleted"} /\ task'[s][a] = "return"
                /\ MarkCompensated(s, a) \/ MarkCompleted(s, a)
  <2>0. ASSUME NEW pc \in TaskPc, TaskGoes(x, b, pc)
        PROVE  task'[s][a] = IF s = x /\ a = b THEN pc ELSE task[s][a]
    BY <1>0, <2>0, TaskMoves
  <2>1. CASE s = x /\ a = b
    <3>1. CASE Find(s, a)
      BY <2>0, <2>1, <3>1, FindMoves DEF Find
    <3>2. CASE MarkCompensating(s, a)
      BY <2>0, <2>1, <3>2 DEF MarkCompensating, TaskPc
    <3>3. CASE UndoSubscription(s, a)
      BY <2>0, <2>1, <3>3 DEF UndoSubscription, TaskPc
    <3>4. CASE UndoRepository(s, a)
      BY <2>0, <2>1, <3>4 DEF UndoRepository, TaskPc
    <3>5. CASE MarkCompensated(s, a) \/ MarkCompleted(s, a)
      BY <2>0, <2>1, <3>5 DEF MarkCompensated, MarkCompleted, TaskPc
    <3>6. CASE Return(s, a) \/ TaskFails(s, a)
      BY <2>0, <2>1, <3>6 DEF Return, TaskFails, Finish, TaskPc
    <3>7. CASE LoseLock(s, a)
      BY <3>7 DEF LoseLock
    <3> QED
      BY <1>2, <2>1, <3>1, <3>2, <3>3, <3>4, <3>5, <3>6, <3>7 DEF TaskStep
  <2>2. CASE ~(s = x /\ a = b)
    <3>1. \/ UNCHANGED task
          \/ \E pc \in TaskPc : TaskGoes(x, b, pc)
      BY <1>2, FindMoves
      DEF TaskStep, Find, MarkCompensating, UndoSubscription, UndoRepository, MarkCompensated,
          MarkCompleted, Return, TaskFails, Finish, LoseLock, TaskPc
    <3> QED
      BY <2>0, <2>2, <3>1
  <2> QED
    BY <2>1, <2>2
<1>3. ASSUME NEW x \in Request, NEW k \in Report, TakeResult(x, k) \/ LoseLockFirst(x, k)
      PROVE  \/ task'[s][a] = task[s][a]
             \/ /\ task'[s][a] = AfterFind(s, a)
                /\ a # Start /\ result[s][a[1]].state = "wait" /\ TakeResult(s, a[1])
             \/ /\ task'[s][a] = "find"
                /\ a # Start /\ result[s][a[1]].state = "wait" /\ LoseLockFirst(s, a[1])
  <2> DEFINE b == <<k, result[x][k].stalls>>
  <2>1. b \in Activation /\ b # Start /\ b[1] = k
    BY <1>0, Activations DEF TypeOK, Job
  <2>2. CASE TakeResult(x, k)
    <3>1. TaskStarts(x, b, AfterFind(x, b)) /\ result[x][k].state = "wait"
      BY <2>2 DEF TakeResult
    <3>2. AfterFind(x, b) \in TaskPc
      BY <2>1, FindMoves
    <3> HIDE DEF b
    <3>3. task'[s][a] = IF s = x /\ a = b THEN AfterFind(x, b) ELSE task[s][a]
      BY <1>0, <2>1, <3>1, <3>2, TaskMoves
    <3> QED
      BY <2>1, <2>2, <3>1, <3>3
  <2>3. CASE LoseLockFirst(x, k)
    <3>1. TaskStarts(x, b, "find") /\ result[x][k].state = "wait" /\ "find" \in TaskPc
      BY <2>3 DEF LoseLockFirst, TaskPc
    <3> HIDE DEF b
    <3>2. task'[s][a] = IF s = x /\ a = b THEN "find" ELSE task[s][a]
      BY <1>0, <2>1, <3>1, TaskMoves
    <3> QED
      BY <2>1, <2>3, <3>1, <3>2
  <2> QED
    BY <1>3, <2>2, <2>3
<1>4. ASSUME NEW c \in Click, ClickStep(c) PROVE UNCHANGED task
  BY <1>4 DEF ClickStep, Confirm, Cancel, FollowLink, ConfirmUpdates, CancelUpdates
<1>5. ASSUME NEW x \in Request, Deliver(x) \/ ReportSent(x) \/ ReportFailed(x) PROVE UNCHANGED task
  BY <1>5 DEF Deliver, ReportSent, ReportFailed, Reports
<1>6. ASSUME NEW x \in Request, NEW e \in Email, NEW n \in RepoName, FindRepository(x, e, n)
      PROVE  UNCHANGED task
  BY <1>6 DEF FindRepository
<1>7. CASE Crash
  BY <1>7 DEF Crash
<1>8. CASE UNCHANGED vars
  BY <1>8 DEF vars
<1>9. QED
  BY <1>1, <1>2, <1>3, <1>4, <1>5, <1>6, <1>7, <1>8 DEF Next

(* What one step makes of a saga: only its commit creates it, and its      *)
(* other writers leave its subscriptionId alone.                           *)
LEMMA SagaSteps ==
  ASSUME TypeOK, [Next]_vars, NEW s \in Request
  PROVE  \/ CommitTransaction(s) /\ saga'[s].status = "SUBSCRIPTION_CREATED"
         \/ /\ saga'[s].subscriptionId = saga[s].subscriptionId
            /\ \/ saga'[s].status = saga[s].status
               \/ AfterCommit(s) /\ saga'[s].status = "EMAIL_SEND_REQUESTED"
               \/ \E a \in Activation :
                    \/ /\ task[s][a] = "markCompensating" /\ saga'[s].status = "COMPENSATING"
                       /\ MarkCompensating(s, a)
                    \/ /\ task[s][a] = "markCompensated" /\ saga'[s].status = "COMPENSATED"
                       /\ MarkCompensated(s, a)
                    \/ /\ task[s][a] = "markCompleted" /\ saga'[s].status = "COMPLETED"
                       /\ MarkCompleted(s, a)
<1> USE DEF database, work
<1>1. CASE UNCHANGED saga
  BY <1>1
<1>2. ASSUME NEW x \in Request, CommitTransaction(x)
      PROVE  /\ x = s => saga'[s].status = "SUBSCRIPTION_CREATED"
             /\ x # s => saga'[s] = saga[s]
  BY <1>2 DEF TypeOK, CommitTransaction
<1>3. ASSUME NEW x \in Request, MarkEmailSendRequested(x)
      PROVE  /\ saga'[s].subscriptionId = saga[s].subscriptionId
             /\ \/ saga'[s].status = saga[s].status
                \/ AfterCommit(s) /\ saga'[s].status = "EMAIL_SEND_REQUESTED"
  BY <1>3, SagaMoves DEF MarkEmailSendRequested, SagaStatus, AfterCommit
<1>4. ASSUME NEW x \in Request, NEW a \in Activation,
             MarkCompensating(x, a) \/ MarkCompensated(x, a) \/ MarkCompleted(x, a)
      PROVE  /\ saga'[s].subscriptionId = saga[s].subscriptionId
             /\ \/ saga'[s].status = saga[s].status
                \/ /\ task[s][a] = "markCompensating" /\ saga'[s].status = "COMPENSATING"
                   /\ MarkCompensating(s, a)
                \/ /\ task[s][a] = "markCompensated" /\ saga'[s].status = "COMPENSATED"
                   /\ MarkCompensated(s, a)
                \/ /\ task[s][a] = "markCompleted" /\ saga'[s].status = "COMPLETED"
                   /\ MarkCompleted(s, a)
  <2>1. PICK status \in SagaStatus :
          /\ saga' = [saga EXCEPT ![x].status = status]
          /\ \/ /\ status = "COMPENSATING" /\ task[x][a] = "markCompensating"
                /\ MarkCompensating(x, a)
             \/ /\ status = "COMPENSATED" /\ task[x][a] = "markCompensated"
                /\ MarkCompensated(x, a)
             \/ /\ status = "COMPLETED" /\ task[x][a] = "markCompleted"
                /\ MarkCompleted(x, a)
    BY <1>4 DEF MarkCompensating, MarkCompensated, MarkCompleted, SagaStatus
  <2>2. /\ saga'[s].status = IF s = x THEN status ELSE saga[s].status
        /\ saga'[s].subscriptionId = saga[s].subscriptionId
    BY <2>1, SagaMoves
  <2>3. CASE s = x
    BY <2>1, <2>2, <2>3
  <2>4. CASE s # x
    BY <2>2, <2>4
  <2> QED
    BY <2>3, <2>4
<1>5. ASSUME NEW x \in Request, CallStep(x)
      PROVE  UNCHANGED saga \/ CommitTransaction(x) \/ MarkEmailSendRequested(x)
  BY <1>5 DEF CallStep, VerificationFails, FindSubscription, TransactionConflicts,
              TransactionFails, AddEmail, StartFails, AddEmailReplyLost, Catch
<1>6. ASSUME NEW x \in Request, NEW a \in Activation, TaskStep(x, a) \/ LoseLock(x, a)
      PROVE  \/ UNCHANGED saga
             \/ MarkCompensating(x, a) \/ MarkCompensated(x, a) \/ MarkCompleted(x, a)
  BY <1>6 DEF TaskStep, UndoSubscription, UndoRepository, Return, TaskFails, Find, Finish, LoseLock
<1>7. ASSUME NEW c \in Click, ClickStep(c) PROVE UNCHANGED saga
  BY <1>7 DEF ClickStep, Confirm, Cancel, FollowLink, ConfirmUpdates, CancelUpdates
<1>8. ASSUME NEW x \in Request, Deliver(x) \/ ReportSent(x) \/ ReportFailed(x) PROVE UNCHANGED saga
  BY <1>8 DEF Deliver, ReportSent, ReportFailed, Reports
<1>9. ASSUME NEW x \in Request, NEW y \in Report, TakeResult(x, y) \/ LoseLockFirst(x, y)
      PROVE  UNCHANGED saga
  BY <1>9 DEF TakeResult, LoseLockFirst
<1>10. ASSUME NEW x \in Request, NEW e \in Email, NEW n \in RepoName, FindRepository(x, e, n)
       PROVE  UNCHANGED saga
  BY <1>10 DEF FindRepository
<1>11. CASE Crash
  BY <1>1, <1>11 DEF Crash
<1>12. CASE UNCHANGED vars
  BY <1>1, <1>12 DEF vars
<1>13. QED
  BY <1>1, <1>2, <1>3, <1>4, <1>5, <1>6, <1>7, <1>8, <1>9, <1>10, <1>11, <1>12 DEF Next

(* What one step makes of a result job.                                    *)
LEMMA ResultSteps ==
  ASSUME TypeInv, [Next]_vars, NEW s \in Request, NEW k \in Report
  PROVE  \/ result'[s][k].state = result[s][k].state
         \/ /\ result[s][k].state = "none"
            /\ result'[s][k].state = "wait"
            /\ k = "sent" => <<"confirm", s>> \in links
            /\ k = "failed" => s \in queued
         \/ /\ result[s][k].state # "none"
            /\ result'[s][k].state \in {"wait", "active", "failed"}
         \/ /\ result[s][k].state = "active"
            /\ result'[s][k].state = "completed"
            /\ \E a \in Activation : task[s][a] = "return" /\ HasLock(s, a) /\ a[1] = k
<1> USE DEF TypeInv
<1>1. CASE UNCHANGED result
  BY <1>1
<1>2. ASSUME NEW x \in Request, NEW y \in Report, NEW job \in Job,
             result' = [result EXCEPT ![x][y] = job]
      PROVE  result'[s][k] = IF s = x /\ k = y THEN job ELSE result[s][k]
  BY <1>2, JobMoves
<1>3. ASSUME NEW x \in Request, NEW y \in Report
      PROVE  result[x][y] \in Job /\ SoundJob(result[x][y])
  BY DEF TypeOK, JobsSound
<1>4. ASSUME NEW x \in Request, ReportSent(x)
      PROVE  \/ result'[s][k] = result[s][k]
             \/ /\ s = x /\ k = "sent"
                /\ result'[s][k] = Added(result[s][k])
                /\ <<"confirm", s>> \in links
  <2>1. "sent" \in Report
    BY DEF Report
  <2>2. result' = [result EXCEPT ![x]["sent"] = Added(result[x]["sent"])]
    BY <1>4 DEF ReportSent, Reports
  <2>3. Added(result[x]["sent"]) \in Job
    BY <1>3, <2>1, AddedSound DEF SoundJob
  <2>4. QED
    BY <1>2, <1>4, <2>1, <2>2, <2>3 DEF ReportSent, Reports
<1>5. ASSUME NEW x \in Request, ReportFailed(x)
      PROVE  \/ result'[s][k] = result[s][k]
             \/ /\ s = x /\ k = "failed"
                /\ result'[s][k] = Added(result[s][k])
                /\ s \in queued
  <2>1. "failed" \in Report
    BY DEF Report
  <2>2. result' = [result EXCEPT ![x]["failed"] = Added(result[x]["failed"])]
    BY <1>5 DEF ReportFailed, Reports
  <2>3. Added(result[x]["failed"]) \in Job
    BY <1>3, <2>1, AddedSound DEF SoundJob
  <2>4. QED
    BY <1>2, <1>5, <2>1, <2>2, <2>3 DEF ReportFailed, Reports
<1>6. ASSUME NEW x \in Request, NEW y \in Report
      PROVE  /\ result[x][y].state \in {"wait", "active"}
                  => /\ Stalled(result[x][y]) \in Job
                     /\ Stalled(result[x][y]).state \in {"wait", "failed"}
             /\ result[x][y].state = "wait"
                  => /\ Taken(result[x][y]) \in Job
                     /\ Taken(result[x][y]).state = "active"
             /\ result[x][y].state = "active"
                  => /\ Succeeded(result[x][y]) \in Job
                     /\ Succeeded(result[x][y]).state = "completed"
                     /\ Failed(result[x][y]) \in Job
                     /\ Failed(result[x][y]).state \in {"wait", "failed"}
  <2>1. result[x][y] \in Job /\ SoundJob(result[x][y])
    BY <1>3
  <2>2. result[x][y].state \in {"wait", "active"}
          => /\ Stalled(result[x][y]) \in Job
             /\ Stalled(result[x][y]).state \in {"wait", "failed"}
    <3>1. Stalled(result[x][y]).state \in {"wait", "failed"}
      BY <2>1 DEF Stalled, Job
    <3> QED
      BY <2>1, <3>1, StalledSound DEF SoundJob
  <2>3. result[x][y].state = "wait"
          => Taken(result[x][y]) \in Job /\ Taken(result[x][y]).state = "active"
    BY <2>1, TakenSound DEF SoundJob, Taken, Job
  <2>4. result[x][y].state = "active"
          => /\ Succeeded(result[x][y]) \in Job
             /\ Succeeded(result[x][y]).state = "completed"
    BY <2>1, SucceededSound DEF SoundJob, Succeeded, Job
  <2>5. result[x][y].state = "active"
          => /\ Failed(result[x][y]) \in Job
             /\ Failed(result[x][y]).state \in {"wait", "failed"}
    BY <2>1, FailedSound DEF SoundJob, Failed, Job
  <2> QED
    BY <2>2, <2>3, <2>4, <2>5
<1>7. ASSUME NEW x \in Request, NEW y \in Report, TakeResult(x, y) \/ LoseLockFirst(x, y)
      PROVE  \/ result'[s][k] = result[s][k]
             \/ /\ result[s][k].state = "wait"
                /\ result'[s][k].state \in {"wait", "active", "failed"}
  BY <1>2, <1>6, <1>7 DEF TakeResult, LoseLockFirst
<1>8. ASSUME NEW x \in Request, NEW b \in Activation, TaskStep(x, b) \/ LoseLock(x, b)
      PROVE  \/ result'[s][k] = result[s][k]
             \/ /\ result[s][k].state = "active"
                /\ result'[s][k].state \in {"wait", "failed"}
             \/ /\ result[s][k].state = "active"
                /\ result'[s][k].state = "completed"
                /\ task[s][b] = "return" /\ HasLock(s, b) /\ b[1] = k
  <2>1. HasLock(x, b) => b[1] \in Report /\ result[x][b[1]].state = "active"
    BY Activations DEF HasLock
  <2>2. CASE Return(x, b)
    <3>1. HasLock(x, b) => result' = [result EXCEPT ![x][b[1]] = Succeeded(result[x][b[1]])]
      BY <2>2 DEF Return, Finish
    <3>2. ~HasLock(x, b) => UNCHANGED result
      BY <2>2 DEF Return, Finish
    <3>3. task[x][b] = "return"
      BY <2>2 DEF Return
    <3>4. CASE HasLock(x, b)
      <4>1. Succeeded(result[x][b[1]]) \in Job /\ Succeeded(result[x][b[1]]).state = "completed"
        BY <1>6, <2>1, <3>4
      <4> QED
        BY <1>2, <2>1, <3>1, <3>3, <3>4, <4>1
    <3> QED
      BY <3>2, <3>4
  <2>3. CASE TaskFails(x, b)
    <3>1. HasLock(x, b) => result' = [result EXCEPT ![x][b[1]] = Failed(result[x][b[1]])]
      BY <2>3 DEF TaskFails, Finish
    <3>2. ~HasLock(x, b) => UNCHANGED result
      BY <2>3 DEF TaskFails, Finish
    <3>3. CASE HasLock(x, b)
      <4>1. /\ Failed(result[x][b[1]]) \in Job
            /\ Failed(result[x][b[1]]).state \in {"wait", "failed"}
        BY <1>6, <2>1, <3>3
      <4> QED
        BY <1>2, <2>1, <3>1, <3>3, <4>1
    <3> QED
      BY <3>2, <3>3
  <2>4. CASE LoseLock(x, b)
    <3>1. HasLock(x, b) /\ result' = [result EXCEPT ![x][b[1]] = Stalled(result[x][b[1]])]
      BY <2>1, <2>4 DEF LoseLock, TypeOK
    <3>2. /\ Stalled(result[x][b[1]]) \in Job
          /\ Stalled(result[x][b[1]]).state \in {"wait", "failed"}
      BY <1>6, <2>1, <3>1
    <3> QED
      BY <1>2, <2>1, <3>1, <3>2
  <2>5. CASE TaskStep(x, b) /\ ~Return(x, b) /\ ~TaskFails(x, b)
    BY <2>5 DEF TaskStep, Find, MarkCompensating, UndoSubscription, UndoRepository,
                MarkCompensated, MarkCompleted
  <2> QED
    BY <1>8, <2>2, <2>3, <2>4, <2>5
<1>9. CASE Crash
  <2>1. result'[s][k] = IF result[s][k].state = "active" THEN Stalled(result[s][k])
                        ELSE result[s][k]
    BY <1>9 DEF Crash
  <2>2. QED
    BY <1>6, <2>1
<1>11. ASSUME NEW x \in Request, CallStep(x) PROVE UNCHANGED result
  BY <1>11 DEF CallStep, VerificationFails, FindSubscription, CommitTransaction,
               TransactionConflicts, TransactionFails, MarkEmailSendRequested, AddEmail, StartFails,
               AddEmailReplyLost, Catch
<1>12. ASSUME NEW c \in Click, ClickStep(c) PROVE UNCHANGED result
  BY <1>12 DEF ClickStep, Confirm, Cancel, FollowLink, ConfirmUpdates, CancelUpdates
<1>13. ASSUME NEW x \in Request, NEW e \in Email, NEW n \in RepoName, FindRepository(x, e, n)
       PROVE  UNCHANGED result
  BY <1>13 DEF FindRepository
<1>14. ASSUME NEW x \in Request, Deliver(x) PROVE UNCHANGED result
  BY <1>14 DEF Deliver
<1>15. CASE UNCHANGED vars
  BY <1>15 DEF vars
<1>16. ASSUME NEW x \in Request, ReportSent(x) \/ ReportFailed(x)
       PROVE  \/ result'[s][k].state = result[s][k].state
              \/ /\ result[s][k].state = "none"
                 /\ result'[s][k].state = "wait"
                 /\ k = "sent" => <<"confirm", s>> \in links
                 /\ k = "failed" => s \in queued
  <2>1. \/ Added(result[s][k]) = result[s][k]
        \/ result[s][k].state = "none" /\ Added(result[s][k]).state = "wait"
    BY <1>3 DEF Added, Job
  <2>2. QED
    BY <1>4, <1>5, <1>16, <2>1
<1>17. QED
  BY <1>1, <1>7, <1>8, <1>9, <1>11, <1>12, <1>13, <1>14, <1>15, <1>16 DEF Next

(* What one step makes of the queue of confirmation mails and of the links.*)
LEMMA QueueSteps ==
  ASSUME [Next]_vars
  PROVE  /\ queued \subseteq queued' /\ links \subseteq links'
         /\ \A s \in Request :
              /\ s \in queued' => s \in queued \/ AfterCommit(s)
              /\ <<"confirm", s>> \in links' => <<"confirm", s>> \in links \/ s \in queued
<1> USE DEF database, work
<1>1. ASSUME NEW x \in Request, CallStep(x)
      PROVE  /\ UNCHANGED links
             /\ \/ UNCHANGED queued
                \/ AfterCommit(x) /\ queued' = queued \cup {x}
  BY <1>1 DEF CallStep, VerificationFails, FindSubscription, CommitTransaction,
              TransactionConflicts, TransactionFails, MarkEmailSendRequested, AddEmail,
              StartFails, AddEmailReplyLost, Catch, AfterCommit
<1>2. ASSUME NEW x \in Request, NEW a \in Activation, TaskStep(x, a) \/ LoseLock(x, a)
      PROVE  UNCHANGED <<queued, links>>
  BY <1>2 DEF TaskStep, MarkCompensating, UndoSubscription, UndoRepository, MarkCompensated,
              MarkCompleted, Return, TaskFails, Find, Finish, LoseLock
<1>3. ASSUME NEW c \in Click, ClickStep(c)
      PROVE  /\ UNCHANGED queued
             /\ \/ UNCHANGED links
                \/ \E t : links' = links \cup {<<"unsubscribe", t>>}
  BY <1>3 DEF ClickStep, Confirm, Cancel, FollowLink, ConfirmUpdates, CancelUpdates
<1>4. ASSUME NEW x \in Request, Deliver(x)
      PROVE  UNCHANGED queued /\ x \in queued /\ links' = links \cup {<<"confirm", x>>}
  BY <1>4 DEF Deliver
<1>5. ASSUME NEW x \in Request, ReportSent(x) \/ ReportFailed(x) PROVE UNCHANGED <<queued, links>>
  BY <1>5 DEF ReportSent, ReportFailed, Reports
<1>6. ASSUME NEW x \in Request, NEW y \in Report, TakeResult(x, y) \/ LoseLockFirst(x, y)
      PROVE  UNCHANGED <<queued, links>>
  BY <1>6 DEF TakeResult, LoseLockFirst
<1>7. ASSUME NEW x \in Request, NEW e \in Email, NEW n \in RepoName, FindRepository(x, e, n)
      PROVE  UNCHANGED <<queued, links>>
  BY <1>7 DEF FindRepository
<1>8. CASE Crash
  BY <1>8 DEF Crash
<1>9. CASE UNCHANGED vars
  BY <1>9 DEF vars
<1>10. QED
  BY <1>1, <1>2, <1>3, <1>4, <1>5, <1>6, <1>7, <1>8, <1>9 DEF Next

(* Once its saga exists no step makes a row PENDING with this saga's token.*)
LEMMA UndoneStable ==
  ASSUME TypeInv, CommitInv, [Next]_vars, NEW s \in Request, HasSaga(s), Undone(s)
  PROVE  Undone(s)'
<1>1. ~CommitTransaction(s)
  BY DEF CommitInv, BeforeCommit, CommitTransaction
<1>2. ASSUME NEW i \in Request, subscription'[i].token = s
      PROVE  subscription'[i].status # "PENDING"
  <2>1. s # None
    BY SagaAssumption DEF SagaAssumption
  <2>2. subscription[i].token = s => subscription[i].status # "PENDING"
    BY DEF Undone
  <2>3. QED
    BY <1>1, <1>2, <2>1, <2>2, RowSteps DEF TypeInv
<1>3. QED
  BY <1>2 DEF Undone

(* The compensation's update leaves nothing PENDING with its saga's token: *)
(* the only row that can have it is the saga's row.                        *)
LEMMA UndoSubscriptionUndoes ==
  ASSUME TypeInv, TokenRow, NEW s \in Request, NEW a \in Activation, UndoSubscription(s, a)
  PROVE  Undone(s)'
<1> DEFINE row == saga[s].subscriptionId
<1>1. TypeOK /\ row \in Request \cup {None} /\ s # None
  BY SagaAssumption DEF SagaAssumption, TypeInv, TypeOK, SagaRow
<1>2. ASSUME NEW i \in Request, subscription[i].token = s PROVE row = i
  BY <1>2 DEF TokenRow
<1>3. CASE row = None \/ subscription[row].status # "PENDING"
  <2>1. UNCHANGED subscription
    BY <1>3 DEF UndoSubscription
  <2>2. QED
    BY <1>2, <1>3, <2>1, SagaAssumption DEF Undone, SagaAssumption
<1>4. CASE ~(row = None \/ subscription[row].status # "PENDING")
  <2>1. row \in Request
    BY <1>1, <1>4
  <2>2. CASE saga[s].createdSubscription
    BY <1>1, <1>2, <1>4, <2>1, <2>2, SubscriptionGoes DEF UndoSubscription, Undone
  <2>3. CASE ~saga[s].createdSubscription
    <3>1. subscription' = [subscription EXCEPT ![row].status = "UNSUBSCRIBED"]
      BY <1>4, <2>3 DEF UndoSubscription
    <3>2. \A x \in Request :
            /\ subscription'[x].status = IF x = row THEN "UNSUBSCRIBED" ELSE subscription[x].status
            /\ subscription'[x].token = subscription[x].token
      BY <1>1, <2>1, <3>1, SubscriptionMoves DEF SubscriptionStatus
    <3>3. QED
      BY <1>2, <3>2 DEF Undone
  <2>4. QED
    BY <2>2, <2>3
<1>5. QED
  BY <1>3, <1>4

LEMMA SafeInvStep == TypeInv /\ SafeInv /\ [Next]_vars => SafeInv'
<1> SUFFICES ASSUME TypeInv, SafeInv, [Next]_vars PROVE SafeInv'
  OBVIOUS
<1>0. TypeOK /\ ClicksFound /\ JobsSound /\ \A s \in Request : s # None
  BY SagaAssumption DEF SagaAssumption, TypeInv
<1>1. ASSUME NEW s \in Request, CommitTransaction(s) PROVE ~HasSaga(s) /\ HasSaga(s)'
  BY <1>0, <1>1 DEF SafeInv, CommitInv, BeforeCommit, CommitTransaction, HasSaga, TypeOK
<1>2. ASSUME NEW s \in Request, HasSaga(s) PROVE HasSaga(s)'
  BY <1>0, <1>2, SagaSteps DEF HasSaga
<1>3. ASSUME NEW s \in Request, HasSaga(s), Undone(s) PROVE Undone(s)'
  BY <1>3, UndoneStable DEF SafeInv
<1>4. ASSUME NEW s \in Request, NEW a \in Activation, task[s][a] # "idle" PROVE HasSaga(s)
  BY <1>4 DEF SafeInv, NothingWithoutSaga
<1>5. ASSUME NEW s \in Request, AfterCommit(s) \/ s \in queued PROVE HasSaga(s)
  BY <1>5 DEF SafeInv, CommitInv, NothingWithoutSaga
<1>6. CommitInv'
  <2>1. ASSUME NEW r \in Request, BeforeCommit(r)' PROVE ~HasSaga(r)'
    <3>1. BeforeCommit(r) /\ ~CommitTransaction(r)
      BY <1>0, <2>1, CallSteps
    <3>2. ~HasSaga(r) /\ ~AfterCommit(r) /\ \A a \in Activation : task[r][a] = "idle"
      BY <1>4, <3>1 DEF SafeInv, CommitInv, BeforeCommit, AfterCommit
    <3>3. QED
      BY <1>0, <3>1, <3>2, SagaSteps DEF HasSaga
  <2>2. ASSUME NEW r \in Request, AfterCommit(r)' PROVE HasSaga(r)'
    BY <1>0, <1>1, <1>2, <1>5, <2>2, CallSteps
  <2>3. QED
    BY <2>1, <2>2 DEF CommitInv
<1>7. NothingWithoutSaga'
  <2> SUFFICES ASSUME NEW s \in Request, ~HasSaga(s)'
               PROVE  /\ s \notin queued'
                      /\ \A a \in Activation : task'[s][a] = "idle"
                      /\ ~Exists(s)'
                      /\ \A i \in Request : subscription'[i].token # s
    BY DEF NothingWithoutSaga
  <2>1. ~HasSaga(s) /\ ~CommitTransaction(s)
    BY <1>1, <1>2
  <2>2. s \notin queued'
    BY <1>5, <2>1, QueueSteps
  <2>3. ASSUME NEW a \in Activation PROVE task'[s][a] = "idle"
    <3>1. task[s][a] = "idle" /\ ~AfterCommit(s) /\ s \notin queued
      BY <1>4, <1>5, <2>1
    <3>2. a # Start => result[s][a[1]].state = "none"
      BY <3>1, Activations DEF SafeInv, NothingUnasked
    <3>3. ~UndoSubscription(s, a)
      BY <3>1 DEF UndoSubscription
    <3>4. QED
      BY <1>0, <3>1, <3>2, <3>3, TaskSteps
  <2>4. ~Exists(s)'
    <3>1. ~Exists(s)
      BY <2>1 DEF SafeInv, NothingWithoutSaga
    <3>2. ASSUME NEW r \in Request, CommitTransaction(r), Exists(s) \/ r = s PROVE FALSE
      BY <2>1, <3>1, <3>2
    <3>3. QED
      BY <1>0, <3>1, <3>2, RowSteps DEF Exists
  <2>5. ASSUME NEW i \in Request PROVE subscription'[i].token # s
    <3>1. subscription[i].token # s
      BY <2>1 DEF SafeInv, NothingWithoutSaga
    <3>2. QED
      BY <1>0, <2>1, <3>1, RowSteps
  <2>6. QED
    BY <2>2, <2>3, <2>4, <2>5
<1>8. NothingUnasked'
  <2> SUFFICES ASSUME NEW s \in Request
               PROVE  /\ <<"confirm", s>> \in links' => s \in queued'
                      /\ \A k \in Report : result'[s][k].state # "none" => s \in queued'
                      /\ result'[s]["sent"].state # "none" => <<"confirm", s>> \in links'
    BY DEF NothingUnasked
  <2>1. /\ <<"confirm", s>> \in links => s \in queued
        /\ \A k \in Report : result[s][k].state # "none" => s \in queued
        /\ result[s]["sent"].state # "none" => <<"confirm", s>> \in links
    BY DEF SafeInv, NothingUnasked
  <2>2. \A k \in Report : k = "sent" \/ k = "failed"
    BY DEF Report
  <2>3. "sent" \in Report
    BY DEF Report
  <2>4. QED
    BY <2>1, <2>2, <2>3, QueueSteps, ResultSteps
<1>9. TokenRow'
  <2> SUFFICES ASSUME NEW i \in Request, NEW s \in Request, subscription'[i].token = s
               PROVE  saga'[s].subscriptionId = i
    BY DEF TokenRow
  <2>1. CASE subscription[i].token = s
    <3>1. HasSaga(s) /\ saga[s].subscriptionId = i
      BY <2>1 DEF SafeInv, NothingWithoutSaga, TokenRow
    <3>2. QED
      BY <1>0, <1>1, <3>1, SagaSteps
  <2>2. CASE subscription[i].token # s
    BY <1>0, <2>2, RowSteps
  <2>3. QED
    BY <2>1, <2>2
<1>10. HandlerInv'
  <2> SUFFICES ASSUME NEW s \in Request
               PROVE  /\ \A a \in Activation :
                           /\ task'[s][a] \in {"undoRepository", "markCompensated"} => Undone(s)'
                           /\ task'[s][a] = "markCompleted" => a[1] = "sent"
                           /\ task'[s][a] = "return" /\ a[1] = "failed"
                                => Undone(s)' \/ WasSent(s)'
                      /\ saga'[s].status = "COMPENSATED" => Undone(s)'
                      /\ saga'[s].status = "COMPLETED" => WasSent(s)'
                      /\ result'[s]["failed"].state = "completed" => Undone(s)' \/ WasSent(s)'
    BY DEF HandlerInv
  <2>1. /\ \A a \in Activation :
             /\ task[s][a] \in {"undoRepository", "markCompensated"} => Undone(s)
             /\ task[s][a] = "markCompleted" => a[1] = "sent"
             /\ task[s][a] = "return" /\ a[1] = "failed" => Undone(s) \/ WasSent(s)
        /\ saga[s].status = "COMPENSATED" => Undone(s)
        /\ saga[s].status = "COMPLETED" => WasSent(s)
        /\ result[s]["failed"].state = "completed" => Undone(s) \/ WasSent(s)
    BY DEF SafeInv, HandlerInv
  <2>2. "sent" \in Report /\ "failed" \in Report
    BY DEF Report
  <2>3. WasSent(s) => WasSent(s)'
    BY <2>2, ResultSteps DEF WasSent
  <2>4. ASSUME NEW a \in Activation
        PROVE  /\ task'[s][a] \in {"undoRepository", "markCompensated"} => Undone(s)'
               /\ task'[s][a] = "markCompleted" => a[1] = "sent"
    <3>1. UndoSubscription(s, a) => Undone(s)'
      BY UndoSubscriptionUndoes DEF SafeInv
    <3>2. /\ AfterFind(s, a) \notin {"undoRepository", "markCompensated"}
          /\ AfterFind(s, a) = "markCompleted" => a[1] = "sent"
      BY DEF AfterFind
    <3>3. QED
      BY <1>0, <1>3, <1>4, <2>1, <3>1, <3>2, TaskSteps
  <2>5. saga'[s].status = "COMPENSATED" => Undone(s)'
    <3>1. ASSUME saga[s].status = "COMPENSATED" \/ \E a \in Activation : task[s][a] = "markCompensated"
          PROVE  Undone(s)'
      BY <1>3, <1>4, <2>1, <3>1 DEF HasSaga
    <3>2. QED
      BY <1>0, <3>1, SagaSteps
  <2>6. saga'[s].status = "COMPLETED" => WasSent(s)'
    <3>1. ASSUME NEW a \in Activation, task[s][a] = "markCompleted" PROVE WasSent(s)
      <4>1. a[1] = "sent"
        BY <2>1, <3>1
      <4>2. result[s]["sent"].state # "none"
        BY <1>0, <3>1, <4>1, Activations DEF JobsSound
      <4>3. QED
        BY <4>2 DEF WasSent
    <3>2. QED
      BY <1>0, <2>1, <2>3, <3>1, SagaSteps
  <2>7. ASSUME NEW a \in Activation, task'[s][a] = "return", a[1] = "failed"
        PROVE  Undone(s)' \/ WasSent(s)'
    <3>0. a # Start
      BY <2>7, Activations
    <3>1. CASE task[s][a] = "return"
      BY <1>3, <1>4, <2>1, <2>3, <2>7, <3>1
    <3>2. CASE /\ task'[s][a] = AfterFind(s, a)
               /\ result[s][a[1]].state = "wait" \/ task[s][a] = "find"
      <4>1. HasSaga(s)
        BY <1>4, <1>5, <2>2, <2>7, <3>2 DEF SafeInv, NothingUnasked
      <4>2. saga[s].status \in {"COMPLETED", "COMPENSATED"}
        BY <2>7, <3>2, <4>1 DEF AfterFind, HasSaga
      <4>3. QED
        BY <1>3, <2>1, <2>3, <4>1, <4>2
    <3>3. CASE task[s][a] = "markCompensated"
      BY <1>3, <1>4, <2>1, <3>3
    <3>4. task[s][a] # "markCompleted"
      BY <2>1, <2>7
    <3>5. QED
      BY <2>7, <3>0, <3>1, <3>2, <3>3, <3>4, TaskSteps
  <2>8. result'[s]["failed"].state = "completed" => Undone(s)' \/ WasSent(s)'
    <3>1. ASSUME \/ result[s]["failed"].state = "completed"
                 \/ \E a \in Activation : task[s][a] = "return" /\ a[1] = "failed"
          PROVE  Undone(s)' \/ WasSent(s)'
      <4>1. HasSaga(s)
        BY <1>4, <1>5, <2>2, <3>1 DEF SafeInv, NothingUnasked
      <4>2. QED
        BY <1>3, <2>1, <2>3, <3>1, <4>1
    <3>2. ASSUME NEW k \in Report, result'[s][k].state = "completed"
          PROVE  \/ result[s][k].state = "completed"
                 \/ \E a \in Activation : task[s][a] = "return" /\ a[1] = k
      <4>1. \/ result'[s][k].state = result[s][k].state
            \/ result'[s][k].state = "wait"
            \/ result'[s][k].state \in {"wait", "active", "failed"}
            \/ \E a \in Activation : task[s][a] = "return" /\ HasLock(s, a) /\ a[1] = k
        BY ResultSteps
      <4>2. QED
        BY <3>2, <4>1
    <3>3. QED
      BY <2>2, <3>1, <3>2
  <2>9. QED
    BY <2>4, <2>5, <2>6, <2>7, <2>8
<1>11. QED
  BY <1>6, <1>7, <1>8, <1>9, <1>10 DEF SafeInv

LEMMA Invariance == Spec => [](TypeInv /\ SafeInv)
<1>1. TypeInv /\ SafeInv /\ [Next]_vars => (TypeInv /\ SafeInv)'
  BY TypeInvStep, SafeInvStep
<1>2. QED
  BY <1>1, TypeInvInit, SafeInvInit, PTL DEF Spec

(* A saga that says COMPENSATED has taken its PENDING subscription back,   *)
(* whatever handlers, clicks, later requests and restarts came between.    *)
THEOREM CompensationSticks == Spec => []CompensatedUndone
<1>1. SafeInv => CompensatedUndone
  BY DEF SafeInv, HandlerInv, CompensatedUndone
<1>2. QED
  BY <1>1, Invariance, PTL

(* A confirmation-email-failed job that completes, with no sent report     *)
(* beside it, leaves no PENDING subscription behind, however often it was  *)
(* retried.                                                                *)
THEOREM FailureReportsCompensate == Spec => []FailureReportHandled
<1>1. SafeInv => FailureReportHandled
  BY DEF SafeInv, HandlerInv, WasSent, FailureReportHandled
<1>2. QED
  BY <1>1, Invariance, PTL

(* A saga is COMPLETED only after the provider accepted its confirmation.  *)
THEOREM CompletionWasMailed == Spec => []CompletedWasMailed
<1>1. SafeInv => CompletedWasMailed
  BY DEF SafeInv, HandlerInv, NothingUnasked, WasSent, CompletedWasMailed
<1>2. QED
  BY <1>1, Invariance, PTL

(* The step behind ActiveEndsOnPurpose.                                    *)
LEMMA ActiveStep ==
  ASSUME TypeInv, SafeInv, [Next]_vars, NEW i \in Request,
         subscription[i].status = "ACTIVE", subscription'[i].status # "ACTIVE"
  PROVE  \/ \E c \in Click : click[c] = [pc |-> "cancel", row |-> i]
         \/ \E r \in Request : call[r].pc = "commit" /\ call[r].foundSubscription = i
<1>0. TypeOK
  BY DEF TypeInv
<1>1. ASSUME NEW r \in Request, CommitTransaction(r) PROVE call[r].foundSubscription = i
  <2>1. ~HasSaga(r)
    BY <1>1 DEF SafeInv, CommitInv, BeforeCommit, CommitTransaction
  <2>2. r # i
    BY <2>1 DEF SafeInv, NothingWithoutSaga, Exists
  <2>3. CASE call[r].foundSubscription = None
    BY <1>0, <1>1, <2>2, <2>3 DEF TypeOK, CommitTransaction
  <2>4. CASE call[r].foundSubscription # None
    <3>1. subscription' =
            [subscription EXCEPT ![call[r].foundSubscription].status = "PENDING",
                                 ![call[r].foundSubscription].token = r]
      BY <1>1, <2>4 DEF CommitTransaction
    <3>2. QED
      BY <1>0, <3>1 DEF TypeOK
  <2>5. QED
    BY <2>3, <2>4
<1>2. ASSUME NEW s \in Request, NEW a \in Activation, UndoSubscription(s, a) PROVE FALSE
  <2>1. subscription[saga[s].subscriptionId].status # "PENDING" => UNCHANGED subscription
    BY <1>2 DEF UndoSubscription
  <2>2. subscription[saga[s].subscriptionId].status = "PENDING" => saga[s].subscriptionId # i
    OBVIOUS
  <2>3. saga[s].subscriptionId # i => subscription'[i] = subscription[i]
    BY <1>0, <1>2 DEF TypeOK, UndoSubscription
  <2>4. QED
    BY <2>1, <2>2, <2>3
<1>3. ASSUME NEW c \in Click, ConfirmUpdates(c) PROVE FALSE
  <2>1. click[c].row \in Request
    BY <1>3 DEF TypeInv, ClicksFound, ConfirmUpdates
  <2>2. CASE ~Exists(click[c].row)
    BY <1>3, <2>2 DEF ConfirmUpdates
  <2>3. CASE Exists(click[c].row)
    BY <1>0, <1>3, <2>1, <2>3, SubscriptionMoves DEF ConfirmUpdates, SubscriptionStatus
  <2>4. QED
    BY <2>2, <2>3
<1>4. ASSUME NEW c \in Click, CancelUpdates(c) PROVE click[c] = [pc |-> "cancel", row |-> i]
  <2>1. click[c] \in ClickState /\ click[c].pc = "cancel"
    BY <1>0, <1>4 DEF TypeOK, CancelUpdates
  <2>2. click[c].row = i
    BY <1>0, <1>4 DEF TypeOK, CancelUpdates
  <2>3. QED
    BY <2>1, <2>2 DEF ClickState
<1>5. CASE UNCHANGED subscription
  BY <1>5
<1>6. QED
  BY <1>1, <1>2, <1>3, <1>4, <1>5, OnlySubscriptionSteps DEF SubscriptionStep, CommitTransaction

(* An ACTIVE subscription ends by an unsubscribe link or by a new request  *)
(* on its row: a compensation, however late, never touches it.             *)
THEOREM ActiveIsSafe == Spec => ActiveEndsOnPurpose
<1>1. TypeInv /\ SafeInv /\ [Next]_vars =>
        [\A i \in Request :
           subscription[i].status = "ACTIVE" /\ subscription'[i].status # "ACTIVE" =>
             \/ \E c \in Click : click[c] = [pc |-> "cancel", row |-> i]
             \/ \E r \in Request : call[r].pc = "commit" /\ call[r].foundSubscription = i]_vars
  BY ActiveStep
<1>2. QED
  BY <1>1, Invariance, PTL DEF Spec, ActiveEndsOnPurpose

-----------------------------------------------------------------------------
(***************************************************************************)
(* Activations that overlap.  Two of them run at once only on a saga that  *)
(* says so, and a handler that is about to write a saga it did not read as *)
(* COMPENSATED, and finds it COMPENSATED, has been overtaken by another.   *)
(***************************************************************************)

(* A handler has written the status of the saga.                           *)
Touched(s) == saga[s].status \in {"COMPENSATING", "COMPENSATED", "COMPLETED"}

Overlapping ==
  \A s \in Request, a, b \in Activation :
    a # b /\ task[s][a] # "idle" /\ task[s][b] # "idle" => s \in overlapped

(* start's own activation comes after its answer, and before that nothing  *)
(* but start is at work on the saga.                                       *)
StartAlone ==
  \A s \in Request :
    /\ task[s][Start] # "idle" => call[s].pc = "failed"
    /\ AfterCommit(s) => s \notin queued /\ ~Touched(s)

TouchedBy ==
  \A s \in Request, a \in Activation :
    task[s][a] \in {"undoSubscription", "undoRepository", "markCompensated", "return"}
      => Touched(s)

OvertakenOverlap ==
  \A s \in Request, a \in Activation :
    saga[s].status = "COMPENSATED" /\ task[s][a] \notin {"idle", "find", "return"}
      => s \in overlapped

JobsTouch ==
  \A s \in Request, k \in Report : result[s][k].state = "completed" => Touched(s)

OverlapInv == Overlapping /\ StartAlone /\ TouchedBy /\ JobsTouch /\ OvertakenOverlap

LEMMA OverlapInvInit == Init => OverlapInv
  BY Activations DEF Init, OverlapInv, Overlapping, StartAlone, TouchedBy, JobsTouch,
         OvertakenOverlap, AfterCommit, Touched, NoCall, NoSaga, NoJob

LEMMA CommitIsFirst ==
  ASSUME SafeInv, NEW r \in Request, CommitTransaction(r)
  PROVE  ~HasSaga(r) /\ ~Exists(r) /\ \A a \in Activation : task[r][a] = "idle"
BY DEF SafeInv, CommitInv, NothingWithoutSaga, BeforeCommit, CommitTransaction

(* An answer is final.                                                     *)
LEMMA FailedIsFinal ==
  ASSUME TypeOK, [Next]_vars, NEW s \in Request, call[s].pc = "failed"
  PROVE  call'[s].pc = "failed"
<1>1. ASSUME NEW r \in Request, CallStep(r) PROVE call'[s].pc = "failed"
  <2>1. r # s /\ call'[s] = call[s]
    BY <1>1
    DEF TypeOK, CallStep, VerificationFails, FindSubscription, CommitTransaction,
        TransactionConflicts, TransactionFails, MarkEmailSendRequested, AddEmail, StartFails,
        AddEmailReplyLost, Catch, CallEnds, CallGoes
  <2> QED
    BY <2>1
<1>2. ASSUME NEW r \in Request, NEW e \in Email, NEW n \in RepoName, FindRepository(r, e, n)
      PROVE  call'[s].pc = "failed"
  BY <1>2 DEF TypeOK, FindRepository
<1>3. CASE Crash
  BY <1>3 DEF Crash, Answered
<1>4. ASSUME NEW x \in Request, NEW a \in Activation, TaskStep(x, a) \/ LoseLock(x, a)
      PROVE  UNCHANGED call
  BY <1>4 DEF TaskStep, MarkCompensating, UndoSubscription, UndoRepository, MarkCompensated,
              MarkCompleted, Return, TaskFails, Find, Finish, LoseLock
<1>5. ASSUME NEW c \in Click, ClickStep(c) PROVE UNCHANGED call
  BY <1>5 DEF ClickStep, Confirm, Cancel, FollowLink, ConfirmUpdates, CancelUpdates
<1>6. ASSUME NEW x \in Request, Deliver(x) \/ ReportSent(x) \/ ReportFailed(x) PROVE UNCHANGED call
  BY <1>6 DEF Deliver, ReportSent, ReportFailed, Reports
<1>7. ASSUME NEW x \in Request, NEW k \in Report, TakeResult(x, k) \/ LoseLockFirst(x, k)
      PROVE  UNCHANGED call
  BY <1>7 DEF TakeResult, LoseLockFirst
<1>8. UNCHANGED vars => UNCHANGED call
  BY DEF vars
<1> QED
  BY <1>1, <1>2, <1>3, <1>4, <1>5, <1>6, <1>7, <1>8 DEF Next

LEMMA QueuedBy ==
  ASSUME [Next]_vars, NEW s \in Request, s \notin queued, s \in queued'
  PROVE  AddEmail(s) \/ AddEmailReplyLost(s)
<1> USE DEF database, work
<1>1. ASSUME NEW x \in Request, CallStep(x)
      PROVE  UNCHANGED queued \/ AddEmail(x) \/ AddEmailReplyLost(x)
  BY <1>1 DEF CallStep, VerificationFails, FindSubscription, CommitTransaction,
              TransactionConflicts, TransactionFails, MarkEmailSendRequested, StartFails, Catch
<1>2. ASSUME NEW x \in Request, AddEmail(x) \/ AddEmailReplyLost(x) PROVE x = s
  BY <1>2 DEF AddEmail, AddEmailReplyLost
<1>3. ASSUME NEW x \in Request, NEW a \in Activation, TaskStep(x, a) \/ LoseLock(x, a)
      PROVE  UNCHANGED queued
  BY <1>3 DEF TaskStep, MarkCompensating, UndoSubscription, UndoRepository, MarkCompensated,
              MarkCompleted, Return, TaskFails, Find, Finish, LoseLock
<1>4. ASSUME NEW c \in Click, ClickStep(c) PROVE UNCHANGED queued
  BY <1>4 DEF ClickStep, Confirm, Cancel, FollowLink, ConfirmUpdates, CancelUpdates
<1>5. ASSUME NEW x \in Request, Deliver(x) \/ ReportSent(x) \/ ReportFailed(x)
      PROVE  UNCHANGED queued
  BY <1>5 DEF Deliver, ReportSent, ReportFailed, Reports
<1>6. ASSUME NEW x \in Request, NEW y \in Report, TakeResult(x, y) \/ LoseLockFirst(x, y)
      PROVE  UNCHANGED queued
  BY <1>6 DEF TakeResult, LoseLockFirst
<1>7. ASSUME NEW x \in Request, NEW e \in Email, NEW n \in RepoName, FindRepository(x, e, n)
      PROVE  UNCHANGED queued
  BY <1>7 DEF FindRepository
<1>8. Crash \/ UNCHANGED vars => UNCHANGED queued
  BY DEF Crash, vars
<1> QED
  BY <1>1, <1>2, <1>3, <1>4, <1>5, <1>6, <1>7, <1>8 DEF Next

LEMMA OverlappedGrows == [Next]_vars => overlapped \subseteq overlapped'
<1> SUFFICES ASSUME [Next]_vars PROVE overlapped \subseteq overlapped'
  OBVIOUS
<1> USE DEF work
<1>1. ASSUME NEW r \in Request, CallStep(r) PROVE overlapped \subseteq overlapped'
  BY <1>1 DEF CallStep, VerificationFails, FindSubscription, CommitTransaction,
              TransactionConflicts, TransactionFails, MarkEmailSendRequested, AddEmail,
              StartFails, AddEmailReplyLost, Catch, TaskStarts
<1>2. ASSUME NEW r \in Request, NEW e \in Email, NEW n \in RepoName, FindRepository(r, e, n)
      PROVE  UNCHANGED overlapped
  BY <1>2 DEF FindRepository
<1>3. ASSUME NEW x \in Request, NEW a \in Activation, TaskStep(x, a) \/ LoseLock(x, a)
      PROVE  UNCHANGED overlapped
  BY <1>3 DEF TaskStep, MarkCompensating, UndoSubscription, UndoRepository, MarkCompensated,
              MarkCompleted, Return, TaskFails, Find, Finish, LoseLock, TaskGoes
<1>4. ASSUME NEW c \in Click, ClickStep(c) PROVE UNCHANGED overlapped
  BY <1>4 DEF ClickStep, Confirm, Cancel, FollowLink, ConfirmUpdates, CancelUpdates
<1>5. ASSUME NEW x \in Request, Deliver(x) \/ ReportSent(x) \/ ReportFailed(x)
      PROVE  UNCHANGED overlapped
  BY <1>5 DEF Deliver, ReportSent, ReportFailed, Reports
<1>6. ASSUME NEW x \in Request, NEW k \in Report, TakeResult(x, k) \/ LoseLockFirst(x, k)
      PROVE  overlapped \subseteq overlapped'
  BY <1>6 DEF TakeResult, LoseLockFirst, TaskStarts
<1>7. Crash \/ UNCHANGED vars => UNCHANGED overlapped
  BY DEF Crash, vars
<1> QED
  BY <1>1, <1>2, <1>3, <1>4, <1>5, <1>6, <1>7 DEF Next

(* An activation that starts beside another.                               *)
LEMMA StartedBeside ==
  ASSUME TypeInv, [Next]_vars, NEW s \in Request, NEW a \in Activation,
         NEW b \in Activation \ {a}, task[s][a] = "idle",
         task'[s][a] # "idle", task'[s][b] # "idle"
  PROVE  s \in overlapped'
<1>1. TypeOK
  BY DEF TypeInv
<1>2. \/ a = Start /\ (StartFails(s) \/ AddEmailReplyLost(s))
      \/ a # Start /\ (TakeResult(s, a[1]) \/ LoseLockFirst(s, a[1]))
  <2>1. ~UndoSubscription(s, a)
    BY DEF UndoSubscription
  <2> QED
    BY <2>1, TaskSteps
<1>3. PICK c \in Activation, pc \in TaskPc : TaskStarts(s, c, pc)
  <2>1. CASE a = Start /\ (StartFails(s) \/ AddEmailReplyLost(s))
    BY <2>1, FindMoves DEF StartFails, AddEmailReplyLost, Catch
  <2>2. CASE a # Start /\ (TakeResult(s, a[1]) \/ LoseLockFirst(s, a[1]))
    <3> DEFINE c == <<a[1], result[s][a[1]].stalls>>
    <3>1. c \in Activation
      BY <1>1, <2>2, Activations DEF TypeOK, Job
    <3>2. TaskStarts(s, c, AfterFind(s, c)) \/ TaskStarts(s, c, "find")
      BY <2>2 DEF TakeResult, LoseLockFirst
    <3>3. AfterFind(s, c) \in TaskPc /\ "find" \in TaskPc
      BY <3>1, FindMoves DEF TaskPc
    <3> QED
      BY <3>1, <3>2, <3>3
  <2> QED
    BY <1>2, <2>1, <2>2
<1>4. \A d \in Activation : task'[s][d] = IF d = c THEN pc ELSE task[s][d]
  BY <1>1, <1>3, TaskMoves
<1>5. task[s][b] # "idle"
  BY <1>4
<1> QED
  BY <1>3, <1>5 DEF TaskStarts

LEMMA TouchedStable ==
  ASSUME TypeInv, SafeInv, StartAlone, [Next]_vars, NEW s \in Request, Touched(s)
  PROVE  Touched(s)'
<1>1. ~CommitTransaction(s) /\ ~AfterCommit(s)
  BY CommitIsFirst DEF StartAlone, HasSaga, Touched
<1> QED
  BY <1>1, SagaSteps DEF TypeInv, Touched

LEMMA OverlapInvStep == TypeInv /\ SafeInv /\ OverlapInv /\ [Next]_vars => OverlapInv'
<1> SUFFICES ASSUME TypeInv, SafeInv, OverlapInv, [Next]_vars PROVE OverlapInv'
  OBVIOUS
<1>0. TypeOK /\ Overlapping /\ StartAlone /\ TouchedBy /\ JobsTouch /\ OvertakenOverlap
  BY DEF TypeInv, OverlapInv
<1>1. Overlapping'
  <2> SUFFICES ASSUME NEW s \in Request, NEW a \in Activation, NEW b \in Activation,
                      a # b, task'[s][a] # "idle", task'[s][b] # "idle"
               PROVE  s \in overlapped'
    BY DEF Overlapping
  <2>1. CASE task[s][a] # "idle" /\ task[s][b] # "idle"
    BY <1>0, <2>1, OverlappedGrows DEF Overlapping
  <2>2. CASE task[s][a] = "idle"
    BY <2>2, StartedBeside
  <2>3. CASE task[s][b] = "idle"
    BY <2>3, StartedBeside
  <2> QED
    BY <2>1, <2>2, <2>3
<1>2. ASSUME NEW s \in Request, task'[s][Start] # "idle" PROVE call'[s].pc = "failed"
  <2>1. task[s][Start] # "idle" \/ StartFails(s) \/ AddEmailReplyLost(s)
    <3>1. UndoSubscription(s, Start) => task[s][Start] # "idle"
      BY DEF UndoSubscription
    <3> QED
      BY <1>2, <3>1, TaskSteps, Activations
  <2>2. StartFails(s) \/ AddEmailReplyLost(s) => call'[s].pc = "failed"
    BY <1>0 DEF TypeOK, StartFails, AddEmailReplyLost, Catch, CallEnds, NoCall
  <2> QED
    BY <1>0, <2>1, <2>2, FailedIsFinal DEF StartAlone
<1>3. ASSUME NEW s \in Request, AfterCommit(s)' PROVE s \notin queued' /\ ~Touched(s)'
  <2>1. CASE CommitTransaction(s)
    <3>1. saga'[s].status = "SUBSCRIPTION_CREATED" /\ queued' = queued
      BY <1>0, <2>1 DEF TypeOK, CommitTransaction
    <3>2. s \notin queued
      BY <2>1, CommitIsFirst DEF SafeInv, NothingWithoutSaga
    <3> QED
      BY <3>1, <3>2 DEF Touched
  <2>2. CASE ~CommitTransaction(s)
    <3>1. AfterCommit(s)
      BY <1>0, <1>3, <2>2, CallSteps
    <3>2. s \notin queued /\ ~Touched(s)
      BY <1>0, <3>1 DEF StartAlone
    <3>3. ASSUME NEW a \in Activation PROVE task[s][a] = "idle"
      <4>1. CASE a = Start
        BY <1>0, <3>1, <4>1 DEF StartAlone, AfterCommit
      <4>2. CASE a # Start
        BY <3>2, <4>2, Activations DEF TypeInv, JobsSound, SafeInv, NothingUnasked
      <4> QED
        BY <4>1, <4>2
    <3>4. ~Touched(s)'
      BY <1>0, <2>2, <3>2, <3>3, SagaSteps DEF Touched
    <3>5. ASSUME s \in queued' PROVE FALSE
      <4>1. AddEmail(s) \/ AddEmailReplyLost(s)
        BY <3>2, <3>5, QueuedBy
      <4>2. AddEmail(s) \/ AddEmailReplyLost(s) => ~AfterCommit(s)'
        BY <1>0 DEF TypeOK, AddEmail, AddEmailReplyLost, Catch, CallEnds, NoCall, AfterCommit
      <4> QED
        BY <1>3, <4>1, <4>2
    <3> QED
      BY <3>4, <3>5
  <2> QED
    BY <2>1, <2>2
<1>4. StartAlone'
  BY <1>2, <1>3 DEF StartAlone
<1>5. ASSUME NEW s \in Request, Touched(s) PROVE Touched(s)'
  BY <1>0, <1>5, TouchedStable
<1>6. TouchedBy'
  <2> SUFFICES ASSUME NEW s \in Request, NEW a \in Activation,
                      task'[s][a] \in {"undoSubscription", "undoRepository",
                                       "markCompensated", "return"}
               PROVE  Touched(s)'
    BY DEF TouchedBy
  <2>1. CASE task[s][a] \in {"undoSubscription", "undoRepository", "markCompensated", "return"}
    BY <1>0, <1>5, <2>1 DEF TouchedBy
  <2>2. CASE /\ task'[s][a] = AfterFind(s, a)
             /\ \/ AfterCommit(s)
                \/ a # Start /\ result[s][a[1]].state = "wait"
                \/ task[s][a] = "find"
    <3>1. HasSaga(s)
      BY <2>2, Activations
      DEF SafeInv, CommitInv, NothingUnasked, NothingWithoutSaga
    <3>2. Touched(s)
      BY <2>2, <3>1 DEF AfterFind, HasSaga, Touched
    <3> QED
      BY <1>5, <3>2
  <2>3. CASE MarkCompensating(s, a) \/ MarkCompensated(s, a) \/ MarkCompleted(s, a)
    BY <1>0, <2>3, SagaMoves
    DEF MarkCompensating, MarkCompensated, MarkCompleted, Touched, SagaStatus
  <2>4. CASE UndoSubscription(s, a) \/ UndoRepository(s, a)
    BY <1>0, <1>5, <2>4 DEF TouchedBy, UndoSubscription, UndoRepository
  <2> QED
    BY <2>1, <2>2, <2>3, <2>4, TaskSteps
<1>7. JobsTouch'
  <2> SUFFICES ASSUME NEW s \in Request, NEW k \in Report, result'[s][k].state = "completed"
               PROVE  Touched(s)'
    BY DEF JobsTouch
  <2>1. \/ result'[s][k].state = result[s][k].state
        \/ result'[s][k].state \in {"wait", "active", "failed"}
        \/ \E a \in Activation : task[s][a] = "return" /\ HasLock(s, a) /\ a[1] = k
    BY ResultSteps
  <2> QED
    BY <1>0, <1>5, <2>1 DEF JobsTouch, TouchedBy
<1>8. OvertakenOverlap'
  <2> SUFFICES ASSUME NEW s \in Request, NEW a \in Activation,
                      saga'[s].status = "COMPENSATED",
                      task'[s][a] \notin {"idle", "find", "return"}
               PROVE  s \in overlapped'
    BY DEF OvertakenOverlap
  <2>1. CASE saga[s].status = "COMPENSATED"
    <3>1. AfterFind(s, a) = "return"
      BY <2>1 DEF AfterFind
    <3>2. task[s][a] \notin {"idle", "find", "return"}
      BY <3>1, TaskSteps DEF UndoSubscription
    <3> QED
      BY <1>0, <2>1, <3>2, OverlappedGrows DEF OvertakenOverlap
  <2>2. CASE saga[s].status # "COMPENSATED"
    <3>1. PICK other \in Activation : MarkCompensated(s, other)
      BY <1>0, <2>2, SagaSteps
    <3>2. \A b \in Activation :
            task'[s][b] = IF b = other THEN "return" ELSE task[s][b]
      BY <1>0, <3>1, TaskMoves DEF MarkCompensated, TaskPc
    <3>3. a # other /\ task[s][a] # "idle" /\ task[s][other] # "idle"
      BY <3>1, <3>2 DEF MarkCompensated
    <3> QED
      BY <1>0, <3>3, OverlappedGrows DEF Overlapping
  <2> QED
    BY <2>1, <2>2
<1> QED
  BY <1>1, <1>4, <1>6, <1>7, <1>8 DEF OverlapInv

LEMMA OverlapInvariance == Spec => [](TypeInv /\ SafeInv /\ OverlapInv)
  BY Invariance, OverlapInvInit, OverlapInvStep, PTL DEF Spec

(* A saga leaves COMPENSATED only if two activations were at work on it at *)
(* the same time: of two of its reports, of a report and the request's own *)
(* catch block, or of one report whose lock had expired.  Retries and      *)
(* restarts, one after the other, never reopen it.                         *)
THEOREM RetriesDoNotReopen == Spec => OnlyOverlapReopens
<1>1. TypeInv /\ SafeInv /\ OverlapInv /\ [Next]_vars =>
        [\A s \in Request :
           saga[s].status = "COMPENSATED" /\ saga'[s].status # "COMPENSATED"
           => s \in overlapped]_vars
  <2> SUFFICES ASSUME TypeInv, SafeInv, OverlapInv, [Next]_vars, NEW s \in Request,
                      saga[s].status = "COMPENSATED", saga'[s].status # "COMPENSATED"
               PROVE  s \in overlapped
    OBVIOUS
  <2>1. ~CommitTransaction(s) /\ ~AfterCommit(s)
    BY CommitIsFirst DEF OverlapInv, StartAlone, HasSaga, Touched
  <2>2. PICK a \in Activation : task[s][a] \in {"markCompensating", "markCompleted"}
    BY <2>1, SagaSteps DEF TypeInv
  <2> QED
    BY <2>2 DEF OverlapInv, OvertakenOverlap
<1> QED
  BY <1>1, OverlapInvariance, PTL DEF Spec, OnlyOverlapReopens

-----------------------------------------------------------------------------
(***************************************************************************)
(* The repository a saga created.  Whoever holds or found a row knows its  *)
(* repository, so the row that keeps a repository is taken away only for   *)
(* another saga that uses the repository, too.                             *)
(***************************************************************************)
SagasKnowRows ==
  \A s \in Request :
    /\ ~HasSaga(s) => saga[s].repositoryId = None
    /\ saga[s].createdRepository => saga[s].repositoryId = s
    /\ saga[s].createdSubscription => saga[s].subscriptionId = s
    /\ HasSaga(s) =>
         \E i \in Request :
           /\ saga[s].subscriptionId = i
           /\ HasSaga(i)
           /\ Exists(i) => subscription[i].repositoryId = saga[s].repositoryId

CallsKnowRows ==
  \A r, i \in Request : call[r].foundSubscription = i =>
    /\ call[r].foundRepository # None
    /\ HasSaga(i)
    /\ Exists(i) => subscription[i].repositoryId = call[r].foundRepository

(* The repository is gone, or somebody uses it, or the one who used it     *)
(* beside this saga has a handler at work or behind him.                   *)
Settled(s) ==
  \/ repository[s] = None
  \/ HasSubscriptions(s)
  \/ \E other \in Request \ {s} :
       saga[other].repositoryId = s /\ (Touched(other) \/ s \in overlapped)

UndoneSettled ==
  \A s \in Request : saga[s].createdRepository =>
    /\ \A a \in Activation : task[s][a] = "markCompensated" => Settled(s)
    /\ saga[s].status = "COMPENSATED" => Settled(s)

RepositoryInv == SagasKnowRows /\ CallsKnowRows /\ UndoneSettled

LEMMA RepositoryInvInit == Init => RepositoryInv
<1> SUFFICES ASSUME Init PROVE RepositoryInv
  OBVIOUS
<1>1. SagasKnowRows
  BY DEF Init, SagasKnowRows, NoSaga, HasSaga
<1>2. CallsKnowRows
  BY SagaAssumption DEF Init, CallsKnowRows, NoCall, SagaAssumption
<1>3. UndoneSettled
  BY DEF Init, UndoneSettled, NoSaga
<1> QED
  BY <1>1, <1>2, <1>3 DEF RepositoryInv

(* What a commit writes.                                                   *)
LEMMA CommitWrites ==
  ASSUME TypeOK, CallsKnowRows, NEW r \in Request, CommitTransaction(r)
  PROVE  \E i, n \in Request :
           /\ saga'[r].subscriptionId = i /\ saga'[r].repositoryId = n
           /\ saga'[r].createdRepository => n = r
           /\ saga'[r].createdSubscription => i = r
           /\ subscription'[i].repositoryId = n /\ subscription'[i].status = "PENDING"
           /\ i = r \/ (Exists(i) /\ subscription[i].repositoryId = n /\ HasSaga(i))
           /\ \A j \in Request \ {i} : subscription'[j] = subscription[j]
           /\ \A s \in Request \ {r} : saga'[s] = saga[s] /\ repository'[s] = repository[s]
<1>1. call[r] \in Call /\ r # None
  BY SagaAssumption DEF SagaAssumption, TypeOK
<1> DEFINE n == IF call[r].foundRepository = None THEN r ELSE call[r].foundRepository
           i == IF call[r].foundSubscription = None THEN r ELSE call[r].foundSubscription
<1>2. n \in Request /\ i \in Request
  BY <1>1 DEF Call
<1>3. /\ saga'[r].subscriptionId = i /\ saga'[r].repositoryId = n
      /\ saga'[r].createdRepository => n = r
      /\ saga'[r].createdSubscription => i = r
      /\ \A s \in Request \ {r} : saga'[s] = saga[s] /\ repository'[s] = repository[s]
  BY DEF TypeOK, CommitTransaction
<1>4. CASE call[r].foundSubscription = None
  <2>1. i = r
    BY <1>4
  <2>2. subscription' = [subscription EXCEPT ![r] =
          [email |-> call[r].email, repositoryId |-> n, status |-> "PENDING", token |-> r]]
    BY <1>4 DEF CommitTransaction
  <2>3. /\ subscription'[r].repositoryId = n /\ subscription'[r].status = "PENDING"
        /\ \A j \in Request \ {r} : subscription'[j] = subscription[j]
    BY <2>2 DEF TypeOK
  <2> HIDE DEF n, i
  <2> QED
    BY <1>2, <1>3, <2>1, <2>3
<1>5. CASE call[r].foundSubscription # None
  <2>1. i = call[r].foundSubscription
    BY <1>5
  <2>2. subscription' = [subscription EXCEPT ![i].status = "PENDING", ![i].token = r]
    BY <1>5 DEF CommitTransaction
  <2>3. /\ subscription'[i].repositoryId = subscription[i].repositoryId
        /\ subscription'[i].status = "PENDING"
        /\ \A j \in Request \ {i} : subscription'[j] = subscription[j]
    <3> HIDE DEF i
    <3>1. subscription[i] \in SubscriptionRow /\ subscription \in [Request -> SubscriptionRow]
      BY <1>2 DEF TypeOK
    <3> QED
      BY <1>2, <2>2, <3>1 DEF SubscriptionRow
  <2>4. Exists(i)
    BY <1>5 DEF CommitTransaction, RowGone
  <2>5. /\ call[r].foundRepository # None
        /\ HasSaga(i)
        /\ subscription[i].repositoryId = call[r].foundRepository
    BY <1>2, <2>1, <2>4 DEF CallsKnowRows
  <2>6. n = call[r].foundRepository
    BY <2>5
  <2> HIDE DEF n, i
  <2> QED
    BY <1>2, <1>3, <2>3, <2>4, <2>5, <2>6
<1> QED
  BY <1>4, <1>5

(* Only a commit makes a row or a saga; rows keep their repository.        *)
LEMMA RowsKept ==
  ASSUME TypeOK, ClicksFound, [Next]_vars, \A r \in Request : ~CommitTransaction(r),
         NEW i \in Request
  PROVE  /\ Exists(i)' => Exists(i) /\ subscription'[i].repositoryId = subscription[i].repositoryId
         /\ Exists(i) => Exists(i)' \/ subscription[i].status = "PENDING"
<1>1. subscription[i] \in SubscriptionRow /\ subscription \in [Request -> SubscriptionRow]
  BY DEF TypeOK
<1>2. ASSUME NEW j \in Request, NEW status \in SubscriptionStatus, status # "ABSENT", Exists(j),
             subscription' = [subscription EXCEPT ![j].status = status]
      PROVE  /\ subscription'[i].repositoryId = subscription[i].repositoryId
             /\ Exists(i)' <=> Exists(i)
  BY <1>1, <1>2 DEF SubscriptionRow, Exists
<1>3. ASSUME NEW s \in Request, NEW a \in Activation, UndoSubscription(s, a)
      PROVE  /\ Exists(i)' => Exists(i) /\ subscription'[i].repositoryId = subscription[i].repositoryId
             /\ Exists(i) => Exists(i)' \/ subscription[i].status = "PENDING"
  <2>1. PICK row \in Request \cup {None} : row = saga[s].subscriptionId
    BY DEF TypeOK, SagaRow
  <2>2. CASE row = None \/ subscription[row].status # "PENDING"
    BY <1>3, <2>1, <2>2 DEF UndoSubscription, Exists
  <2>3. CASE row \in Request /\ subscription[row].status = "PENDING" /\ saga[s].createdSubscription
    <3>1. subscription' = [subscription EXCEPT ![row] = NoSubscription]
      BY <1>3, <2>1, <2>3, SagaAssumption DEF UndoSubscription, SagaAssumption
    <3> QED
      BY <1>1, <2>3, <3>1 DEF Exists, NoSubscription
  <2>4. CASE row \in Request /\ subscription[row].status = "PENDING" /\ ~saga[s].createdSubscription
    <3>1. subscription' = [subscription EXCEPT ![row].status = "UNSUBSCRIBED"]
      BY <1>3, <2>1, <2>4, SagaAssumption DEF UndoSubscription, SagaAssumption
    <3> QED
      BY <1>2, <2>4, <3>1 DEF Exists, SubscriptionStatus
  <2> QED
    BY <2>2, <2>3, <2>4
<1>4. ASSUME NEW c \in Click, ConfirmUpdates(c) \/ CancelUpdates(c)
      PROVE  /\ Exists(i)' => Exists(i) /\ subscription'[i].repositoryId = subscription[i].repositoryId
             /\ Exists(i) => Exists(i)'
  <2>1. PICK row \in Request : row = click[c].row
    BY <1>4 DEF ClicksFound, ConfirmUpdates, CancelUpdates
  <2>2. CASE ~Exists(row)
    BY <1>4, <2>1, <2>2 DEF ConfirmUpdates, CancelUpdates, Exists
  <2>3. CASE Exists(row)
    <3>1. PICK status \in {"ACTIVE", "UNSUBSCRIBED"} :
            subscription' = [subscription EXCEPT ![row].status = status]
      BY <1>4, <2>1, <2>3 DEF ConfirmUpdates, CancelUpdates
    <3> QED
      BY <1>2, <2>3, <3>1 DEF SubscriptionStatus
  <2> QED
    BY <2>2, <2>3
<1>5. CASE UNCHANGED subscription
  BY <1>5 DEF Exists
<1> QED
  BY <1>3, <1>4, <1>5, OnlySubscriptionSteps DEF SubscriptionStep

LEMMA SagasKept ==
  ASSUME TypeInv, SafeInv, [Next]_vars, \A r \in Request : ~CommitTransaction(r),
         NEW s \in Request
  PROVE  /\ saga'[s].repositoryId = saga[s].repositoryId
         /\ saga'[s].subscriptionId = saga[s].subscriptionId
         /\ saga'[s].createdRepository = saga[s].createdRepository
         /\ saga'[s].createdSubscription = saga[s].createdSubscription
         /\ HasSaga(s)' <=> HasSaga(s)
<1> USE DEF database, work
<1>1. ASSUME NEW x \in Request, NEW status \in SagaStatus,
             status # "ABSENT", HasSaga(x), saga' = [saga EXCEPT ![x].status = status]
      PROVE  /\ saga'[s].repositoryId = saga[s].repositoryId
             /\ saga'[s].subscriptionId = saga[s].subscriptionId
             /\ saga'[s].createdRepository = saga[s].createdRepository
             /\ saga'[s].createdSubscription = saga[s].createdSubscription
             /\ HasSaga(s)' <=> HasSaga(s)
  <2>1. saga[s] \in SagaRow /\ saga \in [Request -> SagaRow]
    BY DEF TypeInv, TypeOK
  <2> QED
    BY <1>1, <2>1 DEF SagaRow, HasSaga
<1>2. ASSUME NEW x \in Request, CallStep(x)
      PROVE  UNCHANGED saga \/ MarkEmailSendRequested(x)
  BY <1>2 DEF CallStep, VerificationFails, FindSubscription, TransactionConflicts,
              TransactionFails, AddEmail, StartFails, AddEmailReplyLost, Catch
<1>3. ASSUME NEW x \in Request, MarkEmailSendRequested(x)
      PROVE  HasSaga(x) /\ saga' = [saga EXCEPT ![x].status = "EMAIL_SEND_REQUESTED"]
  BY <1>3 DEF MarkEmailSendRequested, SafeInv, CommitInv, AfterCommit
<1>4. ASSUME NEW x \in Request, NEW a \in Activation, TaskStep(x, a) \/ LoseLock(x, a)
      PROVE  \/ UNCHANGED saga
             \/ /\ HasSaga(x)
                /\ \E status \in SagaStatus \ {"ABSENT"} :
                     saga' = [saga EXCEPT ![x].status = status]
  <2>2. CASE MarkCompensating(x, a) \/ MarkCompensated(x, a) \/ MarkCompleted(x, a)
    <3>1. task[x][a] # "idle"
      BY <2>2 DEF MarkCompensating, MarkCompensated, MarkCompleted
    <3>2. HasSaga(x)
      BY <3>1 DEF SafeInv, NothingWithoutSaga
    <3>3. PICK status \in {"COMPENSATING", "COMPENSATED", "COMPLETED"} :
            saga' = [saga EXCEPT ![x].status = status]
      BY <2>2 DEF MarkCompensating, MarkCompensated, MarkCompleted
    <3> QED
      BY <3>2, <3>3 DEF SagaStatus
  <2>3. CASE UNCHANGED saga
    BY <2>3
  <2> QED
    BY <1>4, <2>2, <2>3 DEF TaskStep, UndoSubscription, UndoRepository, Return, TaskFails, Find, Finish, LoseLock
<1>5. CASE UNCHANGED saga
  BY <1>5 DEF HasSaga
<1>6. \/ UNCHANGED saga
      \/ \E x \in Request : MarkEmailSendRequested(x)
      \/ \E x \in Request, a \in Activation : TaskStep(x, a) \/ LoseLock(x, a)
  <2>1. ASSUME NEW c \in Click, ClickStep(c) PROVE UNCHANGED saga
    BY <2>1 DEF ClickStep, Confirm, Cancel, FollowLink, ConfirmUpdates, CancelUpdates
  <2>2. ASSUME NEW x \in Request, Deliver(x) \/ ReportSent(x) \/ ReportFailed(x)
        PROVE  UNCHANGED saga
    BY <2>2 DEF Deliver, ReportSent, ReportFailed, Reports
  <2>3. ASSUME NEW x \in Request, NEW y \in Report, TakeResult(x, y) \/ LoseLockFirst(x, y)
      PROVE  UNCHANGED saga
    BY <2>3 DEF TakeResult, LoseLockFirst
  <2>4. ASSUME NEW x \in Request, NEW e \in Email, NEW n \in RepoName, FindRepository(x, e, n)
        PROVE  UNCHANGED saga
    BY <2>4 DEF FindRepository
  <2>5. Crash \/ UNCHANGED vars => UNCHANGED saga
    BY DEF Crash, vars
  <2> QED
    BY <1>2, <2>1, <2>2, <2>3, <2>4, <2>5 DEF Next
<1> QED
  BY <1>1, <1>3, <1>4, <1>5, <1>6 DEF SagaStatus

(* A request reads what is there.                                          *)
LEMMA CallsFind ==
  ASSUME TypeOK, [Next]_vars, NEW r \in Request, NEW i \in Request,
         call'[r].foundSubscription = i
  PROVE  /\ call'[r].foundRepository = call[r].foundRepository
         /\ \/ call[r].foundSubscription = i
            \/ /\ Exists(i) /\ subscription[i].repositoryId = call[r].foundRepository
               /\ call[r].foundRepository # None
               /\ UNCHANGED database
<1> USE SagaAssumption DEF SagaAssumption, database, work
<1> DEFINE Found ==
      /\ call'[r].foundRepository = call[r].foundRepository
      /\ \/ call[r].foundSubscription = i
         \/ /\ Exists(i) /\ subscription[i].repositoryId = call[r].foundRepository
            /\ call[r].foundRepository # None
            /\ UNCHANGED database
<1>0. call[r] \in Call /\ call \in [Request -> Call] /\ i # None
  BY DEF TypeOK
<1>1. CASE UNCHANGED call
  BY <1>1
<1>2. ASSUME NEW x \in Request, NEW answer, CallEnds(x, answer) PROVE Found
  BY <1>0, <1>2 DEF CallEnds, NoCall
<1>3. ASSUME NEW x \in Request, NEW pc \in CallPc, CallGoes(x, pc) PROVE Found
  BY <1>0, <1>3 DEF CallGoes, Call
<1>4. ASSUME NEW x \in Request, NEW e \in Email, NEW n \in RepoName, FindRepository(x, e, n)
      PROVE  Found
  BY <1>0, <1>4 DEF FindRepository
<1>5. ASSUME NEW x \in Request, FindSubscription(x) PROVE Found
  BY <1>0, <1>5 DEF FindSubscription, Call, Holds
<1>6. ASSUME Crash PROVE Found
  BY <1>0, <1>6 DEF Crash, NoCall
<1> HIDE DEF Found
<1>7. ASSUME NEW x \in Request, CallStep(x) PROVE Found
  BY <1>2, <1>3, <1>5, <1>7
  DEF CallStep, VerificationFails, CommitTransaction, TransactionConflicts, TransactionFails,
      MarkEmailSendRequested, AddEmail, StartFails, AddEmailReplyLost, Catch, CallPc
<1>8. ASSUME NEW s \in Request, NEW a \in Activation, TaskStep(s, a) \/ LoseLock(s, a)
      PROVE  UNCHANGED call
  BY <1>8 DEF TaskStep, MarkCompensating, UndoSubscription, UndoRepository, MarkCompensated,
              MarkCompleted, Return, TaskFails, Find, Finish, LoseLock
<1>9. ASSUME NEW c \in Click, ClickStep(c) PROVE UNCHANGED call
  BY <1>9 DEF ClickStep, Confirm, Cancel, FollowLink, ConfirmUpdates, CancelUpdates
<1>10. ASSUME NEW s \in Request, Deliver(s) \/ ReportSent(s) \/ ReportFailed(s) PROVE UNCHANGED call
  BY <1>10 DEF Deliver, ReportSent, ReportFailed, Reports
<1>11. ASSUME NEW s \in Request, NEW k \in Report, TakeResult(s, k) \/ LoseLockFirst(s, k)
      PROVE  UNCHANGED call
  BY <1>11 DEF TakeResult, LoseLockFirst
<1>12. UNCHANGED vars => UNCHANGED call
  BY DEF vars
<1>13. UNCHANGED call \/ Found
  BY <1>4, <1>6, <1>7, <1>8, <1>9, <1>10, <1>11, <1>12 DEF Next
<1> QED
  BY <1>1, <1>13 DEF Found

LEMMA RepositorySteps ==
  ASSUME TypeOK, [Next]_vars, NEW s \in Request
  PROVE  repository'[s] \in {repository[s], None} \/ CommitTransaction(s)
<1> USE DEF database, work
<1>1. ASSUME NEW x \in Request, CallStep(x)
      PROVE  UNCHANGED repository \/ CommitTransaction(x)
  BY <1>1 DEF CallStep, VerificationFails, FindSubscription, TransactionConflicts,
              TransactionFails, MarkEmailSendRequested, AddEmail, StartFails,
              AddEmailReplyLost, Catch
<1>2. ASSUME NEW x \in Request, CommitTransaction(x) PROVE x # s => repository'[s] = repository[s]
  BY <1>2 DEF TypeOK, CommitTransaction
<1>3. ASSUME NEW x \in Request, NEW a \in Activation, TaskStep(x, a) \/ LoseLock(x, a)
      PROVE  UNCHANGED repository \/ UndoRepository(x, a)
  BY <1>3 DEF TaskStep, MarkCompensating, UndoSubscription, MarkCompensated, MarkCompleted,
              Return, TaskFails, Find, Finish, LoseLock
<1>4. ASSUME NEW x \in Request, NEW a \in Activation, UndoRepository(x, a)
      PROVE  repository'[s] \in {repository[s], None}
  BY <1>4 DEF TypeOK, UndoRepository
<1>5. ASSUME NEW c \in Click, ClickStep(c) PROVE UNCHANGED repository
  BY <1>5 DEF ClickStep, Confirm, Cancel, FollowLink, ConfirmUpdates, CancelUpdates
<1>6. ASSUME NEW x \in Request, Deliver(x) \/ ReportSent(x) \/ ReportFailed(x)
      PROVE  UNCHANGED repository
  BY <1>6 DEF Deliver, ReportSent, ReportFailed, Reports
<1>7. ASSUME NEW x \in Request, NEW y \in Report, TakeResult(x, y) \/ LoseLockFirst(x, y)
      PROVE  UNCHANGED repository
  BY <1>7 DEF TakeResult, LoseLockFirst
<1>8. ASSUME NEW x \in Request, NEW e \in Email, NEW n \in RepoName, FindRepository(x, e, n)
      PROVE  UNCHANGED repository
  BY <1>8 DEF FindRepository
<1>9. Crash \/ UNCHANGED vars => UNCHANGED repository
  BY DEF Crash, vars
<1> QED
  BY <1>1, <1>2, <1>3, <1>4, <1>5, <1>6, <1>7, <1>8, <1>9 DEF Next

LEMMA SagaStays ==
  ASSUME TypeInv, SafeInv, CallsKnowRows, [Next]_vars, NEW s \in Request, ~CommitTransaction(s)
  PROVE  /\ saga'[s].repositoryId = saga[s].repositoryId
         /\ saga'[s].subscriptionId = saga[s].subscriptionId
         /\ saga'[s].createdRepository = saga[s].createdRepository
         /\ saga'[s].createdSubscription = saga[s].createdSubscription
         /\ HasSaga(s)' <=> HasSaga(s)
<1>1. ASSUME NEW r \in Request, CommitTransaction(r) PROVE saga'[s] = saga[s]
  BY <1>1, CommitWrites DEF TypeInv
<1> QED
  BY <1>1, SagasKept DEF HasSaga

LEMMA RowStays ==
  ASSUME TypeInv, SafeInv, CallsKnowRows, [Next]_vars, NEW i \in Request, HasSaga(i), Exists(i)'
  PROVE  Exists(i) /\ subscription'[i].repositoryId = subscription[i].repositoryId
<1>1. ASSUME NEW r \in Request, CommitTransaction(r)
      PROVE  Exists(i) /\ subscription'[i].repositoryId = subscription[i].repositoryId
  <2>1. ~HasSaga(r)
    BY <1>1, CommitIsFirst
  <2>2. PICK j \in Request :
          /\ j = r \/ (Exists(j) /\ subscription[j].repositoryId = subscription'[j].repositoryId)
          /\ \A x \in Request \ {j} : subscription'[x] = subscription[x]
    BY <1>1, CommitWrites DEF TypeInv
  <2>3. i # r
    BY <2>1
  <2>4. CASE i = j
    BY <2>2, <2>3, <2>4
  <2>5. CASE i # j
    BY <2>2, <2>5 DEF Exists
  <2> QED
    BY <2>4, <2>5
<1> QED
  BY <1>1, RowsKept DEF TypeInv

(* A row that goes is that of the saga which created it.                   *)
LEMMA RowRemoved ==
  ASSUME TypeOK, ClicksFound, SagasKnowRows, [Next]_vars, \A r \in Request : ~CommitTransaction(r),
         NEW i \in Request, Exists(i), ~Exists(i)'
  PROVE  \E a \in Activation : task[i][a] = "undoSubscription" /\ saga[i].subscriptionId = i
<1>1. subscription \in [Request -> SubscriptionRow]
  BY DEF TypeOK
<1>2. ASSUME NEW x \in Request, NEW a \in Activation, UndoSubscription(x, a)
      PROVE  /\ task[x][a] = "undoSubscription"
             /\ saga[x].createdSubscription /\ saga[x].subscriptionId = i
  <2>1. PICK row \in Request \cup {None} : row = saga[x].subscriptionId
    BY DEF TypeOK, SagaRow
  <2>2. CASE row = None \/ subscription[row].status # "PENDING"
    BY <1>2, <2>1, <2>2 DEF UndoSubscription, Exists
  <2>3. CASE row \in Request /\ subscription[row].status = "PENDING" /\ saga[x].createdSubscription
    <3>1. subscription' = [subscription EXCEPT ![row] = NoSubscription]
      BY <1>2, <2>1, <2>3, SagaAssumption DEF UndoSubscription, SagaAssumption
    <3>2. i = row
      BY <1>1, <2>3, <3>1 DEF Exists
    <3> QED
      BY <1>2, <2>1, <2>3, <3>2 DEF UndoSubscription
  <2>4. CASE row \in Request /\ subscription[row].status = "PENDING" /\ ~saga[x].createdSubscription
    <3>1. subscription' = [subscription EXCEPT ![row].status = "UNSUBSCRIBED"]
      BY <1>2, <2>1, <2>4, SagaAssumption DEF UndoSubscription, SagaAssumption
    <3> QED
      BY <1>1, <2>4, <3>1 DEF Exists
  <2> QED
    BY <2>1, <2>2, <2>3, <2>4
<1>3. ASSUME NEW c \in Click, ConfirmUpdates(c) \/ CancelUpdates(c) PROVE FALSE
  <2>1. PICK row \in Request : row = click[c].row
    BY <1>3 DEF ClicksFound, ConfirmUpdates, CancelUpdates
  <2>2. \/ UNCHANGED subscription
        \/ \E status \in {"ACTIVE", "UNSUBSCRIBED"} :
             subscription' = [subscription EXCEPT ![row].status = status]
    BY <1>3, <2>1 DEF ConfirmUpdates, CancelUpdates
  <2>3. CASE UNCHANGED subscription
    BY <2>3 DEF Exists
  <2>4. ASSUME NEW status \in {"ACTIVE", "UNSUBSCRIBED"},
               subscription' = [subscription EXCEPT ![row].status = status]
        PROVE  FALSE
    <3>1. subscription'[i].status \in {status, subscription[i].status}
      BY <2>4, SubscriptionMoves DEF SubscriptionStatus
    <3> QED
      BY <3>1 DEF Exists
  <2> QED
    BY <2>2, <2>3, <2>4
<1>7. ~(UNCHANGED subscription)
  BY DEF Exists
<1>4. PICK x \in Request, a \in Activation : UndoSubscription(x, a)
  BY <1>3, <1>7, OnlySubscriptionSteps DEF SubscriptionStep
<1>5. x = i
  <2>1. saga[x].createdSubscription => saga[x].subscriptionId = x
    BY DEF SagasKnowRows
  <2> QED
    BY <1>2, <1>4, <2>1
<1> QED
  BY <1>2, <1>4, <1>5

(* While its compensation is at its end, or over.                          *)
LEMMA SettledStable ==
  ASSUME TypeInv, SafeInv, OverlapInv, RepositoryInv, [Next]_vars,
         NEW s \in Request, HasSaga(s), Undone(s), Settled(s),
         \/ saga[s].status = "COMPENSATED"
         \/ \E b \in Activation : task[s][b] = "markCompensated"
  PROVE  Settled(s)'
<1>1. ~CommitTransaction(s)
  BY CommitIsFirst
<1>2. ASSUME NEW other \in Request \ {s}, saga[other].repositoryId = s,
             Touched(other) \/ s \in overlapped
      PROVE  Settled(s)'
  <2>1. HasSaga(other)
    BY <1>2, SagaAssumption DEF RepositoryInv, SagasKnowRows, SagaAssumption
  <2>2. saga'[other].repositoryId = s
    BY <1>2, <2>1, CommitIsFirst, SagaStays DEF RepositoryInv
  <2>3. Touched(other)' \/ s \in overlapped'
    BY <1>2, TouchedStable, OverlappedGrows DEF OverlapInv
  <2> QED
    BY <2>2, <2>3 DEF Settled
<1>3. CASE repository[s] = None
  BY <1>1, <1>3, RepositorySteps DEF TypeInv, Settled
<1>4. ASSUME NEW j \in Request, Exists(j), subscription[j].repositoryId = s PROVE Settled(s)'
  <2>1. HasSaga(j)
    BY <1>4 DEF SafeInv, NothingWithoutSaga
  <2>2. CASE Exists(j)'
    BY <1>4, <2>1, <2>2, RowStays DEF RepositoryInv, Settled, HasSubscriptions
  <2>3. CASE ~Exists(j)' /\ \E r \in Request : CommitTransaction(r)
    <3>1. PICK i \in Request :
            /\ subscription'[i].status = "PENDING"
            /\ \A x \in Request \ {i} : subscription'[x] = subscription[x]
      BY <2>3, CommitWrites DEF TypeInv, RepositoryInv
    <3> QED
      BY <1>4, <2>3, <3>1 DEF Exists
  <2>4. CASE ~Exists(j)' /\ \A r \in Request : ~CommitTransaction(r)
    <3>1. PICK a \in Activation : /\ task[j][a] = "undoSubscription"
                                 /\ saga[j].subscriptionId = j
      BY <1>4, <2>4, RowRemoved DEF TypeInv, RepositoryInv
    <3>2. CASE j # s
      <4>1. saga[j].repositoryId = s
        BY <1>4, <2>1, <3>1 DEF RepositoryInv, SagasKnowRows
      <4>2. Touched(j)
        BY <3>1 DEF OverlapInv, TouchedBy
      <4> QED
        BY <1>2, <3>2, <4>1, <4>2
    <3>3. CASE j = s
      <4>1. subscription[j].status = "PENDING"
        BY <1>4, <2>4, RowsKept DEF TypeInv
      <4>2. PICK t \in Request : subscription[j].token = t
        BY <1>4 DEF TypeInv, TokensDrawn
      <4>3. t # s
        BY <4>1, <4>2 DEF Undone
      <4>4. saga[t].subscriptionId = j /\ HasSaga(t)
        BY <4>2 DEF SafeInv, TokenRow, NothingWithoutSaga
      <4>5. saga[t].repositoryId = s
        BY <1>4, <4>4 DEF RepositoryInv, SagasKnowRows
      <4>6. s \in overlapped
        BY <3>1, <3>3 DEF OverlapInv, Overlapping, OvertakenOverlap
      <4> QED
        BY <1>2, <4>3, <4>5, <4>6
    <3> QED
      BY <3>2, <3>3
  <2> QED
    BY <2>2, <2>3, <2>4
<1> QED
  BY <1>2, <1>3, <1>4 DEF Settled, HasSubscriptions

LEMMA UndoRepositorySettles ==
  ASSUME TypeOK, NEW s \in Request, NEW a \in Activation, UndoRepository(s, a),
         saga[s].createdRepository, saga[s].repositoryId = s
  PROVE  Settled(s)'
<1>1. CASE HasSubscriptions(s)
  BY <1>1 DEF UndoRepository, Settled, HasSubscriptions, Exists
<1>2. CASE ~HasSubscriptions(s)
  BY <1>2, SagaAssumption DEF UndoRepository, Settled, SagaAssumption, TypeOK
<1> QED
  BY <1>1, <1>2

LEMMA RepositoryInvStep ==
  TypeInv /\ SafeInv /\ OverlapInv /\ RepositoryInv /\ [Next]_vars => RepositoryInv'
<1> SUFFICES ASSUME TypeInv, SafeInv, OverlapInv, RepositoryInv, [Next]_vars PROVE RepositoryInv'
  OBVIOUS
<1>0. TypeOK /\ SagasKnowRows /\ CallsKnowRows /\ UndoneSettled
  BY DEF TypeInv, RepositoryInv
<1>1. ASSUME NEW i \in Request, HasSaga(i) PROVE HasSaga(i)'
  BY <1>0, <1>1, CommitIsFirst, SagaStays
<1>2. SagasKnowRows'
  <2> SUFFICES ASSUME NEW s \in Request
               PROVE  /\ ~HasSaga(s)' => saga'[s].repositoryId = None
                      /\ saga'[s].createdRepository => saga'[s].repositoryId = s
                      /\ saga'[s].createdSubscription => saga'[s].subscriptionId = s
                      /\ HasSaga(s)' =>
                           \E i \in Request :
                             /\ saga'[s].subscriptionId = i
                             /\ HasSaga(i)'
                             /\ Exists(i)' =>
                                  subscription'[i].repositoryId = saga'[s].repositoryId
    BY DEF SagasKnowRows
  <2>1. CASE CommitTransaction(s)
    <3>1. saga'[s].status = "SUBSCRIPTION_CREATED"
      BY <1>0, <2>1 DEF TypeOK, CommitTransaction
    <3>2. HasSaga(s)'
      BY <3>1 DEF HasSaga
    <3>3. PICK i, n \in Request :
            /\ saga'[s].subscriptionId = i /\ saga'[s].repositoryId = n
            /\ saga'[s].createdRepository => n = s
            /\ saga'[s].createdSubscription => i = s
            /\ subscription'[i].repositoryId = n
            /\ i = s \/ HasSaga(i)
      BY <1>0, <2>1, CommitWrites
    <3>4. HasSaga(i)'
      BY <1>1, <3>2, <3>3
    <3> QED
      BY <3>2, <3>3, <3>4
  <2>2. CASE ~CommitTransaction(s)
    <3>1. /\ saga'[s].repositoryId = saga[s].repositoryId
          /\ saga'[s].subscriptionId = saga[s].subscriptionId
          /\ saga'[s].createdRepository = saga[s].createdRepository
          /\ saga'[s].createdSubscription = saga[s].createdSubscription
          /\ HasSaga(s)' <=> HasSaga(s)
      BY <1>0, <2>2, SagaStays
    <3>2. CASE ~HasSaga(s)
      BY <1>0, <3>1, <3>2 DEF SagasKnowRows
    <3>3. CASE HasSaga(s)
      <4>1. PICK i \in Request :
              /\ saga[s].subscriptionId = i
              /\ HasSaga(i)
              /\ Exists(i) => subscription[i].repositoryId = saga[s].repositoryId
        BY <1>0, <3>3 DEF SagasKnowRows
      <4>2. Exists(i)' => subscription'[i].repositoryId = saga'[s].repositoryId
        BY <1>0, <3>1, <4>1, RowStays
      <4>3. /\ saga'[s].createdRepository => saga'[s].repositoryId = s
            /\ saga'[s].createdSubscription => saga'[s].subscriptionId = s
        BY <1>0, <3>1 DEF SagasKnowRows
      <4> QED
        BY <1>1, <3>1, <3>3, <4>1, <4>2, <4>3
    <3> QED
      BY <3>2, <3>3
  <2> QED
    BY <2>1, <2>2
<1>3. CallsKnowRows'
  <2> SUFFICES ASSUME NEW r \in Request, NEW i \in Request, call'[r].foundSubscription = i
               PROVE  /\ call'[r].foundRepository # None
                      /\ HasSaga(i)'
                      /\ Exists(i)' =>
                           subscription'[i].repositoryId = call'[r].foundRepository
    BY DEF CallsKnowRows
  <2>1. /\ call'[r].foundRepository = call[r].foundRepository
        /\ \/ call[r].foundSubscription = i
           \/ /\ Exists(i) /\ subscription[i].repositoryId = call[r].foundRepository
              /\ call[r].foundRepository # None
              /\ UNCHANGED database
    BY <1>0, CallsFind
  <2>2. CASE call[r].foundSubscription = i
    <3>1. /\ call[r].foundRepository # None
          /\ HasSaga(i)
          /\ Exists(i) => subscription[i].repositoryId = call[r].foundRepository
      BY <1>0, <2>2 DEF CallsKnowRows
    <3> QED
      BY <1>0, <1>1, <2>1, <3>1, RowStays
  <2>3. CASE /\ Exists(i) /\ subscription[i].repositoryId = call[r].foundRepository
             /\ call[r].foundRepository # None
             /\ UNCHANGED database
    <3>1. HasSaga(i)
      BY <2>3 DEF SafeInv, NothingWithoutSaga
    <3> QED
      BY <1>1, <2>1, <2>3, <3>1 DEF database
  <2> QED
    BY <2>1, <2>2, <2>3
<1>4. UndoneSettled'
  <2> SUFFICES ASSUME NEW s \in Request, saga'[s].createdRepository
               PROVE  /\ \A a \in Activation : task'[s][a] = "markCompensated" => Settled(s)'
                      /\ saga'[s].status = "COMPENSATED" => Settled(s)'
    BY DEF UndoneSettled
  <2>1. CASE CommitTransaction(s)
    <3>1. saga'[s].status = "SUBSCRIPTION_CREATED"
      BY <1>0, <2>1 DEF TypeOK, CommitTransaction
    <3>2. task' = task
      BY <2>1 DEF CommitTransaction, work
    <3> QED
      BY <2>1, <3>1, <3>2, CommitIsFirst
  <2>2. CASE ~CommitTransaction(s)
    <3>1. saga[s].createdRepository
      BY <1>0, <2>2, SagaStays
    <3>2. saga[s].repositoryId = s
      BY <1>0, <3>1 DEF SagasKnowRows
    <3>3. HasSaga(s)
      BY <1>0, <3>2, SagaAssumption DEF SagasKnowRows, SagaAssumption
    <3>4. ASSUME \/ saga[s].status = "COMPENSATED"
                 \/ \E b \in Activation : task[s][b] = "markCompensated"
          PROVE  Settled(s)'
      <4>1. Undone(s)
        BY <3>4 DEF SafeInv, HandlerInv
      <4>2. Settled(s)
        BY <1>0, <3>1, <3>4 DEF UndoneSettled
      <4> QED
        BY <3>3, <3>4, <4>1, <4>2, SettledStable
    <3>5. ASSUME NEW a \in Activation, task'[s][a] = "markCompensated" PROVE Settled(s)'
      <4>1. task[s][a] = "markCompensated" \/ UndoRepository(s, a)
        BY <3>5, TaskSteps DEF AfterFind
      <4> QED
        BY <1>0, <3>1, <3>2, <3>4, <4>1, UndoRepositorySettles
    <3>6. ASSUME saga'[s].status = "COMPENSATED" PROVE Settled(s)'
      <4>1. \/ saga[s].status = "COMPENSATED"
            \/ \E a \in Activation : task[s][a] = "markCompensated"
        BY <1>0, <2>2, <3>6, SagaSteps
      <4> QED
        BY <3>4, <4>1
    <3> QED
      BY <3>5, <3>6
  <2> QED
    BY <2>1, <2>2
<1> QED
  BY <1>2, <1>3, <1>4 DEF RepositoryInv

LEMMA RepositoryInvariance == Spec => [](TypeInv /\ SafeInv /\ OverlapInv /\ RepositoryInv)
  BY OverlapInvariance, RepositoryInvInit, RepositoryInvStep, PTL DEF Spec

(* When a compensated saga leaves the repository it created to nobody, the *)
(* one it was left for, another saga that had found it, has a compensation *)
(* or a completion at work or behind it, or two activations of this saga   *)
(* overlapped.                                                             *)
THEOREM RepositoriesUndone == Spec => []OrphanWasShared
<1>1. RepositoryInv => OrphanWasShared
  BY DEF RepositoryInv, UndoneSettled, Settled, Touched, OrphanWasShared
<1> QED
  BY <1>1, RepositoryInvariance, PTL

-----------------------------------------------------------------------------
(***************************************************************************)
(* Double opt-in.  Mailed(i) says that a saga which has row i mailed its   *)
(* link, and stays true: links are never taken back and a saga keeps its   *)
(* row.  Whatever writes ACTIVE or UNSUBSCRIBED has come upon such a row:  *)
(* a link that is followed, a request that found the row UNSUBSCRIBED, and *)
(* the saga of such a request.  The request that found a row waiting only  *)
(* since is not the one that created it.                                   *)
(***************************************************************************)
Mailed(i) == \E s \in Request : saga[s].subscriptionId = i /\ <<"confirm", s>> \in links

RowsMailed ==
  \A i \in Request : subscription[i].status \in {"ACTIVE", "UNSUBSCRIBED"} => Mailed(i)

LinksMailed ==
  /\ \A c \in Click : click[c].pc # "idle" => Mailed(click[c].row)
  /\ \A t \in Request : <<"unsubscribe", t>> \in links =>
       HasSaga(t) /\ Mailed(saga[t].subscriptionId)

CallsMailed ==
  \A r, i \in Request : call[r].pc = "commit" /\ call[r].foundSubscription = i =>
    /\ Mailed(i)
    /\ subscription[i].status = "PENDING" => subscription[i].token # i

SagasMailed ==
  \A s \in Request : HasSaga(s) =>
    /\ saga[s].createdSubscription <=> saga[s].subscriptionId = s
    /\ ~saga[s].createdSubscription => Mailed(saga[s].subscriptionId)

OptInInv == RowsMailed /\ LinksMailed /\ CallsMailed /\ SagasMailed

SagaInv == TypeInv /\ SafeInv /\ OverlapInv /\ RepositoryInv

LEMMA OptInInvInit == Init => OptInInv
  BY DEF Init, OptInInv, RowsMailed, LinksMailed, CallsMailed, SagasMailed, HasSaga, NoCall,
         NoSaga, NoSubscription, NoClick

LEMMA MailedStable ==
  ASSUME SagaInv, [Next]_vars, NEW i \in Request, Mailed(i)
  PROVE  Mailed(i)'
<1>1. PICK s \in Request : saga[s].subscriptionId = i /\ <<"confirm", s>> \in links
  BY DEF Mailed
<1>2. HasSaga(s)
  BY <1>1 DEF SagaInv, SafeInv, NothingUnasked, NothingWithoutSaga
<1>3. ~CommitTransaction(s)
  BY <1>2, CommitIsFirst DEF SagaInv
<1>4. saga'[s].subscriptionId = i
  BY <1>1, <1>3, SagaStays DEF SagaInv, RepositoryInv
<1> QED
  BY <1>1, <1>4, QueueSteps DEF Mailed

(* The row that a commit takes: a new one, or one found UNSUBSCRIBED.      *)
LEMMA CommitTakes ==
  ASSUME SagaInv, OptInInv, NEW r \in Request, CommitTransaction(r)
  PROVE  \E i \in Request :
           /\ saga'[r].subscriptionId = i
           /\ saga'[r].createdSubscription <=> i = r
           /\ i # r => call[r].foundSubscription = i /\ Exists(i) /\ Mailed(i)
           /\ subscription'[i].status = "PENDING" /\ subscription'[i].token = r
           /\ \A j \in Request \ {i} : subscription'[j] = subscription[j]
<1>1. call[r] \in Call /\ r # None /\ call[r].pc = "commit" /\ ~HasSaga(r)
  BY CommitIsFirst, SagaAssumption
  DEF SagaAssumption, SagaInv, TypeInv, TypeOK, CommitTransaction
<1>2. CASE call[r].foundSubscription = None
  <2>1. /\ saga'[r].subscriptionId = r /\ saga'[r].createdSubscription
        /\ subscription'[r].status = "PENDING" /\ subscription'[r].token = r
        /\ \A j \in Request \ {r} : subscription'[j] = subscription[j]
    BY <1>2 DEF SagaInv, TypeInv, TypeOK, CommitTransaction
  <2> QED
    BY <2>1
<1>3. CASE call[r].foundSubscription # None
  <2>1. PICK i \in Request : i = call[r].foundSubscription
    BY <1>1, <1>3 DEF Call
  <2>2. Mailed(i) /\ HasSaga(i) /\ i # r
    BY <1>1, <2>1 DEF OptInInv, CallsMailed, SagaInv, RepositoryInv, CallsKnowRows
  <2>3. saga'[r].subscriptionId = i /\ ~saga'[r].createdSubscription /\ Exists(i)
    BY <1>3, <2>1 DEF SagaInv, TypeInv, TypeOK, CommitTransaction, RowGone
  <2>4. subscription' = [subscription EXCEPT ![i].status = "PENDING", ![i].token = r]
    BY <1>3, <2>1 DEF CommitTransaction
  <2>5. subscription[i] \in SubscriptionRow /\ subscription \in [Request -> SubscriptionRow]
    BY DEF SagaInv, TypeInv, TypeOK
  <2>6. /\ subscription'[i].status = "PENDING" /\ subscription'[i].token = r
        /\ \A j \in Request \ {i} : subscription'[j] = subscription[j]
    BY <2>4, <2>5 DEF SubscriptionRow
  <2> QED
    BY <2>1, <2>2, <2>3, <2>6
<1> QED
  BY <1>2, <1>3

(* What a compensation writes into its saga's row.                         *)
LEMMA UndoWrites ==
  ASSUME SagaInv, OptInInv, NEW s \in Request, NEW a \in Activation, UndoSubscription(s, a)
  PROVE  \E i \in Request :
           /\ saga[s].subscriptionId = i
           /\ \/ UNCHANGED subscription
              \/ /\ i = s /\ subscription[i].status = "PENDING"
                 /\ subscription' = [subscription EXCEPT ![i] = NoSubscription]
              \/ /\ i # s /\ Mailed(i) /\ subscription[i].status = "PENDING"
                 /\ subscription' = [subscription EXCEPT ![i].status = "UNSUBSCRIBED"]
<1>1. HasSaga(s)
  BY DEF SagaInv, SafeInv, NothingWithoutSaga, UndoSubscription
<1>2. PICK i \in Request : saga[s].subscriptionId = i
  BY <1>1 DEF SagaInv, RepositoryInv, SagasKnowRows
<1>3. i # None
  BY SagaAssumption DEF SagaAssumption
<1>4. /\ saga[s].createdSubscription <=> i = s
      /\ ~saga[s].createdSubscription => Mailed(i)
  BY <1>1, <1>2 DEF OptInInv, SagasMailed
<1> QED
  BY <1>2, <1>3, <1>4 DEF UndoSubscription

(* A transaction that is about to commit has read what it found before, or *)
(* reads it now: then the row is UNSUBSCRIBED.                             *)
LEMMA CallsRead ==
  ASSUME SagaInv, [Next]_vars, NEW r \in Request, NEW i \in Request,
         call'[r].pc = "commit", call'[r].foundSubscription = i
  PROVE  \/ call[r].pc = "commit" /\ call[r].foundSubscription = i
         \/ /\ subscription[i].status = "UNSUBSCRIBED"
            /\ UNCHANGED <<database, links>>
<1> DEFINE Read == \/ call[r].pc = "commit" /\ call[r].foundSubscription = i
                   \/ /\ subscription[i].status = "UNSUBSCRIBED"
                      /\ UNCHANGED <<database, links>>
<1>0. /\ call[r] \in Call /\ call \in [Request -> Call] /\ i # None
      /\ subscription[i] \in SubscriptionRow
  BY SagaAssumption DEF SagaAssumption, SagaInv, TypeInv, TypeOK
<1>1. CASE call'[r] = call[r]
  BY <1>1
<1>2. ASSUME NEW x \in Request, NEW answer \in Answered, CallEnds(x, answer) PROVE call'[r] = call[r]
  BY <1>0, <1>2 DEF CallEnds, NoCall, Answered
<1>3. ASSUME NEW x \in Request, NEW pc \in CallPc \ {"commit"}, CallGoes(x, pc)
      PROVE  call'[r] = call[r]
  BY <1>0, <1>3 DEF CallGoes, Call
<1>4. ASSUME NEW x \in Request, NEW e \in Email, NEW n \in RepoName, FindRepository(x, e, n)
      PROVE  call'[r] = call[r]
  BY <1>0, <1>4 DEF FindRepository
<1>5. ASSUME NEW x \in Request, FindSubscription(x) PROVE Read
  <2>1. CASE x # r
    BY <1>0, <1>5, <2>1 DEF FindSubscription
  <2>2. CASE x = r
    <3>1. /\ Exists(i) /\ subscription[i].status \notin {"ACTIVE", "PENDING"}
          /\ UNCHANGED <<database, links>>
      BY <1>0, <1>5, <2>2 DEF FindSubscription, Call, Holds
    <3> QED
      BY <1>0, <3>1 DEF Exists, SubscriptionRow, SubscriptionStatus
  <2> QED
    BY <2>1, <2>2
<1>6. ASSUME Crash PROVE call'[r] = call[r]
  BY <1>0, <1>6 DEF Crash, NoCall
<1> HIDE DEF Read
<1>7. ASSUME NEW x \in Request, CallStep(x) PROVE call'[r] = call[r] \/ Read
  BY <1>2, <1>3, <1>5, <1>7
  DEF CallStep, VerificationFails, CommitTransaction, TransactionConflicts, TransactionFails,
      MarkEmailSendRequested, AddEmail, StartFails, AddEmailReplyLost, Catch, CallPc, Answered
<1>8. ASSUME NEW s \in Request, NEW a \in Activation, TaskStep(s, a) \/ LoseLock(s, a)
      PROVE  UNCHANGED call
  BY <1>8 DEF TaskStep, MarkCompensating, UndoSubscription, UndoRepository, MarkCompensated,
              MarkCompleted, Return, TaskFails, Find, Finish, LoseLock
<1>9. ASSUME NEW c \in Click, ClickStep(c) PROVE UNCHANGED call
  BY <1>9 DEF ClickStep, Confirm, Cancel, FollowLink, ConfirmUpdates, CancelUpdates
<1>10. ASSUME NEW s \in Request, Deliver(s) \/ ReportSent(s) \/ ReportFailed(s) PROVE UNCHANGED call
  BY <1>10 DEF Deliver, ReportSent, ReportFailed, Reports
<1>11. ASSUME NEW s \in Request, NEW k \in Report, TakeResult(s, k) \/ LoseLockFirst(s, k)
      PROVE  UNCHANGED call
  BY <1>11 DEF TakeResult, LoseLockFirst
<1>12. UNCHANGED vars => UNCHANGED call
  BY DEF vars
<1>13. call'[r] = call[r] \/ Read
  BY <1>4, <1>6, <1>7, <1>8, <1>9, <1>10, <1>11, <1>12 DEF Next
<1> QED
  BY <1>1, <1>13 DEF Read

(* What one step makes of the links that are followed and of those in      *)
(* release mails.                                                          *)
LEMMA ClickSteps ==
  ASSUME SagaInv, [Next]_vars
  PROVE  /\ \A c \in Click : click'[c].pc # "idle" =>
              \/ click'[c] = click[c]
              \/ \E t \in Request : /\ <<"confirm", t>> \in links \/ <<"unsubscribe", t>> \in links
                                    /\ subscription[click'[c].row].token = t
                                    /\ click'[c].row \in Request
         /\ \A t \in Request : <<"unsubscribe", t>> \in links' =>
              \/ <<"unsubscribe", t>> \in links
              \/ \E c \in Click : ConfirmUpdates(c) /\ subscription[click[c].row].token = t
<1> USE DEF database, work
<1>0. click \in [Click -> ClickState]
  BY DEF SagaInv, TypeInv, TypeOK
<1>1. ASSUME NEW x \in Click, ClickStep(x), NEW c \in Click, click'[c].pc # "idle"
      PROVE  \/ click'[c] = click[c]
             \/ \E t \in Request : /\ <<"confirm", t>> \in links \/ <<"unsubscribe", t>> \in links
                                   /\ subscription[click'[c].row].token = t
                                   /\ click'[c].row \in Request
  <2>1. CASE ConfirmUpdates(x) \/ CancelUpdates(x)
    BY <1>0, <1>1, <2>1 DEF ConfirmUpdates, CancelUpdates, NoClick
  <2>2. ASSUME NEW t \in Request, NEW i \in Request, Confirm(x, t, i) \/ Cancel(x, t, i)
        PROVE  \/ click'[c] = click[c]
               \/ /\ <<"confirm", t>> \in links \/ <<"unsubscribe", t>> \in links
                  /\ subscription[click'[c].row].token = t
                  /\ click'[c].row \in Request
    BY <1>0, <2>2 DEF Confirm, Cancel, FollowLink
  <2> QED
    BY <1>1, <2>1, <2>2 DEF ClickStep
<1>2. ASSUME NEW x \in Click, ClickStep(x), NEW t \in Request,
             <<"unsubscribe", t>> \in links', <<"unsubscribe", t>> \notin links
      PROVE  ConfirmUpdates(x) /\ subscription[click[x].row].token = t
  <2>1. ConfirmUpdates(x)
    BY <1>2 DEF ClickStep, Confirm, Cancel, FollowLink, CancelUpdates
  <2>2. links' = links \cup {<<"unsubscribe", subscription[click[x].row].token>>}
    BY <1>2, <2>1 DEF ConfirmUpdates
  <2>3. <<"unsubscribe", t>> = <<"unsubscribe", subscription[click[x].row].token>>
    BY <1>2, <2>2
  <2> QED
    BY <2>1, <2>3
<1>3. ASSUME NEW r \in Request, CallStep(r) PROVE UNCHANGED <<links, click>>
  BY <1>3 DEF CallStep, VerificationFails, FindSubscription, CommitTransaction,
              TransactionConflicts, TransactionFails, MarkEmailSendRequested, AddEmail,
              StartFails, AddEmailReplyLost
<1>4. ASSUME NEW s \in Request, NEW a \in Activation, TaskStep(s, a) \/ LoseLock(s, a)
      PROVE  UNCHANGED <<links, click>>
  BY <1>4 DEF TaskStep, MarkCompensating, UndoSubscription, UndoRepository, MarkCompensated,
              MarkCompleted, Return, TaskFails, Find, Finish, LoseLock
<1>5. ASSUME NEW s \in Request, Deliver(s) \/ ReportSent(s) \/ ReportFailed(s)
      PROVE  /\ UNCHANGED click
             /\ \A t \in Request : <<"unsubscribe", t>> \in links' => <<"unsubscribe", t>> \in links
  BY <1>5 DEF Deliver, ReportSent, ReportFailed, Reports
<1>6. ASSUME NEW s \in Request, NEW k \in Report, TakeResult(s, k) \/ LoseLockFirst(s, k)
      PROVE  UNCHANGED <<links, click>>
  BY <1>6 DEF TakeResult, LoseLockFirst
<1>7. ASSUME NEW r \in Request, NEW e \in Email, NEW n \in RepoName, FindRepository(r, e, n)
      PROVE  UNCHANGED <<links, click>>
  BY <1>7 DEF FindRepository
<1>8. Crash => UNCHANGED links /\ \A c \in Click : click'[c].pc = "idle"
  BY DEF Crash, NoClick
<1>9. UNCHANGED vars => UNCHANGED <<links, click>>
  BY DEF vars
<1> QED
  BY <1>1, <1>2, <1>3, <1>4, <1>5, <1>6, <1>7, <1>8, <1>9 DEF Next

LEMMA OptInInvStep == SagaInv /\ OptInInv /\ [Next]_vars => OptInInv'
<1> SUFFICES ASSUME SagaInv, OptInInv, [Next]_vars PROVE OptInInv'
  OBVIOUS
<1>0. TypeOK /\ ClicksFound /\ SafeInv /\ CallsKnowRows /\ TypeInv /\ TokenRow
  BY DEF SagaInv, TypeInv, RepositoryInv, SafeInv
<1>1. ASSUME NEW i \in Request, Mailed(i) PROVE Mailed(i)'
  BY <1>1, MailedStable
<1>2. RowsMailed'
  <2> SUFFICES ASSUME NEW i \in Request, subscription'[i].status \in {"ACTIVE", "UNSUBSCRIBED"}
               PROVE  Mailed(i)
    BY <1>1 DEF RowsMailed
  <2>1. CASE subscription'[i].status = subscription[i].status
    BY <2>1 DEF OptInInv, RowsMailed
  <2>2. ASSUME NEW r \in Request, CommitTransaction(r)
        PROVE  subscription'[i].status = subscription[i].status
    BY <2>2, CommitTakes
  <2>3. ASSUME NEW s \in Request, NEW a \in Activation, UndoSubscription(s, a)
        PROVE  \/ subscription'[i].status = subscription[i].status
               \/ Mailed(i)
    <3>1. PICK row \in Request :
            \/ UNCHANGED subscription
            \/ /\ subscription[row].status = "PENDING"
               /\ subscription' = [subscription EXCEPT ![row] = NoSubscription]
            \/ /\ Mailed(row) /\ subscription[row].status = "PENDING"
               /\ subscription' = [subscription EXCEPT ![row].status = "UNSUBSCRIBED"]
      BY <2>3, UndoWrites
    <3>2. CASE row = i
      BY <1>0, <3>1, <3>2, SubscriptionGoes
    <3>3. CASE row # i
      BY <1>0, <3>1, <3>3 DEF TypeOK
    <3> QED
      BY <3>2, <3>3
  <2>4. ASSUME NEW c \in Click, ConfirmUpdates(c) \/ CancelUpdates(c)
        PROVE  \/ subscription'[i].status = subscription[i].status
               \/ Mailed(i)
    <3>1. click[c].row \in Request /\ Mailed(click[c].row)
      BY <1>0, <2>4 DEF OptInInv, LinksMailed, ClicksFound, ConfirmUpdates, CancelUpdates
    <3>2. CASE click[c].row = i
      BY <3>1, <3>2
    <3>3. CASE click[c].row # i
      BY <1>0, <2>4, <3>1, <3>3 DEF TypeOK, ConfirmUpdates, CancelUpdates
    <3> QED
      BY <3>2, <3>3
  <2> QED
    BY <2>1, <2>2, <2>3, <2>4, OnlySubscriptionSteps DEF SubscriptionStep
<1>3. LinksMailed'
  <2>1. ASSUME NEW t \in Request, NEW i \in Request, subscription[i].token = t,
               <<"confirm", t>> \in links \/ <<"unsubscribe", t>> \in links
        PROVE  Mailed(i)
    <3>1. saga[t].subscriptionId = i
      BY <1>0, <2>1 DEF TokenRow
    <3> QED
      BY <2>1, <3>1 DEF Mailed, OptInInv, LinksMailed
  <2>2. ASSUME NEW c \in Click, click'[c].pc # "idle" PROVE Mailed(click[c].row)'
    <3>1. CASE click'[c] = click[c]
      <4>1. PICK i \in Request : click[c].row = i
        BY <1>0, <2>2, <3>1 DEF ClicksFound
      <4>2. Mailed(i)
        BY <2>2, <3>1, <4>1 DEF OptInInv, LinksMailed
      <4> QED
        BY <1>1, <3>1, <4>1, <4>2
    <3>2. CASE \E t \in Request : /\ <<"confirm", t>> \in links \/ <<"unsubscribe", t>> \in links
                                  /\ subscription[click'[c].row].token = t
                                  /\ click'[c].row \in Request
      <4>1. PICK i \in Request : click'[c].row = i
        BY <3>2
      <4>2. Mailed(i)
        BY <2>1, <3>2, <4>1
      <4> QED
        BY <1>1, <4>1, <4>2
    <3> QED
      BY <2>2, <3>1, <3>2, ClickSteps
  <2>3. ASSUME NEW t \in Request, <<"unsubscribe", t>> \in links'
        PROVE  HasSaga(t)' /\ Mailed(saga[t].subscriptionId)'
    <3>1. CASE <<"unsubscribe", t>> \in links
      <4>1. PICK i \in Request : HasSaga(t) /\ saga[t].subscriptionId = i
        BY <3>1 DEF OptInInv, LinksMailed, SagaInv, RepositoryInv, SagasKnowRows
      <4>2. Mailed(i)
        BY <3>1, <4>1 DEF OptInInv, LinksMailed
      <4>3. saga'[t].subscriptionId = i /\ HasSaga(t)'
        BY <1>0, <4>1, CommitIsFirst, SagaStays
      <4> QED
        BY <1>1, <4>2, <4>3
    <3>2. ASSUME NEW c \in Click, ConfirmUpdates(c), subscription[click[c].row].token = t
          PROVE  HasSaga(t)' /\ Mailed(saga[t].subscriptionId)'
      <4>1. PICK i \in Request : click[c].row = i
        BY <1>0, <3>2 DEF ClicksFound, ConfirmUpdates
      <4>2. saga[t].subscriptionId = i /\ HasSaga(t)
        BY <1>0, <3>2, <4>1 DEF TokenRow, SafeInv, NothingWithoutSaga
      <4>3. Mailed(i)
        BY <3>2, <4>1 DEF OptInInv, LinksMailed, ConfirmUpdates
      <4>4. saga'[t].subscriptionId = i /\ HasSaga(t)'
        BY <1>0, <4>2, CommitIsFirst, SagaStays
      <4> QED
        BY <1>1, <4>3, <4>4
    <3> QED
      BY <2>3, <3>1, <3>2, ClickSteps
  <2> QED
    BY <2>2, <2>3 DEF LinksMailed
<1>4. CallsMailed'
  <2> SUFFICES ASSUME NEW r \in Request, NEW i \in Request,
                      call'[r].pc = "commit", call'[r].foundSubscription = i
               PROVE  /\ Mailed(i)
                      /\ subscription'[i].status = "PENDING" => subscription'[i].token # i
    BY <1>1 DEF CallsMailed
  <2>1. CASE call[r].pc = "commit" /\ call[r].foundSubscription = i
    <3>1. /\ Mailed(i) /\ HasSaga(i)
          /\ subscription[i].status = "PENDING" => subscription[i].token # i
      BY <1>0, <2>1 DEF OptInInv, CallsMailed, CallsKnowRows
    <3>2. ~CommitTransaction(i)
      BY <1>0, <3>1, CommitIsFirst
    <3>3. subscription'[i].status = "PENDING" => subscription'[i].token # i
      BY <1>0, <3>1, <3>2, RowSteps
    <3> QED
      BY <3>1, <3>3
  <2>2. CASE /\ subscription[i].status = "UNSUBSCRIBED"
             /\ UNCHANGED <<database, links>>
    BY <2>2 DEF OptInInv, RowsMailed, database
  <2> QED
    BY <2>1, <2>2, CallsRead
<1>5. SagasMailed'
  <2> SUFFICES ASSUME NEW s \in Request, HasSaga(s)'
               PROVE  \E i \in Request :
                        /\ saga'[s].subscriptionId = i
                        /\ saga'[s].createdSubscription <=> i = s
                        /\ ~saga'[s].createdSubscription => Mailed(i)
    BY <1>1 DEF SagasMailed
  <2>1. CASE CommitTransaction(s)
    BY <2>1, CommitTakes
  <2>2. CASE ~CommitTransaction(s)
    <3>1. /\ HasSaga(s)
          /\ saga'[s].subscriptionId = saga[s].subscriptionId
          /\ saga'[s].createdSubscription = saga[s].createdSubscription
      BY <1>0, <2>2, SagaStays
    <3>2. PICK i \in Request : saga[s].subscriptionId = i
      BY <3>1 DEF SagaInv, RepositoryInv, SagasKnowRows
    <3> QED
      BY <3>1, <3>2 DEF OptInInv, SagasMailed
  <2> QED
    BY <2>1, <2>2
<1> QED
  BY <1>2, <1>3, <1>4, <1>5 DEF OptInInv

LEMMA OptInInvariance == Spec => [](SagaInv /\ OptInInv)
<1>1. Init => SagaInv
  BY TypeInvInit, SafeInvInit, OverlapInvInit, RepositoryInvInit DEF SagaInv
<1>2. SagaInv /\ [Next]_vars => SagaInv'
  BY TypeInvStep, SafeInvStep, OverlapInvStep, RepositoryInvStep DEF SagaInv
<1> QED
  BY <1>1, <1>2, OptInInvInit, OptInInvStep, PTL DEF Spec

(* Of concurrent requests for a subscription that does not exist, the one  *)
(* that creates it keeps it while it waits for its first confirmation.     *)
THEOREM FirstRequestWins == Spec => FirstRequestKeepsItsRow
<1>1. SagaInv /\ OptInInv /\ [Next]_vars =>
        [\A i \in Request :
           /\ subscription[i].status = "PENDING"
           /\ subscription[i].token = i
           /\ subscription'[i].status = "PENDING"
           => subscription'[i].token = i]_vars
  <2> SUFFICES ASSUME SagaInv, OptInInv, [Next]_vars, NEW i \in Request,
                      subscription[i].status = "PENDING", subscription[i].token = i,
                      subscription'[i].status = "PENDING", subscription'[i].token # i
               PROVE  FALSE
    OBVIOUS
  <2>1. PICK r \in Request : CommitTransaction(r) /\ saga'[r].subscriptionId = i /\ r # i
    <3>1. TypeOK /\ ClicksFound
      BY DEF SagaInv, TypeInv
    <3>2. \/ subscription'[i].token = subscription[i].token
          \/ subscription'[i].status \in {"ABSENT", "ACTIVE", "UNSUBSCRIBED"}
          \/ \E r \in Request :
               /\ CommitTransaction(r)
               /\ saga'[r].subscriptionId = i
               /\ subscription'[i].token = r
      BY <3>1, RowSteps
    <3> QED
      BY <3>2
  <2>2. call[r].foundSubscription = i
    BY <2>1, CommitTakes
  <2>3. call[r].pc = "commit"
    BY <2>1 DEF CommitTransaction
  <2> QED
    BY <2>2, <2>3 DEF OptInInv, CallsMailed
<1> QED
  BY <1>1, OptInInvariance, PTL DEF Spec, FirstRequestKeepsItsRow

-----------------------------------------------------------------------------
(***************************************************************************)
(* The refinement of SubscriptionPromise, one lemma per action of the      *)
(* promise: a commit begins, a delivery mails, an update behind a link     *)
(* answers, the compensation's update takes back and every other write of  *)
(* a saga's status settles, or leaves the outcome as it is.                *)
(***************************************************************************)
LEMMA OutcomeIs ==
  ASSUME NEW s \in Request
  PROVE  /\ Outcome(s) \in {"none", "open", "completed", "compensated"}
         /\ Outcome(s) = "none" <=> ~HasSaga(s)
         /\ saga[s].status = "COMPLETED" => Outcome(s) = "completed"
         /\ saga[s].status = "COMPENSATED" => Outcome(s) = "compensated"
         /\ saga[s].status \in {"SUBSCRIPTION_CREATED", "EMAIL_SEND_REQUESTED", "COMPENSATING"}
              => Outcome(s) = "open"
BY DEF Outcome, HasSaga

LEMMA OptedInIsMailed ==
  ASSUME NEW i \in Request
  PROVE  Promise!OptedIn(i) <=> Mailed(i)
BY DEF Promise!OptedIn, Mailed

LEMMA CommitBegins ==
  ASSUME SagaInv, OptInInv, NEW r \in Request, CommitTransaction(r)
  PROVE  Promise!Next
<1>1. PICK i \in Request :
        /\ saga'[r].subscriptionId = i
        /\ i # r => call[r].foundSubscription = i /\ Exists(i) /\ Mailed(i)
        /\ subscription'[i].status = "PENDING" /\ subscription'[i].token = r
        /\ \A j \in Request \ {i} : subscription'[j] = subscription[j]
  BY CommitTakes
<1>2. /\ saga'[r].status = "SUBSCRIPTION_CREATED" /\ links' = links
      /\ \A s \in Request \ {r} : saga'[s] = saga[s]
  BY DEF SagaInv, TypeInv, TypeOK, CommitTransaction
<1>3. Outcome(r) = "none" /\ Outcome(r)' = "open"
  <2>1. ~HasSaga(r)
    BY CommitIsFirst DEF SagaInv
  <2> QED
    BY <1>2, <2>1 DEF Outcome, HasSaga
<1>4. \A s \in Request \ {r} : Outcome(s)' = Outcome(s)
  BY <1>2 DEF Outcome
<1>5. IF i = r THEN subscription[i].status = "ABSENT"
      ELSE subscription[i].status # "ABSENT" /\ Promise!OptedIn(i)
  BY <1>1, CommitIsFirst, OptedInIsMailed DEF SagaInv, Exists
<1>6. Promise!Begin(r, i)
  BY <1>1, <1>2, <1>3, <1>4, <1>5 DEF Promise!Begin
<1> QED
  BY <1>6 DEF Promise!Next

LEMMA DeliverMails ==
  ASSUME SagaInv, NEW s \in Request, Deliver(s)
  PROVE  Promise!Next
<1>1. Outcome(s) # "none"
  BY OutcomeIs DEF SagaInv, SafeInv, NothingWithoutSaga, Deliver
<1>2. /\ UNCHANGED <<subscription, saga>>
      /\ \A x \in Request : <<"confirm", x>> \in links' <=> <<"confirm", x>> \in links \/ x = s
  BY DEF Deliver, database
<1>3. \A x \in Request : Outcome(x)' = Outcome(x)
  BY <1>2 DEF Outcome
<1>4. Promise!Mail(s)
  BY <1>1, <1>2, <1>3 DEF Promise!Mail
<1> QED
  BY <1>4 DEF Promise!Next

LEMMA UpdateAnswers ==
  ASSUME SagaInv, OptInInv, NEW c \in Click, ConfirmUpdates(c) \/ CancelUpdates(c)
  PROVE  [Promise!Next]_Promise!vars
<1>1. PICK i \in Request : click[c].row = i
  BY DEF SagaInv, TypeInv, ClicksFound, ConfirmUpdates, CancelUpdates
<1>2. /\ UNCHANGED saga
      /\ \A x \in Request : <<"confirm", x>> \in links' <=> <<"confirm", x>> \in links
  BY DEF ConfirmUpdates, CancelUpdates
<1>3. \A x \in Request : Outcome(x)' = Outcome(x)
  BY <1>2 DEF Outcome
<1>4. CASE ~Exists(i)
  <2>1. UNCHANGED subscription
    BY <1>1, <1>4 DEF ConfirmUpdates, CancelUpdates
  <2> QED
    BY <1>2, <1>3, <2>1 DEF Promise!vars
<1>5. CASE Exists(i)
  <2>1. PICK answer \in {"ACTIVE", "UNSUBSCRIBED"} :
          subscription' = [subscription EXCEPT ![i].status = answer]
    BY <1>1, <1>5 DEF ConfirmUpdates, CancelUpdates
  <2>2. \A x \in Request :
          /\ subscription'[x].status = IF x = i THEN answer ELSE subscription[x].status
          /\ subscription'[x].token = subscription[x].token
    BY <2>1, SubscriptionMoves DEF SagaInv, TypeInv, SubscriptionStatus
  <2>3. Promise!OptedIn(i)
    BY <1>1, OptedInIsMailed DEF OptInInv, LinksMailed, ConfirmUpdates, CancelUpdates
  <2>4. Promise!Answer(i, answer)
    BY <1>2, <1>3, <1>5, <2>2, <2>3 DEF Promise!Answer, Exists
  <2> QED
    BY <2>4 DEF Promise!Next
<1> QED
  BY <1>4, <1>5

LEMMA UndoTakesBack ==
  ASSUME SagaInv, OptInInv, NEW s \in Request, NEW a \in Activation, UndoSubscription(s, a)
  PROVE  [Promise!Next]_Promise!vars
<1>1. PICK i \in Request :
        /\ saga[s].subscriptionId = i
        /\ \/ UNCHANGED subscription
           \/ /\ i = s /\ subscription[i].status = "PENDING"
              /\ subscription' = [subscription EXCEPT ![i] = NoSubscription]
           \/ /\ i # s /\ subscription[i].status = "PENDING"
              /\ subscription' = [subscription EXCEPT ![i].status = "UNSUBSCRIBED"]
  BY UndoWrites
<1>2. UNCHANGED <<saga, links>>
  BY DEF UndoSubscription
<1>3. \A x \in Request : Outcome(x)' = Outcome(x)
  BY <1>2 DEF Outcome
<1>4. Outcome(s) # "none"
  BY OutcomeIs DEF SagaInv, SafeInv, NothingWithoutSaga, UndoSubscription
<1>5. CASE UNCHANGED subscription
  BY <1>2, <1>3, <1>5 DEF Promise!vars
<1>6. CASE /\ i = s /\ subscription[i].status = "PENDING"
           /\ subscription' = [subscription EXCEPT ![i] = NoSubscription]
  <2>1. \A x \in Request :
          /\ subscription'[x].status = IF x = i THEN "ABSENT" ELSE subscription[x].status
          /\ subscription'[x].token = IF x = i THEN None ELSE subscription[x].token
    BY <1>6, SubscriptionGoes DEF SagaInv, TypeInv
  <2>2. /\ [x \in Request |-> subscription'[x].status] =
             [[x \in Request |-> subscription[x].status] EXCEPT ![s] = "ABSENT"]
        /\ [x \in Request |-> subscription'[x].token] =
             [[x \in Request |-> subscription[x].token] EXCEPT ![s] = None]
    BY <1>6, <2>1
  <2>3. Promise!TakeBack(s)
    BY <1>1, <1>2, <1>3, <1>4, <1>6, <2>2 DEF Promise!TakeBack
  <2> QED
    BY <2>3 DEF Promise!Next
<1>7. CASE /\ i # s /\ subscription[i].status = "PENDING"
           /\ subscription' = [subscription EXCEPT ![i].status = "UNSUBSCRIBED"]
  <2>1. \A x \in Request :
          /\ subscription'[x].status = IF x = i THEN "UNSUBSCRIBED" ELSE subscription[x].status
          /\ subscription'[x].token = subscription[x].token
    BY <1>7, SubscriptionMoves DEF SagaInv, TypeInv, SubscriptionStatus
  <2>2. Promise!TakeBack(s)
    BY <1>1, <1>2, <1>3, <1>4, <1>7, <2>1 DEF Promise!TakeBack
  <2> QED
    BY <2>2 DEF Promise!Next
<1> QED
  BY <1>1, <1>5, <1>6, <1>7

(* A write of a saga's status: MarkEmailSendRequested and the handlers'.   *)
LEMMA StatusSettles ==
  ASSUME SagaInv, NEW s \in Request, HasSaga(s), UNCHANGED <<subscription, links>>,
         NEW status \in {"EMAIL_SEND_REQUESTED", "COMPENSATING", "COMPLETED", "COMPENSATED"},
         saga' = [saga EXCEPT ![s].status = status],
         status = "COMPLETED" => <<"confirm", s>> \in links,
         status = "COMPENSATED" => Undone(s)
  PROVE  Promise!Next
<1>1. \A x \in Request :
        /\ saga'[x].status = IF x = s THEN status ELSE saga[x].status
        /\ saga'[x].subscriptionId = saga[x].subscriptionId
  <2>1. TypeOK /\ status \in SagaStatus
    BY DEF SagaInv, TypeInv, SagaStatus
  <2> QED
    BY <2>1, SagaMoves
<1>2. \A x \in Request \ {s} : Outcome(x)' = Outcome(x)
  BY <1>1 DEF Outcome
<1>3. PICK end \in {"open", "completed", "compensated"} :
        /\ Outcome(s)' = end
        /\ end = "completed" => status = "COMPLETED"
        /\ end = "compensated" => status = "COMPENSATED"
  BY <1>1 DEF Outcome
<1>4. Outcome(s) # "none"
  BY OutcomeIs
<1>5. end = "compensated" => ~Promise!Waits(s)
  BY <1>3 DEF Promise!Waits, Undone
<1>6. Promise!Settle(s, end)
  BY <1>1, <1>2, <1>3, <1>4, <1>5 DEF Promise!Settle
<1> QED
  BY <1>3, <1>6 DEF Promise!Next

LEMMA PromiseStutters ==
  ASSUME UNCHANGED <<subscription, saga>>,
         \A x \in Request : <<"confirm", x>> \in links' <=> <<"confirm", x>> \in links
  PROVE  UNCHANGED Promise!vars
<1>1. \A x \in Request : Outcome(x)' = Outcome(x)
  BY DEF Outcome
<1> QED
  BY <1>1 DEF Promise!vars

LEMMA PromiseStep == SagaInv /\ OptInInv /\ [Next]_vars => [Promise!Next]_Promise!vars
<1> SUFFICES ASSUME SagaInv, OptInInv, [Next]_vars PROVE [Promise!Next]_Promise!vars
  OBVIOUS
<1> USE DEF database, work
<1>1. ASSUME UNCHANGED <<subscription, saga, links>> PROVE [Promise!Next]_Promise!vars
  BY <1>1, PromiseStutters
<1>2. ASSUME NEW r \in Request, CallStep(r) PROVE [Promise!Next]_Promise!vars
  <2>1. CASE CommitTransaction(r)
    BY <2>1, CommitBegins
  <2>2. CASE MarkEmailSendRequested(r)
    <3>1. HasSaga(r)
      BY <2>2 DEF SagaInv, SafeInv, CommitInv, AfterCommit, MarkEmailSendRequested
    <3>2. /\ saga' = [saga EXCEPT ![r].status = "EMAIL_SEND_REQUESTED"]
          /\ UNCHANGED <<subscription, links>>
      BY <2>2 DEF MarkEmailSendRequested
    <3> QED
      BY <3>1, <3>2, StatusSettles
  <2>3. CASE ~CommitTransaction(r) /\ ~MarkEmailSendRequested(r)
    BY <1>1, <1>2, <2>3
    DEF CallStep, VerificationFails, FindSubscription, TransactionConflicts, TransactionFails,
        AddEmail, StartFails, AddEmailReplyLost
  <2> QED
    BY <2>1, <2>2, <2>3
<1>3. ASSUME NEW s \in Request, NEW a \in Activation, TaskStep(s, a) \/ LoseLock(s, a)
      PROVE  [Promise!Next]_Promise!vars
  <2>1. task[s][a] # "idle" => HasSaga(s)
    BY DEF SagaInv, SafeInv, NothingWithoutSaga
  <2>2. CASE UndoSubscription(s, a)
    BY <2>2, UndoTakesBack
  <2>3. CASE MarkCompensating(s, a)
    <3>1. /\ saga' = [saga EXCEPT ![s].status = "COMPENSATING"]
          /\ UNCHANGED <<subscription, links>>
          /\ task[s][a] # "idle"
      BY <2>3 DEF MarkCompensating
    <3> QED
      BY <2>1, <3>1, StatusSettles
  <2>4. CASE MarkCompensated(s, a)
    <3>1. /\ saga' = [saga EXCEPT ![s].status = "COMPENSATED"]
          /\ UNCHANGED <<subscription, links>>
          /\ task[s][a] # "idle"
      BY <2>4 DEF MarkCompensated
    <3>2. Undone(s)
      BY <2>4 DEF SagaInv, SafeInv, HandlerInv, MarkCompensated
    <3> QED
      BY <2>1, <3>1, <3>2, StatusSettles
  <2>5. CASE MarkCompleted(s, a)
    <3>1. /\ saga' = [saga EXCEPT ![s].status = "COMPLETED"]
          /\ UNCHANGED <<subscription, links>>
          /\ task[s][a] # "idle"
      BY <2>5 DEF MarkCompleted
    <3>2. a[1] = "sent" /\ a # Start
      <4>1. a[1] = "sent"
        BY <2>5 DEF SagaInv, SafeInv, HandlerInv, MarkCompleted
      <4> QED
        BY <4>1, Activations
    <3>4. result[s]["sent"].state # "none"
      BY <3>1, <3>2 DEF SagaInv, TypeInv, JobsSound
    <3>3. <<"confirm", s>> \in links
      BY <3>4 DEF SagaInv, SafeInv, NothingUnasked
    <3> QED
      BY <2>1, <3>1, <3>3, StatusSettles
  <2>6. CASE \/ UndoRepository(s, a) \/ Return(s, a) \/ TaskFails(s, a)
             \/ Find(s, a) \/ LoseLock(s, a)
    BY <1>1, <2>6 DEF UndoRepository, Return, TaskFails, Find, Finish, LoseLock
  <2> QED
    BY <1>3, <2>2, <2>3, <2>4, <2>5, <2>6 DEF TaskStep
<1>4. ASSUME NEW c \in Click, ClickStep(c) PROVE [Promise!Next]_Promise!vars
  <2>1. CASE ConfirmUpdates(c) \/ CancelUpdates(c)
    BY <2>1, UpdateAnswers
  <2>2. CASE ~(ConfirmUpdates(c) \/ CancelUpdates(c))
    BY <1>1, <1>4, <2>2 DEF ClickStep, Confirm, Cancel, FollowLink
  <2> QED
    BY <2>1, <2>2
<1>5. ASSUME NEW s \in Request, Deliver(s) PROVE [Promise!Next]_Promise!vars
  BY <1>5, DeliverMails
<1>6. ASSUME NEW s \in Request, ReportSent(s) \/ ReportFailed(s) PROVE [Promise!Next]_Promise!vars
  BY <1>1, <1>6 DEF ReportSent, ReportFailed, Reports
<1>7. ASSUME NEW s \in Request, NEW k \in Report, TakeResult(s, k) \/ LoseLockFirst(s, k)
      PROVE  [Promise!Next]_Promise!vars
  BY <1>1, <1>7 DEF TakeResult, LoseLockFirst
<1>8. ASSUME NEW r \in Request, NEW e \in Email, NEW n \in RepoName, FindRepository(r, e, n)
      PROVE  [Promise!Next]_Promise!vars
  BY <1>1, <1>8 DEF FindRepository
<1>9. CASE Crash \/ UNCHANGED vars
  BY <1>1, <1>9 DEF Crash, vars
<1> QED
  BY <1>2, <1>3, <1>4, <1>5, <1>6, <1>7, <1>8, <1>9 DEF Next

LEMMA PromiseInit == Init => Promise!Init
<1> SUFFICES ASSUME Init PROVE Promise!Init
  OBVIOUS
<1>1. \A i \in Request :
        /\ subscription[i].status = "ABSENT" /\ subscription[i].token = None
        /\ saga[i].subscriptionId = None /\ Outcome(i) = "none"
        /\ <<"confirm", i>> \notin links
  BY DEF Init, NoSubscription, NoSaga, Outcome
<1> QED
  BY <1>1 DEF Promise!Init

(* The Main API implements SubscriptionPromise, for any number of          *)
(* requests, clicks and faults: every statement of every interleaving is   *)
(* one of the promise's actions or none.                                   *)
THEOREM ImplementsSubscriptionPromise == Spec => ImplementsPromise
  BY PromiseInit, PromiseStep, OptInInvariance, PTL DEF Spec, ImplementsPromise, Promise!Spec

(* A row is ACTIVE or UNSUBSCRIBED only if some saga that names it had its *)
(* confirmation mailed: of which token, and whether the link was followed, *)
(* is not said here.                                                       *)
THEOREM OptInIsDouble == Spec => []Promise!DoubleOptIn
<1>1. SagaInv /\ OptInInv => Promise!DoubleOptIn
  <2>1. OptInInv => \A i \in Request :
          subscription[i].status \in {"ACTIVE", "UNSUBSCRIBED"} => Promise!OptedIn(i)
    BY OptedInIsMailed DEF OptInInv, RowsMailed
  <2> QED
    BY <2>1 DEF Promise!DoubleOptIn
<1> QED
  BY <1>1, OptInInvariance, PTL
=============================================================================
