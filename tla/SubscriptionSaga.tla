-------------------------- MODULE SubscriptionSaga --------------------------
(***************************************************************************)
(* The Main API's subscription saga over its PostgreSQL database:          *)
(*   - SubscriptionSagaOrchestrator.start, the POST /api/subscribe request *)
(*     (call);                                                             *)
(*   - SubscriptionSagaCompensationService.compensate, run by start's      *)
(*     catch block and for confirmation-email-failed events (task "start"  *)
(*     and task "failed");                                                 *)
(*   - NotificationResultHandler, run by the result worker on the jobs of  *)
(*     notification-result-queue (tasks "sent" and "failed"), again on a   *)
(*     job whose lock expired, beside the activation that lost it;         *)
(*   - SubscriptionService.confirmSubscription and cancelSubscription, run *)
(*     when a user follows a link of a mail (click).                       *)
(* Every SQL statement outside a transaction and every queue operation is  *)
(* a step of its own, so all of these interleave between them.  The        *)
(* Notification Service is present as ConfirmationDelivery promises it.    *)
(*                                                                         *)
(* Ids.  Each request inserts at most one repository, one subscription and *)
(* one saga, and draws at most one pair of tokens, all random uuids: each  *)
(* of them is named by the request it was drawn for.                       *)
(*                                                                         *)
(* Definitions marked "Fault" are wrong variants of the one below them,    *)
(* used to see that the properties reject them.                            *)
(***************************************************************************)
EXTENDS BullJob

CONSTANTS Request,    \* the POST /api/subscribe requests, and the ids drawn for them
          Email,      \* the subscribers' addresses
          RepoName,   \* the names of repositories on GitHub
          Click,      \* activations of the confirm and unsubscribe endpoints
          None,       \* null
          MaxFaults   \* bound: crashes of the Main API, errors thrown by its tasks,
                      \*   lost replies of Redis and expired locks

ASSUME SagaAssumption == /\ None \notin Request \cup Email \cup RepoName
                         /\ MaxFaults \in Nat

VARIABLES
  repository,    \* table Repository: id -> name, None where there is no row
  subscription,  \* table Subscription: id -> row
  saga,          \* table SubscriptionSaga: id -> row
  call,          \* the requests, with what their transaction has read
  task,          \* saga -> its activations of compensate and handleEmailSent
  queued,        \* the sagas whose confirm-subscription job is in email-queue
  result,        \* saga -> its jobs in notification-result-queue
  links,         \* the links users have received
  click,         \* the links being followed
  faults,
  overlapped     \* history: the sagas of which two activations ran at once

vars == <<repository, subscription, saga, call, task, queued, result, links, click,
          faults, overlapped>>

database == <<repository, subscription, saga>>

work == <<task, overlapped>>

SubscriptionStatus == {"ABSENT", "PENDING", "ACTIVE", "UNSUBSCRIBED"}

SagaStatus == {"ABSENT", "SUBSCRIPTION_CREATED", "EMAIL_SEND_REQUESTED",
               "COMPLETED", "COMPENSATING", "COMPENSATED"}

(* confirmToken and unsubscribeToken are always drawn together: one token. *)
SubscriptionRow == [email: Email \cup {None}, repositoryId: Request \cup {None},
                    status: SubscriptionStatus, token: Request \cup {None}]

SagaRow == [status: SagaStatus,
            repositoryId: Request \cup {None}, subscriptionId: Request \cup {None},
            createdRepository: BOOLEAN, createdSubscription: BOOLEAN]

NoSubscription ==
  [email |-> None, repositoryId |-> None, status |-> "ABSENT", token |-> None]

NoSaga == [status |-> "ABSENT", repositoryId |-> None, subscriptionId |-> None,
           createdRepository |-> FALSE, createdSubscription |-> FALSE]

CallPc == {"idle", "findSubscription", "commit",
           "markEmailSendRequested", "addEmail",
           "accepted", "conflict", "rejected", "failed"}

Call == [pc: CallPc, email: Email \cup {None}, repoName: RepoName \cup {None},
         foundRepository: Request \cup {None}, foundSubscription: Request \cup {None}]

NoCall == [pc |-> "idle", email |-> None, repoName |-> None,
           foundRepository |-> None, foundSubscription |-> None]

Report == {"sent", "failed"}

(* The activation of compensate in start's catch block, and those of the   *)
(* result handlers, each named by how often its job had stalled when the   *)
(* worker took it: every expired lock and every crash counts one more, so  *)
(* no two activations that can overlap have one name.                      *)
Start == <<"start", 0>>

Activation == {Start} \cup (Report \X (0..MaxStalls))

TaskPc == {"idle", "find", "markCompensating", "undoSubscription", "undoRepository",
           "markCompensated", "markCompleted", "return"}

LinkKind == {"confirm", "unsubscribe"}

ClickState == [pc: {"idle", "confirm", "cancel"}, row: Request \cup {None}]

NoClick == [pc |-> "idle", row |-> None]

TypeOK ==
  /\ repository \in [Request -> RepoName \cup {None}]
  /\ subscription \in [Request -> SubscriptionRow]
  /\ saga \in [Request -> SagaRow]
  /\ call \in [Request -> Call]
  /\ task \in [Request -> [Activation -> TaskPc]]
  /\ queued \subseteq Request
  /\ result \in [Request -> [Report -> Job]]
  /\ links \subseteq LinkKind \X Request
  /\ click \in [Click -> ClickState]
  /\ faults \in 0..MaxFaults
  /\ overlapped \subseteq Request

Init ==
  /\ repository = [i \in Request |-> None]
  /\ subscription = [i \in Request |-> NoSubscription]
  /\ saga = [i \in Request |-> NoSaga]
  /\ call = [r \in Request |-> NoCall]
  /\ task = [s \in Request |-> [a \in Activation |-> "idle"]]
  /\ queued = {}
  /\ result = [s \in Request |-> [k \in Report |-> NoJob]]
  /\ links = {}
  /\ click = [c \in Click |-> NoClick]
  /\ faults = 0
  /\ overlapped = {}

Exists(i) == subscription[i].status # "ABSENT"

-----------------------------------------------------------------------------
(* SubscriptionSagaOrchestrator.start.                                     *)

CallGoes(r, pc) == call' = [call EXCEPT ![r].pc = pc]

(* The request is answered; what it had read is forgotten.                 *)
CallEnds(r, answer) == call' = [call EXCEPT ![r] = [NoCall EXCEPT !.pc = answer]]

(* verifyRepository asks the scanner service and throws when GitHub knows  *)
(* no such repository or cannot be asked; nothing was written yet.         *)
VerificationFails(r) ==
  /\ call[r].pc = "idle"
  /\ CallEnds(r, "rejected")
  /\ UNCHANGED <<database, work, queued, result, links, click, faults>>

(* The request is verified and its transaction reads the repository.  The  *)
(* transaction is READ COMMITTED: each read sees what is committed then.   *)
FindRepository(r, e, n) ==
  /\ call[r].pc = "idle"
  /\ \E i \in Request \cup {None} :
       /\ IF i = None THEN \A j \in Request : repository[j] # n
                      ELSE repository[i] = n
       /\ call' = [call EXCEPT ![r] =
            [pc |-> "findSubscription", email |-> e, repoName |-> n,
             foundRepository |-> i, foundSubscription |-> None]]
  /\ UNCHANGED <<database, work, queued, result, links, click, faults>>

Holds(i, e, repositoryId) ==
  /\ Exists(i)
  /\ subscription[i].email = e
  /\ subscription[i].repositoryId = repositoryId

(* Fault: only an ACTIVE subscription is a conflict.                       *)
FindSubscriptionOnlyActive(r) ==
  /\ call[r].pc = "findSubscription"
  /\ \E i \in Request \cup {None} :
       /\ IF i = None
          THEN \/ call[r].foundRepository = None
               \/ \A j \in Request : ~Holds(j, call[r].email, call[r].foundRepository)
          ELSE /\ call[r].foundRepository # None
               /\ Holds(i, call[r].email, call[r].foundRepository)
       /\ call' = [call EXCEPT
            ![r].foundSubscription = i,
            ![r].pc = IF i # None /\ subscription[i].status = "ACTIVE"
                      THEN "conflict" ELSE "commit"]
  /\ UNCHANGED <<database, work, queued, result, links, click, faults>>

(* A repository the transaction inserts itself has no subscriptions yet.   *)
FindSubscription(r) ==
  /\ call[r].pc = "findSubscription"
  /\ \E i \in Request \cup {None} :
       /\ IF i = None
          THEN \/ call[r].foundRepository = None
               \/ \A j \in Request : ~Holds(j, call[r].email, call[r].foundRepository)
          ELSE /\ call[r].foundRepository # None
               /\ Holds(i, call[r].email, call[r].foundRepository)
       /\ call' = [call EXCEPT
            ![r].foundSubscription = i,
            ![r].pc = IF i # None /\ subscription[i].status \in {"ACTIVE", "PENDING"}
                      THEN "conflict" ELSE "commit"]
  /\ UNCHANGED <<database, work, queued, result, links, click, faults>>

(* P2002: a row inserted since the reads violates a unique constraint,     *)
(* Repository(name) or Subscription(email, repositoryId).                  *)
UniqueViolation(r) ==
  \/ /\ call[r].foundRepository = None
     /\ \E i \in Request : repository[i] = call[r].repoName
  \/ /\ call[r].foundRepository # None
     /\ call[r].foundSubscription = None
     /\ \E i \in Request : Holds(i, call[r].email, call[r].foundRepository)

(* A row that was read is gone: the foreign key of the insert fails        *)
(* (P2003), or the update finds no record (P2025).                         *)
RowGone(r) ==
  \/ /\ call[r].foundSubscription # None
     /\ ~Exists(call[r].foundSubscription)
  \/ /\ call[r].foundSubscription = None
     /\ call[r].foundRepository # None
     /\ repository[call[r].foundRepository] = None

(* The transaction's writes take effect together.  The status read before  *)
(* is not asked again: the row found is updated whatever it has become.    *)
CommitTransaction(r) ==
  LET newRepository   == call[r].foundRepository = None
      newSubscription == call[r].foundSubscription = None
      repositoryId    == IF newRepository THEN r ELSE call[r].foundRepository
      subscriptionId  == IF newSubscription THEN r ELSE call[r].foundSubscription
  IN
  /\ call[r].pc = "commit"
  /\ ~UniqueViolation(r)
  /\ ~RowGone(r)
  /\ repository' = IF newRepository
                   THEN [repository EXCEPT ![r] = call[r].repoName] ELSE repository
  /\ subscription' =
       IF newSubscription
       THEN [subscription EXCEPT ![r] =
              [email |-> call[r].email, repositoryId |-> repositoryId,
               status |-> "PENDING", token |-> r]]
       ELSE [subscription EXCEPT ![subscriptionId].status = "PENDING",
                                 ![subscriptionId].token = r]
  /\ saga' = [saga EXCEPT ![r] =
       [status |-> "SUBSCRIPTION_CREATED",
        repositoryId |-> repositoryId, subscriptionId |-> subscriptionId,
        createdRepository |-> newRepository, createdSubscription |-> newSubscription]]
  /\ CallGoes(r, "markEmailSendRequested")
  /\ UNCHANGED <<work, queued, result, links, click, faults>>

(* The P2002 error is answered 409; there is no sagaId to compensate.      *)
TransactionConflicts(r) ==
  /\ call[r].pc = "commit"
  /\ UniqueViolation(r)
  /\ CallEnds(r, "conflict")
  /\ UNCHANGED <<database, work, queued, result, links, click, faults>>

(* Any other error of the transaction: rolled back and thrown.             *)
TransactionFails(r) ==
  /\ call[r].pc \in {"findSubscription", "commit"}
  /\ CallEnds(r, "failed")
  /\ UNCHANGED <<database, work, queued, result, links, click, faults>>

MarkEmailSendRequested(r) ==
  /\ call[r].pc = "markEmailSendRequested"
  /\ saga' = [saga EXCEPT ![r].status = "EMAIL_SEND_REQUESTED"]
  /\ CallGoes(r, "addEmail")
  /\ UNCHANGED <<repository, subscription, work, queued, result, links, click, faults>>

AddEmail(r) ==
  /\ call[r].pc = "addEmail"
  /\ queued' = queued \cup {r}
  /\ CallEnds(r, "accepted")
  /\ UNCHANGED <<database, work, result, links, click, faults>>

TaskGoes(s, a, pc) == task' = [task EXCEPT ![s][a] = pc] /\ UNCHANGED overlapped

(* Fault: a compensation that is under way counts as done.                 *)
AfterFindSkipsCompensating(s, a) ==
  IF saga[s].status \in {"ABSENT", "COMPLETED", "COMPENSATING", "COMPENSATED"} THEN "return"
  ELSE IF a[1] = "sent" THEN "markCompleted" ELSE "markCompensating"

(* Fault: the case of the failed event falls through to the sent one.      *)
AfterFindFallsThrough(s, a) ==
  IF saga[s].status \in {"ABSENT", "COMPLETED", "COMPENSATED"} THEN "return"
  ELSE IF a[1] \in Report THEN "markCompleted" ELSE "markCompensating"

(* Fault: a saga that was compensated is compensated again.                *)
AfterFindReopens(s, a) ==
  IF saga[s].status \in {"ABSENT", "COMPLETED"} THEN "return"
  ELSE IF a[1] = "sent" THEN "markCompleted" ELSE "markCompensating"

(* What compensate and handleEmailSent do with the saga findById returned. *)
AfterFind(s, a) ==
  IF saga[s].status \in {"ABSENT", "COMPLETED", "COMPENSATED"} THEN "return"
  ELSE IF a[1] = "sent" THEN "markCompleted" ELSE "markCompensating"

(* An activation begins, at its first read or right behind it.             *)
TaskStarts(s, a, pc) ==
  /\ task' = [task EXCEPT ![s][a] = pc]
  /\ overlapped' = IF \E b \in Activation : task[s][b] # "idle"
                   THEN overlapped \cup {s} ELSE overlapped

(* The catch block with a sagaId: the request fails once compensated.      *)
Catch(r) ==
  /\ CallEnds(r, "failed")
  /\ TaskStarts(r, Start, AfterFind(r, Start))

StartFails(r) ==
  /\ call[r].pc \in {"markEmailSendRequested", "addEmail"}
  /\ Catch(r)
  /\ UNCHANGED <<database, queued, result, links, click, faults>>

(* queue.add throws although Redis added the job: the reply was lost.      *)
AddEmailReplyLost(r) ==
  /\ call[r].pc = "addEmail"
  /\ faults < MaxFaults
  /\ faults' = faults + 1
  /\ queued' = queued \cup {r}
  /\ Catch(r)
  /\ UNCHANGED <<database, result, links, click>>

-----------------------------------------------------------------------------
(* The Notification Service, as ConfirmationDelivery promises it.  It may  *)
(* deliver or report again: the user has the link, and queue.add leaves a  *)
(* job alone whose id exists, so nothing changes here.                     *)

Deliver(s) ==
  /\ s \in queued
  /\ <<"confirm", s>> \notin links
  /\ links' = links \cup {<<"confirm", s>>}
  /\ UNCHANGED <<database, call, work, queued, result, click, faults>>

Reports(s, k) ==
  /\ result[s][k].state = "none"
  /\ result' = [result EXCEPT ![s][k] = Added(@)]
  /\ UNCHANGED <<database, call, work, queued, links, click, faults>>

ReportSent(s) == <<"confirm", s>> \in links /\ Reports(s, "sent")

ReportFailed(s) == s \in queued /\ Reports(s, "failed")

-----------------------------------------------------------------------------
(* The result worker and the two handlers.  The fields of a saga other     *)
(* than its status never change after the commit, so what findById         *)
(* returned of them is what the row still holds.                           *)

(* Who holds the lock of its job, and may finish it.                       *)
HasLock(s, a) == /\ a # Start
                 /\ result[s][a[1]].state = "active"
                 /\ result[s][a[1]].stalls = a[2]

(* The worker runs the handler on a job that waits.  Nothing comes between *)
(* that and the handler's first read that could tell them apart ...        *)
TakeResult(s, k) ==
  LET a == <<k, result[s][k].stalls>> IN
  /\ result[s][k].state = "wait"
  /\ result' = [result EXCEPT ![s][k] = Taken(@)]
  /\ TaskStarts(s, a, AfterFind(s, a))
  /\ UNCHANGED <<database, call, queued, links, click, faults>>

(* ... but the lock: it expires before the saga is read, which is read     *)
(* later, when the next activation may have changed it.                    *)
LoseLockFirst(s, k) ==
  /\ result[s][k].state = "wait"
  /\ faults < MaxFaults
  /\ faults' = faults + 1
  /\ result' = [result EXCEPT ![s][k] = Stalled(@)]
  /\ TaskStarts(s, <<k, result[s][k].stalls>>, "find")
  /\ UNCHANGED <<database, call, queued, links, click>>

Find(s, a) ==
  /\ task[s][a] = "find"
  /\ TaskGoes(s, a, AfterFind(s, a))
  /\ UNCHANGED <<database, call, queued, result, links, click, faults>>

MarkCompensating(s, a) ==
  /\ task[s][a] = "markCompensating"
  /\ saga' = [saga EXCEPT ![s].status = "COMPENSATING"]
  /\ TaskGoes(s, a, "undoSubscription")
  /\ UNCHANGED <<repository, subscription, call, queued, result, links, click, faults>>

(* Fault: the status filter of deleteMany and updateMany is dropped.       *)
UndoSubscriptionUnfiltered(s, a) ==
  LET i == saga[s].subscriptionId IN
  /\ task[s][a] = "undoSubscription"
  /\ subscription' =
       IF i = None THEN subscription
       ELSE IF saga[s].createdSubscription
            THEN [subscription EXCEPT ![i] = NoSubscription]
            ELSE [subscription EXCEPT ![i].status = "UNSUBSCRIBED"]
  /\ TaskGoes(s, a, "undoRepository")
  /\ UNCHANGED <<repository, saga, call, queued, result, links, click, faults>>

(* Fault: a re-subscription is left as it is.                              *)
UndoSubscriptionOnlyNew(s, a) ==
  LET i == saga[s].subscriptionId IN
  /\ task[s][a] = "undoSubscription"
  /\ subscription' =
       IF i # None /\ saga[s].createdSubscription /\ subscription[i].status = "PENDING"
       THEN [subscription EXCEPT ![i] = NoSubscription]
       ELSE subscription
  /\ TaskGoes(s, a, "undoRepository")
  /\ UNCHANGED <<repository, saga, call, queued, result, links, click, faults>>

(* Fault: a new subscription is ended like a re-subscription.              *)
UndoSubscriptionKeepsRow(s, a) ==
  LET i == saga[s].subscriptionId IN
  /\ task[s][a] = "undoSubscription"
  /\ subscription' =
       IF i = None \/ subscription[i].status # "PENDING" THEN subscription
       ELSE [subscription EXCEPT ![i].status = "UNSUBSCRIBED"]
  /\ TaskGoes(s, a, "undoRepository")
  /\ UNCHANGED <<repository, saga, call, queued, result, links, click, faults>>

(* deleteMany or updateMany of the saga's row, if it is still PENDING.     *)
UndoSubscription(s, a) ==
  LET i == saga[s].subscriptionId IN
  /\ task[s][a] = "undoSubscription"
  /\ subscription' =
       IF i = None \/ subscription[i].status # "PENDING" THEN subscription
       ELSE IF saga[s].createdSubscription
            THEN [subscription EXCEPT ![i] = NoSubscription]
            ELSE [subscription EXCEPT ![i].status = "UNSUBSCRIBED"]
  /\ TaskGoes(s, a, "undoRepository")
  /\ UNCHANGED <<repository, saga, call, queued, result, links, click, faults>>

HasSubscriptions(i) ==
  \E j \in Request : Exists(j) /\ subscription[j].repositoryId = i

(* Fault: the repository is kept.                                          *)
UndoRepositoryNever(s, a) ==
  /\ task[s][a] = "undoRepository"
  /\ TaskGoes(s, a, "markCompensated")
  /\ UNCHANGED <<database, call, queued, result, links, click, faults>>

(* deleteMany of the repository the saga created, if nobody uses it.       *)
UndoRepository(s, a) ==
  LET i == saga[s].repositoryId IN
  /\ task[s][a] = "undoRepository"
  /\ repository' =
       IF saga[s].createdRepository /\ i # None /\ ~HasSubscriptions(i)
       THEN [repository EXCEPT ![i] = None] ELSE repository
  /\ TaskGoes(s, a, "markCompensated")
  /\ UNCHANGED <<subscription, saga, call, queued, result, links, click, faults>>

MarkCompensated(s, a) ==
  /\ task[s][a] = "markCompensated"
  /\ saga' = [saga EXCEPT ![s].status = "COMPENSATED"]
  /\ TaskGoes(s, a, "return")
  /\ UNCHANGED <<repository, subscription, call, queued, result, links, click, faults>>

(* markCompleted does not ask for the status that was read.                *)
MarkCompleted(s, a) ==
  /\ task[s][a] = "markCompleted"
  /\ saga' = [saga EXCEPT ![s].status = "COMPLETED"]
  /\ TaskGoes(s, a, "return")
  /\ UNCHANGED <<repository, subscription, call, queued, result, links, click, faults>>

(* Only the holder of the lock moves its job.                              *)
Finish(s, a, moved) ==
  /\ TaskGoes(s, a, "idle")
  /\ result' = IF HasLock(s, a) THEN [result EXCEPT ![s][a[1]] = moved] ELSE result
  /\ UNCHANGED <<database, call, queued, links, click>>

(* The handler resolves and its job, if it has one, completes.             *)
Return(s, a) ==
  /\ task[s][a] = "return"
  /\ Finish(s, a, Succeeded(result[s][a[1]]))
  /\ UNCHANGED faults

(* A statement throws, before or after it took effect: the caller of start *)
(* gets the error and nobody tries again; a result job is retried while it *)
(* has attempts left.                                                      *)
TaskFails(s, a) ==
  /\ task[s][a] # "idle"
  /\ faults < MaxFaults
  /\ faults' = faults + 1
  /\ Finish(s, a, Failed(result[s][a[1]]))

(* The lock expires under a running handler: its job is handed out again   *)
(* while the handler goes on.                                              *)
LoseLock(s, a) ==
  /\ HasLock(s, a)
  /\ faults < MaxFaults
  /\ faults' = faults + 1
  /\ result' = [result EXCEPT ![s][a[1]] = Stalled(@)]
  /\ UNCHANGED <<database, call, work, queued, links, click>>

-----------------------------------------------------------------------------
(* SubscriptionService: the row is found by its token, then updated by its *)
(* id.  A token that is unknown (404) or already used (400) changes        *)
(* nothing.  The tracking command that follows the update touches none of  *)
(* these tables.                                                           *)

FollowLink(c, kind, t, i) ==
  /\ click[c].pc = "idle"
  /\ <<kind, t>> \in links
  /\ Exists(i)
  /\ subscription[i].token = t
  /\ UNCHANGED <<database, call, work, queued, result, links, faults>>

Confirm(c, t, i) ==
  /\ FollowLink(c, "confirm", t, i)
  /\ subscription[i].status # "ACTIVE"
  /\ click' = [click EXCEPT ![c] = [pc |-> "confirm", row |-> i]]

Cancel(c, t, i) ==
  /\ FollowLink(c, "unsubscribe", t, i)
  /\ subscription[i].status # "UNSUBSCRIBED"
  /\ click' = [click EXCEPT ![c] = [pc |-> "cancel", row |-> i]]

(* Release mails, which go to ACTIVE rows, carry the unsubscribe token.    *)
ConfirmUpdates(c) ==
  LET i == click[c].row IN
  /\ click[c].pc = "confirm"
  /\ IF Exists(i)
     THEN /\ subscription' = [subscription EXCEPT ![i].status = "ACTIVE"]
          /\ links' = links \cup {<<"unsubscribe", subscription[i].token>>}
     ELSE UNCHANGED <<subscription, links>>
  /\ click' = [click EXCEPT ![c] = NoClick]
  /\ UNCHANGED <<repository, saga, call, work, queued, result, faults>>

CancelUpdates(c) ==
  LET i == click[c].row IN
  /\ click[c].pc = "cancel"
  /\ subscription' = IF Exists(i)
                     THEN [subscription EXCEPT ![i].status = "UNSUBSCRIBED"]
                     ELSE subscription
  /\ click' = [click EXCEPT ![c] = NoClick]
  /\ UNCHANGED <<repository, saga, call, work, queued, result, links, faults>>

-----------------------------------------------------------------------------
Answered == {"accepted", "conflict", "rejected", "failed"}

Running == \/ \E r \in Request : call[r].pc \notin Answered \cup {"idle"}
           \/ \E s \in Request, a \in Activation : task[s][a] # "idle"
           \/ \E c \in Click : click[c] # NoClick

(* The process has no shutdown: whatever ends it cuts every activation     *)
(* short and rolls open transactions back.  Its result jobs stall.  (A     *)
(* crash with nothing running changes nothing.)                            *)
Crash ==
  /\ Running
  /\ faults < MaxFaults
  /\ faults' = faults + 1
  /\ call' = [r \in Request |-> IF call[r].pc \in Answered \cup {"idle"} THEN call[r]
                                ELSE [NoCall EXCEPT !.pc = "failed"]]
  /\ task' = [s \in Request |-> [a \in Activation |-> "idle"]]
  /\ result' = [s \in Request |-> [k \in Report |->
       IF result[s][k].state = "active" THEN Stalled(result[s][k]) ELSE result[s][k]]]
  /\ click' = [c \in Click |-> NoClick]
  /\ UNCHANGED <<database, queued, links, overlapped>>

CallStep(r) == \/ VerificationFails(r) \/ FindSubscription(r)
               \/ CommitTransaction(r) \/ TransactionConflicts(r) \/ TransactionFails(r)
               \/ MarkEmailSendRequested(r) \/ AddEmail(r) \/ StartFails(r)
               \/ AddEmailReplyLost(r)

TaskStep(s, a) == \/ Find(s, a) \/ MarkCompensating(s, a) \/ UndoSubscription(s, a)
                  \/ UndoRepository(s, a) \/ MarkCompensated(s, a)
                  \/ MarkCompleted(s, a)
                  \/ Return(s, a) \/ TaskFails(s, a)

ClickStep(c) == \/ \E t, i \in Request : Confirm(c, t, i) \/ Cancel(c, t, i)
                \/ ConfirmUpdates(c) \/ CancelUpdates(c)

Next == \/ \E r \in Request, e \in Email, n \in RepoName : FindRepository(r, e, n)
        \/ \E r \in Request : CallStep(r)
        \/ \E s \in Request : Deliver(s) \/ ReportSent(s) \/ ReportFailed(s)
        \/ \E s \in Request, k \in Report : TakeResult(s, k) \/ LoseLockFirst(s, k)
        \/ \E s \in Request, a \in Activation : TaskStep(s, a) \/ LoseLock(s, a)
        \/ \E c \in Click : ClickStep(c)
        \/ Crash

Spec == Init /\ [][Next]_vars

(* A running process polls the result queue, and what it runs goes on.     *)
FairSpec == /\ Spec
            /\ \A s \in Request, a \in Activation : WF_vars(TaskStep(s, a))
            /\ \A s \in Request, k \in Report : WF_vars(TakeResult(s, k))

-----------------------------------------------------------------------------
(* No subscription waits for the confirmation that this saga asked for.    *)
Undone(s) ==
  \A i \in Request : subscription[i].token = s => subscription[i].status # "PENDING"

(* A saga that says COMPENSATED has taken its PENDING subscription back,   *)
(* and no interleaving of handlers, clicks, later requests and restarts    *)
(* brings it back to life.                                                 *)
CompensatedUndone ==
  \A s \in Request : saga[s].status = "COMPENSATED" => Undone(s)

(* A repository row that a compensated saga had created is left to nobody  *)
(* only in one way: another saga shared it, and that saga is compensated,  *)
(* too (or was, before another result overwrote it).  Its compensation     *)
(* does not ask for a repository it has not created, so the row stays.  As *)
(* long as those who share it have their mails pending, it is in use, and  *)
(* without them it is gone; unless two activations of the creating saga    *)
(* overlapped, and one undid a re-subscription.                            *)
OrphanWasShared ==
  \A s \in Request :
    /\ saga[s].status = "COMPENSATED"
    /\ saga[s].createdRepository
    /\ repository[s] # None
    /\ ~HasSubscriptions(s)
    => \E other \in Request \ {s} :
         /\ saga[other].repositoryId = s
         /\ \/ saga[other].status \in {"COMPENSATING", "COMPENSATED", "COMPLETED"}
            \/ s \in overlapped

(* When the only result of a saga was confirmation-email-failed and its    *)
(* job completed, on whichever attempt, the subscription was taken back.   *)
FailureReportHandled ==
  \A s \in Request :
    /\ result[s]["failed"].state = "completed"
    /\ result[s]["sent"].state = "none"
    => Undone(s)

(* COMPLETED means that the mail provider accepted the confirmation.       *)
CompletedWasMailed ==
  \A s \in Request : saga[s].status = "COMPLETED" => <<"confirm", s>> \in links

(* Only an unsubscribe link or a new request on the row ends an ACTIVE     *)
(* subscription; no compensation does, however late it runs.               *)
ActiveEndsOnPurpose ==
  [][\A i \in Request :
       subscription[i].status = "ACTIVE" /\ subscription'[i].status # "ACTIVE" =>
         \/ \E c \in Click : click[c] = [pc |-> "cancel", row |-> i]
         \/ \E r \in Request : call[r].pc = "commit" /\ call[r].foundSubscription = i]_vars

(* Retries, restarts and expired locks alone never reopen a saga that says *)
(* COMPENSATED: that is left only if two activations were at work on the   *)
(* saga at the same time, of the two results, of the request's catch block *)
(* and a result, or of one result whose lock had expired.                  *)
OnlyOverlapReopens ==
  [][\A s \in Request :
       saga[s].status = "COMPENSATED" /\ saga'[s].status # "COMPENSATED"
       => s \in overlapped]_vars

(* Concurrent requests for a subscription that does not exist yet: while   *)
(* it waits for its first confirmation, no other request gets the row.     *)
FirstRequestKeepsItsRow ==
  [][\A i \in Request :
       /\ subscription[i].status = "PENDING"
       /\ subscription[i].token = i
       /\ subscription'[i].status = "PENDING"
       => subscription'[i].token = i]_vars

(* What SubscriptionPromise calls the outcome of a request.                *)
Outcome(s) ==
  CASE saga[s].status = "ABSENT" -> "none"
    [] saga[s].status = "COMPLETED" -> "completed"
    [] saga[s].status = "COMPENSATED" -> "compensated"
    [] OTHER -> "open"

Promise == INSTANCE SubscriptionPromise WITH
  status  <- [i \in Request |-> subscription[i].status],
  token   <- [i \in Request |-> subscription[i].token],
  row     <- [s \in Request |-> saga[s].subscriptionId],
  outcome <- [s \in Request |-> Outcome(s)],
  mailed  <- {s \in Request : <<"confirm", s>> \in links}

(* The Main API keeps SubscriptionPromise: among others, nobody becomes    *)
(* ACTIVE or UNSUBSCRIBED who was not mailed a confirmation of that row,   *)
(* whatever links, requests and compensations interleave.  This is         *)
(* Promise!Spec: a step that leaves these three alone is a stutter of it.  *)
ImplementsPromise ==
  /\ Promise!Init
  /\ [][UNCHANGED <<subscription, saga, links>> \/ Promise!Next]_Promise!vars

(* A failure report always ends with nothing left PENDING that waits for   *)
(* the mail, unless a sent report follows or precedes it or the report's   *)
(* job uses up its attempts or its stalls.                                 *)
FailureReportSettles ==
  \A s \in Request :
    result[s]["failed"].state # "none" ~>
      \/ Undone(s)
      \/ result[s]["sent"].state # "none"
      \/ result[s]["failed"].state = "failed"

-----------------------------------------------------------------------------
(* What the repository says of the program and the code does not do.       *)

(* Subscriptions go PENDING, ACTIVE, UNSUBSCRIBED and back by a new        *)
(* subscription (README.md, "Subscription State Machine"): following the   *)
(* confirmation link of an UNSUBSCRIBED row activates nothing.             *)
UnsubscribedNeedsNewRequest ==
  [][\A i \in Request : subscription[i].status = "UNSUBSCRIBED"
                         => subscription'[i].status # "ACTIVE"]_vars

(* The sent event is ignored for a compensated saga (the test of the       *)
(* result handler): COMPENSATED is final.                                  *)
CompensatedIsFinal ==
  [][\A s \in Request : saga[s].status = "COMPENSATED"
                         => saga'[s].status = "COMPENSATED"]_vars

(* Concurrent duplicate requests are handled (README.md, "Race Condition   *)
(* Protection"): no request takes over a subscription that is already      *)
(* waiting for the confirmation of another.                                *)
NoDuplicateAcceptance ==
  [][\A i \in Request : /\ subscription[i].status = "PENDING"
                         /\ subscription'[i].status = "PENDING"
                         => subscription'[i].token = subscription[i].token]_vars

(* After its saga completed a subscription stays PENDING until its         *)
(* confirmation link is used (docs/system-design.md); no failure of this   *)
(* confirmation was reported.                                              *)
CompletedStaysPending ==
  [][\A s, i \in Request : /\ saga[s].status = "COMPLETED"
                            /\ result[s]["failed"].state = "none"
                            /\ subscription[i].token = s
                            /\ subscription[i].status = "PENDING"
                            => subscription'[i].status \in {"PENDING", "ACTIVE"}]_vars
=============================================================================
