-------------------------- MODULE SubscriptionFlow --------------------------
(***************************************************************************)
(* A subscription from the request to its end, over both services: the     *)
(* Main API as SubscriptionSaga models it and the Notification Service's   *)
(* worker as EmailWorker does, in the place of what ConfirmationDelivery   *)
(* promises of it.  They share email-queue and notification-result-queue:  *)
(* what one service adds is the other's job.                               *)
(***************************************************************************)
EXTENDS SubscriptionSaga

CONSTANTS Slot, MaxCrashes, MaxLockLosses, MaxStops   \* as in EmailWorker

ASSUME FlowAssumption == /\ None \notin Slot
                         /\ MaxCrashes \in Nat
                         /\ MaxLockLosses \in Nat
                         /\ MaxStops \in Nat

VARIABLES
  job, lock, progress, slot, delivered, acked, reported, closing,
  crashes, lockLosses, stops,  \* as in EmailWorker
  unpublished, \* history: the sagas of which an activation had a result to
               \*   report and reported none
  cutShort     \* history: the sagas of which work that nobody does again was
               \*   cut short

Worker == INSTANCE EmailWorker WITH Saga <- Request, Release <- {}, Nobody <- None

workerVars == <<job, lock, progress, slot, delivered, acked, reported, closing,
                crashes, lockLosses, stops>>

flowVars == <<vars, workerVars, unpublished, cutShort>>

(* What the services share.                                                *)
Shared ==
  /\ queued = {s \in Request : job[s].state # "none"}
  /\ delivered = {s \in Request : <<"confirm", s>> \in links}
  /\ \A s \in Request : reported[s] = {k \in Report : result[s][k].state # "none"}

FlowTypeOK == /\ TypeOK
              /\ Worker!TypeOK
              /\ unpublished \subseteq Request
              /\ cutShort \subseteq Request

FlowInit == Init /\ Worker!Init /\ unpublished = {} /\ cutShort = {}

(* The activation w ends, or fails, where it had a result to report of s:  *)
(* the mail was accepted, or its last attempt failed.                      *)
GivesUpReporting(w, s) ==
  /\ slot[w].id = s
  /\ slot[w].pc \in {"updateProgress", "publishSent", "publishFailed"}
  /\ slot'[w].pc \in {"rethrow", "idle"}
  /\ reported'[s] = reported[s]

(* A request ends between its commit and its answer without compensation,  *)
(* or a compensation that no job repeats ends before it is done: that of   *)
(* the request's catch block, or that of a handler without its lock.       *)
CutsShort(s) ==
  \/ /\ call[s].pc \in {"markEmailSendRequested", "addEmail"}
     /\ call'[s].pc = "failed"
     /\ task'[s][Start] = "idle"
  \/ \E a \in Activation : /\ task[s][a] \notin {"idle", "return"}
                           /\ task'[s][a] = "idle"
                           /\ ~HasLock(s, a)

(* Each service takes steps of its own; the Main API adds the mail's job,  *)
(* the worker mails the link and adds the result's job.                    *)
FlowNext ==
  /\ \/ Next /\ UNCHANGED workerVars
     \/ Worker!Next /\ UNCHANGED vars
     \/ \E r \in Request : /\ AddEmail(r) \/ AddEmailReplyLost(r)
                           /\ Worker!AddEmail(r)
     \/ \E w \in Slot : /\ Worker!Step(w)
                        /\ \/ Deliver(slot[w].id)
                           \/ ReportSent(slot[w].id)
                           \/ ReportFailed(slot[w].id)
  /\ Shared'
  /\ unpublished' = unpublished \cup
       {s \in Request : \E w \in Slot : GivesUpReporting(w, s)}
  /\ cutShort' = cutShort \cup {s \in Request : CutsShort(s)}

FlowSpec == FlowInit /\ [][FlowNext]_flowVars

-----------------------------------------------------------------------------
(* Nothing is left to do: no request, no handler and no job.               *)
AtRest ==
  /\ \A r \in Request : call[r].pc \in Answered \cup {"idle"}
  /\ \A s \in Request, a \in Activation : task[s][a] = "idle"
  /\ \A s \in Request : job[s].state \notin {"wait", "active"}
  /\ \A s \in Request, k \in Report : result[s][k].state \notin {"wait", "active"}

Stuck(s) == AtRest /\ saga[s].status \notin {"ABSENT", "COMPLETED", "COMPENSATED"}

(* A saga comes to COMPLETED or COMPENSATED.  It stays in between only in  *)
(* the windows that the code leaves open (ADR-006 names the first two):    *)
(* its request, or the compensation in its catch block, was cut short with *)
(* no mail requested; a result was not published, and no other; the mail's *)
(* job stalled too often; a result's job used up its attempts or stalls;   *)
(* a compensation that no job repeats was cut short when it had marked the *)
(* saga COMPENSATING: that of a catch block whose mail was queued all the  *)
(* same, or that of a handler that had lost its lock.                      *)
StuckOnlyInItsWindows ==
  \A s \in Request : Stuck(s) =>
    \/ s \in cutShort /\ s \notin queued
    \/ s \in unpublished /\ reported[s] = {}
    \/ job[s].state = "failed" /\ job[s].attempts < MaxAttempts
    \/ \E k \in Report : result[s][k].state = "failed"
    \/ s \in cutShort /\ saga[s].status = "COMPENSATING"

(* A temporary SMTP error does not start the compensation while retries    *)
(* are left (ADR-006): a saga whose mail was requested is compensated only *)
(* when the mail's job is at its last attempt.                             *)
CompensatedOnLastAttempt ==
  \A s \in Request :
    /\ saga[s].status \in {"COMPENSATING", "COMPENSATED"}
    /\ s \in queued
    /\ faults = 0
    => IsFinal(job[s].attempts)
=============================================================================
