----------------------------- MODULE EmailWorker -----------------------------
(***************************************************************************)
(* The Notification Service's EmailWorker: processJob on the jobs of       *)
(* email-queue, the mail provider it calls, the progress checkpoint it     *)
(* keeps in a confirm-subscription job, the result events it publishes,    *)
(* and how the process stops and starts again.                             *)
(*                                                                         *)
(* The Main API adds one confirm-subscription job per saga and, by its job *)
(* id, one new-release job per subscription and tag: a job is named by its *)
(* saga or by that id.  A new-release job has no checkpoint and reports    *)
(* nothing.                                                                *)
(*                                                                         *)
(* A slot is one of the worker's concurrent activations (concurrency: 5).  *)
(* A slot whose lock on the job expired keeps running: its mail and its    *)
(* events still go out, while another slot may already run the same job.   *)
(*                                                                         *)
(* Definitions marked "Fault" are wrong variants of the one below them,    *)
(* used to see that the properties reject them.                            *)
(***************************************************************************)
EXTENDS BullJob

CONSTANTS Saga,           \* the sagas whose confirmation is requested
          Release,        \* the ids of new-release jobs: subscription and tag
          Slot,           \* the worker's activation slots
          Nobody,         \* not a saga and not a slot
          MaxCrashes,     \* bound: crashes of the Notification Service
          MaxLockLosses,  \* bound: locks that expire under a running slot
          MaxStops        \* bound: graceful stops of the Notification Service

ASSUME EmailWorkerAssumption == /\ Nobody \notin Saga \cup Release \cup Slot
                                /\ Saga \cap Release = {}
                                /\ MaxCrashes \in Nat
                                /\ MaxLockLosses \in Nat
                                /\ MaxStops \in Nat

Mail == Saga \cup Release

Report == {"sent", "failed"}

VARIABLES
  job,         \* Mail -> its BullMQ job
  lock,        \* Mail -> the slot that holds the job's lock, or Nobody
  progress,    \* the sagas whose job.progress is "email-sent"
  slot,        \* Slot -> what it is doing (pc), for which job, and the
               \*   attemptsMade it read when it took the job
  delivered,   \* the mails that the provider accepted
  acked,       \* history: the new-release mails whose acceptance was seen
  reported,    \* Saga -> the result events published of it
  closing,     \* a signal has come: the worker takes no job any more
  crashes, lockLosses, stops

vars == <<job, lock, progress, slot, delivered, acked, reported, closing,
          crashes, lockLosses, stops>>

faults == <<crashes, lockLosses>>

SlotPc == {"idle", "handle", "updateProgress", "publishSent", "publishFailed",
           "rethrow", "return"}

IdleSlot == [pc |-> "idle", id |-> Nobody, attemptsMade |-> 0]

TypeOK ==
  /\ job \in [Mail -> Job]
  /\ lock \in [Mail -> Slot \cup {Nobody}]
  /\ progress \subseteq Saga
  /\ slot \in [Slot -> [pc: SlotPc, id: Mail \cup {Nobody}, attemptsMade: 0..MaxAttempts]]
  /\ delivered \subseteq Mail
  /\ acked \subseteq Release
  /\ reported \in [Saga -> SUBSET Report]
  /\ closing \in BOOLEAN
  /\ crashes \in 0..MaxCrashes
  /\ lockLosses \in 0..MaxLockLosses
  /\ stops \in 0..MaxStops

Init ==
  /\ job = [m \in Mail |-> NoJob]
  /\ lock = [m \in Mail |-> Nobody]
  /\ progress = {}
  /\ slot = [w \in Slot |-> IdleSlot]
  /\ delivered = {}
  /\ acked = {}
  /\ reported = [s \in Saga |-> {}]
  /\ closing = FALSE
  /\ crashes = 0
  /\ lockLosses = 0
  /\ stops = 0

Goto(w, pc) == slot' = [slot EXCEPT ![w].pc = pc]

-----------------------------------------------------------------------------
(* EmailQueueAdapter.addEmail: the job gets an id of its own.              *)
AddEmail(s) ==
  /\ job[s].state = "none"
  /\ job' = [job EXCEPT ![s] = Added(@)]
  /\ UNCHANGED <<lock, progress, slot, delivered, acked, reported, closing, faults, stops>>

(* Fault: the job is added without createNewReleaseJobId.                  *)
AddReleaseAnew(m) ==
  /\ job[m].state \notin {"wait", "active"}
  /\ job' = [job EXCEPT ![m] = Added(NoJob)]
  /\ UNCHANGED <<lock, progress, slot, delivered, acked, reported, closing, faults, stops>>

(* addBulkEmails adds a release's job again whenever its event is handled  *)
(* again; a job whose id exists stays what it is.                          *)
AddRelease(m) ==
  /\ job' = [job EXCEPT ![m] = Added(@)]
  /\ UNCHANGED <<lock, progress, slot, delivered, acked, reported, closing, faults, stops>>

Taking(w, m, pc) ==
  /\ ~closing
  /\ slot[w].pc = "idle"
  /\ job[m].state = "wait"
  /\ job' = [job EXCEPT ![m] = Taken(@)]
  /\ lock' = [lock EXCEPT ![m] = w]
  /\ slot' = [slot EXCEPT ![w] = [pc |-> pc, id |-> m, attemptsMade |-> job[m].attempts]]
  /\ UNCHANGED <<progress, delivered, acked, reported, closing, faults, stops>>

(* Fault: the checkpoint is saved but never read.                          *)
TakeIgnoresProgress(w, m) == Taking(w, m, "handle")

(* processJob begins: a job whose checkpoint is set skips the mail.        *)
Take(w, m) == Taking(w, m, IF m \in progress THEN "publishSent" ELSE "handle")

(* emailJobHandler.handle resolves: the mail provider took the message.    *)
(* That is all there is to a new-release job.                              *)
HandleSucceeds(w) ==
  /\ slot[w].pc = "handle"
  /\ delivered' = delivered \cup {slot[w].id}
  /\ acked' = acked \cup ({slot[w].id} \cap Release)
  /\ Goto(w, IF slot[w].id \in Release THEN "return" ELSE "updateProgress")
  /\ UNCHANGED <<job, lock, progress, reported, closing, faults, stops>>

(* Fault: an SMTP error is logged and swallowed.                           *)
HandleFailsSwallowed(w) ==
  /\ slot[w].pc = "handle"
  /\ Goto(w, IF slot[w].id \in Release THEN "return" ELSE "updateProgress")
  /\ UNCHANGED <<job, lock, progress, delivered, acked, reported, closing, faults, stops>>

(* Fault: isFinalAttempt is not asked.                                     *)
HandleFailsAlwaysReports(w) ==
  /\ slot[w].pc = "handle"
  /\ Goto(w, IF slot[w].id \in Saga THEN "publishFailed" ELSE "rethrow")
  /\ UNCHANGED <<job, lock, progress, delivered, acked, reported, closing, faults, stops>>

(* Fault: the last attempt reports nothing, either.                        *)
HandleFailsNeverReports(w) ==
  /\ slot[w].pc = "handle"
  /\ delivered' \in {delivered, delivered \cup {slot[w].id}}
  /\ Goto(w, "rethrow")
  /\ UNCHANGED <<job, lock, progress, acked, reported, closing, faults, stops>>

(* It throws.  A message whose acknowledgement was lost may be delivered   *)
(* all the same.  For a confirmation the catch block runs, with emailSent  *)
(* = false.                                                                *)
HandleFails(w) ==
  /\ slot[w].pc = "handle"
  /\ delivered' \in {delivered, delivered \cup {slot[w].id}}
  /\ Goto(w, IF slot[w].id \in Saga /\ IsFinal(slot[w].attemptsMade)
             THEN "publishFailed" ELSE "rethrow")
  /\ UNCHANGED <<job, lock, progress, acked, reported, closing, faults, stops>>

(* job.updateProgress needs no lock.  When it throws, before or after it   *)
(* took effect, emailSent is true: the catch block reports nothing.        *)
UpdateProgress(w) ==
  /\ slot[w].pc = "updateProgress"
  /\ progress' \in {progress, progress \cup {slot[w].id}}
  /\ \/ slot[w].id \in progress' /\ Goto(w, "publishSent")
     \/ Goto(w, "rethrow")
  /\ UNCHANGED <<job, lock, delivered, acked, reported, closing, faults, stops>>

(* queue.add under the job id of the result; it may throw before or after  *)
(* it took effect.                                                         *)
Publishes(w, r, thrown) ==
  /\ reported' \in {reported, [reported EXCEPT ![slot[w].id] = @ \cup {r}]}
  /\ \/ r \in reported'[slot[w].id] /\ Goto(w, "return")
     \/ Goto(w, thrown)
  /\ UNCHANGED <<job, lock, progress, delivered, acked, closing, faults, stops>>

(* Fault: the catch block does not ask whether the mail went out.          *)
PublishSentForgetsEmailSent(w) ==
  /\ slot[w].pc = "publishSent"
  /\ Publishes(w, "sent", IF IsFinal(slot[w].attemptsMade) THEN "publishFailed" ELSE "rethrow")

(* emailSent is true: the catch block reports nothing.                     *)
PublishSent(w) == slot[w].pc = "publishSent" /\ Publishes(w, "sent", "rethrow")

(* The attempt fails whether or not its failure could be published.        *)
PublishFailed(w) ==
  /\ slot[w].pc = "publishFailed"
  /\ reported' \in {reported, [reported EXCEPT ![slot[w].id] = @ \cup {"failed"}]}
  /\ Goto(w, "rethrow")
  /\ UNCHANGED <<job, lock, progress, delivered, acked, closing, faults, stops>>

(* processJob is over.  Only the holder of the lock moves the job; the     *)
(* result of a slot that lost it is refused.                               *)
Finish(w, moved) ==
  LET m == slot[w].id IN
  /\ IF lock[m] = w
     THEN /\ job' = [job EXCEPT ![m] = moved]
          /\ lock' = [lock EXCEPT ![m] = Nobody]
     ELSE UNCHANGED <<job, lock>>
  /\ slot' = [slot EXCEPT ![w] = IdleSlot]
  /\ UNCHANGED <<progress, delivered, acked, reported, closing, faults, stops>>

Return(w) == slot[w].pc = "return" /\ Finish(w, Succeeded(job[slot[w].id]))

Rethrow(w) == slot[w].pc = "rethrow" /\ Finish(w, Failed(job[slot[w].id]))

(* The lock expires under a running slot (a stalled event loop, a lost     *)
(* connection to Redis) and BullMQ hands the job out again.                *)
LoseLock(m) ==
  /\ lockLosses < MaxLockLosses
  /\ job[m].state = "active"
  /\ job' = [job EXCEPT ![m] = Stalled(@)]
  /\ lock' = [lock EXCEPT ![m] = Nobody]
  /\ lockLosses' = lockLosses + 1
  /\ UNCHANGED <<progress, slot, delivered, acked, reported, closing, crashes, stops>>

-----------------------------------------------------------------------------
(* The process.                                                            *)

(* Fault: nobody recovers the jobs of a dead worker.                       *)
CrashLosesJobs ==
  /\ crashes < MaxCrashes
  /\ \E w \in Slot : slot[w].pc # "idle"
  /\ slot' = [w \in Slot |-> IdleSlot]
  /\ closing' = FALSE
  /\ crashes' = crashes + 1
  /\ UNCHANGED <<job, lock, progress, delivered, acked, reported, lockLosses, stops>>

(* The process ends, and is started again by its supervisor.  The jobs it  *)
(* was running stall.                                                      *)
Restarted ==
  /\ job' = [m \in Mail |-> IF job[m].state = "active" THEN Stalled(job[m]) ELSE job[m]]
  /\ lock' = [m \in Mail |-> Nobody]
  /\ slot' = [w \in Slot |-> IdleSlot]
  /\ closing' = FALSE
  /\ UNCHANGED <<progress, delivered, acked, reported, lockLosses>>

(* It dies, or is killed before it has stopped.                            *)
Crash ==
  /\ crashes < MaxCrashes
  /\ \E w \in Slot : slot[w].pc # "idle"
  /\ Restarted
  /\ crashes' = crashes + 1
  /\ UNCHANGED stops

(* SIGTERM or SIGINT: emailWorker.close() begins.                          *)
Shutdown ==
  /\ stops < MaxStops
  /\ ~closing
  /\ closing' = TRUE
  /\ stops' = stops + 1
  /\ UNCHANGED <<job, lock, progress, slot, delivered, acked, reported, faults>>

(* Fault: the process exits without awaiting close().                      *)
ExitAtOnce == closing /\ Restarted /\ UNCHANGED <<crashes, stops>>

(* close() resolves once every activation has ended; exit code 0.          *)
Exit ==
  /\ closing
  /\ \A w \in Slot : slot[w].pc = "idle"
  /\ Restarted
  /\ UNCHANGED <<crashes, stops>>

Step(w) == \/ HandleSucceeds(w) \/ HandleFails(w)
           \/ UpdateProgress(w)
           \/ PublishSent(w) \/ PublishFailed(w)
           \/ Return(w) \/ Rethrow(w)

Next == \/ \E s \in Saga : AddEmail(s)
        \/ \E m \in Release : AddRelease(m)
        \/ \E m \in Mail : LoseLock(m)
        \/ \E w \in Slot : Step(w) \/ \E m \in Mail : Take(w, m)
        \/ Crash \/ Shutdown \/ Exit

Spec == Init /\ [][Next]_vars

(* A running worker polls its queue and a running activation goes on; each *)
(* call it awaits ends.  A process that was stopped is started again.      *)
(* Nothing forces the Main API to add a job, a mail to be accepted or the  *)
(* process to crash.                                                       *)
FairSpec == /\ Spec
            /\ \A w \in Slot : WF_vars(Step(w))
            /\ WF_vars(\E w \in Slot, m \in Mail : Take(w, m))
            /\ WF_vars(Exit)

-----------------------------------------------------------------------------
(* What this worker implements.                                            *)
Outcome(s) == CASE job[s].state \in {"wait", "active"} -> "queued"
                [] job[s].state = "failed" -> "abandoned"
                [] OTHER -> job[s].state

Delivery == INSTANCE ConfirmationDelivery
              WITH outcome <- [s \in Saga |-> Outcome(s)],
                   delivered <- delivered \cap Saga

(* The worker keeps the delivery promise: whatever crashes, expires or     *)
(* fails between SMTP, the checkpoint and the result queue,                *)
(* confirmation-email-sent tells of a message that was accepted and a job  *)
(* completes only after publishing it.                                     *)
ImplementsDelivery == Delivery!Spec

(* Once the email-sent checkpoint is saved, no attempt sends the mail      *)
(* again, across retries and restarts, as long as no lock was lost under a *)
(* running activation (processJob reads job.progress at its start).        *)
NoResendAfterCheckpoint ==
  [][\A w \in Slot :
       /\ lockLosses = 0
       /\ slot[w].pc = "handle"
       /\ slot[w].id \in progress
       => slot'[w].pc # "updateProgress"]_vars

(* The catch block reports a failure only on the attempt BullMQ will not   *)
(* retry: a temporary SMTP error never starts a compensation.              *)
FailureReportedLast ==
  \A s \in Saga : "failed" \in reported[s] => job[s].attempts >= MaxAttempts - 1

(* The two results are ordered: after confirmation-email-sent was          *)
(* published, confirmation-email-failed follows only if a lock was lost    *)
(* (the other order needs just a crash between publishing and failing).    *)
NoFailureAfterSent ==
  [][\A s \in Saga :
       /\ lockLosses = 0
       /\ "sent" \in reported[s]
       /\ "failed" \notin reported[s]
       => "failed" \notin reported'[s]]_vars

(* A new-release mail has no checkpoint: what keeps a user from getting it *)
(* twice is that its job completes at once and is never added anew, however*)
(* often its event is handled.  While no process dies and no lock expires, *)
(* a mail whose acceptance was seen is not sent again.                     *)
ReleaseMailedOnce ==
  crashes = 0 /\ lockLosses = 0 =>
    \A w \in Slot : slot[w].pc = "handle" => slot[w].id \notin acked

(* A new-release job completes only when its mail was accepted.            *)
CompletedReleaseWasMailed ==
  \A m \in Release : job[m].state = "completed" => m \in delivered

(* A graceful stop costs no job anything: without a crash or an expired    *)
(* lock nothing stalls, and what is given up has had all its attempts.     *)
StopIsHarmless ==
  crashes = 0 /\ lockLosses = 0 =>
    \A m \in Mail : /\ job[m].stalls = 0
                    /\ job[m].state = "failed" => job[m].attempts = MaxAttempts

(* Every requested mail ends: its job completes or is given up, so         *)
(* retries, stalls, expired locks and stops never leave it in the queue    *)
(* for ever.                                                               *)
JobSettles ==
  \A m \in Mail : job[m].state = "wait" ~> Finished(job[m])
=============================================================================
