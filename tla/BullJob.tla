------------------------------ MODULE BullJob ------------------------------
(***************************************************************************)
(* A job of a BullMQ queue, as the services of src/ use it: a record of    *)
(* its state, of the attempts it has used and of the times its worker was  *)
(* lost.  BullMQ is a library, so this module is external; what it fixes   *)
(* from src/ is that every job that matters here is added with attempts: 3 *)
(* and that job ids of results are deterministic.                          *)
(*                                                                         *)
(* Back-off delays are not modelled: a delayed job is one that waits.      *)
(* A definition marked "Fault" is not part of the model: it is a wrong     *)
(* variant of the definition below it, and the properties must reject it.  *)
(***************************************************************************)
EXTENDS Naturals

CONSTANTS MaxAttempts,  \* opts.attempts of the job
          MaxStalls     \* maxStalledCount of the worker (BullMQ's default is 1)

ASSUME BullJobAssumption == /\ MaxAttempts \in Nat \ {0}
                            /\ MaxStalls \in Nat

JobState == {"none", "wait", "active", "completed", "failed"}

Job == [state: JobState, attempts: 0..MaxAttempts, stalls: 0..MaxStalls]

NoJob == [state |-> "none", attempts |-> 0, stalls |-> 0]

(* queue.add: a job whose id exists, finished or not, is left as it is.    *)
Added(job) == IF job.state = "none" THEN [job EXCEPT !.state = "wait"] ELSE job

Taken(job) == [job EXCEPT !.state = "active"]

Succeeded(job) == [job EXCEPT !.state = "completed"]

(* The last attempt is the one that starts with MaxAttempts - 1 used.      *)
IsFinal(attemptsMade) == attemptsMade + 1 >= MaxAttempts

(* Fault: a job that throws is always retried.                             *)
FailedRetriesForEver(job) == [job EXCEPT !.state = "wait", !.attempts = @ + 1]

(* The processor threw: retried while attempts are left.                   *)
Failed(job) ==
  IF IsFinal(job.attempts)
  THEN [job EXCEPT !.state = "failed", !.attempts = @ + 1]
  ELSE [job EXCEPT !.state = "wait", !.attempts = @ + 1]

(* Fault: a job stalls as often as it likes.                               *)
StalledForEver(job) == [job EXCEPT !.state = "wait", !.stalls = @ + 1]

(* The lock expired with the job active: back to wait, which uses no       *)
(* attempt, or failed when it stalled once too often.                      *)
Stalled(job) ==
  IF job.stalls < MaxStalls
  THEN [job EXCEPT !.state = "wait", !.stalls = @ + 1]
  ELSE [job EXCEPT !.state = "failed"]

Finished(job) == job.state \in {"completed", "failed"}
=============================================================================
