-------------------------- MODULE BullJobTheorems --------------------------
(***************************************************************************)
(* What the operations of a queue make of a job, for every limit of        *)
(* attempts and stalls.                                                    *)
(***************************************************************************)
EXTENDS BullJob, TLAPS

(* A job that is not finished has an attempt left.                         *)
SoundJob(job) == /\ job \in Job
                 /\ ~Finished(job) => job.attempts < MaxAttempts

LEMMA NoJobSound == SoundJob(NoJob)
  BY BullJobAssumption DEF BullJobAssumption, SoundJob, Job, JobState, NoJob, Finished

LEMMA AddedSound ==
  ASSUME NEW job, SoundJob(job)
  PROVE  SoundJob(Added(job)) /\ Added(job).state # "none"
  BY DEF SoundJob, Job, JobState, Added, Finished

LEMMA TakenSound ==
  ASSUME NEW job, SoundJob(job), job.state = "wait"
  PROVE  SoundJob(Taken(job)) /\ Taken(job).state = "active"
  BY DEF SoundJob, Job, JobState, Taken, Finished

LEMMA SucceededSound ==
  ASSUME NEW job, SoundJob(job)
  PROVE  SoundJob(Succeeded(job)) /\ Succeeded(job).state = "completed"
  BY DEF SoundJob, Job, JobState, Succeeded, Finished

(* The attempt that fails is the last, or one more is left.                *)
LEMMA FailedSound ==
  ASSUME NEW job, SoundJob(job), job.state = "active"
  PROVE  SoundJob(Failed(job)) /\ Failed(job).state \in {"wait", "failed"}
<1>1. /\ job \in Job
      /\ job.attempts \in Nat
      /\ job.attempts < MaxAttempts
  BY BullJobAssumption DEF BullJobAssumption, SoundJob, Finished, Job
<1>2. CASE IsFinal(job.attempts)
  <2>1. Failed(job) = [state |-> "failed", attempts |-> job.attempts + 1, stalls |-> job.stalls]
    BY <1>1, <1>2, BullJobAssumption DEF BullJobAssumption, Failed, IsFinal, Job
  <2>2. job.attempts + 1 \in 0..MaxAttempts /\ job.stalls \in 0..MaxStalls
    BY <1>1, BullJobAssumption DEF BullJobAssumption, Job
  <2>3. QED
    BY <2>1, <2>2 DEF SoundJob, Finished, Job, JobState
<1>3. CASE ~IsFinal(job.attempts)
  <2>1. Failed(job) = [state |-> "wait", attempts |-> job.attempts + 1, stalls |-> job.stalls]
    BY <1>1, <1>3, BullJobAssumption DEF BullJobAssumption, Failed, IsFinal, Job
  <2>2. /\ job.attempts + 1 \in 0..MaxAttempts
        /\ job.attempts + 1 < MaxAttempts
        /\ job.stalls \in 0..MaxStalls
    BY <1>1, <1>3, BullJobAssumption DEF BullJobAssumption, Job, IsFinal
  <2>3. QED
    BY <2>1, <2>2 DEF SoundJob, Finished, Job, JobState
<1>4. QED
  BY <1>2, <1>3

LEMMA StalledSound ==
  ASSUME NEW job, SoundJob(job), job.state \in {"wait", "active"}
  PROVE  SoundJob(Stalled(job)) /\ Stalled(job).state \in {"wait", "failed"}
<1>1. /\ job \in Job
      /\ job.stalls \in Nat
      /\ job.attempts < MaxAttempts
  BY BullJobAssumption DEF BullJobAssumption, SoundJob, Finished, Job
<1>2. CASE job.stalls < MaxStalls
  <2>1. Stalled(job) = [state |-> "wait", attempts |-> job.attempts, stalls |-> job.stalls + 1]
    BY <1>1, <1>2 DEF Stalled, Job
  <2>2. job.attempts \in 0..MaxAttempts /\ job.stalls + 1 \in 0..MaxStalls
    BY <1>1, <1>2, BullJobAssumption DEF BullJobAssumption, Job
  <2>3. QED
    BY <1>1, <2>1, <2>2 DEF SoundJob, Finished, Job, JobState
<1>3. CASE ~(job.stalls < MaxStalls)
  BY <1>1, <1>3, BullJobAssumption
  DEF BullJobAssumption, SoundJob, Finished, Job, JobState, Stalled
<1>4. QED
  BY <1>2, <1>3

(* What a failure uses up: an attempt, and the last one ends the job.      *)
LEMMA FailedCounts ==
  ASSUME NEW j, SoundJob(j), j.state = "active"
  PROVE  /\ Failed(j).attempts = j.attempts + 1
         /\ Failed(j).state \in {"wait", "failed"}
         /\ Failed(j).state = "failed" => j.attempts + 1 = MaxAttempts
         /\ Failed(j).stalls = j.stalls
<1>1. /\ j \in Job /\ j.attempts \in Nat /\ j.attempts < MaxAttempts
  BY BullJobAssumption DEF BullJobAssumption, SoundJob, Finished, Job
<1>2. CASE IsFinal(j.attempts)
  BY <1>1, <1>2, BullJobAssumption DEF BullJobAssumption, Failed, IsFinal, Job
<1>3. CASE ~IsFinal(j.attempts)
  BY <1>1, <1>3, BullJobAssumption DEF BullJobAssumption, Failed, IsFinal, Job
<1> QED
  BY <1>2, <1>3

LEMMA StalledCounts ==
  ASSUME NEW j \in Job
  PROVE  Stalled(j).attempts = j.attempts /\ Stalled(j).state # "none"
                                          /\ Stalled(j).state # "completed"
BY DEF Stalled, Job

(* A stall that does not count has ended the job.                          *)
LEMMA StalledShows ==
  ASSUME NEW j \in Job
  PROVE  Stalled(j).stalls # 0 \/ Stalled(j).state = "failed"
BY BullJobAssumption DEF BullJobAssumption, Stalled, Job
=============================================================================
