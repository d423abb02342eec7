-------------------------- MODULE EmailWorkerProofs --------------------------
(***************************************************************************)
(* EmailWorker for any sagas, releases, slots, attempts, stalls and        *)
(* numbers of crashes, expired locks and stops.                            *)
(***************************************************************************)
EXTENDS EmailWorker, BullJobTheorems

SlotRecord == [pc: SlotPc, id: Mail \cup {Nobody}, attemptsMade: 0..MaxAttempts]

(* An activation runs one job; only a confirmation is checkpointed and     *)
(* reported.                                                               *)
SoundSlot(x) ==
  x.pc # "idle" =>
    /\ x.id \in Mail
    /\ x.pc \in {"updateProgress", "publishSent", "publishFailed"} => x.id \in Saga

JobsOK == /\ job \in [Mail -> Job]
          /\ \A m \in Mail : SoundJob(job[m])

SlotsOK == /\ slot \in [Slot -> SlotRecord]
           /\ \A w \in Slot : SoundSlot(slot[w])

(* A job is active exactly as long as an activation that runs it has its   *)
(* lock.                                                                   *)
LocksOK ==
  /\ lock \in [Mail -> Slot \cup {Nobody}]
  /\ \A m \in Mail : job[m].state = "active" <=> lock[m] # Nobody
  /\ \A m \in Mail : lock[m] # Nobody => /\ slot[lock[m]].pc # "idle"
                                         /\ slot[lock[m]].id = m

TablesOK ==
  /\ progress \subseteq Saga
  /\ delivered \subseteq Mail
  /\ acked \subseteq Release
  /\ reported \in [Saga -> SUBSET Report]
  /\ closing \in BOOLEAN
  /\ crashes \in 0..MaxCrashes
  /\ lockLosses \in 0..MaxLockLosses
  /\ stops \in 0..MaxStops

TypeInv == JobsOK /\ SlotsOK /\ LocksOK /\ TablesOK

LEMMA TypeInvImpliesTypeOK == TypeInv => TypeOK
BY DEF TypeInv, JobsOK, SlotsOK, LocksOK, TablesOK, TypeOK, SlotRecord

-----------------------------------------------------------------------------
(* What the steps do, said once for each kind of step.                     *)

(* An activation goes from one awaited call to the next.                   *)
Advance(w) == HandleSucceeds(w) \/ HandleFails(w) \/ UpdateProgress(w) \/ PublishSent(w)
              \/ PublishFailed(w)

LEMMA GotoMoves ==
  ASSUME slot \in [Slot -> SlotRecord], NEW w \in Slot, NEW pc \in SlotPc, Goto(w, pc)
  PROVE  /\ slot' \in [Slot -> SlotRecord]
         /\ slot'[w].pc = pc /\ slot'[w].id = slot[w].id
         /\ slot'[w].attemptsMade = slot[w].attemptsMade
         /\ \A v \in Slot \ {w} : slot'[v] = slot[v]
<1>1. slot[w] \in SlotRecord
  OBVIOUS
<1>2. [slot[w] EXCEPT !.pc = pc] \in SlotRecord
  BY <1>1 DEF SlotRecord
<1>3. slot' = [slot EXCEPT ![w] = [slot[w] EXCEPT !.pc = pc]]
  BY DEF Goto
<1>4. slot'[w] = [slot[w] EXCEPT !.pc = pc]
  BY <1>3
<1> QED
  BY <1>1, <1>2, <1>3, <1>4 DEF SlotRecord

LEMMA AdvanceMoves ==
  ASSUME TypeInv, NEW w \in Slot, Advance(w)
  PROVE  /\ slot' \in [Slot -> SlotRecord]
         /\ slot[w].pc \in {"handle", "updateProgress", "publishSent", "publishFailed"}
         /\ slot'[w].pc \in {"updateProgress", "publishSent", "publishFailed", "rethrow", "return"}
         /\ slot'[w].pc \in {"updateProgress", "publishSent", "publishFailed"}
              => slot[w].id \in Saga
         /\ slot[w].id \in Mail
         /\ slot'[w].id = slot[w].id
         /\ slot'[w].attemptsMade = slot[w].attemptsMade
         /\ \A v \in Slot \ {w} : slot'[v] = slot[v]
         /\ UNCHANGED <<job, lock, closing, faults, stops>>
<1>1. slot \in [Slot -> SlotRecord] /\ SoundSlot(slot[w])
  BY DEF TypeInv, SlotsOK
<1>2. PICK pc : /\ Goto(w, pc)
                /\ pc \in {"updateProgress", "publishSent", "publishFailed", "rethrow", "return"}
                /\ pc = "updateProgress" => slot[w].id \notin Release /\ slot[w].pc = "handle"
                /\ pc = "publishSent" => slot[w].pc = "updateProgress"
                /\ pc = "publishFailed" => slot[w].id \in Saga
  BY DEF Advance, HandleSucceeds, HandleFails, UpdateProgress, PublishSent, PublishFailed,
         Publishes
<1>3. slot[w].pc \in {"handle", "updateProgress", "publishSent", "publishFailed"}
      /\ UNCHANGED <<job, lock, closing, faults, stops>>
  BY DEF Advance, HandleSucceeds, HandleFails, UpdateProgress, PublishSent, PublishFailed,
         Publishes
<1>4. slot[w].id \in Mail /\ (slot[w].pc = "updateProgress" => slot[w].id \in Saga)
  BY <1>1, <1>3 DEF SoundSlot
<1>5. pc \in SlotPc
  BY <1>2 DEF SlotPc
<1>6. pc \in {"updateProgress", "publishSent", "publishFailed"} => slot[w].id \in Saga
  BY <1>2, <1>4 DEF Mail
<1> QED
  BY <1>1, <1>2, <1>3, <1>4, <1>5, <1>6, GotoMoves

(* An activation ends: the job moves if it still has the lock.             *)
Ends(w) == Return(w) \/ Rethrow(w)

LEMMA EndMoves ==
  ASSUME TypeInv, NEW w \in Slot, Ends(w)
  PROVE  /\ slot[w].id \in Mail
         /\ slot' = [slot EXCEPT ![w] = IdleSlot]
         /\ UNCHANGED <<progress, delivered, acked, reported, closing, faults, stops>>
         /\ \/ /\ lock[slot[w].id] # w
               /\ UNCHANGED <<job, lock>>
            \/ /\ lock[slot[w].id] = w
               /\ job[slot[w].id].state = "active"
               /\ lock' = [lock EXCEPT ![slot[w].id] = Nobody]
               /\ \/ /\ slot[w].pc = "return"
                     /\ job' = [job EXCEPT ![slot[w].id] = Succeeded(job[slot[w].id])]
                  \/ /\ slot[w].pc = "rethrow"
                     /\ job' = [job EXCEPT ![slot[w].id] = Failed(job[slot[w].id])]
<1>1. slot[w].pc \in {"return", "rethrow"}
  BY DEF Ends, Return, Rethrow
<1>2. slot[w].id \in Mail
  BY <1>1 DEF TypeInv, SlotsOK, SoundSlot
<1>3. lock[slot[w].id] = w => job[slot[w].id].state = "active"
  BY <1>2, EmailWorkerAssumption DEF TypeInv, LocksOK, EmailWorkerAssumption
<1> QED
  BY <1>2, <1>3 DEF Ends, Return, Rethrow, Finish

(* The process has ended and is started again.                             *)
LEMMA RestartMoves ==
  ASSUME TypeInv, Restarted
  PROVE  /\ \A m \in Mail : job'[m] = IF job[m].state = "active" THEN Stalled(job[m]) ELSE job[m]
         /\ \A m \in Mail : lock'[m] = Nobody
         /\ \A w \in Slot : slot'[w] = IdleSlot
         /\ slot' \in [Slot -> SlotRecord]
         /\ lock' \in [Mail -> Slot \cup {Nobody}]
         /\ UNCHANGED <<progress, delivered, acked, reported, lockLosses>>
<1>1. IdleSlot \in SlotRecord
  BY BullJobAssumption DEF IdleSlot, SlotRecord, SlotPc, BullJobAssumption
<1> QED
  BY <1>1 DEF Restarted

(* Every step is one of these.                                             *)
LEMMA Steps ==
  ASSUME [Next]_vars
  PROVE  \/ \E s \in Saga : AddEmail(s)
         \/ \E m \in Release : AddRelease(m)
         \/ \E w \in Slot, m \in Mail : Take(w, m)
         \/ \E w \in Slot : Advance(w)
         \/ \E w \in Slot : Ends(w)
         \/ \E m \in Mail : LoseLock(m)
         \/ Crash
         \/ Shutdown
         \/ Exit
         \/ UNCHANGED vars
BY DEF Next, Step, Advance, Ends

-----------------------------------------------------------------------------
(* The type invariant.                                                     *)

LEMMA TypeInit == Init => TypeInv
<1> SUFFICES ASSUME Init PROVE TypeInv
  OBVIOUS
<1>1. JobsOK
  <2>1. SoundJob(NoJob) /\ NoJob \in Job
    BY NoJobSound DEF SoundJob
  <2> QED
    BY <2>1 DEF Init, JobsOK
<1>2. SlotsOK
  BY BullJobAssumption DEF BullJobAssumption, Init, SlotsOK, SlotRecord, SlotPc, SoundSlot, IdleSlot
<1>3. LocksOK
  BY DEF Init, LocksOK, NoJob
<1>4. TablesOK
  <2>1. 0 \in 0..MaxCrashes /\ 0 \in 0..MaxLockLosses /\ 0 \in 0..MaxStops
    BY EmailWorkerAssumption DEF EmailWorkerAssumption
  <2> QED
    BY <2>1 DEF Init, TablesOK
<1> QED
  BY <1>1, <1>2, <1>3, <1>4 DEF TypeInv

(* One job moves, and no lock with it.                                     *)
LEMMA AddStep ==
  ASSUME TypeInv, NEW m \in Mail, job' = [job EXCEPT ![m] = Added(@)],
         UNCHANGED <<lock, progress, slot, delivered, acked, reported, closing, faults, stops>>
  PROVE  TypeInv'
<1>1. JobsOK /\ LocksOK /\ SoundJob(job[m])
  BY DEF TypeInv, JobsOK
<1>2. SoundJob(Added(job[m]))
  BY <1>1, AddedSound
<1>3. JobsOK'
  BY <1>1, <1>2 DEF JobsOK, SoundJob
<1>4. Added(job[m]).state = "active" <=> job[m].state = "active"
  <2>1. job[m] \in Job
    BY <1>1 DEF SoundJob
  <2>2. CASE job[m].state = "none"
    BY <2>1, <2>2 DEF Added, Job
  <2>3. CASE job[m].state # "none"
    BY <2>3 DEF Added
  <2> QED
    BY <2>2, <2>3
<1>5. LocksOK'
  BY <1>1, <1>4 DEF LocksOK, JobsOK
<1>6. SlotsOK' /\ TablesOK'
  BY DEF TypeInv, SlotsOK, TablesOK, faults
<1> QED
  BY <1>3, <1>5, <1>6 DEF TypeInv

LEMMA TakeStep ==
  ASSUME TypeInv, NEW w \in Slot, NEW m \in Mail, Take(w, m)
  PROVE  TypeInv'
<1> DEFINE pc == IF m \in progress THEN "publishSent" ELSE "handle"
           x == [pc |-> pc, id |-> m, attemptsMade |-> job[m].attempts]
<1>1. /\ slot[w].pc = "idle" /\ job[m].state = "wait"
      /\ job' = [job EXCEPT ![m] = Taken(job[m])]
      /\ lock' = [lock EXCEPT ![m] = w]
      /\ slot' = [slot EXCEPT ![w] = x]
      /\ UNCHANGED <<progress, delivered, acked, reported, closing, faults, stops>>
  BY DEF Take, Taking
<1>2. JobsOK /\ SlotsOK /\ LocksOK /\ TablesOK /\ SoundJob(job[m])
  BY DEF TypeInv, JobsOK
<1>3. SoundJob(Taken(job[m])) /\ Taken(job[m]).state = "active"
  BY <1>1, <1>2, TakenSound
<1>4. JobsOK'
  BY <1>1, <1>2, <1>3 DEF JobsOK, SoundJob
<1>5. x \in SlotRecord /\ SoundSlot(x)
  BY <1>2 DEF SlotRecord, SlotPc, SoundSlot, SoundJob, Job, TablesOK
<1>6. x.pc # "idle" /\ x.id = m
  OBVIOUS
<1> HIDE DEF x
<1>7. SlotsOK'
  BY <1>1, <1>2, <1>5 DEF SlotsOK
<1>8. LocksOK'
  <2>1. lock' \in [Mail -> Slot \cup {Nobody}]
    BY <1>1, <1>2 DEF LocksOK
  <2>2. ASSUME NEW n \in Mail
        PROVE  job'[n].state = "active" <=> lock'[n] # Nobody
    BY <1>1, <1>2, <1>3, EmailWorkerAssumption DEF LocksOK, JobsOK, EmailWorkerAssumption
  <2>3. ASSUME NEW n \in Mail, lock'[n] # Nobody
        PROVE  slot'[lock'[n]].pc # "idle" /\ slot'[lock'[n]].id = n
    <3>1. CASE n = m
      BY <3>1, <1>1, <1>2, <1>6 DEF LocksOK, SlotsOK
    <3>2. CASE n # m
      BY <3>2, <2>3, <1>1, <1>2 DEF LocksOK, SlotsOK
    <3> QED
      BY <3>1, <3>2
  <2> QED
    BY <2>1, <2>2, <2>3 DEF LocksOK
<1>9. TablesOK'
  BY <1>1, <1>2 DEF TablesOK, faults
<1> QED
  BY <1>4, <1>7, <1>8, <1>9 DEF TypeInv

LEMMA AdvanceStep ==
  ASSUME TypeInv, NEW w \in Slot, Advance(w)
  PROVE  TypeInv'
<1>1. JobsOK' /\ lock' = lock /\ job' = job
  BY AdvanceMoves DEF TypeInv, JobsOK
<1>2. SlotsOK'
  BY AdvanceMoves DEF TypeInv, SlotsOK, SoundSlot
<1>3. slot'[w].pc # "idle"
  BY AdvanceMoves
<1>4. \A v \in Slot : slot[v].pc # "idle" => slot'[v].pc # "idle" /\ slot'[v].id = slot[v].id
  BY <1>3, AdvanceMoves
<1>5. LocksOK'
  BY <1>1, <1>4, EmailWorkerAssumption DEF TypeInv, LocksOK, EmailWorkerAssumption
<1>6. /\ progress' \subseteq progress \cup {slot[w].id} /\ (progress' # progress => slot[w].id \in Saga)
      /\ delivered' \subseteq delivered \cup {slot[w].id}
      /\ acked' \subseteq acked \cup Release
      /\ reported' = reported \/ (slot[w].id \in Saga
           /\ \E r \in Report : reported' = [reported EXCEPT ![slot[w].id] = @ \cup {r}])
  BY DEF Advance, HandleSucceeds, HandleFails, UpdateProgress, PublishSent, PublishFailed,
         Publishes, TypeInv, SlotsOK, SoundSlot, Report
<1>7. TablesOK'
  BY <1>6, AdvanceMoves DEF TypeInv, TablesOK, faults
<1> QED
  BY <1>1, <1>2, <1>5, <1>7 DEF TypeInv

LEMMA EndStep ==
  ASSUME TypeInv, NEW w \in Slot, Ends(w)
  PROVE  TypeInv'
<1> DEFINE m == slot[w].id
<1>1. /\ m \in Mail
      /\ slot' = [slot EXCEPT ![w] = IdleSlot]
      /\ UNCHANGED <<progress, delivered, acked, reported, closing, faults, stops>>
  BY EndMoves
<1>2. JobsOK /\ SlotsOK /\ LocksOK /\ TablesOK /\ SoundJob(job[m])
  BY <1>1 DEF TypeInv, JobsOK
<1>3. IdleSlot \in SlotRecord /\ IdleSlot.pc = "idle" /\ SoundSlot(IdleSlot)
  BY BullJobAssumption DEF BullJobAssumption, IdleSlot, SlotRecord, SlotPc, SoundSlot
<1>4. SlotsOK' /\ TablesOK'
  BY <1>1, <1>2, <1>3 DEF SlotsOK, TablesOK, faults
<1>5. CASE lock[m] # w /\ UNCHANGED <<job, lock>>
  <2>1. \A n \in Mail : lock[n] # w \/ n = m
    BY <1>1, <1>2, EmailWorkerAssumption DEF LocksOK, EmailWorkerAssumption
  <2> QED
    BY <1>1, <1>2, <1>4, <1>5, <2>1 DEF TypeInv, JobsOK, LocksOK, SlotsOK
<1>6. ASSUME NEW j, SoundJob(j), j.state # "active", lock[m] = w,
             job' = [job EXCEPT ![m] = j],
             lock' = [lock EXCEPT ![m] = Nobody]
      PROVE  TypeInv'
  <2>1. JobsOK'
    BY <1>2, <1>6 DEF JobsOK, SoundJob
  <2>2. \A n \in Mail \ {m} : lock[n] # w
    BY <1>1, <1>2, <1>6, EmailWorkerAssumption DEF LocksOK, EmailWorkerAssumption
  <2>3. LocksOK'
    BY <1>1, <1>2, <1>6, <2>2 DEF LocksOK, JobsOK, SlotsOK
  <2> QED
    BY <1>4, <2>1, <2>3 DEF TypeInv
<1>7. CASE /\ lock[m] = w
           /\ job[m].state = "active"
           /\ lock' = [lock EXCEPT ![m] = Nobody]
           /\ job' = [job EXCEPT ![m] = Succeeded(job[m])]
  BY <1>2, <1>6, <1>7, SucceededSound
<1>8. CASE /\ lock[m] = w
           /\ job[m].state = "active"
           /\ lock' = [lock EXCEPT ![m] = Nobody]
           /\ job' = [job EXCEPT ![m] = Failed(job[m])]
  <2>1. Failed(job[m]).state # "active" /\ SoundJob(Failed(job[m]))
    BY <1>2, <1>8, FailedSound
  <2> QED
    BY <1>6, <1>8, <2>1
<1> QED
  BY <1>5, <1>7, <1>8, EndMoves

LEMMA LoseLockStep ==
  ASSUME TypeInv, NEW m \in Mail, LoseLock(m)
  PROVE  TypeInv'
<1>1. /\ lockLosses < MaxLockLosses
      /\ job' = [job EXCEPT ![m] = Stalled(job[m])]
      /\ lock' = [lock EXCEPT ![m] = Nobody]
      /\ lockLosses' = lockLosses + 1
      /\ UNCHANGED <<progress, slot, delivered, acked, reported, closing, crashes, stops>>
  BY DEF LoseLock
<1>2. JobsOK /\ SlotsOK /\ LocksOK /\ TablesOK /\ SoundJob(job[m]) /\ job[m].state = "active"
  BY DEF TypeInv, JobsOK, LoseLock
<1>3. SoundJob(Stalled(job[m])) /\ Stalled(job[m]).state # "active"
  BY <1>2, StalledSound
<1>4. JobsOK'
  BY <1>1, <1>2, <1>3 DEF JobsOK, SoundJob
<1>5. SlotsOK'
  BY <1>1, <1>2 DEF SlotsOK
<1>6. LocksOK'
  BY <1>1, <1>2, <1>3 DEF LocksOK, JobsOK
<1>7. TablesOK'
  BY <1>1, <1>2, EmailWorkerAssumption DEF EmailWorkerAssumption, TablesOK
<1> QED
  BY <1>4, <1>5, <1>6, <1>7 DEF TypeInv

LEMMA RestartStep ==
  ASSUME TypeInv, Restarted,
         crashes' \in 0..MaxCrashes, stops' = stops
  PROVE  TypeInv'
<1>1. ASSUME NEW m \in Mail
      PROVE  SoundJob(job'[m]) /\ job'[m].state # "active"
  <2>1. SoundJob(job[m])
    BY DEF TypeInv, JobsOK
  <2>2. CASE job[m].state = "active"
    <3>1. job'[m] = Stalled(job[m])
      BY <2>2, RestartMoves
    <3>2. SoundJob(Stalled(job[m])) /\ Stalled(job[m]).state # "active"
      BY <2>1, <2>2, StalledSound
    <3> QED
      BY <3>1, <3>2
  <2>3. CASE job[m].state # "active"
    BY <2>1, <2>3, RestartMoves
  <2> QED
    BY <2>2, <2>3
<1>2. job' \in [Mail -> Job]
  <2>1. job' = [m \in Mail |-> job'[m]]
    BY DEF Restarted
  <2>2. \A m \in Mail : job'[m] \in Job
    BY <1>1 DEF SoundJob
  <2> QED
    BY <2>1, <2>2
<1>3. JobsOK'
  BY <1>1, <1>2 DEF JobsOK
<1>4. SlotsOK'
  BY RestartMoves DEF SlotsOK, SoundSlot, IdleSlot
<1>5. LocksOK'
  BY <1>1, RestartMoves DEF LocksOK
<1>6. TablesOK'
  BY DEF Restarted, TypeInv, TablesOK
<1> QED
  BY <1>3, <1>4, <1>5, <1>6 DEF TypeInv

LEMMA TypeStep ==
  ASSUME TypeInv, [Next]_vars
  PROVE  TypeInv'
<1>1. ASSUME NEW s \in Saga, AddEmail(s) PROVE TypeInv'
  BY <1>1, AddStep DEF AddEmail, Mail
<1>2. ASSUME NEW m \in Release, AddRelease(m) PROVE TypeInv'
  BY <1>2, AddStep DEF AddRelease, Mail
<1>3. CASE Crash
  <2>1. crashes + 1 \in 0..MaxCrashes
    BY <1>3, EmailWorkerAssumption DEF EmailWorkerAssumption, Crash, TypeInv, TablesOK
  <2> QED
    BY <1>3, <2>1, RestartStep DEF Crash
<1>4. CASE Exit
  BY <1>4, RestartStep DEF Exit, TypeInv, TablesOK
<1>5. CASE Shutdown
  <2>1. stops + 1 \in 0..MaxStops
    BY <1>5, EmailWorkerAssumption DEF EmailWorkerAssumption, Shutdown, TypeInv, TablesOK
  <2> QED
    BY <1>5, <2>1 DEF Shutdown, TypeInv, JobsOK, SlotsOK, LocksOK, TablesOK, faults
<1>6. CASE UNCHANGED vars
  BY <1>6 DEF vars, TypeInv, JobsOK, SlotsOK, LocksOK, TablesOK
<1> QED
  BY <1>1, <1>2, <1>3, <1>4, <1>5, <1>6, Steps, TakeStep, AdvanceStep, EndStep, LoseLockStep

LEMMA TypeAlways == Spec => []TypeInv
<1>1. TypeInv /\ [Next]_vars => TypeInv'
  BY TypeStep
<1> QED
  BY TypeInit, <1>1, PTL DEF Spec

(* Every variable keeps to its type, for any number of mails, slots,       *)
(* attempts, crashes, expired locks and stops.                             *)
THEOREM TypeCorrect == Spec => []TypeOK
BY TypeAlways, TypeInvImpliesTypeOK, PTL

-----------------------------------------------------------------------------
(* A job once added never goes back, and neither do its attempts.          *)

LEMMA JobsGrow ==
  ASSUME TypeInv, [Next]_vars, NEW m \in Mail
  PROVE  /\ job[m].state # "none" => job'[m].state # "none"
         /\ job[m].attempts \in Nat /\ job'[m].attempts \in Nat
         /\ job[m].attempts <= job'[m].attempts
<1>1. /\ job \in [Mail -> Job] /\ SoundJob(job[m]) /\ job[m] \in Job
      /\ job[m].attempts \in 0..MaxAttempts
  BY DEF TypeInv, JobsOK, Job
<1>2. job[m].attempts \in Nat /\ job'[m].attempts \in Nat
  <2>1. job'[m] \in Job
    BY TypeStep DEF TypeInv, JobsOK
  <2> QED
    BY <1>1, <2>1, BullJobAssumption DEF BullJobAssumption, Job
<1>3. ASSUME job'[m] = job[m]
      PROVE  job'[m].state = job[m].state /\ job[m].attempts <= job'[m].attempts
  BY <1>2, <1>3
<1>4. ASSUME NEW n \in Mail, job' = [job EXCEPT ![n] = Added(@)]
      PROVE  (job[m].state # "none" => job'[m].state # "none")
             /\ job[m].attempts <= job'[m].attempts
  <2>1. job'[m] = job[m] \/ job'[m] = Added(job[m])
    BY <1>1, <1>4
  <2>2. CASE job'[m] = Added(job[m]) /\ job[m].state = "none"
    <3>1. job'[m].attempts = job[m].attempts
      BY <1>1, <2>2 DEF Added, Job
    <3> QED
      BY <1>2, <2>2, <3>1
  <2>3. CASE job'[m] = job[m] \/ job[m].state # "none"
    BY <1>3, <2>1, <2>3 DEF Added
  <2> QED
    BY <2>1, <2>2, <2>3
<1>5. ASSUME NEW w \in Slot, NEW n \in Mail, Take(w, n)
      PROVE  (job[m].state # "none" => job'[m].state # "none")
             /\ job[m].attempts <= job'[m].attempts
  <2>1. job' = [job EXCEPT ![n] = Taken(job[n])]
    BY <1>5 DEF Take, Taking
  <2>2. CASE m = n
    <3>1. job'[m].state = "active" /\ job'[m].attempts = job[m].attempts
      BY <1>1, <2>1, <2>2 DEF Taken, Job
    <3> QED
      BY <1>2, <3>1
  <2> QED
    BY <1>1, <1>3, <2>1, <2>2
<1>6. ASSUME NEW w \in Slot, Ends(w)
      PROVE  (job[m].state # "none" => job'[m].state # "none")
             /\ job[m].attempts <= job'[m].attempts
  <2>1. \/ job'[m] = job[m]
        \/ job[m].state = "active" /\ (job'[m] = Succeeded(job[m]) \/ job'[m] = Failed(job[m]))
    BY <1>1, <1>6, EndMoves
  <2>2. CASE job[m].state = "active" /\ job'[m] = Succeeded(job[m])
    <3>1. job'[m].state = "completed" /\ job'[m].attempts = job[m].attempts
      BY <1>1, <2>2 DEF Succeeded, Job
    <3> QED
      BY <1>2, <3>1
  <2>3. CASE job[m].state = "active" /\ job'[m] = Failed(job[m])
    <3>1. job'[m].state # "none" /\ job'[m].attempts = job[m].attempts + 1
      BY <1>1, <2>3, FailedCounts
    <3> QED
      BY <1>2, <3>1
  <2> QED
    BY <1>3, <2>1, <2>2, <2>3
<1>7. ASSUME job'[m] = Stalled(job[m])
      PROVE  job'[m].state # "none" /\ job[m].attempts <= job'[m].attempts
  BY <1>1, <1>2, <1>7, StalledCounts
<1>8. ASSUME Restarted
      PROVE  (job[m].state # "none" => job'[m].state # "none")
             /\ job[m].attempts <= job'[m].attempts
  BY <1>3, <1>7, <1>8, RestartMoves
<1>9. ASSUME NEW n \in Mail, LoseLock(n)
      PROVE  (job[m].state # "none" => job'[m].state # "none")
             /\ job[m].attempts <= job'[m].attempts
  <2>1. job'[m] = job[m] \/ job'[m] = Stalled(job[m])
    BY <1>1, <1>9 DEF LoseLock
  <2> QED
    BY <1>3, <1>7, <2>1
<1>10. CASE (\E w \in Slot : Advance(w)) \/ Shutdown \/ UNCHANGED vars
  BY <1>2, <1>3, <1>10, AdvanceMoves DEF Shutdown, vars
<1>11. (job[m].state # "none" => job'[m].state # "none")
       /\ job[m].attempts <= job'[m].attempts
  <2>1. ASSUME NEW s \in Saga, AddEmail(s)
        PROVE  job' = [job EXCEPT ![s] = Added(@)] /\ s \in Mail
    BY <2>1 DEF AddEmail, Mail
  <2>2. ASSUME NEW r \in Release, AddRelease(r)
        PROVE  job' = [job EXCEPT ![r] = Added(@)] /\ r \in Mail
    BY <2>2 DEF AddRelease, Mail
  <2>3. Crash \/ Exit => Restarted
    BY DEF Crash, Exit
  <2> QED
    BY <1>4, <1>5, <1>6, <1>8, <1>9, <1>10, <2>1, <2>2, <2>3, Steps
<1> QED
  BY <1>2, <1>11

LEMMA SlotsMove ==
  ASSUME TypeInv, [Next]_vars, NEW w \in Slot
  PROVE  \/ slot'[w] = slot[w]
         \/ slot'[w] = IdleSlot
         \/ Advance(w)
         \/ \E m \in Mail : Take(w, m)
<1>1. slot \in [Slot -> SlotRecord]
  BY DEF TypeInv, SlotsOK
<1>2. ASSUME NEW v \in Slot, NEW m \in Mail, Take(v, m), v # w
      PROVE  slot'[w] = slot[w]
  BY <1>1, <1>2 DEF Take, Taking
<1>3. ASSUME NEW v \in Slot, Ends(v)
      PROVE  slot'[w] = slot[w] \/ slot'[w] = IdleSlot
  BY <1>1, <1>3, EndMoves
<1>4. Crash \/ Exit => slot'[w] = IdleSlot
  BY RestartMoves DEF Crash, Exit
<1>5. (\E s \in Saga : AddEmail(s)) \/ (\E m \in Release : AddRelease(m))
      \/ (\E m \in Mail : LoseLock(m)) \/ Shutdown \/ UNCHANGED vars
      => slot'[w] = slot[w]
  BY DEF AddEmail, AddRelease, LoseLock, Shutdown, vars
<1> QED
  BY <1>2, <1>3, <1>4, <1>5, AdvanceMoves, Steps

-----------------------------------------------------------------------------
(* Only the attempt that will not be retried reports a failure.            *)

TakenJobs ==
  \A w \in Slot : slot[w].pc # "idle" =>
    /\ job[slot[w].id].state # "none"
    /\ slot[w].attemptsMade <= job[slot[w].id].attempts

LastReports == \A w \in Slot : slot[w].pc = "publishFailed" => IsFinal(slot[w].attemptsMade)

AttemptsInv == TakenJobs /\ LastReports /\ FailureReportedLast

LEMMA AttemptsInit == Init => AttemptsInv
BY DEF Init, AttemptsInv, TakenJobs, LastReports, FailureReportedLast, IdleSlot

LEMMA TakenJobsStep ==
  ASSUME TypeInv, TakenJobs, [Next]_vars
  PROVE  TakenJobs'
<1> SUFFICES ASSUME NEW w \in Slot, slot'[w].pc # "idle"
             PROVE  /\ job'[slot'[w].id].state # "none"
                    /\ slot'[w].attemptsMade <= job'[slot'[w].id].attempts
  BY DEF TakenJobs
<1>1. ASSUME slot[w].pc # "idle", slot'[w].id = slot[w].id,
             slot'[w].attemptsMade = slot[w].attemptsMade
      PROVE  /\ job'[slot'[w].id].state # "none"
             /\ slot'[w].attemptsMade <= job'[slot'[w].id].attempts
  <2>1. slot[w].id \in Mail /\ slot[w].attemptsMade \in Nat
    BY <1>1, BullJobAssumption
    DEF BullJobAssumption, TypeInv, SlotsOK, SoundSlot, SlotRecord
  <2>2. /\ job[slot[w].id].state # "none"
        /\ slot[w].attemptsMade <= job[slot[w].id].attempts
    BY <1>1 DEF TakenJobs
  <2> QED
    BY <1>1, <2>1, <2>2, JobsGrow
<1>2. CASE slot'[w] = slot[w]
  BY <1>1, <1>2
<1>3. CASE Advance(w)
  <2>1. slot[w].pc # "idle"
    BY <1>3, AdvanceMoves
  <2> QED
    BY <1>1, <1>3, <2>1, AdvanceMoves
<1>4. ASSUME NEW m \in Mail, Take(w, m)
      PROVE  /\ job'[slot'[w].id].state # "none"
             /\ slot'[w].attemptsMade <= job'[slot'[w].id].attempts
  <2>1. slot'[w].id = m /\ slot'[w].attemptsMade = job[m].attempts /\ job[m].state = "wait"
    BY <1>4 DEF Take, Taking, TypeInv, SlotsOK
  <2> QED
    BY <2>1, JobsGrow
<1>5. CASE slot'[w] = IdleSlot
  BY <1>5 DEF IdleSlot
<1> QED
  BY <1>2, <1>3, <1>4, <1>5, SlotsMove

LEMMA LastReportsStep ==
  ASSUME TypeInv, LastReports, [Next]_vars
  PROVE  LastReports'
<1> SUFFICES ASSUME NEW w \in Slot, slot'[w].pc = "publishFailed"
             PROVE  IsFinal(slot'[w].attemptsMade)
  BY DEF LastReports
<1>1. CASE slot'[w] = slot[w]
  BY <1>1 DEF LastReports
<1>2. CASE slot'[w] = IdleSlot
  BY <1>2 DEF IdleSlot
<1>3. ASSUME NEW m \in Mail, Take(w, m)
      PROVE  FALSE
  BY <1>3 DEF Take, Taking, TypeInv, SlotsOK
<1>4. CASE Advance(w)
  <2>1. HandleFails(w) => IsFinal(slot[w].attemptsMade)
    BY DEF HandleFails, Goto, TypeInv, SlotsOK
  <2>2. ASSUME NEW pc \in SlotPc, Goto(w, pc)
        PROVE  pc = "publishFailed"
    BY <2>2, GotoMoves DEF TypeInv, SlotsOK
  <2>3. ~ HandleSucceeds(w) /\ ~ UpdateProgress(w)
    BY <2>2 DEF HandleSucceeds, UpdateProgress, SlotPc
  <2>4. ~ PublishSent(w) /\ ~ PublishFailed(w)
    BY <2>2 DEF PublishSent, PublishFailed, Publishes, SlotPc
  <2> QED
    BY <1>4, <2>1, <2>3, <2>4, AdvanceMoves DEF Advance
<1> QED
  BY <1>1, <1>2, <1>3, <1>4, SlotsMove

(* A result is published by the activation of its saga's job.              *)
LEMMA ReportsMove ==
  ASSUME TypeInv, [Next]_vars, NEW s \in Saga, reported'[s] # reported[s]
  PROVE  \E w \in Slot : /\ slot[w].id = s
                         /\ \/ /\ PublishSent(w)
                               /\ reported'[s] = reported[s] \cup {"sent"}
                            \/ /\ PublishFailed(w)
                               /\ reported'[s] = reported[s] \cup {"failed"}
<1>1. PICK w \in Slot : Advance(w)
  <2>1. (\E w \in Slot : Ends(w)) \/ Crash \/ Exit => reported' = reported
    BY EndMoves DEF Crash, Exit, Restarted
  <2> QED
    BY <2>1, Steps DEF AddEmail, AddRelease, Take, Taking, LoseLock, Shutdown, vars
<1>2. PublishSent(w) \/ PublishFailed(w)
  BY <1>1 DEF Advance, HandleSucceeds, HandleFails, UpdateProgress
<1>3. reported \in [Saga -> SUBSET Report]
  BY DEF TypeInv, TablesOK
<1> QED
  BY <1>2, <1>3 DEF PublishSent, PublishFailed, Publishes

LEMMA FailureReportedLastStep ==
  ASSUME TypeInv, AttemptsInv, [Next]_vars
  PROVE  FailureReportedLast'
<1> SUFFICES ASSUME NEW s \in Saga, "failed" \in reported'[s]
             PROVE  job'[s].attempts >= MaxAttempts - 1
  BY DEF FailureReportedLast
<1>1. s \in Mail
  BY DEF Mail
<1>2. job[s].attempts \in Nat /\ job'[s].attempts \in Nat /\ job[s].attempts <= job'[s].attempts
  BY <1>1, JobsGrow
<1>3. job[s].attempts >= MaxAttempts - 1
  <2>1. CASE "failed" \in reported[s]
    BY <2>1 DEF AttemptsInv, FailureReportedLast
  <2>2. CASE "failed" \notin reported[s]
    <3>1. PICK w \in Slot : slot[w].id = s /\ slot[w].pc = "publishFailed"
      BY <2>2, ReportsMove DEF PublishFailed
    <3>2. slot[w].attemptsMade + 1 >= MaxAttempts /\ slot[w].attemptsMade <= job[s].attempts
      BY <3>1 DEF AttemptsInv, LastReports, TakenJobs, IsFinal
    <3>3. slot[w].attemptsMade \in Nat
      BY BullJobAssumption DEF BullJobAssumption, TypeInv, SlotsOK, SlotRecord
    <3> QED
      BY <1>2, <3>2, <3>3, BullJobAssumption DEF BullJobAssumption
  <2> QED
    BY <2>1, <2>2
<1> QED
  BY <1>2, <1>3, BullJobAssumption DEF BullJobAssumption

LEMMA AttemptsAlways == Spec => []AttemptsInv
<1>1. TypeInv /\ AttemptsInv /\ [Next]_vars => AttemptsInv'
  BY TakenJobsStep, LastReportsStep, FailureReportedLastStep DEF AttemptsInv
<1> QED
  BY TypeAlways, AttemptsInit, <1>1, PTL DEF Spec

(* A failure is reported only by an attempt that BullMQ will not retry:    *)
(* attempts never go down, and an activation has at most as many as its    *)
(* job, even when it lost the job to another one.                          *)
THEOREM ReportsFailureLast == Spec => []FailureReportedLast
<1>1. AttemptsInv => FailureReportedLast
  BY DEF AttemptsInv
<1> QED
  BY <1>1, AttemptsAlways, PTL

-----------------------------------------------------------------------------
(* What an activation has behind it: the mail that it goes on to checkpoint*)
(* and report was accepted, and it returns only after publishing so.       *)

SlotEarned(x) ==
  /\ x.pc \in {"updateProgress", "publishSent"} => x.id \in delivered
  /\ x.pc = "return" => IF x.id \in Release THEN x.id \in delivered
                                            ELSE "sent" \in reported[x.id]

DeliveryInv ==
  /\ \A w \in Slot : SlotEarned(slot[w])
  /\ progress \subseteq delivered
  /\ CompletedReleaseWasMailed

LEMMA DeliveryInit == Init => DeliveryInv
BY DEF Init, DeliveryInv, SlotEarned, IdleSlot, CompletedReleaseWasMailed, NoJob, Mail

LEMMA TablesGrow ==
  ASSUME TypeInv, [Next]_vars
  PROVE  delivered \subseteq delivered' /\ \A s \in Saga : reported[s] \subseteq reported'[s]
<1>1. \A s \in Saga : reported[s] \subseteq reported'[s]
  BY ReportsMove
<1>2. (\E w \in Slot : Advance(w)) => delivered \subseteq delivered'
  BY DEF Advance, HandleSucceeds, HandleFails, UpdateProgress, PublishSent, PublishFailed, Publishes
<1>3. (\E w \in Slot : Ends(w)) \/ Crash \/ Exit => delivered' = delivered
  BY EndMoves DEF Crash, Exit, Restarted
<1> QED
  BY <1>1, <1>2, <1>3, Steps DEF AddEmail, AddRelease, Take, Taking, LoseLock, Shutdown, vars

LEMMA SlotEarnedStep ==
  ASSUME TypeInv, DeliveryInv, [Next]_vars, NEW w \in Slot
  PROVE  SlotEarned(slot[w])'
<1>1. delivered \subseteq delivered' /\ \A s \in Saga : reported[s] \subseteq reported'[s]
  BY TablesGrow
<1>2. SoundSlot(slot[w]) /\ SlotEarned(slot[w]) /\ slot \in [Slot -> SlotRecord]
  BY DEF TypeInv, SlotsOK, DeliveryInv
<1>3. CASE slot'[w] = slot[w]
  <2>1. slot[w].pc = "return" /\ slot[w].id \notin Release => slot[w].id \in Saga
    BY <1>2 DEF SoundSlot, Mail
  <2> QED
    BY <1>1, <1>2, <1>3, <2>1 DEF SlotEarned
<1>4. CASE slot'[w] = IdleSlot
  BY <1>4 DEF IdleSlot, SlotEarned
<1>5. ASSUME NEW m \in Mail, Take(w, m)
      PROVE  SlotEarned(slot[w])'
  <2>1. slot'[w].id = m /\ slot'[w].pc \in {"publishSent", "handle"}
        /\ (slot'[w].pc = "publishSent" => m \in progress)
    BY <1>2, <1>5 DEF Take, Taking
  <2> QED
    BY <1>1, <2>1 DEF SlotEarned, DeliveryInv
<1>6. CASE Advance(w)
  <2>1. slot'[w].id = slot[w].id
    BY <1>6, AdvanceMoves
  <2>2. CASE HandleSucceeds(w)
    <3>1. slot[w].id \in delivered'
      BY <2>2 DEF HandleSucceeds
    <3>2. slot'[w].pc = "return" => slot[w].id \in Release
      <4>1. slot[w].id \notin Release => Goto(w, "updateProgress")
        BY <2>2 DEF HandleSucceeds
      <4> QED
        BY <1>2, <4>1, GotoMoves DEF SlotPc
    <3> QED
      BY <2>1, <3>1, <3>2 DEF SlotEarned
  <2>3. CASE HandleFails(w) \/ PublishFailed(w)
    <3>1. Goto(w, "publishFailed") \/ Goto(w, "rethrow")
      BY <2>3 DEF HandleFails, PublishFailed
    <3>2. slot'[w].pc \in {"publishFailed", "rethrow"}
      BY <1>2, <3>1, GotoMoves DEF SlotPc
    <3> QED
      BY <3>2 DEF SlotEarned
  <2>4. CASE UpdateProgress(w)
    <3>1. Goto(w, "publishSent") \/ Goto(w, "rethrow")
      BY <2>4 DEF UpdateProgress
    <3>2. slot'[w].pc \in {"publishSent", "rethrow"}
      BY <1>2, <3>1, GotoMoves DEF SlotPc
    <3>3. slot[w].id \in delivered'
      BY <1>1, <1>2, <2>4 DEF UpdateProgress, SlotEarned
    <3> QED
      BY <2>1, <3>2, <3>3 DEF SlotEarned
  <2>5. CASE PublishSent(w)
    <3>1. \/ Goto(w, "return") /\ "sent" \in reported'[slot[w].id]
          \/ Goto(w, "rethrow")
      BY <2>5 DEF PublishSent, Publishes
    <3>2. slot'[w].pc = "rethrow" \/ (slot'[w].pc = "return" /\ "sent" \in reported'[slot[w].id])
      BY <1>2, <3>1, GotoMoves DEF SlotPc
    <3>3. slot[w].id \in Saga /\ slot[w].id \notin Release
      BY <1>2, <2>5, EmailWorkerAssumption DEF PublishSent, SoundSlot, EmailWorkerAssumption
    <3> QED
      BY <2>1, <3>2, <3>3 DEF SlotEarned
  <2> QED
    BY <1>6, <2>2, <2>3, <2>4, <2>5 DEF Advance
<1> QED
  BY <1>3, <1>4, <1>5, <1>6, SlotsMove

(* A job is completed by its activation, which returns.                    *)
LEMMA CompletesOnReturn ==
  ASSUME TypeInv, [Next]_vars, NEW m \in Mail,
         job'[m].state = "completed", job[m].state # "completed"
  PROVE  \E w \in Slot : Return(w) /\ slot[w].id = m /\ job[m].state = "active"
<1>1. job[m] \in Job /\ SoundJob(job[m]) /\ job \in [Mail -> Job]
  BY DEF TypeInv, JobsOK
<1>2. Added(job[m]).state # "completed" /\ Taken(job[m]).state # "completed"
      /\ Stalled(job[m]).state # "completed"
  <2>1. CASE job[m].state = "none"
    BY <1>1, <2>1, StalledCounts DEF Added, Taken, Job
  <2>2. CASE job[m].state # "none"
    BY <1>1, <2>2, StalledCounts DEF Added, Taken, Job
  <2> QED
    BY <2>1, <2>2
<1>3. ASSUME NEW n \in Mail, job' = [job EXCEPT ![n] = Added(@)]
      PROVE  FALSE
  BY <1>1, <1>2, <1>3
<1>4. ASSUME NEW w \in Slot, NEW n \in Mail, Take(w, n)
      PROVE  FALSE
  BY <1>1, <1>2, <1>4 DEF Take, Taking
<1>5. ASSUME Restarted \/ \E n \in Mail : LoseLock(n)
      PROVE  FALSE
  BY <1>1, <1>2, <1>5, RestartMoves DEF LoseLock
<1>6. PICK w \in Slot : Ends(w)
  BY <1>3, <1>4, <1>5, Steps, AdvanceMoves
  DEF AddEmail, AddRelease, Crash, Exit, Shutdown, vars, Mail
<1>7. slot[w].id = m /\ job[m].state = "active" /\ (slot[w].pc = "rethrow" => job'[m] = Failed(job[m]))
  BY <1>1, <1>6, EndMoves
<1>8. slot[w].pc # "rethrow"
  BY <1>1, <1>7, FailedCounts
<1> QED
  BY <1>6, <1>7, <1>8 DEF Ends, Rethrow

LEMMA DeliveryStep ==
  ASSUME TypeInv, DeliveryInv, [Next]_vars
  PROVE  DeliveryInv'
<1>1. \A w \in Slot : SlotEarned(slot[w])'
  BY SlotEarnedStep
<1>2. progress' \subseteq delivered'
  <2>1. progress' # progress => \E w \in Slot : UpdateProgress(w)
    <3>1. (\E w \in Slot : Ends(w)) \/ Crash \/ Exit => progress' = progress
      BY EndMoves DEF Crash, Exit, Restarted
    <3>2. \A w \in Slot : Advance(w) => progress' = progress \/ UpdateProgress(w)
      BY DEF Advance, HandleSucceeds, HandleFails, PublishSent, PublishFailed, Publishes
    <3> QED
      BY <3>1, <3>2, Steps DEF AddEmail, AddRelease, Take, Taking, LoseLock, Shutdown, vars
  <2>2. ASSUME NEW w \in Slot, UpdateProgress(w)
        PROVE  progress' \subseteq progress \cup {slot[w].id} /\ slot[w].id \in delivered
    BY <2>2 DEF UpdateProgress, DeliveryInv, SlotEarned
  <2>3. delivered \subseteq delivered' /\ progress \subseteq delivered
    BY TablesGrow DEF DeliveryInv
  <2> QED
    BY <2>1, <2>2, <2>3
<1>3. CompletedReleaseWasMailed'
  <2> SUFFICES ASSUME NEW m \in Release, job'[m].state = "completed"
               PROVE  m \in delivered'
    BY DEF CompletedReleaseWasMailed
  <2>1. CASE job[m].state = "completed"
    BY <2>1, TablesGrow DEF DeliveryInv, CompletedReleaseWasMailed
  <2>2. CASE job[m].state # "completed"
    <3>1. PICK w \in Slot : Return(w) /\ slot[w].id = m
      BY <2>2, CompletesOnReturn DEF Mail
    <3>2. m \in delivered
      BY <3>1 DEF Return, DeliveryInv, SlotEarned
    <3> QED
      BY <3>2, TablesGrow
  <2> QED
    BY <2>1, <2>2
<1> QED
  BY <1>1, <1>2, <1>3 DEF DeliveryInv

LEMMA DeliveryAlways == Spec => []DeliveryInv
<1>1. TypeInv /\ DeliveryInv /\ [Next]_vars => DeliveryInv'
  BY DeliveryStep
<1> QED
  BY TypeAlways, DeliveryInit, <1>1, PTL DEF Spec

(* A confirmation's job, too, completes only with its report, which        *)
(* processJob publishes last (email.worker.ts:70).                         *)
CompletedSagaReported ==
  \A s \in Saga : job[s].state = "completed" => "sent" \in reported[s]

LEMMA CompletedReportedStep ==
  ASSUME TypeInv, DeliveryInv, CompletedSagaReported, [Next]_vars
  PROVE  CompletedSagaReported'
<1> SUFFICES ASSUME NEW s \in Saga, job'[s].state = "completed"
             PROVE  "sent" \in reported'[s]
  BY DEF CompletedSagaReported
<1>1. CASE job[s].state = "completed"
  BY <1>1, TablesGrow DEF CompletedSagaReported
<1>2. CASE job[s].state # "completed"
  <2>1. PICK w \in Slot : Return(w) /\ slot[w].id = s
    BY <1>2, CompletesOnReturn DEF Mail
  <2>2. "sent" \in reported[s]
    BY <2>1, EmailWorkerAssumption DEF Return, DeliveryInv, SlotEarned, EmailWorkerAssumption
  <2> QED
    BY <2>2, TablesGrow
<1> QED
  BY <1>1, <1>2

LEMMA CompletedReportedAlways == Spec => []CompletedSagaReported
<1>1. Init => CompletedSagaReported
  BY DEF Init, CompletedSagaReported, NoJob, Mail
<1>2. TypeInv /\ DeliveryInv /\ CompletedSagaReported /\ [Next]_vars => CompletedSagaReported'
  BY CompletedReportedStep
<1> QED
  BY <1>1, <1>2, TypeAlways, DeliveryAlways, PTL DEF Spec

(* A release's mail job completes only after its mail was accepted: its    *)
(* activation returns only then, and nothing but a return completes a job. *)
THEOREM CompletesMailedReleases == Spec => []CompletedReleaseWasMailed
<1>1. DeliveryInv => CompletedReleaseWasMailed
  BY DEF DeliveryInv
<1> QED
  BY <1>1, DeliveryAlways, PTL

-----------------------------------------------------------------------------
(* The worker implements ConfirmationDelivery.                             *)

LEMMA OutcomeIs ==
  ASSUME NEW s \in Saga
  PROVE  /\ job[s].state \in {"wait", "active"} => Outcome(s) = "queued"
         /\ job[s].state = "failed" => Outcome(s) = "abandoned"
         /\ job[s].state \in {"none", "completed"} => Outcome(s) = job[s].state
         /\ job'[s].state \in {"wait", "active"} => Outcome(s)' = "queued"
         /\ job'[s].state = "failed" => Outcome(s)' = "abandoned"
         /\ job'[s].state \in {"none", "completed"} => Outcome(s)' = job'[s].state
BY DEF Outcome

(* Commands that are given up, none of them at least.                      *)
LEMMA AbandonsSome ==
  ASSUME UNCHANGED <<delivered \cap Saga, reported>>,
         \A s \in Saga : \/ Outcome(s)' = Outcome(s)
                         \/ Outcome(s) = "queued" /\ Outcome(s)' = "abandoned"
  PROVE  Delivery!Next
<1> DEFINE S == {s \in Saga : Outcome(s)' # Outcome(s)}
<1>1. S \in SUBSET Saga
  OBVIOUS
<1>2. \A s \in S : [t \in Saga |-> Outcome(t)][s] = "queued"
  OBVIOUS
<1>3. [t \in Saga |-> Outcome(t)]'
        = [s \in Saga |-> IF s \in S THEN "abandoned" ELSE [t \in Saga |-> Outcome(t)][s]]
  OBVIOUS
<1>4. Delivery!Abandon(S)
  BY <1>2, <1>3 DEF Delivery!Abandon
<1> QED
  BY <1>1, <1>4 DEF Delivery!Next

(* Nobody else moves the jobs of the sagas.                                *)
LEMMA OutcomesKept ==
  ASSUME NEW T \in SUBSET Mail, \A m \in Mail \ T : job'[m] = job[m]
  PROVE  \A s \in Saga \ T : Outcome(s)' = Outcome(s)
BY DEF Outcome, Mail

LEMMA InitRefines == Init => Delivery!Init
<1> SUFFICES ASSUME Init PROVE Delivery!Init
  OBVIOUS
<1>1. \A s \in Saga : Outcome(s) = "none"
  BY OutcomeIs DEF Init, NoJob, Mail
<1> QED
  BY <1>1 DEF Init, Delivery!Init

LEMMA AddEmailRefines ==
  ASSUME TypeInv, NEW s \in Saga, AddEmail(s)
  PROVE  Delivery!Next
<1>1. job[s].state = "none" /\ job' = [job EXCEPT ![s] = Added(job[s])]
      /\ job \in [Mail -> Job] /\ s \in Mail
  BY DEF AddEmail, TypeInv, JobsOK, Mail
<1>2. job'[s].state = "wait"
  BY <1>1 DEF Added, Job
<1>3. Outcome(s) = "none" /\ Outcome(s)' = "queued"
  BY <1>1, <1>2, OutcomeIs
<1>4. \A t \in Saga \ {s} : Outcome(t)' = Outcome(t)
  BY <1>1, OutcomesKept
<1>5. [t \in Saga |-> Outcome(t)]' = [[t \in Saga |-> Outcome(t)] EXCEPT ![s] = "queued"]
  BY <1>3, <1>4
<1>6. Delivery!Command(s)
  BY <1>3, <1>5 DEF Delivery!Command, AddEmail
<1> QED
  BY <1>6 DEF Delivery!Next

LEMMA AdvanceRefines ==
  ASSUME TypeInv, AttemptsInv, DeliveryInv, NEW w \in Slot, Advance(w)
  PROVE  Delivery!Next
<1> DEFINE s == slot[w].id
<1>1. job' = job /\ s \in Mail
  BY AdvanceMoves
<1>2. job[s].state # "none"
  BY AdvanceMoves DEF AttemptsInv, TakenJobs
<1>3. \A t \in Saga : Outcome(t)' = Outcome(t)
  BY <1>1 DEF Outcome
<1>4. CASE UNCHANGED <<delivered \cap Saga, reported>>
  BY <1>3, <1>4, AbandonsSome
<1>5. ASSUME s \in Saga PROVE Outcome(s) # "none"
  BY <1>1, <1>2, <1>5, OutcomeIs DEF TypeInv, JobsOK, Job, JobState
<1>6. [t \in Saga |-> Outcome(t)]' = [t \in Saga |-> Outcome(t)]
  BY <1>3
<1>7. CASE s \in Saga /\ delivered' = delivered \cup {s} /\ reported' = reported
  <2>1. Delivery!Deliver(s)
    BY <1>5, <1>6, <1>7 DEF Delivery!Deliver
  <2> QED
    BY <1>7, <2>1 DEF Delivery!Next
<1>8. CASE PublishSent(w) /\ reported' # reported
  <2>1. s \in Saga /\ s \in delivered
    BY <1>8 DEF PublishSent, TypeInv, SlotsOK, SoundSlot, DeliveryInv, SlotEarned
  <2>2. Delivery!ReportSent(s)
    BY <1>6, <1>8, <2>1 DEF Delivery!ReportSent, PublishSent, Publishes
  <2> QED
    BY <2>1, <2>2 DEF Delivery!Next
<1>9. CASE PublishFailed(w) /\ reported' # reported
  <2>1. s \in Saga
    BY <1>9 DEF PublishFailed, TypeInv, SlotsOK, SoundSlot
  <2>2. Delivery!ReportFailed(s)
    BY <1>5, <1>6, <1>9, <2>1 DEF Delivery!ReportFailed, PublishFailed
  <2> QED
    BY <2>1, <2>2 DEF Delivery!Next
<1>10. s \notin Saga /\ delivered' = delivered \cup {s} => delivered' \cap Saga = delivered \cap Saga
  OBVIOUS
<1> QED
  BY <1>4, <1>7, <1>8, <1>9, <1>10
  DEF Advance, HandleSucceeds, HandleFails, UpdateProgress, PublishSent, PublishFailed, Publishes

(* A retry leaves the command queued; the last failure gives it up.        *)
LEMMA JobEndsRefine ==
  ASSUME TypeInv, NEW s \in Saga, job[s].state = "active",
         job'[s] = Failed(job[s]) \/ job'[s] = Stalled(job[s])
  PROVE  Outcome(s) = "queued" /\ Outcome(s)' \in {"queued", "abandoned"}
<1>1. s \in Mail /\ SoundJob(job[s]) /\ job[s] \in Job
  BY DEF TypeInv, JobsOK, Mail
<1>2. job'[s].state \in {"wait", "failed"}
  BY <1>1, FailedSound, StalledSound
<1> QED
  BY <1>2, OutcomeIs

LEMMA EndRefines ==
  ASSUME TypeInv, DeliveryInv, NEW w \in Slot, Ends(w)
  PROVE  Delivery!Next
<1>0. PICK m \in Mail : m = slot[w].id
  BY EndMoves
<1>1. m \in Mail /\ UNCHANGED <<delivered, reported>> /\ job \in [Mail -> Job]
  BY EndMoves DEF TypeInv, JobsOK
<1>2. \A t \in Saga \ {m} : Outcome(t)' = Outcome(t)
  <2>1. \A n \in Mail \ {m} : job'[n] = job[n]
    BY <1>0, <1>1, EndMoves
  <2> QED
    BY <1>1, <2>1, OutcomesKept
<1>3. CASE m \notin Saga
  BY <1>1, <1>2, <1>3, AbandonsSome
<1>4. CASE m \in Saga /\ job' = job
  BY <1>1, <1>4, AbandonsSome DEF Outcome
<1>5. CASE m \in Saga /\ job[m].state = "active" /\ job'[m] = Failed(job[m])
  BY <1>1, <1>2, <1>5, AbandonsSome, JobEndsRefine
<1>6. CASE /\ m \in Saga /\ job[m].state = "active" /\ slot[w].pc = "return"
           /\ job'[m] = Succeeded(job[m])
  <2>1. job'[m].state = "completed"
    BY <1>1, <1>6, SucceededSound DEF TypeInv, JobsOK
  <2>2. Outcome(m) = "queued" /\ Outcome(m)' = "completed"
    BY <1>6, <2>1, OutcomeIs
  <2>3. "sent" \in reported[m]
    BY <1>0, <1>6, EmailWorkerAssumption DEF EmailWorkerAssumption, DeliveryInv, SlotEarned
  <2>4. [t \in Saga |-> Outcome(t)]' = [[t \in Saga |-> Outcome(t)] EXCEPT ![m] = "completed"]
    BY <1>2, <1>6, <2>2
  <2>5. Delivery!Complete(m)
    BY <1>1, <1>6, <2>2, <2>3, <2>4 DEF Delivery!Complete
  <2> QED
    BY <1>6, <2>5 DEF Delivery!Next
<1> QED
  BY <1>0, <1>1, <1>3, <1>4, <1>5, <1>6, EndMoves

LEMMA LoseLockRefines ==
  ASSUME TypeInv, NEW m \in Mail, LoseLock(m)
  PROVE  Delivery!Next
<1>1. /\ job[m].state = "active" /\ job' = [job EXCEPT ![m] = Stalled(job[m])]
      /\ UNCHANGED <<delivered, reported>> /\ job \in [Mail -> Job]
  BY DEF LoseLock, TypeInv, JobsOK
<1>2. \A t \in Saga \ {m} : Outcome(t)' = Outcome(t)
  BY <1>1, OutcomesKept
<1>3. m \in Saga => Outcome(m) = "queued" /\ Outcome(m)' \in {"queued", "abandoned"}
  BY <1>1, JobEndsRefine
<1> QED
  BY <1>1, <1>2, <1>3, AbandonsSome

LEMMA RestartRefines ==
  ASSUME TypeInv, Restarted
  PROVE  Delivery!Next
<1>1. UNCHANGED <<delivered, reported>>
  BY DEF Restarted
<1>2. ASSUME NEW s \in Saga
      PROVE  \/ Outcome(s)' = Outcome(s)
             \/ Outcome(s) = "queued" /\ Outcome(s)' = "abandoned"
  <2>1. s \in Mail
    BY DEF Mail
  <2>2. CASE job[s].state = "active"
    BY <2>1, <2>2, RestartMoves, JobEndsRefine
  <2>3. CASE job[s].state # "active"
    <3>1. job'[s] = job[s]
      BY <2>1, <2>3, RestartMoves
    <3> QED
      BY <3>1 DEF Outcome
  <2> QED
    BY <2>2, <2>3
<1> QED
  BY <1>1, <1>2, AbandonsSome

LEMMA StepRefines ==
  ASSUME TypeInv, AttemptsInv, DeliveryInv, [Next]_vars
  PROVE  Delivery!Next
<1>1. ASSUME NEW m \in Release, AddRelease(m) PROVE Delivery!Next
  <2>1. m \in Mail /\ m \notin Saga /\ \A n \in Mail \ {m} : job'[n] = job[n]
    BY <1>1, EmailWorkerAssumption DEF EmailWorkerAssumption, AddRelease, Mail, TypeInv, JobsOK
  <2>2. \A s \in Saga \ {m} : Outcome(s)' = Outcome(s)
    BY <2>1, OutcomesKept
  <2> QED
    BY <1>1, <2>1, <2>2, AbandonsSome DEF AddRelease
<1>2. ASSUME NEW w \in Slot, NEW m \in Mail, Take(w, m) PROVE Delivery!Next
  <2>1. job' = [job EXCEPT ![m] = Taken(job[m])] /\ job[m].state = "wait"
        /\ UNCHANGED <<delivered, reported>> /\ job \in [Mail -> Job]
    BY <1>2 DEF Take, Taking, TypeInv, JobsOK
  <2>2. job'[m].state = "active"
    BY <2>1 DEF Taken, Job
  <2>3. m \in Saga => Outcome(m)' = Outcome(m)
    BY <2>1, <2>2, OutcomeIs
  <2>4. \A s \in Saga \ {m} : Outcome(s)' = Outcome(s)
    BY <2>1, OutcomesKept
  <2> QED
    BY <2>1, <2>3, <2>4, AbandonsSome
<1>3. CASE Shutdown \/ UNCHANGED vars
  <2>1. \A s \in Saga : Outcome(s)' = Outcome(s)
    BY <1>3 DEF Shutdown, vars, Outcome
  <2> QED
    BY <1>3, <2>1, AbandonsSome DEF Shutdown, vars
<1>4. CASE Crash \/ Exit
  BY <1>4, RestartRefines DEF Crash, Exit
<1> QED
  BY <1>1, <1>2, <1>3, <1>4, Steps, AddEmailRefines, AdvanceRefines, EndRefines, LoseLockRefines

(* The worker implements ConfirmationDelivery, for any number of sagas,    *)
(* slots, attempts and faults: confirmation-email-sent tells of a message  *)
(* that was accepted, and a command completes only after it was published. *)
THEOREM ImplementsConfirmationDelivery == Spec => ImplementsDelivery
<1>1. Init => Delivery!Init
  BY InitRefines
<1>2. TypeInv /\ AttemptsInv /\ DeliveryInv /\ [Next]_vars => [Delivery!Next]_Delivery!vars
  BY StepRefines
<1> QED
  BY <1>1, <1>2, TypeAlways, AttemptsAlways, DeliveryAlways, PTL
  DEF Spec, ImplementsDelivery, Delivery!Spec

-----------------------------------------------------------------------------
(* While no lock has expired, an activation has the lock of its job, and   *)
(* so no two of them run the same one.                                     *)

HoldsItsLock == \A w \in Slot : slot[w].pc # "idle" => lock[slot[w].id] = w

(* A job that is checkpointed is past its mail; one that reports it sent   *)
(* was checkpointed.                                                       *)
BeforeCheckpoint ==
  \A w \in Slot : slot[w].pc \in {"handle", "publishFailed"} => slot[w].id \notin progress

AfterCheckpoint ==
  /\ \A w \in Slot : slot[w].pc = "publishSent" => slot[w].id \in progress
  /\ \A s \in Saga : "sent" \in reported[s] => s \in progress

CheckpointInv ==
  /\ AfterCheckpoint
  /\ lockLosses = 0 => HoldsItsLock /\ BeforeCheckpoint

LEMMA CheckpointInit == Init => CheckpointInv
BY DEF Init, CheckpointInv, AfterCheckpoint, HoldsItsLock, BeforeCheckpoint, IdleSlot

LEMMA HoldsStep ==
  ASSUME TypeInv, HoldsItsLock, [Next]_vars, lockLosses' = 0
  PROVE  HoldsItsLock'
<1>1. slot \in [Slot -> SlotRecord] /\ lock \in [Mail -> Slot \cup {Nobody}]
      /\ \A w \in Slot : slot[w].pc # "idle" => slot[w].id \in Mail
  BY DEF TypeInv, SlotsOK, LocksOK, SoundSlot
<1>2. ASSUME NEW v \in Slot, NEW m \in Mail, Take(v, m)
      PROVE  HoldsItsLock'
  <2>1. /\ job[m].state = "wait" /\ lock' = [lock EXCEPT ![m] = v]
        /\ slot'[v].id = m
        /\ \A w \in Slot \ {v} : slot'[w] = slot[w]
    BY <1>1, <1>2 DEF Take, Taking
  <2>2. lock[m] = Nobody
    BY <2>1 DEF TypeInv, LocksOK
  <2>3. \A w \in Slot : slot[w].pc # "idle" => slot[w].id # m
    BY <2>2, EmailWorkerAssumption DEF EmailWorkerAssumption, HoldsItsLock
  <2> QED
    BY <1>1, <2>1, <2>3 DEF HoldsItsLock
<1>3. ASSUME NEW v \in Slot, Advance(v)
      PROVE  HoldsItsLock'
  BY <1>1, <1>3, AdvanceMoves DEF HoldsItsLock
<1>4. ASSUME NEW v \in Slot, Ends(v)
      PROVE  HoldsItsLock'
  <2>1. slot' = [slot EXCEPT ![v] = IdleSlot]
        /\ (lock' = lock \/ (lock[slot[v].id] = v /\ lock' = [lock EXCEPT ![slot[v].id] = Nobody]))
    BY <1>4, EndMoves
  <2> QED
    BY <1>1, <2>1 DEF HoldsItsLock, IdleSlot
<1>5. ASSUME NEW m \in Mail, LoseLock(m)
      PROVE  FALSE
  BY <1>5, EmailWorkerAssumption DEF EmailWorkerAssumption, LoseLock, TypeInv, TablesOK
<1>6. CASE Crash \/ Exit
  BY <1>6, RestartMoves DEF Crash, Exit, HoldsItsLock, IdleSlot
<1>7. CASE (\E s \in Saga : AddEmail(s)) \/ (\E m \in Release : AddRelease(m)) \/ Shutdown
           \/ UNCHANGED vars
  BY <1>7 DEF AddEmail, AddRelease, Shutdown, vars, HoldsItsLock
<1> QED
  BY <1>2, <1>3, <1>4, <1>5, <1>6, <1>7, Steps

LEMMA ProgressMoves ==
  ASSUME TypeInv, [Next]_vars
  PROVE  /\ progress \subseteq progress'
         /\ \A m \in progress' \ progress : \E w \in Slot : UpdateProgress(w) /\ slot[w].id = m
<1>1. (\E w \in Slot : Ends(w)) \/ Crash \/ Exit => progress' = progress
  BY EndMoves DEF Crash, Exit, Restarted
<1>2. ASSUME NEW w \in Slot, Advance(w)
      PROVE  progress' = progress
             \/ (UpdateProgress(w) /\ progress' = progress \cup {slot[w].id})
  BY <1>2 DEF Advance, HandleSucceeds, HandleFails, UpdateProgress, PublishSent, PublishFailed,
              Publishes
<1>3. progress' = progress
      \/ \E w \in Slot : UpdateProgress(w) /\ progress' = progress \cup {slot[w].id}
  BY <1>1, <1>2, Steps DEF AddEmail, AddRelease, Take, Taking, LoseLock, Shutdown, vars
<1> QED
  BY <1>3

LEMMA AfterCheckpointStep ==
  ASSUME TypeInv, AfterCheckpoint, [Next]_vars
  PROVE  AfterCheckpoint'
<1>1. progress \subseteq progress' /\ slot \in [Slot -> SlotRecord]
  BY ProgressMoves DEF TypeInv, SlotsOK
<1>2. ASSUME NEW w \in Slot, slot'[w].pc = "publishSent"
      PROVE  slot'[w].id \in progress'
  <2>1. CASE slot'[w] = slot[w]
    BY <1>1, <1>2, <2>1 DEF AfterCheckpoint
  <2>2. CASE slot'[w] = IdleSlot
    BY <1>2, <2>2 DEF IdleSlot
  <2>3. ASSUME NEW m \in Mail, Take(w, m)
        PROVE  slot'[w].id \in progress'
    BY <1>1, <1>2, <2>3 DEF Take, Taking
  <2>4. CASE Advance(w)
    <3>1. ASSUME NEW pc \in SlotPc, Goto(w, pc)
          PROVE  pc = "publishSent"
      BY <1>1, <1>2, <3>1, GotoMoves
    <3>2. ~ HandleSucceeds(w) /\ ~ HandleFails(w)
      BY <3>1 DEF HandleSucceeds, HandleFails, SlotPc
    <3>3. ~ PublishSent(w) /\ ~ PublishFailed(w)
      BY <3>1 DEF PublishSent, PublishFailed, Publishes, SlotPc
    <3>4. UpdateProgress(w) /\ ~ Goto(w, "rethrow")
      BY <2>4, <3>1, <3>2, <3>3 DEF Advance, SlotPc
    <3>5. slot[w].id \in progress'
      BY <3>4 DEF UpdateProgress
    <3> QED
      BY <2>4, <3>5, AdvanceMoves
  <2> QED
    BY <2>1, <2>2, <2>3, <2>4, SlotsMove
<1>3. ASSUME NEW s \in Saga, "sent" \in reported'[s]
      PROVE  s \in progress'
  <2>1. CASE "sent" \in reported[s]
    BY <1>1, <2>1 DEF AfterCheckpoint
  <2>2. CASE "sent" \notin reported[s]
    <3>1. PICK w \in Slot : slot[w].id = s /\ slot[w].pc = "publishSent"
      BY <1>3, <2>2, ReportsMove DEF PublishSent
    <3> QED
      BY <1>1, <3>1 DEF AfterCheckpoint
  <2> QED
    BY <2>1, <2>2
<1> QED
  BY <1>2, <1>3 DEF AfterCheckpoint

LEMMA BeforeCheckpointStep ==
  ASSUME TypeInv, HoldsItsLock, BeforeCheckpoint, [Next]_vars
  PROVE  BeforeCheckpoint'
<1> SUFFICES ASSUME NEW w \in Slot, slot'[w].pc \in {"handle", "publishFailed"},
                    slot'[w].id \in progress'
             PROVE  FALSE
  BY DEF BeforeCheckpoint
<1>1. slot \in [Slot -> SlotRecord]
  BY DEF TypeInv, SlotsOK
<1>2. ASSUME NEW m \in Mail, Take(w, m)
      PROVE  FALSE
  <2>1. slot'[w].id = m /\ progress' = progress /\ m \notin progress
    BY <1>1, <1>2 DEF Take, Taking
  <2> QED
    BY <2>1
<1>3. slot'[w] # IdleSlot
  BY DEF IdleSlot
<1>4. CASE slot'[w] = slot[w] \/ Advance(w)
  <2>1. slot'[w].id = slot[w].id /\ slot[w].pc # "idle"
    BY <1>4, AdvanceMoves
  <2>2. slot[w].pc \in {"handle", "publishFailed"}
    <3>1. CASE slot'[w] = slot[w]
      BY <3>1
    <3>2. CASE Advance(w)
      <4>1. ASSUME NEW pc \in SlotPc, Goto(w, pc)
            PROVE  pc \in {"handle", "publishFailed"}
        BY <1>1, <4>1, GotoMoves
      <4>2. ~ UpdateProgress(w)
        BY <4>1 DEF UpdateProgress, SlotPc
      <4>3. ~ PublishSent(w)
        BY <4>1 DEF PublishSent, Publishes, SlotPc
      <4> QED
        BY <3>2, <4>2, <4>3 DEF Advance, HandleSucceeds, HandleFails, PublishFailed
    <3> QED
      BY <1>4, <3>1, <3>2
  <2>3. slot[w].id \notin progress
    BY <2>2 DEF BeforeCheckpoint
  <2>4. PICK v \in Slot : UpdateProgress(v) /\ slot[v].id = slot[w].id
    BY <2>1, <2>3, ProgressMoves
  <2>5. v = w
    BY <2>1, <2>4 DEF HoldsItsLock, UpdateProgress
  <2> QED
    BY <2>2, <2>4, <2>5 DEF UpdateProgress
<1> QED
  BY <1>2, <1>3, <1>4, SlotsMove

LEMMA CheckpointStep ==
  ASSUME TypeInv, CheckpointInv, [Next]_vars
  PROVE  CheckpointInv'
<1>1. lockLosses' = 0 => lockLosses = 0
  <2>1. (\E w \in Slot : Ends(w)) \/ (\E w \in Slot : Advance(w)) => lockLosses' = lockLosses
    BY EndMoves, AdvanceMoves DEF faults
  <2>2. (\E m \in Mail : LoseLock(m)) => lockLosses' # 0
    BY EmailWorkerAssumption DEF EmailWorkerAssumption, LoseLock, TypeInv, TablesOK
  <2> QED
    BY <2>1, <2>2, Steps
    DEF AddEmail, AddRelease, Take, Taking, Crash, Exit, Restarted, Shutdown, faults, vars
<1> QED
  BY <1>1, AfterCheckpointStep, HoldsStep, BeforeCheckpointStep DEF CheckpointInv

LEMMA CheckpointAlways == Spec => []CheckpointInv
<1>1. TypeInv /\ CheckpointInv /\ [Next]_vars => CheckpointInv'
  BY CheckpointStep
<1> QED
  BY TypeAlways, CheckpointInit, <1>1, PTL DEF Spec

(* While no lock has expired, a confirmation whose checkpoint is saved is  *)
(* not sent again by any later attempt.                                    *)
THEOREM NeverResends == Spec => NoResendAfterCheckpoint
<1>1. CheckpointInv /\ [Next]_vars
      => [\A w \in Slot : /\ lockLosses = 0
                          /\ slot[w].pc = "handle"
                          /\ slot[w].id \in progress
                          => slot'[w].pc # "updateProgress"]_vars
  BY DEF CheckpointInv, BeforeCheckpoint
<1> QED
  BY <1>1, CheckpointAlways, PTL DEF Spec, NoResendAfterCheckpoint

(* While no lock has expired, a saga that was told that its mail was sent  *)
(* is not told later that it failed: the attempt that tells so knows of    *)
(* the checkpoint that the other one saved first.                          *)
THEOREM NeverFailsAfterSent == Spec => NoFailureAfterSent
<1>1. TypeInv /\ CheckpointInv /\ [Next]_vars
      => [\A s \in Saga : /\ lockLosses = 0
                          /\ "sent" \in reported[s]
                          /\ "failed" \notin reported[s]
                          => "failed" \notin reported'[s]]_vars
  <2> SUFFICES ASSUME TypeInv, CheckpointInv, [Next]_vars, NEW s \in Saga, lockLosses = 0,
                      "sent" \in reported[s], "failed" \notin reported[s],
                      "failed" \in reported'[s]
               PROVE  FALSE
    OBVIOUS
  <2>1. PICK w \in Slot : slot[w].id = s /\ slot[w].pc = "publishFailed"
    BY ReportsMove DEF PublishFailed
  <2> QED
    BY <2>1 DEF CheckpointInv, BeforeCheckpoint, AfterCheckpoint
<1> QED
  BY <1>1, TypeAlways, CheckpointAlways, PTL DEF Spec, NoFailureAfterSent

-----------------------------------------------------------------------------
(* A new-release mail is not sent twice, and a graceful stop is harmless.  *)

LEMMA FinishedStays ==
  ASSUME TypeInv, [Next]_vars, NEW m \in Mail, Finished(job[m])
  PROVE  job'[m] = job[m]
<1>1. job[m].state \notin {"none", "wait", "active"} /\ job \in [Mail -> Job]
  BY DEF Finished, TypeInv, JobsOK
<1>2. ASSUME NEW n \in Mail, job' = [job EXCEPT ![n] = Added(@)]
      PROVE  job'[m] = job[m]
  BY <1>1, <1>2 DEF Added
<1>3. (\E w \in Slot : Ends(w)) => job'[m] = job[m]
  BY <1>1, EndMoves
<1>4. (\E n \in Mail : LoseLock(n)) => job'[m] = job[m]
  BY <1>1 DEF LoseLock
<1>5. (\E w \in Slot, n \in Mail : Take(w, n)) => job'[m] = job[m]
  BY <1>1 DEF Take, Taking
<1>6. Crash \/ Exit => job'[m] = job[m]
  BY <1>1, RestartMoves DEF Crash, Exit
<1>7. (\E s \in Saga : AddEmail(s)) \/ (\E r \in Release : AddRelease(r))
      => \E n \in Mail : job' = [job EXCEPT ![n] = Added(@)]
  BY DEF AddEmail, AddRelease, Mail
<1> QED
  BY <1>2, <1>3, <1>4, <1>5, <1>6, <1>7, Steps, AdvanceMoves DEF Shutdown, vars

Calm == crashes = 0 /\ lockLosses = 0

(* The activation whose mail was acknowledged completes the job.           *)
AckedCompletes ==
  \A m \in acked : \/ job[m].state = "completed"
                   \/ \E w \in Slot : slot[w].pc = "return" /\ slot[w].id = m

CalmInv == Calm => AckedCompletes /\ StopIsHarmless

LEMMA CalmBefore ==
  ASSUME TypeInv, [Next]_vars, Calm'
  PROVE  Calm /\ ~ Crash /\ ~ \E m \in Mail : LoseLock(m)
<1>1. crashes \in Nat /\ lockLosses \in Nat
  BY EmailWorkerAssumption DEF EmailWorkerAssumption, TypeInv, TablesOK
<1>2. ~ Crash /\ ~ \E m \in Mail : LoseLock(m)
  BY <1>1 DEF Calm, Crash, LoseLock
<1>3. (\E w \in Slot : Ends(w)) \/ (\E w \in Slot : Advance(w)) => Calm
  BY EndMoves, AdvanceMoves DEF faults, Calm
<1> QED
  BY <1>2, <1>3, Steps
  DEF AddEmail, AddRelease, Take, Taking, Exit, Restarted, Shutdown, faults, vars, Calm

LEMMA AckedMoves ==
  ASSUME TypeInv, [Next]_vars, NEW m \in acked' \ acked
  PROVE  \E w \in Slot : slot'[w].pc = "return" /\ slot'[w].id = m
<1>1. PICK w \in Slot : HandleSucceeds(w)
  <2>1. (\E w \in Slot : Ends(w)) \/ Crash \/ Exit => acked' = acked
    BY EndMoves DEF Crash, Exit, Restarted
  <2>2. \A w \in Slot : Advance(w) => acked' = acked \/ HandleSucceeds(w)
    BY DEF Advance, HandleFails, UpdateProgress, PublishSent, PublishFailed, Publishes
  <2> QED
    BY <2>1, <2>2, Steps DEF AddEmail, AddRelease, Take, Taking, LoseLock, Shutdown, vars
<1>2. slot[w].id = m /\ m \in Release
  BY <1>1 DEF HandleSucceeds
<1>3. Goto(w, "return") /\ "return" \in SlotPc
  BY <1>1, <1>2 DEF HandleSucceeds, SlotPc
<1> QED
  BY <1>2, <1>3, GotoMoves DEF TypeInv, SlotsOK

LEMMA AckedStep ==
  ASSUME TypeInv, CheckpointInv, Calm, AckedCompletes, [Next]_vars, Calm'
  PROVE  AckedCompletes'
<1> SUFFICES ASSUME NEW m \in acked',
                    ~ \E w \in Slot : slot'[w].pc = "return" /\ slot'[w].id = m
             PROVE  job'[m].state = "completed"
  BY DEF AckedCompletes
<1>1. m \in acked /\ m \in Mail
  BY AckedMoves, TypeStep DEF TypeInv, TablesOK, Mail
<1>2. CASE job[m].state = "completed"
  BY <1>1, <1>2, FinishedStays DEF Finished
<1>3. ASSUME NEW w \in Slot, slot[w].pc = "return", slot[w].id = m
      PROVE  job'[m].state = "completed"
  <2>1. slot'[w] # slot[w]
    BY <1>3
  <2>2. ~ Advance(w) /\ ~ \E n \in Mail : Take(w, n)
    BY <1>3, AdvanceMoves DEF Take, Taking
  <2>3. PICK v \in Slot : Ends(v)
    <3>1. ~ Exit
      BY <1>3 DEF Exit
    <3>2. \A v \in Slot \ {w} : ~ Advance(v) /\ ~ \E n \in Mail : Take(v, n)
      BY <2>1, AdvanceMoves DEF Take, Taking, TypeInv, SlotsOK
    <3> QED
      BY <2>1, <2>2, <3>1, <3>2, CalmBefore, Steps
      DEF AddEmail, AddRelease, Shutdown, vars
  <2>4. v = w
    BY <2>1, <2>3, EndMoves DEF TypeInv, SlotsOK
  <2>5. lock[m] = w
    BY <1>3 DEF CheckpointInv, HoldsItsLock, Calm
  <2>6. job' = [job EXCEPT ![m] = Succeeded(job[m])]
    BY <1>3, <2>3, <2>4, <2>5, EndMoves
  <2>7. Succeeded(job[m]).state = "completed" /\ job \in [Mail -> Job]
    BY <1>1, SucceededSound DEF TypeInv, JobsOK
  <2> QED
    BY <1>1, <2>6, <2>7
<1> QED
  BY <1>1, <1>2, <1>3 DEF AckedCompletes

LEMMA HarmlessStep ==
  ASSUME TypeInv, StopIsHarmless, Calm, [Next]_vars, Calm', NEW m \in Mail
  PROVE  job'[m].stalls = 0 /\ (job'[m].state = "failed" => job'[m].attempts = MaxAttempts)
<1>1. /\ job \in [Mail -> Job] /\ job[m] \in Job /\ SoundJob(job[m])
      /\ job[m].stalls = 0
      /\ job[m].state = "failed" => job[m].attempts = MaxAttempts
  BY DEF TypeInv, JobsOK, StopIsHarmless, Calm
<1>2. ASSUME NEW n \in Mail, job' = [job EXCEPT ![n] = Added(@)]
      PROVE  \/ job'[m] = job[m]
             \/ job'[m].stalls = 0 /\ job'[m].state = "wait"
  BY <1>1, <1>2 DEF Added, Job
<1>3. ASSUME NEW w \in Slot, NEW n \in Mail, Take(w, n)
      PROVE  \/ job'[m] = job[m]
             \/ job'[m].stalls = 0 /\ job'[m].state = "active"
  BY <1>1, <1>3 DEF Take, Taking, Taken, Job
<1>4. ASSUME NEW w \in Slot, Ends(w)
      PROVE  job'[m].stalls = 0 /\ (job'[m].state = "failed" => job'[m].attempts = MaxAttempts)
  <2>1. \/ job'[m] = job[m]
        \/ job[m].state = "active" /\ (job'[m] = Succeeded(job[m]) \/ job'[m] = Failed(job[m]))
    BY <1>1, <1>4, EndMoves
  <2>2. CASE job'[m] = Succeeded(job[m])
    BY <1>1, <2>2 DEF Succeeded, Job
  <2>3. CASE job[m].state = "active" /\ job'[m] = Failed(job[m])
    BY <1>1, <2>3, FailedCounts
  <2> QED
    BY <1>1, <2>1, <2>2, <2>3
<1>5. CASE Exit
  <2>1. job[m].state # "active"
    BY <1>5 DEF Exit, TypeInv, LocksOK
  <2>2. job'[m] = job[m]
    BY <1>5, <2>1, RestartMoves DEF Exit
  <2> QED
    BY <1>1, <2>2
<1>6. (\E s \in Saga : AddEmail(s)) \/ (\E r \in Release : AddRelease(r))
      => \E n \in Mail : job' = [job EXCEPT ![n] = Added(@)]
  BY DEF AddEmail, AddRelease, Mail
<1>7. (\E w \in Slot : Advance(w)) \/ Shutdown \/ UNCHANGED vars => job' = job
  BY AdvanceMoves DEF Shutdown, vars
<1> QED
  BY <1>1, <1>2, <1>3, <1>4, <1>5, <1>6, <1>7, CalmBefore, Steps

LEMMA CalmAlways == Spec => []CalmInv
<1>1. Init => CalmInv
  BY DEF Init, CalmInv, AckedCompletes, StopIsHarmless, NoJob
<1>2. TypeInv /\ CheckpointInv /\ CalmInv /\ [Next]_vars => CalmInv'
  <2> SUFFICES ASSUME TypeInv, CheckpointInv, CalmInv, [Next]_vars, Calm'
               PROVE  AckedCompletes' /\ StopIsHarmless'
    BY DEF CalmInv
  <2>1. AckedCompletes /\ StopIsHarmless /\ Calm
    BY CalmBefore DEF CalmInv
  <2>2. AckedCompletes'
    BY <2>1, AckedStep
  <2>3. StopIsHarmless'
    BY <2>1, HarmlessStep DEF StopIsHarmless
  <2> QED
    BY <2>2, <2>3
<1> QED
  BY <1>1, <1>2, TypeAlways, CheckpointAlways, PTL DEF Spec

(* While no process dies and no lock expires, a new-release mail whose     *)
(* acceptance was seen is not sent again, however often its event is       *)
(* handled and its job is added.                                           *)
THEOREM MailsReleaseOnce == Spec => []ReleaseMailedOnce
<1>1. TypeInv /\ CheckpointInv /\ CalmInv => ReleaseMailedOnce
  <2> SUFFICES ASSUME TypeInv, CheckpointInv, CalmInv, Calm, NEW w \in Slot,
                      slot[w].pc = "handle", slot[w].id \in acked
               PROVE  FALSE
    BY DEF ReleaseMailedOnce, Calm
  <2>1. slot[w].id \in Mail /\ lock[slot[w].id] = w
    BY DEF TypeInv, SlotsOK, SoundSlot, CheckpointInv, HoldsItsLock, Calm
  <2>2. job[slot[w].id].state = "active"
    BY <2>1, EmailWorkerAssumption DEF EmailWorkerAssumption, TypeInv, LocksOK
  <2>3. PICK v \in Slot : slot[v].pc = "return" /\ slot[v].id = slot[w].id
    BY <2>2 DEF CalmInv, AckedCompletes
  <2>4. v = w
    BY <2>1, <2>3 DEF CheckpointInv, HoldsItsLock, Calm
  <2> QED
    BY <2>3, <2>4
<1> QED
  BY <1>1, TypeAlways, CheckpointAlways, CalmAlways, PTL

(* However often the service is stopped, nothing stalls for it, and a job  *)
(* that is given up has had all its attempts: close() waits for what runs. *)
THEOREM StopsHarmlessly == Spec => []StopIsHarmless
<1>1. CalmInv => StopIsHarmless
  BY DEF CalmInv, StopIsHarmless, Calm
<1> QED
  BY <1>1, CalmAlways, PTL
-----------------------------------------------------------------------------
(* A job that used up its attempts was failed by an activation that knew   *)
(* this attempt for the last: who holds a job's lock has read the attempts *)
(* the job still has.                                                      *)

HoldsAttempts ==
  \A w \in Slot, m \in Mail : lock[m] = w => slot[w].attemptsMade = job[m].attempts

LEMMA HoldsAttemptsInit == Init => HoldsAttempts
BY EmailWorkerAssumption DEF EmailWorkerAssumption, Init, HoldsAttempts

LEMMA HoldsAttemptsStep ==
  ASSUME TypeInv, HoldsAttempts, [Next]_vars
  PROVE  HoldsAttempts'
<1>1. /\ slot \in [Slot -> SlotRecord] /\ lock \in [Mail -> Slot \cup {Nobody}]
      /\ job \in [Mail -> Job]
      /\ \A m \in Mail : job[m] \in Job
      /\ \A w \in Slot, m \in Mail : lock[m] = w => slot[w].pc # "idle" /\ slot[w].id = m
  BY EmailWorkerAssumption DEF EmailWorkerAssumption, TypeInv, JobsOK, SlotsOK, LocksOK
<1>2. ASSUME NEW n \in Mail, job' = [job EXCEPT ![n] = Added(@)], UNCHANGED <<lock, slot>>
      PROVE  HoldsAttempts'
  <2>1. Added(job[n]).attempts = job[n].attempts
    BY <1>1 DEF Added, Job
  <2>2. \A m \in Mail : job'[m].attempts = job[m].attempts
    BY <1>1, <1>2, <2>1
  <2> QED
    BY <1>2, <2>2 DEF HoldsAttempts
<1>3. ASSUME NEW v \in Slot, NEW n \in Mail, Take(v, n) PROVE HoldsAttempts'
  <2>1. /\ job' = [job EXCEPT ![n] = Taken(job[n])] /\ lock' = [lock EXCEPT ![n] = v]
        /\ slot'[v].attemptsMade = job[n].attempts
        /\ \A w \in Slot \ {v} : slot'[w] = slot[w]
        /\ slot[v].pc = "idle"
    BY <1>1, <1>3 DEF Take, Taking
  <2>2. Taken(job[n]).attempts = job[n].attempts
    BY <1>1 DEF Taken, Job
  <2>3. \A m \in Mail : job'[m].attempts = job[m].attempts
    BY <1>1, <2>1, <2>2
  <2>4. ASSUME NEW w \in Slot, NEW m \in Mail, lock'[m] = w
        PROVE  slot'[w].attemptsMade = job'[m].attempts
    <3>1. CASE m = n
      BY <1>1, <2>1, <2>3, <2>4, <3>1
    <3>2. CASE m # n
      <4>1. lock[m] = w
        BY <1>1, <2>1, <2>4, <3>2
      <4>2. w # v
        BY <1>1, <2>1, <4>1
      <4> QED
        BY <2>1, <2>3, <4>1, <4>2 DEF HoldsAttempts
    <3> QED
      BY <3>1, <3>2
  <2> QED
    BY <2>4 DEF HoldsAttempts
<1>4. ASSUME NEW v \in Slot, Advance(v) PROVE HoldsAttempts'
  <2>1. /\ \A w \in Slot : slot'[w].attemptsMade = slot[w].attemptsMade
        /\ UNCHANGED <<job, lock>>
    BY <1>4, AdvanceMoves
  <2> QED
    BY <2>1 DEF HoldsAttempts
<1>5. ASSUME NEW v \in Slot, Ends(v) PROVE HoldsAttempts'
  <2>1. /\ slot[v].id \in Mail
        /\ \A w \in Slot \ {v} : slot'[w] = slot[w]
        /\ \A m \in Mail \ {slot[v].id} : job'[m] = job[m] /\ lock'[m] = lock[m]
        /\ \/ lock[slot[v].id] # v /\ UNCHANGED <<job, lock>>
           \/ lock'[slot[v].id] = Nobody
    BY <1>1, <1>5, EndMoves
  <2>2. ASSUME NEW w \in Slot, NEW m \in Mail, lock'[m] = w
        PROVE  slot'[w].attemptsMade = job'[m].attempts
    <3>1. lock[m] = w /\ job'[m] = job[m]
      BY <2>1, <2>2, EmailWorkerAssumption DEF EmailWorkerAssumption
    <3>2. w # v
      BY <1>1, <2>1, <2>2, <3>1, EmailWorkerAssumption DEF EmailWorkerAssumption
    <3> QED
      BY <2>1, <3>1, <3>2 DEF HoldsAttempts
  <2> QED
    BY <2>2 DEF HoldsAttempts
<1>6. ASSUME NEW n \in Mail, LoseLock(n) PROVE HoldsAttempts'
  <2>1. /\ lock' = [lock EXCEPT ![n] = Nobody] /\ slot' = slot
        /\ \A m \in Mail \ {n} : job'[m] = job[m]
    BY <1>1, <1>6 DEF LoseLock
  <2> QED
    BY <1>1, <2>1, EmailWorkerAssumption DEF EmailWorkerAssumption, HoldsAttempts
<1>7. CASE Crash \/ Exit
  BY <1>7, RestartMoves, EmailWorkerAssumption
  DEF EmailWorkerAssumption, Crash, Exit, HoldsAttempts
<1>8. CASE Shutdown \/ UNCHANGED vars
  BY <1>8 DEF Shutdown, vars, HoldsAttempts
<1>9. (\E s \in Saga : AddEmail(s)) \/ (\E r \in Release : AddRelease(r))
      => \E n \in Mail : job' = [job EXCEPT ![n] = Added(@)] /\ UNCHANGED <<lock, slot>>
  BY DEF AddEmail, AddRelease, Mail
<1> QED
  BY <1>2, <1>3, <1>4, <1>5, <1>6, <1>7, <1>8, <1>9, Steps

LEMMA HoldsAttemptsAlways == Spec => []HoldsAttempts
<1>1. TypeInv /\ HoldsAttempts /\ [Next]_vars => HoldsAttempts'
  BY HoldsAttemptsStep
<1> QED
  BY <1>1, TypeAlways, HoldsAttemptsInit, PTL DEF Spec

UsedUp(j) == j.state = "failed" /\ j.attempts = MaxAttempts

(* The activation w is about to fail its job for the last time.            *)
GivesUp(w) == slot[w].pc = "rethrow" /\ IsFinal(slot[w].attemptsMade)

LEMMA UsedUpByLast ==
  ASSUME TypeInv, HoldsAttempts, [Next]_vars, NEW m \in Mail, UsedUp(job'[m])
  PROVE  UsedUp(job[m]) \/ \E w \in Slot : GivesUp(w) /\ slot[w].id = m
<1>1. job \in [Mail -> Job] /\ job[m] \in Job /\ SoundJob(job[m])
  BY DEF TypeInv, JobsOK
<1>2. CASE job'[m] = job[m]
  BY <1>2
<1>3. ASSUME NEW n \in Mail, job' = [job EXCEPT ![n] = Added(@)] PROVE job'[m] = job[m]
  BY <1>1, <1>3 DEF UsedUp, Added, Job
<1>4. ASSUME NEW w \in Slot, NEW n \in Mail, Take(w, n) PROVE job'[m] = job[m]
  BY <1>1, <1>4 DEF UsedUp, Take, Taking, Taken, Job
<1>5. ASSUME job[m].state = "active", job'[m] = Stalled(job[m]) PROVE FALSE
  <2>1. job'[m].attempts = job[m].attempts
    BY <1>1, <1>5, StalledCounts
  <2>2. job[m].attempts < MaxAttempts
    BY <1>1, <1>5 DEF SoundJob, Finished
  <2> QED
    BY <1>1, <2>1, <2>2, BullJobAssumption DEF BullJobAssumption, UsedUp, Job
<1>6. ASSUME NEW n \in Mail, LoseLock(n) PROVE job'[m] = job[m]
  BY <1>1, <1>5, <1>6 DEF LoseLock
<1>7. ASSUME Restarted PROVE job'[m] = job[m]
  BY <1>5, <1>7, RestartMoves
<1>8. ASSUME NEW w \in Slot, Ends(w), job'[m] # job[m]
      PROVE  GivesUp(w) /\ slot[w].id = m
  <2>1. /\ slot[w].id = m /\ lock[m] = w /\ job[m].state = "active"
        /\ \/ job'[m] = Succeeded(job[m])
           \/ slot[w].pc = "rethrow" /\ job'[m] = Failed(job[m])
    BY <1>1, <1>8, EndMoves
  <2>2. job'[m] # Succeeded(job[m])
    BY <1>1 DEF Succeeded, Job, UsedUp
  <2>3. job[m].attempts + 1 = MaxAttempts
    BY <1>1, <2>1, <2>2, FailedCounts DEF UsedUp
  <2>4. slot[w].attemptsMade = job[m].attempts
    BY <2>1 DEF HoldsAttempts
  <2>5. job[m].attempts \in Nat
    BY <1>1 DEF Job
  <2> QED
    BY <2>1, <2>2, <2>3, <2>4, <2>5, BullJobAssumption DEF BullJobAssumption, GivesUp, IsFinal
<1>9. (\E s \in Saga : AddEmail(s)) \/ (\E r \in Release : AddRelease(r))
      => \E n \in Mail : job' = [job EXCEPT ![n] = Added(@)]
  BY DEF AddEmail, AddRelease, Mail
<1>10. (\E w \in Slot : Advance(w)) \/ Shutdown \/ UNCHANGED vars => job' = job
  BY AdvanceMoves DEF Shutdown, vars
<1>11. Crash \/ Exit => Restarted
  BY DEF Crash, Exit
<1> QED
  BY <1>2, <1>3, <1>4, <1>6, <1>7, <1>8, <1>9, <1>10, <1>11, Steps

(* An activation gives up after it had a result of its saga to report.     *)
LEMMA GivesUpAfterReporting ==
  ASSUME TypeInv, [Next]_vars, NEW w \in Slot, GivesUp(w)', slot'[w].id \in Saga
  PROVE  \/ slot'[w] = slot[w]
         \/ /\ slot[w].id = slot'[w].id
            /\ slot[w].pc \in {"updateProgress", "publishSent", "publishFailed"}
            /\ reported'[slot[w].id] = reported[slot[w].id] \/ reported'[slot[w].id] # {}
<1>1. slot \in [Slot -> SlotRecord] /\ slot[w] \in SlotRecord
      /\ reported \in [Saga -> SUBSET Report]
  BY DEF TypeInv, SlotsOK, TablesOK
<1>2. slot'[w] # IdleSlot
  BY DEF GivesUp, IdleSlot
<1>3. ASSUME NEW m \in Mail, Take(w, m) PROVE FALSE
  BY <1>1, <1>3 DEF Take, Taking, GivesUp
<1>4. CASE Advance(w)
  <2>1. /\ slot'[w].id = slot[w].id /\ slot'[w].attemptsMade = slot[w].attemptsMade
        /\ slot[w].id \in Saga
    BY <1>4, AdvanceMoves
  <2>2. ASSUME NEW pc \in SlotPc, Goto(w, pc) PROVE pc = "rethrow"
    BY <1>1, <2>2, GotoMoves DEF GivesUp
  <2>3. ~HandleSucceeds(w)
    BY <2>2 DEF HandleSucceeds, SlotPc
  <2>4. ~HandleFails(w)
    BY <2>1, <2>2 DEF HandleFails, SlotPc, GivesUp
  <2>5. CASE UpdateProgress(w)
    BY <2>1, <2>5 DEF UpdateProgress
  <2>6. ASSUME NEW r, reported' \in {reported, [reported EXCEPT ![slot[w].id] = @ \cup {r}]}
        PROVE  reported'[slot[w].id] = reported[slot[w].id] \/ reported'[slot[w].id] # {}
    BY <1>1, <2>1, <2>6
  <2>7. CASE PublishSent(w) \/ PublishFailed(w)
    BY <2>1, <2>6, <2>7 DEF PublishSent, PublishFailed, Publishes
  <2> QED
    BY <1>4, <2>3, <2>4, <2>5, <2>7 DEF Advance
<1> QED
  BY <1>2, <1>3, <1>4, SlotsMove
=============================================================================
