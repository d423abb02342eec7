---------------------- MODULE RepositoryTrackingProofs ----------------------
(***************************************************************************)
(* RepositoryTracking for any subscriptions, links that are followed,      *)
(* activations, attempts, stalls and faults.                               *)
(***************************************************************************)
EXTENDS RepositoryTracking, BullJobTheorems, FiniteSetTheorems

ClickRecord == [pc: ClickPc, sub: Subscription \cup {None}, to: Target, active: BOOLEAN]

CommandRecord == [job: Job, active: BOOLEAN]

SlotRecord == [pc: {"idle", "sync", "return"}, at: 0..MaxCommands, held: BOOLEAN]

(* A link being served has a command left to publish.                      *)
ClicksOK ==
  /\ click \in [Click -> ClickRecord]
  /\ \A c \in Click : click[c].pc # "idle" => click[c].sub \in Subscription
  /\ published \in Nat
  /\ IsFiniteSet(Serving)
  /\ published + Cardinality(Serving) <= MaxCommands

CommandsOK ==
  /\ command \in [Command -> CommandRecord]
  /\ \A i \in Command : SoundJob(command[i].job)
  /\ \A i \in Command : i > published => command[i].job.state = "none"

SlotsOK ==
  /\ slot \in [Slot -> SlotRecord]
  /\ \A w \in Slot : slot[w].pc # "idle" => slot[w].at \in Command

(* Who has the lock of a job runs it, alone.                               *)
LocksOK ==
  /\ \A w \in Slot : slot[w].held =>
       slot[w].pc # "idle" /\ command[slot[w].at].job.state = "active"
  /\ \A w, v \in Slot : slot[w].held /\ slot[v].held /\ w # v => slot[v].at # slot[w].at

TablesOK ==
  /\ status \in [Subscription -> SubStatus]
  /\ request \in Subscription \cup {None}
  /\ tracked \in {"none", "active", "inactive"}
  /\ faults \in 0..MaxFaults
  /\ alone \in BOOLEAN

TypeInv == ClicksOK /\ CommandsOK /\ SlotsOK /\ LocksOK /\ TablesOK

LEMMA TypeInvImpliesTypeOK == TypeInv => TypeOK
<1> SUFFICES ASSUME TypeInv PROVE TypeOK
  OBVIOUS
<1>1. published \in 0..MaxCommands
  <2>1. Cardinality(Serving) \in Nat
    BY FS_CardinalityType DEF TypeInv, ClicksOK
  <2> QED
    BY <2>1, TrackingAssumption DEF TrackingAssumption, TypeInv, ClicksOK
<1> QED
  BY <1>1 DEF TypeInv, ClicksOK, CommandsOK, SlotsOK, LocksOK, TablesOK, TypeOK, ClickRecord,
              CommandRecord, SlotRecord

LEMMA TypeInit == Init => TypeInv
<1> SUFFICES ASSUME Init PROVE TypeInv
  OBVIOUS
<1>1. Serving = {}
  BY DEF Init, Serving, NoClick
<1>2. ClicksOK
  BY <1>1, FS_EmptySet, TrackingAssumption
  DEF TrackingAssumption, ClicksOK, Init, NoClick, ClickRecord, ClickPc, Target
<1>3. CommandsOK
  <2>1. SoundJob(NoJob) /\ NoJob \in Job /\ NoJob.state = "none"
    BY NoJobSound DEF SoundJob, NoJob
  <2>2. NoCommand \in CommandRecord /\ NoCommand.job = NoJob
    BY <2>1 DEF NoCommand, CommandRecord
  <2> QED
    BY <2>1, <2>2 DEF Init, CommandsOK
<1>4. SlotsOK /\ LocksOK
  BY TrackingAssumption
  DEF TrackingAssumption, Init, SlotsOK, LocksOK, SlotRecord, IdleSlot
<1>5. TablesOK
  BY TrackingAssumption DEF TrackingAssumption, Init, TablesOK, SubStatus
<1> QED
  BY <1>2, <1>3, <1>4, <1>5 DEF TypeInv

-----------------------------------------------------------------------------
(* The Main API's steps.                                                   *)

LEMMA ClickJoins ==
  ASSUME TypeInv, NEW c \in Click, NEW r \in ClickRecord, click[c].pc = "idle",
         published + Cardinality(Serving) < MaxCommands,
         r.pc # "idle", r.sub \in Subscription,
         click' = [click EXCEPT ![c] = r], published' = published
  PROVE  ClicksOK'
<1>1. ClicksOK /\ click \in [Click -> ClickRecord]
  BY DEF TypeInv, ClicksOK
<1>2. Serving' = Serving \cup {c} /\ c \notin Serving
  BY <1>1 DEF Serving
<1>3. IsFiniteSet(Serving') /\ Cardinality(Serving') = Cardinality(Serving) + 1
  BY <1>1, <1>2, FS_AddElement DEF ClicksOK
<1>4. Cardinality(Serving) \in Nat
  BY <1>1, FS_CardinalityType DEF ClicksOK
<1>5. published' + Cardinality(Serving') <= MaxCommands
  BY <1>1, <1>3, <1>4, TrackingAssumption DEF TrackingAssumption, ClicksOK
<1> QED
  BY <1>1, <1>3, <1>5 DEF ClicksOK

LEMMA ClickGoesOn ==
  ASSUME TypeInv, NEW c \in Click, NEW r \in ClickRecord, click[c].pc # "idle",
         r.pc # "idle", r.sub = click[c].sub,
         click' = [click EXCEPT ![c] = r], published' = published
  PROVE  ClicksOK'
<1>1. ClicksOK /\ click \in [Click -> ClickRecord]
  BY DEF TypeInv, ClicksOK
<1>2. Serving' = Serving
  BY <1>1 DEF Serving
<1> QED
  BY <1>1, <1>2 DEF ClicksOK

LEMMA ClickLeaves ==
  ASSUME TypeInv, NEW c \in Click, click[c].pc # "idle",
         click' = [click EXCEPT ![c] = NoClick], published' \in {published, published + 1}
  PROVE  ClicksOK' /\ published + 1 \in Command
<1>1. ClicksOK /\ click \in [Click -> ClickRecord] /\ published \in Nat
  BY DEF TypeInv, ClicksOK
<1>2. NoClick \in ClickRecord /\ NoClick.pc = "idle"
  BY DEF NoClick, ClickRecord, ClickPc, Target
<1>3. Serving' = Serving \ {c} /\ c \in Serving
  BY <1>1, <1>2 DEF Serving
<1>4. IsFiniteSet(Serving') /\ Cardinality(Serving') = Cardinality(Serving) - 1
  BY <1>1, <1>3, FS_RemoveElement DEF ClicksOK
<1>5. Cardinality(Serving) \in Nat /\ Cardinality(Serving') \in Nat
  BY <1>1, <1>4, FS_CardinalityType DEF ClicksOK
<1>6. published' + Cardinality(Serving') <= MaxCommands /\ published + 1 <= MaxCommands
  BY <1>1, <1>4, <1>5, TrackingAssumption DEF TrackingAssumption, ClicksOK
<1>7. published + 1 \in Command /\ published' \in Nat
  BY <1>1, <1>6, TrackingAssumption DEF TrackingAssumption, Command
<1> QED
  BY <1>1, <1>2, <1>4, <1>6, <1>7 DEF ClicksOK

LEMMA ClicksKept ==
  ASSUME ClicksOK, UNCHANGED <<click, published>>
  PROVE  ClicksOK'
BY DEF ClicksOK, Serving

LEMMA FollowLinkStep ==
  ASSUME TypeInv, NEW c \in Click, NEW s \in Subscription, NEW to \in Target, FollowLink(c, s, to)
  PROVE  TypeInv'
<1> DEFINE r == [pc |-> "update", sub |-> s, to |-> to, active |-> FALSE]
<1>1. r \in ClickRecord /\ r.pc # "idle" /\ r.sub \in Subscription
  BY DEF ClickRecord, ClickPc
<1>2. click' = [click EXCEPT ![c] = r] /\ published' = published
      /\ click[c].pc = "idle" /\ published + Cardinality(Serving) < MaxCommands
  BY DEF FollowLink
<1> HIDE DEF r
<1>3. ClicksOK'
  BY <1>1, <1>2, ClickJoins
<1>4. CommandsOK' /\ SlotsOK' /\ LocksOK' /\ TablesOK'
  BY DEF FollowLink, TypeInv, CommandsOK, SlotsOK, LocksOK, TablesOK, Quiet
<1> QED
  BY <1>3, <1>4 DEF TypeInv

LEMMA UpdateStatusStep ==
  ASSUME TypeInv, NEW c \in Click, UpdateStatus(c)
  PROVE  TypeInv'
<1> DEFINE r == [click[c] EXCEPT !.pc = "count"]
<1>1. click[c] \in ClickRecord /\ click[c].sub \in Subscription
  BY DEF UpdateStatus, TypeInv, ClicksOK
<1>2. r \in ClickRecord /\ r.pc # "idle" /\ r.sub = click[c].sub
  BY <1>1 DEF ClickRecord, ClickPc
<1>3. click' = [click EXCEPT ![c] = r] /\ published' = published /\ click[c].pc # "idle"
  BY DEF UpdateStatus
<1> HIDE DEF r
<1>4. ClicksOK'
  BY <1>2, <1>3, ClickGoesOn
<1>5. click[c].to \in SubStatus
  BY <1>1 DEF ClickRecord, Target, SubStatus
<1>6. CommandsOK' /\ SlotsOK' /\ LocksOK' /\ TablesOK'
  BY <1>5 DEF UpdateStatus, TypeInv, CommandsOK, SlotsOK, LocksOK, TablesOK
<1> QED
  BY <1>4, <1>6 DEF TypeInv

LEMMA CountStep ==
  ASSUME TypeInv, NEW c \in Click, Count(c)
  PROVE  TypeInv'
<1> DEFINE a == \E s \in Subscription : status[s] = "ACTIVE"
           r == [click[c] EXCEPT !.pc = "publish", !.active = a]
<1>1. click[c] \in ClickRecord
  BY DEF TypeInv, ClicksOK
<1>2. a \in BOOLEAN
  OBVIOUS
<1>3. click' = [click EXCEPT ![c] = r] /\ published' = published /\ click[c].pc # "idle"
  BY DEF Count
<1> HIDE DEF a
<1>4. r \in ClickRecord /\ r.pc # "idle" /\ r.sub = click[c].sub
  BY <1>1, <1>2 DEF ClickRecord, ClickPc
<1> HIDE DEF r
<1>5. ClicksOK'
  BY <1>3, <1>4, ClickGoesOn
<1>6. CommandsOK' /\ SlotsOK' /\ LocksOK' /\ TablesOK'
  BY DEF Count, TypeInv, CommandsOK, SlotsOK, LocksOK, TablesOK
<1> QED
  BY <1>5, <1>6 DEF TypeInv

LEMMA PublishStep ==
  ASSUME TypeInv, NEW c \in Click, Publish(c)
  PROVE  TypeInv'
<1> DEFINE i == published + 1
           k == [job |-> Added(NoJob), active |-> click[c].active]
<1>1. /\ published' = published + 1 /\ command' = [command EXCEPT ![i] = k]
      /\ click' = [click EXCEPT ![c] = NoClick] /\ click[c].pc # "idle"
      /\ UNCHANGED <<status, request, tracked, slot, faults, alone>>
  BY DEF Publish
<1>2. ClicksOK' /\ i \in Command
  BY <1>1, ClickLeaves
<1>3. SoundJob(Added(NoJob)) /\ Added(NoJob).state = "wait"
  BY NoJobSound, AddedSound DEF Added, NoJob
<1>4. k \in CommandRecord /\ SoundJob(k.job)
  BY <1>3 DEF CommandRecord, SoundJob, TypeInv, ClicksOK, ClickRecord
<1> HIDE DEF k
<1>5. CommandsOK /\ SlotsOK /\ LocksOK /\ published \in Nat
  BY DEF TypeInv, ClicksOK
<1>6. command[i].job.state = "none"
  BY <1>2, <1>5 DEF CommandsOK
<1>7. CommandsOK'
  <2>1. \A j \in Command : j > i => j > published /\ j # i
    BY <1>5 DEF Command
  <2> QED
    BY <1>1, <1>2, <1>4, <1>5, <2>1 DEF CommandsOK
<1>8. LocksOK'
  <2>1. \A w \in Slot : slot[w].held => slot[w].at # i /\ slot[w].at \in Command
    BY <1>5, <1>6 DEF LocksOK, SlotsOK
  <2> QED
    BY <1>1, <1>5, <2>1 DEF LocksOK, CommandsOK
<1>9. SlotsOK' /\ TablesOK'
  BY <1>1, <1>5 DEF SlotsOK, TypeInv, TablesOK
<1> QED
  BY <1>2, <1>7, <1>8, <1>9 DEF TypeInv

LEMMA FaultCounts ==
  ASSUME TypeInv, Fault
  PROVE  faults' \in 0..MaxFaults
BY TrackingAssumption DEF TrackingAssumption, Fault, TypeInv, TablesOK

LEMMA ClickFailsStep ==
  ASSUME TypeInv, NEW c \in Click, ClickFails(c)
  PROVE  TypeInv'
<1>1. ClicksOK'
  BY ClickLeaves DEF ClickFails
<1>2. faults' \in 0..MaxFaults
  BY FaultCounts DEF ClickFails
<1> QED
  BY <1>1, <1>2 DEF ClickFails, TypeInv, CommandsOK, SlotsOK, LocksOK, TablesOK

LEMMA RequestStep ==
  ASSUME TypeInv, (\E s \in Subscription : FindUnsubscribed(s)) \/ Resubscribe
  PROVE  TypeInv'
<1>1. ClicksOK'
  BY ClicksKept DEF FindUnsubscribed, Resubscribe, TypeInv
<1>2. CASE Resubscribe
  BY <1>1, <1>2
  DEF Resubscribe, TypeInv, CommandsOK, SlotsOK, LocksOK, TablesOK, SubStatus
<1>3. CASE \E s \in Subscription : FindUnsubscribed(s)
  BY <1>1, <1>3 DEF FindUnsubscribed, TypeInv, CommandsOK, SlotsOK, LocksOK, TablesOK
<1> QED
  BY <1>2, <1>3

LEMMA MainCrashStep ==
  ASSUME TypeInv, MainCrash
  PROVE  TypeInv'
<1>1. NoClick \in ClickRecord /\ NoClick.pc = "idle"
  BY DEF NoClick, ClickRecord, ClickPc, Target
<1>2. Serving' = {}
  BY <1>1 DEF MainCrash, Serving
<1>3. Cardinality(Serving) \in Nat
  BY FS_CardinalityType DEF TypeInv, ClicksOK
<1>4. ClicksOK'
  BY <1>1, <1>2, <1>3, FS_EmptySet, TrackingAssumption
  DEF TrackingAssumption, MainCrash, TypeInv, ClicksOK
<1>5. faults' \in 0..MaxFaults
  BY FaultCounts DEF MainCrash
<1> QED
  BY <1>4, <1>5 DEF MainCrash, TypeInv, CommandsOK, SlotsOK, LocksOK, TablesOK

-----------------------------------------------------------------------------
(* The scanner's steps.                                                    *)

LEMMA JobMoves ==
  ASSUME CommandsOK, NEW i \in Command, NEW j, SoundJob(j),
         command' = [command EXCEPT ![i].job = j]
  PROVE  /\ command' \in [Command -> CommandRecord]
         /\ command'[i].job = j /\ command'[i].active = command[i].active
         /\ \A k \in Command \ {i} : command'[k] = command[k]
<1> DEFINE r == [command[i] EXCEPT !.job = j]
<1>1. command[i] \in CommandRecord /\ command \in [Command -> CommandRecord] /\ j \in Job
  BY DEF CommandsOK, SoundJob
<1>2. r \in CommandRecord /\ r.job = j /\ r.active = command[i].active
  BY <1>1 DEF CommandRecord
<1>3. command' = [command EXCEPT ![i] = r]
  OBVIOUS
<1> HIDE DEF r
<1> QED
  BY <1>1, <1>2, <1>3

(* A job that was added moves, and not to "none".                          *)
LEMMA CommandsKept ==
  ASSUME CommandsOK, NEW i \in Command, NEW j, SoundJob(j), command[i].job.state # "none",
         command' = [command EXCEPT ![i].job = j], published' = published
  PROVE  CommandsOK'
<1>1. /\ command' \in [Command -> CommandRecord] /\ command'[i].job = j
      /\ \A k \in Command \ {i} : command'[k] = command[k]
  BY JobMoves
<1>2. \A k \in Command : SoundJob(command'[k].job)
  BY <1>1 DEF CommandsOK
<1>3. \A k \in Command : k > published' => command'[k].job.state = "none"
  BY <1>1 DEF CommandsOK
<1> QED
  BY <1>1, <1>2, <1>3 DEF CommandsOK

LEMMA TakeStep ==
  ASSUME TypeInv, NEW w \in Slot, NEW i \in Command, Take(w, i)
  PROVE  TypeInv'
<1> DEFINE x == [pc |-> "sync", at |-> i, held |-> TRUE]
           j == Taken(command[i].job)
<1>1. /\ slot[w].pc = "idle" /\ command[i].job.state = "wait"
      /\ command' = [command EXCEPT ![i].job = j]
      /\ slot' = [slot EXCEPT ![w] = x]
      /\ UNCHANGED <<status, request, click, published, tracked, faults, alone>>
  BY DEF Take, Waits
<1>2. CommandsOK /\ SlotsOK /\ LocksOK /\ ClicksOK /\ SoundJob(command[i].job)
  BY DEF TypeInv, CommandsOK
<1>3. SoundJob(j) /\ j.state = "active"
  BY <1>1, <1>2, TakenSound
<1>4. x \in SlotRecord /\ x.pc # "idle" /\ x.at = i
  BY DEF SlotRecord, Command
<1> HIDE DEF x, j
<1>5. CommandsOK'
  BY <1>1, <1>2, <1>3, CommandsKept
<1>6. SlotsOK'
  BY <1>1, <1>2, <1>4 DEF SlotsOK
<1>7. /\ command'[i].job = j
      /\ \A k \in Command \ {i} : command'[k] = command[k]
  BY <1>1, <1>2, <1>3, JobMoves
<1>8. slot'[w] = x /\ \A v \in Slot \ {w} : slot'[v] = slot[v]
  BY <1>1, <1>2 DEF SlotsOK
<1>9. \A v \in Slot \ {w} : slot[v].held => slot[v].at # i /\ slot[v].at \in Command
  BY <1>1, <1>2 DEF LocksOK, SlotsOK
<1>10. LocksOK'
  BY <1>2, <1>3, <1>4, <1>7, <1>8, <1>9 DEF LocksOK
<1>11. ClicksOK' /\ TablesOK'
  BY <1>1, <1>2, ClicksKept DEF TypeInv, TablesOK
<1> QED
  BY <1>5, <1>6, <1>10, <1>11 DEF TypeInv

LEMMA SyncStep ==
  ASSUME TypeInv, NEW w \in Slot, Sync(w)
  PROVE  TypeInv'
<1> DEFINE x == [slot[w] EXCEPT !.pc = "return"]
<1>1. slot[w] \in SlotRecord /\ slot \in [Slot -> SlotRecord]
  BY DEF TypeInv, SlotsOK
<1>2. x \in SlotRecord /\ x.pc = "return" /\ x.at = slot[w].at /\ x.held = slot[w].held
  BY <1>1 DEF SlotRecord
<1>3. slot' = [slot EXCEPT ![w] = x] /\ slot[w].pc = "sync"
  BY DEF Sync
<1> HIDE DEF x
<1>4. slot'[w] = x /\ \A v \in Slot \ {w} : slot'[v] = slot[v]
  BY <1>1, <1>3
<1>5. SlotsOK'
  BY <1>1, <1>2, <1>3, <1>4 DEF TypeInv, SlotsOK
<1>6. LocksOK'
  BY <1>2, <1>3, <1>4 DEF TypeInv, LocksOK, Sync
<1>7. ClicksOK' /\ CommandsOK' /\ TablesOK'
  BY ClicksKept DEF Sync, TypeInv, CommandsOK, TablesOK
<1> QED
  BY <1>5, <1>6, <1>7 DEF TypeInv

(* An activation ends or loses its lock, and moves its job if it had it.   *)
LEMMA ReleaseStep ==
  ASSUME TypeInv, NEW w \in Slot, slot[w].pc # "idle",
         NEW x \in SlotRecord, x.held = FALSE, x.pc # "idle" => x.at = slot[w].at,
         slot' = [slot EXCEPT ![w] = x],
         NEW j, SoundJob(j), j.state # "none",
         IF slot[w].held THEN command' = [command EXCEPT ![slot[w].at].job = j]
                         ELSE UNCHANGED command,
         UNCHANGED <<status, request, click, published, tracked>>,
         faults' \in 0..MaxFaults, alone' \in BOOLEAN
  PROVE  TypeInv'
<1> DEFINE i == slot[w].at
<1>1. CommandsOK /\ SlotsOK /\ LocksOK /\ ClicksOK /\ i \in Command
  BY DEF TypeInv, SlotsOK
<1>2. slot'[w] = x /\ \A v \in Slot \ {w} : slot'[v] = slot[v]
  BY <1>1 DEF SlotsOK
<1>3. SlotsOK'
  BY <1>1, <1>2 DEF SlotsOK
<1>4. ClicksOK' /\ TablesOK'
  BY <1>1, ClicksKept DEF TypeInv, TablesOK
<1>5. CASE slot[w].held
  <2>1. command[i].job.state = "active"
    BY <1>1, <1>5 DEF LocksOK
  <2>2. CommandsOK'
    BY <1>1, <1>5, <2>1, CommandsKept
  <2>3. \A k \in Command \ {i} : command'[k] = command[k]
    BY <1>1, <1>5, JobMoves
  <2>4. \A v \in Slot \ {w} : slot[v].held => slot[v].at # i /\ slot[v].at \in Command
    BY <1>1, <1>5 DEF LocksOK, SlotsOK
  <2>5. LocksOK'
    BY <1>1, <1>2, <2>3, <2>4 DEF LocksOK
  <2> QED
    BY <1>3, <1>4, <2>2, <2>5 DEF TypeInv
<1>6. CASE ~ slot[w].held
  <2>1. LocksOK' /\ CommandsOK'
    BY <1>1, <1>2, <1>6 DEF LocksOK, CommandsOK
  <2> QED
    BY <1>3, <1>4, <2>1 DEF TypeInv
<1> QED
  BY <1>5, <1>6

(* Where a job can go once its activation has ended or lost it.            *)
LEMMA EndedJob ==
  ASSUME CommandsOK, LocksOK, NEW w \in Slot, slot[w].held, slot[w].at \in Command,
         NEW j, j \in {Succeeded(command[slot[w].at].job), Failed(command[slot[w].at].job),
                       Stalled(command[slot[w].at].job)}
  PROVE  SoundJob(j) /\ j.state # "none" /\ j.state # "active"
<1>1. SoundJob(command[slot[w].at].job) /\ command[slot[w].at].job.state = "active"
  BY DEF CommandsOK, LocksOK
<1> QED
  BY <1>1, SucceededSound, FailedSound, StalledSound

LEMMA SlotEndsStep ==
  ASSUME TypeInv, NEW w \in Slot, Return(w) \/ SyncFails(w) \/ LoseLock(w)
  PROVE  TypeInv'
<1>1. CommandsOK /\ LocksOK /\ SlotsOK /\ slot[w].pc # "idle"
  BY DEF TypeInv, Return, SyncFails, LoseLock
<1>2. slot[w].at \in Command /\ slot[w] \in SlotRecord
  BY <1>1 DEF SlotsOK
<1>3. faults' \in 0..MaxFaults /\ alone' \in BOOLEAN
  BY FaultCounts DEF Return, SyncFails, LoseLock, TypeInv, TablesOK
<1> DEFINE x == [slot[w] EXCEPT !.held = FALSE]
<1>4. IdleSlot \in SlotRecord /\ IdleSlot.pc = "idle" /\ IdleSlot.held = FALSE
  BY TrackingAssumption DEF TrackingAssumption, IdleSlot, SlotRecord
<1>5. x \in SlotRecord /\ x.at = slot[w].at /\ x.held = FALSE
  BY <1>2 DEF SlotRecord
<1>6. SoundJob(NoJob) /\ \E j : SoundJob(j) /\ j.state # "none"
  <2>1. Added(NoJob).state # "none" /\ SoundJob(Added(NoJob))
    BY NoJobSound, AddedSound
  <2> QED
    BY <2>1, NoJobSound
<1>7. CASE LoseLock(w)
  <2>1. /\ slot' = [slot EXCEPT ![w] = x] /\ slot[w].held
        /\ command' = [command EXCEPT ![slot[w].at].job = Stalled(command[slot[w].at].job)]
        /\ UNCHANGED <<status, request, click, published, tracked>>
    BY <1>7 DEF LoseLock
  <2> HIDE DEF x
  <2>2. SoundJob(Stalled(command[slot[w].at].job)) /\ Stalled(command[slot[w].at].job).state # "none"
    BY <1>1, <1>2, <2>1, EndedJob
  <2> QED
    BY <1>1, <1>3, <1>5, <2>1, <2>2, ReleaseStep
<1>8. ASSUME NEW j, j \in {Succeeded(command[slot[w].at].job), Failed(command[slot[w].at].job)},
             Finish(w, j)
      PROVE  TypeInv'
  <2>1. /\ slot' = [slot EXCEPT ![w] = IdleSlot]
        /\ UNCHANGED <<status, request, click, published, tracked>>
        /\ IF slot[w].held THEN command' = [command EXCEPT ![slot[w].at].job = j]
                           ELSE UNCHANGED command
    BY <1>8 DEF Finish
  <2>2. CASE slot[w].held
    <3>1. SoundJob(j) /\ j.state # "none"
      BY <1>1, <1>2, <1>8, <2>2, EndedJob
    <3> QED
      BY <1>1, <1>3, <1>4, <2>1, <2>2, <3>1, ReleaseStep
  <2>3. CASE ~ slot[w].held
    <3>1. PICK k : SoundJob(k) /\ k.state # "none"
      BY <1>6
    <3>2. UNCHANGED command
      BY <2>1, <2>3
    <3> QED
      BY <1>1, <1>3, <1>4, <2>1, <2>3, <3>1, <3>2, ReleaseStep
  <2> QED
    BY <2>2, <2>3
<1> QED
  BY <1>7, <1>8 DEF Return, SyncFails

LEMMA ScannerCrashMoves ==
  ASSUME TypeInv, ScannerCrash
  PROVE  /\ command' \in [Command -> CommandRecord]
         /\ \A i \in Command :
              /\ command'[i].active = command[i].active
              /\ SoundJob(command'[i].job) /\ command'[i].job.state # "active"
              /\ IF command[i].job.state = "active"
                 THEN command'[i].job.state \in {"wait", "failed"}
                 ELSE command'[i] = command[i]
<1> DEFINE r(i) == IF command[i].job.state = "active"
                   THEN [command[i] EXCEPT !.job = Stalled(command[i].job)] ELSE command[i]
<1>1. command' = [i \in Command |-> r(i)]
  BY DEF ScannerCrash
<1>2. ASSUME NEW i \in Command
      PROVE  /\ r(i) \in CommandRecord /\ r(i).active = command[i].active
             /\ SoundJob(r(i).job) /\ r(i).job.state # "active"
             /\ IF command[i].job.state = "active"
                THEN r(i).job.state \in {"wait", "failed"}
                ELSE r(i) = command[i]
  <2>1. command[i] \in CommandRecord /\ SoundJob(command[i].job)
    BY DEF TypeInv, CommandsOK
  <2>2. CASE command[i].job.state = "active"
    <3>1. SoundJob(Stalled(command[i].job)) /\ Stalled(command[i].job).state \in {"wait", "failed"}
      BY <2>1, <2>2, StalledSound
    <3>2. Stalled(command[i].job) \in Job
      BY <3>1 DEF SoundJob
    <3> QED
      BY <2>1, <2>2, <3>1, <3>2 DEF CommandRecord
  <2> QED
    BY <2>1, <2>2
<1> HIDE DEF r
<1> QED
  BY <1>1, <1>2

LEMMA ScannerCrashStep ==
  ASSUME TypeInv, ScannerCrash
  PROVE  TypeInv'
<1>1. CommandsOK'
  BY ScannerCrashMoves DEF ScannerCrash, TypeInv, CommandsOK
<1>2. IdleSlot \in SlotRecord /\ IdleSlot.pc = "idle" /\ IdleSlot.held = FALSE
  BY TrackingAssumption DEF TrackingAssumption, IdleSlot, SlotRecord
<1>3. SlotsOK' /\ LocksOK'
  BY <1>2 DEF ScannerCrash, SlotsOK, LocksOK
<1>4. faults' \in 0..MaxFaults
  BY FaultCounts DEF ScannerCrash
<1>5. ClicksOK' /\ TablesOK'
  BY <1>4, ClicksKept DEF ScannerCrash, TypeInv, TablesOK
<1> QED
  BY <1>1, <1>3, <1>5 DEF TypeInv

LEMMA TypeStep ==
  ASSUME TypeInv, [Next]_vars
  PROVE  TypeInv'
<1>1. CASE UNCHANGED vars
  BY <1>1, ClicksKept DEF vars, TypeInv, CommandsOK, SlotsOK, LocksOK, TablesOK
<1> QED
  BY <1>1, FollowLinkStep, UpdateStatusStep, CountStep, PublishStep, ClickFailsStep, RequestStep,
     MainCrashStep, TakeStep, SyncStep, SlotEndsStep, ScannerCrashStep
  DEF Next, ClickStep, SlotStep

LEMMA TypeAlways == Spec => []TypeInv
<1>1. TypeInv /\ [Next]_vars => TypeInv'
  BY TypeStep
<1> QED
  BY TypeInit, <1>1, PTL DEF Spec

(* Every variable keeps to its type, for any number of subscriptions,      *)
(* links, activations, attempts and faults; a link being served always has *)
(* a command left, and whoever has the lock of a command runs it alone.    *)
THEOREM TypeCorrect == Spec => []TypeOK
BY TypeAlways, TypeInvImpliesTypeOK, PTL

-----------------------------------------------------------------------------
(* A link that is served alone.                                            *)

HasActive == \E s \in Subscription : status[s] = "ACTIVE"

Resting == \A w \in Slot : slot[w].pc = "idle"

(* Either the Main API serves it, and nothing else goes on;                *)
ServedAlone ==
  \E c \in Click : /\ Serving = {c}
                   /\ Open = {}
                   /\ Resting
                   /\ click[c].pc = "publish" => (click[c].active <=> HasActive)

(* or the scanner applies its command, which is right, and has applied it  *)
(* before any activation of it returns.                                    *)
AppliedAlone ==
  /\ Serving = {}
  /\ Open \subseteq {published}
  /\ \A w \in Slot : slot[w].pc # "idle" => slot[w].at = published
  /\ Open # {} \/ ~ Resting => (command[published].active <=> HasActive)
  /\ InStep \/ (Open # {} /\ \A w \in Slot : slot[w].pc # "return")

AloneInv == alone => ServedAlone \/ AppliedAlone

LEMMA AloneInit == Init => AloneInv
<1> SUFFICES ASSUME Init PROVE AppliedAlone
  BY DEF AloneInv
<1>1. Serving = {} /\ Resting
  BY DEF Init, Serving, Resting, NoClick, IdleSlot
<1>2. Open = {}
  BY DEF Init, Open, NoCommand, NoJob
<1>3. InStep
  BY DEF Init, InStep
<1> QED
  BY <1>1, <1>2, <1>3 DEF AppliedAlone, Resting

LEMMA AloneFollowed ==
  ASSUME TypeInv, NEW c \in Click, NEW s \in Subscription, NEW to \in Target,
         FollowLink(c, s, to), alone'
  PROVE  ServedAlone'
<1>1. Quiet /\ click \in [Click -> ClickRecord]
  BY DEF FollowLink, TypeInv, ClicksOK
<1>2. click'[c].pc = "update" /\ \A d \in Click \ {c} : click'[d] = click[d]
  BY <1>1 DEF FollowLink
<1>3. Serving' = {c}
  BY <1>1, <1>2 DEF Quiet, Serving
<1>4. Open' = {} /\ Resting'
  BY <1>1 DEF FollowLink, Quiet, Open, Resting
<1> QED
  BY <1>2, <1>3, <1>4 DEF ServedAlone

LEMMA AloneServed ==
  ASSUME TypeInv, ServedAlone \/ AppliedAlone, NEW c \in Click, UpdateStatus(c) \/ Count(c)
  PROVE  ServedAlone'
<1>1. click \in [Click -> ClickRecord] /\ click[c] \in ClickRecord /\ c \in Serving
  BY DEF TypeInv, ClicksOK, UpdateStatus, Count, Serving
<1>2. Serving = {c} /\ Open = {} /\ Resting
  BY <1>1 DEF ServedAlone, AppliedAlone
<1>3. Open' = {} /\ Resting'
  BY <1>2 DEF UpdateStatus, Count, Open, Resting
<1>4. ASSUME Count(c)
      PROVE  /\ click'[c].pc = "publish" /\ click'[c].active = HasActive /\ status' = status
             /\ \A d \in Click \ {c} : click'[d] = click[d]
  <2> DEFINE r == [click[c] EXCEPT !.pc = "publish", !.active = HasActive]
  <2>1. click' = [click EXCEPT ![c] = r] /\ status' = status
    BY <1>4 DEF Count, HasActive
  <2>2. r.pc = "publish" /\ r.active = HasActive
    BY <1>1 DEF ClickRecord
  <2> HIDE DEF r
  <2> QED
    BY <1>1, <2>1, <2>2
<1>5. ASSUME UpdateStatus(c)
      PROVE  click'[c].pc = "count" /\ \A d \in Click \ {c} : click'[d] = click[d]
  BY <1>1, <1>5 DEF UpdateStatus
<1>6. Serving' = {c}
  BY <1>2, <1>4, <1>5 DEF Serving
<1>7. click'[c].pc = "publish" => (click'[c].active <=> HasActive')
  BY <1>4, <1>5 DEF HasActive
<1> QED
  BY <1>3, <1>6, <1>7 DEF ServedAlone

LEMMA AlonePublished ==
  ASSUME TypeInv, ServedAlone \/ AppliedAlone, NEW c \in Click, Publish(c)
  PROVE  AppliedAlone'
<1>1. click \in [Click -> ClickRecord] /\ c \in Serving /\ command \in [Command -> CommandRecord]
  BY DEF TypeInv, ClicksOK, CommandsOK, Publish, Serving
<1>2. Serving = {c} /\ Open = {} /\ Resting /\ (click[c].active <=> HasActive)
  BY <1>1 DEF ServedAlone, AppliedAlone, Publish
<1>3. published' = published + 1 /\ published' \in Command
  BY ClickLeaves DEF Publish
<1>4. Serving' = {}
  BY <1>1, <1>2 DEF Publish, Serving, NoClick
<1>5. command'[published'].job.state = "wait" /\ command'[published'].active = click[c].active
      /\ \A i \in Command \ {published'} : command'[i] = command[i]
  BY <1>1, <1>3 DEF Publish, Added, NoJob
<1>6. Open' = {published'}
  BY <1>2, <1>3, <1>5 DEF Open
<1>7. Resting' /\ HasActive' = HasActive
  BY <1>2 DEF Publish, Resting, HasActive
<1> QED
  BY <1>2, <1>4, <1>5, <1>6, <1>7 DEF AppliedAlone, Resting

LEMMA AloneRequested ==
  ASSUME TypeInv, ServedAlone \/ AppliedAlone, Resubscribe, alone'
  PROVE  (ServedAlone \/ AppliedAlone)'
<1>1. status[request] # "ACTIVE" /\ request \in Subscription
      /\ status' = [status EXCEPT ![request] = "PENDING"]
      /\ status \in [Subscription -> SubStatus]
  BY DEF Resubscribe, TypeInv, TablesOK
<1>2. \A s \in Subscription : status'[s] = "ACTIVE" <=> status[s] = "ACTIVE"
  BY <1>1
<1>3. (HasActive' <=> HasActive) /\ (InStep' <=> InStep)
  BY <1>2 DEF Resubscribe, HasActive, InStep
<1> QED
  BY <1>3
  DEF Resubscribe, ServedAlone, AppliedAlone, Serving, Open, Resting

(* An activation belongs to the command that was published last.           *)
LEMMA AloneRuns ==
  ASSUME TypeInv, ServedAlone \/ AppliedAlone, NEW w \in Slot, slot[w].pc # "idle"
  PROVE  /\ AppliedAlone
         /\ slot[w].at = published
         /\ command[published].active <=> HasActive
         /\ published \in Command
         /\ slot[w].pc = "return" => InStep
BY DEF ServedAlone, AppliedAlone, Resting, TypeInv, SlotsOK

LEMMA AloneSynced ==
  ASSUME TypeInv, ServedAlone \/ AppliedAlone, NEW w \in Slot, Sync(w)
  PROVE  AppliedAlone'
<1>1. /\ AppliedAlone /\ slot[w].at = published
      /\ command[published].active <=> HasActive
  BY AloneRuns DEF Sync
<1>2. slot \in [Slot -> SlotRecord] /\ slot[w] \in SlotRecord
  BY DEF TypeInv, SlotsOK
<1>3. UNCHANGED <<click, command, published, status>>
  BY DEF Sync
<1>4. Serving' = Serving /\ Open' = Open /\ (HasActive' <=> HasActive)
  BY <1>3 DEF Serving, Open, HasActive
<1>5. InStep'
  BY <1>1, <1>3 DEF Sync, InStep, HasActive
<1>6. slot'[w].at = slot[w].at /\ \A v \in Slot \ {w} : slot'[v] = slot[v]
  <2> DEFINE x == [slot[w] EXCEPT !.pc = "return"]
  <2>1. slot' = [slot EXCEPT ![w] = x]
    BY DEF Sync
  <2>2. x.at = slot[w].at
    BY <1>2 DEF SlotRecord
  <2> HIDE DEF x
  <2> QED
    BY <1>2, <2>1, <2>2
<1>7. \A v \in Slot : slot'[v].pc # "idle" => slot'[v].at = published'
  BY <1>1, <1>3, <1>6 DEF AppliedAlone
<1> QED
  BY <1>1, <1>3, <1>4, <1>5, <1>7 DEF AppliedAlone

LEMMA AloneTaken ==
  ASSUME TypeInv, ServedAlone \/ AppliedAlone, NEW w \in Slot, NEW i \in Command, Take(w, i)
  PROVE  AppliedAlone'
<1>1. i \in Open
  BY DEF Take, Waits, Open
<1>2. AppliedAlone /\ i = published /\ (command[published].active <=> HasActive)
  BY <1>1 DEF ServedAlone, AppliedAlone
<1>3. CommandsOK /\ SoundJob(command[i].job) /\ command[i].job.state = "wait"
      /\ slot \in [Slot -> SlotRecord]
  BY DEF TypeInv, CommandsOK, SlotsOK, Take, Waits
<1>4. SoundJob(Taken(command[i].job)) /\ Taken(command[i].job).state = "active"
  BY <1>3, TakenSound
<1>5. /\ command'[i].job = Taken(command[i].job) /\ command'[i].active = command[i].active
      /\ \A k \in Command \ {i} : command'[k] = command[k]
  BY <1>3, <1>4, JobMoves DEF Take
<1>6. Open' = Open
  BY <1>1, <1>4, <1>5 DEF Open
<1>7. /\ slot'[w].pc = "sync" /\ slot'[w].at = i
      /\ \A v \in Slot \ {w} : slot'[v] = slot[v]
  BY <1>3 DEF Take
<1>8. UNCHANGED <<click, published, tracked, status>>
  BY DEF Take
<1>9. Serving' = Serving /\ (HasActive' <=> HasActive) /\ (InStep' <=> InStep)
  BY <1>8 DEF Serving, HasActive, InStep
<1>10. \A v \in Slot : slot'[v].pc # "idle" => slot'[v].at = published'
  BY <1>2, <1>7, <1>8 DEF AppliedAlone
<1>11. InStep' \/ (Open' # {} /\ \A v \in Slot : slot'[v].pc # "return")
  BY <1>2, <1>6, <1>7, <1>9 DEF AppliedAlone
<1> QED
  BY <1>2, <1>5, <1>6, <1>8, <1>9, <1>10, <1>11 DEF AppliedAlone

(* An activation ends, or loses its lock.  The command it ran stays open,  *)
(* or it returned from it.                                                 *)
LEMMA AloneEnds ==
  ASSUME TypeInv, ServedAlone \/ AppliedAlone, NEW w \in Slot,
         Return(w) \/ SyncFails(w) \/ LoseLock(w), alone'
  PROVE  AppliedAlone'
<1>1. slot[w].pc # "idle"
  BY DEF Return, SyncFails, LoseLock
<1>2. /\ AppliedAlone /\ slot[w].at = published /\ published \in Command
      /\ command[published].active <=> HasActive
      /\ slot[w].pc = "return" => InStep
  BY <1>1, AloneRuns
<1>3. CommandsOK /\ LocksOK /\ slot \in [Slot -> SlotRecord] /\ slot[w] \in SlotRecord
  BY DEF TypeInv, SlotsOK
<1>4. UNCHANGED <<click, published, tracked, status>>
  BY DEF Return, SyncFails, LoseLock, Finish
<1>5. Serving' = Serving /\ (HasActive' <=> HasActive) /\ (InStep' <=> InStep)
  BY <1>4 DEF Serving, HasActive, InStep
<1>6. /\ slot'[w].pc \in {"idle", slot[w].pc} /\ (slot'[w].pc # "idle" => slot'[w].at = slot[w].at)
      /\ \A v \in Slot \ {w} : slot'[v] = slot[v]
  <2>1. CASE Return(w) \/ SyncFails(w)
    <3>1. slot' = [slot EXCEPT ![w] = IdleSlot]
      BY <2>1 DEF Return, SyncFails, Finish
    <3>2. slot'[w].pc = "idle"
      BY <1>3, <3>1 DEF IdleSlot
    <3>3. \A v \in Slot \ {w} : slot'[v] = slot[v]
      BY <1>3, <3>1
    <3> QED
      BY <3>2, <3>3
  <2>2. CASE LoseLock(w)
    <3> DEFINE x == [slot[w] EXCEPT !.held = FALSE]
    <3>1. slot' = [slot EXCEPT ![w] = x] /\ x.pc = slot[w].pc /\ x.at = slot[w].at
      BY <1>3, <2>2 DEF LoseLock, SlotRecord
    <3> HIDE DEF x
    <3> QED
      BY <1>3, <3>1
  <2> QED
    BY <2>1, <2>2
<1>7. /\ command'[published].active = command[published].active
      /\ Open' \subseteq Open
      /\ Open' = Open \/ (slot[w].pc = "return" /\ slot[w].held)
  <2>1. CASE UNCHANGED command
    BY <2>1 DEF Open
  <2>2. ASSUME NEW j, j \in {Succeeded(command[published].job), Failed(command[published].job),
                             Stalled(command[published].job)},
               slot[w].held, command' = [command EXCEPT ![slot[w].at].job = j],
               slot[w].pc = "return" \/ j.state # "failed",
               j = Succeeded(command[published].job) => slot[w].pc = "return"
        PROVE  /\ command'[published].active = command[published].active
               /\ Open' \subseteq Open
               /\ Open' = Open \/ (slot[w].pc = "return" /\ slot[w].held)
    <3>1. SoundJob(command[published].job) /\ command[published].job.state = "active"
      BY <1>2, <1>3, <2>2 DEF CommandsOK, LocksOK
    <3>2. SoundJob(j) /\ j \in Job
      BY <2>2, <3>1, SucceededSound, FailedSound, StalledSound DEF SoundJob
    <3>3. /\ command'[published].job = j
          /\ command'[published].active = command[published].active
          /\ \A k \in Command \ {published} : command'[k] = command[k]
      BY <1>2, <1>3, <2>2, <3>2, JobMoves
    <3>4. published \in Open
      BY <1>2, <3>1 DEF Open
    <3>5. Open' \subseteq Open
      BY <3>3, <3>4 DEF Open
    <3>6. slot[w].pc # "return" => j.state = "wait"
      BY <2>2, <3>1, FailedSound, StalledSound
    <3>7. slot[w].pc # "return" => Open' = Open
      BY <1>2, <3>3, <3>4, <3>5, <3>6 DEF Open
    <3> QED
      BY <2>2, <3>3, <3>5, <3>7
  <2>3. CASE Return(w)
    BY <1>2, <2>1, <2>2, <2>3 DEF Return, Finish
  <2>4. CASE SyncFails(w) \/ LoseLock(w)
    <3>1. \/ UNCHANGED command
          \/ /\ slot[w].held
             /\ \/ command' = [command EXCEPT ![slot[w].at].job = Failed(command[published].job)]
                \/ command' = [command EXCEPT ![slot[w].at].job = Stalled(command[published].job)]
      BY <1>2, <2>4 DEF SyncFails, LoseLock, Finish
    <3>2. slot[w].held => command'[published].job.state # "failed"
      <4>1. slot[w].held => command[published].job.state = "active"
        BY <1>2, <1>3 DEF LocksOK
      <4> QED
        BY <1>2, <2>4, <4>1 DEF SyncFails, LoseLock
    <3>3. slot[w].held => SoundJob(command[published].job) /\ command[published].job.state = "active"
      BY <1>2, <1>3 DEF CommandsOK, LocksOK
    <3>4. ASSUME NEW j, slot[w].held, j \in {Failed(command[published].job),
                                             Stalled(command[published].job)},
                 command' = [command EXCEPT ![slot[w].at].job = j]
          PROVE  /\ j.state # "failed"
                 /\ j # Succeeded(command[published].job)
      <4>1. SoundJob(j) /\ j.state \in {"wait", "failed"}
        BY <3>3, <3>4, FailedSound, StalledSound
      <4>2. command'[published].job = j
        BY <1>2, <1>3, <3>4, <4>1, JobMoves
      <4>3. Succeeded(command[published].job).state = "completed"
        BY <3>3, <3>4, SucceededSound
      <4> QED
        BY <3>2, <3>4, <4>1, <4>2, <4>3
    <3> QED
      BY <2>1, <2>2, <3>1, <3>4
  <2> QED
    BY <2>3, <2>4
<1>8. \A v \in Slot : slot'[v].pc # "idle" => slot'[v].at = published'
  BY <1>2, <1>4, <1>6 DEF AppliedAlone
<1>9. InStep' \/ (Open' # {} /\ \A v \in Slot : slot'[v].pc # "return")
  BY <1>2, <1>5, <1>6, <1>7 DEF AppliedAlone
<1> QED
  BY <1>2, <1>4, <1>5, <1>7, <1>8, <1>9 DEF AppliedAlone

LEMMA AloneScannerCrash ==
  ASSUME TypeInv, ServedAlone \/ AppliedAlone, ScannerCrash, alone'
  PROVE  AppliedAlone'
<1>1. PICK w \in Slot : slot[w].pc # "idle"
  BY DEF ScannerCrash
<1>2. AppliedAlone /\ (command[published].active <=> HasActive) /\ published \in Command
  BY <1>1, AloneRuns
<1>3. UNCHANGED <<click, published, tracked, status>>
  BY DEF ScannerCrash
<1>4. Serving' = Serving /\ (HasActive' <=> HasActive) /\ (InStep' <=> InStep)
  BY <1>3 DEF Serving, HasActive, InStep
<1>5. \A v \in Slot : slot'[v].pc = "idle"
  BY DEF ScannerCrash, IdleSlot
<1>6. \A i \in Open : command'[i].job.state # "failed"
  BY DEF ScannerCrash
<1>7. Open' = Open
  BY <1>6, ScannerCrashMoves DEF Open
<1>8. command'[published].active = command[published].active
  BY <1>2, ScannerCrashMoves
<1> QED
  BY <1>2, <1>3, <1>4, <1>5, <1>7, <1>8 DEF AppliedAlone

LEMMA AloneStep ==
  ASSUME TypeInv, AloneInv, [Next]_vars
  PROVE  AloneInv'
<1> SUFFICES ASSUME alone' PROVE (ServedAlone \/ AppliedAlone)'
  BY DEF AloneInv
<1>1. ASSUME NEW c \in Click, NEW s \in Subscription, NEW to \in Target, FollowLink(c, s, to)
      PROVE  (ServedAlone \/ AppliedAlone)'
  BY <1>1, AloneFollowed
<1>2. CASE ~ \E c \in Click, s \in Subscription, to \in Target : FollowLink(c, s, to)
  <2>1. alone /\ ~ \E c \in Click : ClickFails(c)
    BY <1>2 DEF Next, ClickStep, SlotStep, vars, UpdateStatus, Count, Publish, ClickFails,
                FindUnsubscribed, Resubscribe, Take, Sync, Return, SyncFails, LoseLock, MainCrash,
                ScannerCrash, TypeInv, TablesOK
  <2>2. ServedAlone \/ AppliedAlone
    BY <2>1 DEF AloneInv
  <2>3. CASE (\E s \in Subscription : FindUnsubscribed(s)) \/ UNCHANGED vars
    BY <2>2, <2>3
    DEF FindUnsubscribed, vars, ServedAlone, AppliedAlone, Serving, Open, Resting, InStep, HasActive
  <2>4. CASE MainCrash
    <3>1. AppliedAlone
      BY <2>2, <2>4 DEF MainCrash, ServedAlone
    <3>2. Serving' = {}
      BY <2>4 DEF MainCrash, Serving, NoClick
    <3> QED
      BY <2>4, <3>1, <3>2 DEF MainCrash, AppliedAlone, Open, Resting, InStep, HasActive
  <2> QED
    BY <1>2, <2>1, <2>2, <2>3, <2>4, AloneServed, AlonePublished, AloneRequested, AloneTaken,
       AloneSynced, AloneEnds, AloneScannerCrash
    DEF Next, ClickStep, SlotStep
<1> QED
  BY <1>1, <1>2

LEMMA AloneAlways == Spec => []AloneInv
<1>1. TypeInv /\ AloneInv /\ [Next]_vars => AloneInv'
  BY AloneStep
<1> QED
  BY TypeAlways, AloneInit, <1>1, PTL DEF Spec

(* A link that is served alone puts the scanner in step, whatever went     *)
(* wrong before it and however often its command is retried, overtaken by  *)
(* an activation that lost it, or interrupted by a crash.                  *)
THEOREM AloneHeals == Spec => []AloneClickHeals
<1>1. AloneInv => AloneClickHeals
  <2> SUFFICES ASSUME AloneInv, alone, Quiet PROVE InStep
    BY DEF AloneClickHeals
  <2>1. ~ ServedAlone
    BY DEF ServedAlone, Quiet
  <2> QED
    BY <2>1 DEF AloneInv, AppliedAlone, Quiet
<1> QED
  BY <1>1, AloneAlways, PTL
=============================================================================
