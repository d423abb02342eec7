-------------------------- MODULE ReleaseScanProofs --------------------------
(***************************************************************************)
(* ReleaseScan for any repositories, subscribers, tags and bounds.         *)
(***************************************************************************)
EXTENDS ReleaseScan, BullJobTheorems, FiniteSetTheorems

TrackedRecord == [active: BOOLEAN, lastSeenTag: MaybeTag]

ScanRecord == [pc: {"idle", "next", "ask", "fill", "publish", "save"},
               rest: SUBSET Repo, found: [Repo -> MaybeTag],
               at: Repo \cup {None}, cached: MaybeTag, answer: MaybeTag]

EventRecord == [job: Job, repo: Repo \cup {None}, previousTag: MaybeTag,
                currentTag: MaybeTag, owed: SUBSET User]

HandlerRecord == [pc: {"idle", "find", "add", "save", "return"}, at: 0..MaxEvents,
                  lastSeenTag: MaybeTag, subs: SUBSET User]

(* A repository is being scanned; only a release is published.             *)
SoundScan(x) ==
  /\ x.pc \in {"ask", "fill", "publish", "save"} => x.at \in Repo
  /\ x.pc \in {"publish", "save"} => x.answer \in Tag

(* An event that was published names a repository and a release.           *)
SoundEvent(e) == /\ SoundJob(e.job)
                 /\ e.job.state # "none" => e.repo \in Repo /\ e.currentTag \in Tag
                 /\ e.job.state = "none" => e.owed = {}

ScannerOK ==
  /\ tracked \in [Repo -> TrackedRecord]
  /\ cache \in [Repo -> MaybeTag]
  /\ scan \in ScanRecord
  /\ SoundScan(scan)

QueueOK ==
  /\ published \in 0..MaxEvents
  /\ event \in [Event -> EventRecord]
  /\ \A i \in Event : SoundEvent(event[i])
  /\ \A i \in Event : i > published => event[i] = NoEvent

(* The worker handles an event only while its job is active.               *)
HandlerOK ==
  /\ handler \in HandlerRecord
  /\ handler.pc # "idle" => handler.at \in Event /\ event[handler.at].job.state = "active"

TablesOK ==
  /\ subscribed \in [Repo -> SUBSET User]
  /\ projection \in [Repo -> MaybeTag]
  /\ mails \subseteq Repo \X User \X Tag
  /\ entitled \subseteq Repo \X User \X Tag

WorldOK ==
  /\ latest \in [Repo -> MaybeTag]
  /\ releases \in 0..MaxReleases
  /\ faults \in 0..MaxFaults

TypeInv == ScannerOK /\ QueueOK /\ HandlerOK /\ TablesOK /\ WorldOK

LEMMA TypeInvImpliesTypeOK == TypeInv => TypeOK
BY DEF TypeInv, ScannerOK, QueueOK, HandlerOK, TablesOK, WorldOK, TypeOK,
       TrackedRecord, ScanRecord, EventRecord, HandlerRecord

LEMMA MaxEventsType == MaxEvents \in Nat
BY ScanAssumption, FS_CardinalityType DEF ScanAssumption, MaxEvents

-----------------------------------------------------------------------------
LEMMA NoEventSound == NoEvent \in EventRecord /\ SoundEvent(NoEvent)
BY NoJobSound DEF NoEvent, EventRecord, SoundEvent, SoundJob, NoJob, MaybeTag

LEMMA TypeInvInit == Init => TypeInv
<1> SUFFICES ASSUME Init PROVE TypeInv
  OBVIOUS
<1> USE DEF Init
<1>1. ScannerOK
  BY DEF ScannerOK, TrackedRecord, ScanRecord, SoundScan, IdleScan, MaybeTag
<1>2. QueueOK
  BY NoEventSound, MaxEventsType DEF QueueOK
<1>3. HandlerOK
  BY MaxEventsType DEF HandlerOK, HandlerRecord, IdleHandler, MaybeTag
<1>4. TablesOK
  BY DEF TablesOK, MaybeTag
<1>5. WorldOK
  BY ScanAssumption DEF ScanAssumption, WorldOK
<1> QED
  BY <1>1, <1>2, <1>3, <1>4, <1>5 DEF TypeInv

(* The next repository's turn, or the announcement of a release.           *)
LEMMA ReturnedSound ==
  ASSUME ScannerOK, scan.at \in Repo, NEW answer \in MaybeTag
  PROVE  Returned(answer) \in ScanRecord /\ SoundScan(Returned(answer))
<1>1. NextRepo \in ScanRecord /\ SoundScan(NextRepo)
  BY DEF ScannerOK, NextRepo, ScanRecord, SoundScan, MaybeTag
<1>2. ASSUME answer # None
      PROVE  LET x == [scan EXCEPT !.pc = "publish", !.answer = answer] IN
               x \in ScanRecord /\ SoundScan(x)
  BY <1>2 DEF ScannerOK, ScanRecord, SoundScan, MaybeTag
<1> QED
  BY <1>1, <1>2 DEF Returned

LEMMA NextRepoSound ==
  ASSUME ScannerOK
  PROVE  NextRepo \in ScanRecord /\ SoundScan(NextRepo)
BY DEF ScannerOK, NextRepo, ScanRecord, SoundScan, MaybeTag

LEMMA IdleScanSound == IdleScan \in ScanRecord /\ SoundScan(IdleScan)
BY DEF IdleScan, ScanRecord, SoundScan, MaybeTag

LEMMA ScannerStep == TypeInv /\ [Next]_vars => ScannerOK'
<1> SUFFICES ASSUME TypeInv, [Next]_vars PROVE ScannerOK'
  OBVIOUS
<1> USE DEF TypeInv
<1>1. CASE UNCHANGED scanner
  BY <1>1 DEF scanner, ScannerOK
<1>2. ASSUME NEW n \in Repo, SyncTracking(n) PROVE ScannerOK'
  <2>1. [tracked[n] EXCEPT !.active = ~@] \in TrackedRecord
    BY DEF ScannerOK, TrackedRecord
  <2>2. tracked' = [tracked EXCEPT ![n] = [tracked[n] EXCEPT !.active = ~@]]
    BY <1>2 DEF SyncTracking, ScannerOK
  <2>3. tracked' \in [Repo -> TrackedRecord]
    BY <2>1, <2>2 DEF ScannerOK
  <2> QED
    BY <1>2, <2>3 DEF SyncTracking, ScannerOK
<1>3. CASE StartScan
  <2> DEFINE found == [n \in Repo |-> IF tracked[n].active THEN tracked[n].lastSeenTag
                                      ELSE None]
             rest == {n \in Repo : tracked[n].active}
  <2>1. found \in [Repo -> MaybeTag] /\ rest \in SUBSET Repo
    BY DEF ScannerOK, TrackedRecord, MaybeTag
  <2>2. scan' = [IdleScan EXCEPT !.pc = "next", !.rest = rest, !.found = found]
    BY <1>3 DEF StartScan
  <2> HIDE DEF found, rest
  <2>3. scan' \in ScanRecord /\ SoundScan(scan')
    BY <2>1, <2>2 DEF IdleScan, ScanRecord, SoundScan, MaybeTag
  <2> QED
    BY <1>3, <2>3 DEF StartScan, ScannerOK
<1>4. ASSUME NEW n \in Repo, ReadCache(n) PROVE ScannerOK'
  <2>1. cache[n] \in MaybeTag
    BY DEF ScannerOK
  <2>2. scan' \in ScanRecord /\ SoundScan(scan')
    BY <1>4, <2>1 DEF ReadCache, ScannerOK, ScanRecord, SoundScan
  <2> QED
    BY <1>4, <2>2 DEF ReadCache, ScannerOK
<1>5. CASE AskGitHub
  <2>1. /\ scan.at \in Repo /\ scan.cached \in MaybeTag
        /\ latest[scan.at] \in MaybeTag
    BY <1>5 DEF AskGitHub, ScannerOK, SoundScan, ScanRecord, WorldOK
  <2>2. CASE scan' = Returned(scan.cached)
    <3>1. Returned(scan.cached) \in ScanRecord /\ SoundScan(Returned(scan.cached))
      BY <2>1, ReturnedSound
    <3> QED
      BY <1>5, <2>2, <3>1 DEF AskGitHub, ScannerOK
  <2>3. CASE scan' = [scan EXCEPT !.pc = "fill", !.answer = latest[scan.at]]
    <3>1. scan' \in ScanRecord /\ SoundScan(scan')
      BY <2>1, <2>3 DEF ScannerOK, ScanRecord, SoundScan
    <3> QED
      BY <1>5, <3>1 DEF AskGitHub, ScannerOK
  <2> QED
    BY <1>5, <2>2, <2>3 DEF AskGitHub
<1>6. CASE FillCache
  <2>1. scan.at \in Repo /\ scan.answer \in MaybeTag
    BY <1>6 DEF FillCache, ScannerOK, SoundScan, ScanRecord
  <2>2. Returned(scan.answer) \in ScanRecord /\ SoundScan(Returned(scan.answer))
    BY <2>1, ReturnedSound
  <2> QED
    BY <1>6, <2>1, <2>2 DEF FillCache, ScannerOK
<1>7. CASE Publish
  <2>1. scan' \in ScanRecord /\ SoundScan(scan')
    BY <1>7 DEF Publish, ScannerOK, ScanRecord, SoundScan
  <2> QED
    BY <1>7, <2>1 DEF Publish, ScannerOK
<1>8. CASE SaveTag
  <2>1. scan.at \in Repo /\ scan.answer \in MaybeTag
    BY <1>8 DEF SaveTag, ScannerOK, SoundScan, ScanRecord
  <2>2. [tracked[scan.at] EXCEPT !.lastSeenTag = scan.answer] \in TrackedRecord
    BY <2>1 DEF ScannerOK, TrackedRecord
  <2>3. tracked' = [tracked EXCEPT ![scan.at] =
                      [tracked[scan.at] EXCEPT !.lastSeenTag = scan.answer]]
    BY <1>8, <2>1 DEF SaveTag, ScannerOK
  <2>4. tracked' \in [Repo -> TrackedRecord]
    BY <2>1, <2>2, <2>3 DEF ScannerOK
  <2> QED
    BY <1>8, <2>4, NextRepoSound DEF SaveTag, ScannerOK
<1>9. CASE RepoFails
  BY <1>9, NextRepoSound DEF RepoFails, ScannerOK
<1>10. CASE EndScan \/ ScannerCrash
  BY <1>10, IdleScanSound DEF EndScan, ScannerCrash, ScannerOK
<1> QED
  BY <1>1, <1>2, <1>3, <1>4, <1>5, <1>6, <1>7, <1>8, <1>9, <1>10
  DEF Next, vars, scanner, ScanStep, HandlerStep, Release, Confirm, Cancel, TakeEvent,
      FindSubscriptions, AddBulkEmails, UpdateLastSeenTag, Return, HandlerFails, MainCrash

-----------------------------------------------------------------------------
(* The job of one published event moves.                                   *)
LEMMA JobMoves ==
  ASSUME TypeInv, NEW i \in Event, event[i].job.state # "none",
         NEW job, SoundJob(job), job.state # "none",
         event' = [event EXCEPT ![i].job = job], UNCHANGED published
  PROVE  /\ QueueOK'
         /\ event'[i].job = job
         /\ \A k \in Event \ {i} : event'[k] = event[k]
         /\ \A k \in Event : /\ event'[k].repo = event[k].repo
                             /\ event'[k].previousTag = event[k].previousTag
                             /\ event'[k].currentTag = event[k].currentTag
                             /\ event'[k].owed = event[k].owed
<1> DEFINE e == [event[i] EXCEPT !.job = job]
<1>1. event \in [Event -> EventRecord] /\ event[i] \in EventRecord
  BY DEF TypeInv, QueueOK
<1>2. event' = [event EXCEPT ![i] = e]
  BY <1>1
<1>3. /\ e \in EventRecord
      /\ e.job = job /\ e.repo = event[i].repo /\ e.previousTag = event[i].previousTag
      /\ e.currentTag = event[i].currentTag /\ e.owed = event[i].owed
  BY <1>1 DEF EventRecord, SoundJob
<1>4. SoundEvent(e)
  BY <1>3 DEF SoundEvent, TypeInv, QueueOK
<1>5. i <= published
  BY DEF TypeInv, QueueOK, Event, NoEvent, NoJob
<1> HIDE DEF e
<1>6. event'[i] = e /\ \A k \in Event \ {i} : event'[k] = event[k]
  BY <1>1, <1>2
<1>7. event' \in [Event -> EventRecord]
  BY <1>1, <1>2, <1>3
<1>8. \A k \in Event : SoundEvent(event'[k])
  BY <1>4, <1>6 DEF TypeInv, QueueOK
<1>9. \A k \in Event : k > published' => event'[k] = NoEvent
  BY <1>5, <1>6 DEF TypeInv, QueueOK, Event
<1>10. published' \in 0..MaxEvents
  BY DEF TypeInv, QueueOK
<1> QED
  BY <1>3, <1>6, <1>7, <1>8, <1>9, <1>10 DEF QueueOK

(* What each step of the event worker makes of the job it handles.         *)
LEMMA TakeEventMoves ==
  ASSUME TypeInv, NEW i \in Event, TakeEvent(i)
  PROVE  /\ event[i].job.state = "wait" /\ event' = [event EXCEPT ![i].job = Taken(event[i].job)]
         /\ SoundJob(Taken(event[i].job)) /\ Taken(event[i].job).state = "active"
         /\ UNCHANGED published
<1>1. SoundJob(event[i].job)
  BY DEF TypeInv, QueueOK, SoundEvent
<1> QED
  BY <1>1, TakenSound DEF TakeEvent, Waits, TypeInv, QueueOK, EventRecord

LEMMA EndMoves ==
  ASSUME TypeInv, Return \/ HandlerFails \/ MainCrash
  PROVE  /\ handler.at \in Event /\ event[handler.at].job.state = "active"
         /\ UNCHANGED published /\ handler' = IdleHandler
         /\ \E job : /\ SoundJob(job)
                     /\ job.state \in {"completed", "wait", "failed"}
                     /\ job.state = "completed" => Return
                     /\ event' = [event EXCEPT ![handler.at].job = job]
<1>1. handler.at \in Event /\ event[handler.at].job.state = "active"
  BY DEF TypeInv, HandlerOK, Return, HandlerFails, MainCrash
<1>2. SoundJob(event[handler.at].job)
  BY <1>1 DEF TypeInv, QueueOK, SoundEvent
<1> DEFINE job == event[handler.at].job
<1>3. CASE Return
  <2>1. SoundJob(Succeeded(job)) /\ Succeeded(job).state = "completed"
    BY <1>2, SucceededSound
  <2>2. event' = [event EXCEPT ![handler.at].job = Succeeded(job)]
    BY <1>1, <1>3 DEF Return
  <2> QED
    BY <1>1, <1>3, <2>1, <2>2 DEF Return
<1>4. CASE HandlerFails
  <2>1. SoundJob(Failed(job)) /\ Failed(job).state \in {"wait", "failed"}
    BY <1>1, <1>2, FailedSound
  <2>2. event' = [event EXCEPT ![handler.at].job = Failed(job)]
    BY <1>1, <1>4 DEF HandlerFails
  <2> QED
    BY <1>1, <1>4, <2>1, <2>2 DEF HandlerFails
<1>5. CASE MainCrash
  <2>1. SoundJob(Stalled(job)) /\ Stalled(job).state \in {"wait", "failed"}
    BY <1>1, <1>2, StalledSound
  <2>2. event' = [event EXCEPT ![handler.at].job = Stalled(job)]
    BY <1>1, <1>5 DEF MainCrash
  <2> QED
    BY <1>1, <1>5, <2>1, <2>2 DEF MainCrash
<1> QED
  BY <1>3, <1>4, <1>5

(* What a publication appends.                                             *)
LEMMA PublishAppends ==
  ASSUME TypeInv, Publish
  PROVE  /\ published + 1 \in Event /\ published' = published + 1
         /\ event[published + 1] = NoEvent
         /\ \A k \in Event \ {published + 1} : event'[k] = event[k]
         /\ event'[published + 1] =
              [job |-> Added(NoJob), repo |-> scan.at, previousTag |-> scan.found[scan.at],
               currentTag |-> scan.answer, owed |-> subscribed[scan.at]]
         /\ Added(NoJob).state = "wait"
         /\ scan.at \in Repo
         /\ QueueOK'
<1> DEFINE e == [job |-> Added(NoJob), repo |-> scan.at, previousTag |-> scan.found[scan.at],
                 currentTag |-> scan.answer, owed |-> subscribed[scan.at]]
           n == published + 1
<1>1. scan.at \in Repo /\ scan.answer \in Tag /\ scan.found[scan.at] \in MaybeTag
      /\ subscribed[scan.at] \in SUBSET User
  BY DEF Publish, TypeInv, ScannerOK, SoundScan, ScanRecord, TablesOK
<1>2. SoundJob(Added(NoJob)) /\ Added(NoJob).state = "wait"
  BY NoJobSound, AddedSound DEF Added, NoJob
<1>3. e \in EventRecord
  BY <1>1, <1>2 DEF EventRecord, SoundJob, MaybeTag
<1>4. SoundEvent(e)
  BY <1>1, <1>2 DEF SoundEvent
<1>5. n \in Event /\ published' = n /\ published \in Nat /\ n > published
  BY MaxEventsType DEF Publish, Event, TypeInv, QueueOK
<1>6. event \in [Event -> EventRecord] /\ event[n] = NoEvent
  BY <1>5 DEF TypeInv, QueueOK
<1>7. event' = [event EXCEPT ![n] = e]
  BY DEF Publish
<1> HIDE DEF e
<1>8. event'[n] = e /\ \A k \in Event \ {n} : event'[k] = event[k]
  BY <1>5, <1>6, <1>7
<1>9. event' \in [Event -> EventRecord]
  BY <1>3, <1>6, <1>7
<1>10. \A k \in Event : SoundEvent(event'[k])
  BY <1>4, <1>8 DEF TypeInv, QueueOK
<1>11. \A k \in Event : k > published' => event'[k] = NoEvent
  BY <1>5, <1>8 DEF TypeInv, QueueOK, Event
<1>12. QueueOK'
  BY <1>5, <1>9, <1>10, <1>11 DEF QueueOK, Event
<1> QED
  BY <1>1, <1>2, <1>5, <1>6, <1>8, <1>12 DEF e

(* A cancellation only takes the user off what is still owed.              *)
LEMMA CancelTakesOff ==
  ASSUME TypeInv, NEW n \in Repo, NEW u \in User, Cancel(n, u)
  PROVE  /\ QueueOK'
         /\ \A k \in Event :
              /\ event'[k].job = event[k].job /\ event'[k].repo = event[k].repo
              /\ event'[k].previousTag = event[k].previousTag
              /\ event'[k].currentTag = event[k].currentTag
              /\ event'[k].owed = IF event[k].repo = n /\ event[k].job.state # "completed"
                                  THEN event[k].owed \ {u} ELSE event[k].owed
<1>1. ASSUME NEW k \in Event
      PROVE  /\ event'[k] \in EventRecord /\ SoundEvent(event'[k])
             /\ k > published => event'[k] = NoEvent
             /\ event'[k].job = event[k].job /\ event'[k].repo = event[k].repo
             /\ event'[k].previousTag = event[k].previousTag
             /\ event'[k].currentTag = event[k].currentTag
             /\ event'[k].owed = IF event[k].repo = n /\ event[k].job.state # "completed"
                                 THEN event[k].owed \ {u} ELSE event[k].owed
  <2>1. /\ event[k] \in EventRecord /\ SoundEvent(event[k])
        /\ k > published => event[k] = NoEvent
    BY DEF TypeInv, QueueOK
  <2>2. event'[k] = IF event[k].repo = n /\ event[k].job.state # "completed"
                    THEN [event[k] EXCEPT !.owed = @ \ {u}] ELSE event[k]
    BY DEF Cancel
  <2>3. CASE event[k].repo = n /\ event[k].job.state # "completed"
    <3>1. event'[k] = [event[k] EXCEPT !.owed = event[k].owed \ {u}]
      BY <2>2, <2>3
    <3>2. event'[k] \in EventRecord
      BY <2>1, <3>1 DEF EventRecord
    <3>3. /\ event'[k].job = event[k].job /\ event'[k].repo = event[k].repo
          /\ event'[k].previousTag = event[k].previousTag
          /\ event'[k].currentTag = event[k].currentTag
          /\ event'[k].owed = event[k].owed \ {u}
      BY <2>1, <3>1 DEF EventRecord
    <3>4. ~(k > published)
      BY <2>1, <2>3, ScanAssumption DEF NoEvent, ScanAssumption
    <3> QED
      BY <2>1, <2>3, <3>2, <3>3, <3>4 DEF SoundEvent
  <2>4. CASE ~(event[k].repo = n /\ event[k].job.state # "completed")
    BY <2>1, <2>2, <2>4
  <2> QED
    BY <2>3, <2>4
<1>2. event' \in [Event -> EventRecord]
  <2>1. event' = [k \in Event |-> event'[k]]
    BY DEF Cancel
  <2> QED
    BY <1>1, <2>1
<1> QED
  BY <1>1, <1>2 DEF QueueOK, Cancel, TypeInv

LEMMA QueueStep == TypeInv /\ [Next]_vars => QueueOK'
<1> SUFFICES ASSUME TypeInv, [Next]_vars PROVE QueueOK'
  OBVIOUS
<1>1. CASE UNCHANGED queue
  BY <1>1 DEF queue, QueueOK, TypeInv
<1>2. CASE Publish
  BY <1>2, PublishAppends
<1>3. ASSUME NEW n \in Repo, NEW u \in User, Cancel(n, u) PROVE QueueOK'
  BY <1>3, CancelTakesOff
<1>4. ASSUME NEW i \in Event, TakeEvent(i) PROVE QueueOK'
  <2>1. Taken(event[i].job).state # "none" /\ event[i].job.state # "none"
    BY <1>4, TakeEventMoves
  <2> QED
    BY <1>4, <2>1, TakeEventMoves, JobMoves
<1>5. CASE Return \/ HandlerFails \/ MainCrash
  <2>1. PICK job : /\ SoundJob(job) /\ job.state \in {"completed", "wait", "failed"}
                   /\ event' = [event EXCEPT ![handler.at].job = job]
    BY <1>5, EndMoves
  <2>2. handler.at \in Event /\ event[handler.at].job.state # "none" /\ UNCHANGED published
    BY <1>5, EndMoves
  <2> QED
    BY <2>1, <2>2, JobMoves
<1> QED
  BY <1>1, <1>2, <1>3, <1>4, <1>5
  DEF Next, vars, queue, ScanStep, HandlerStep, Release, SyncTracking, Confirm, StartScan,
      ReadCache, AskGitHub, FillCache, SaveTag, RepoFails, EndScan, ScannerCrash,
      FindSubscriptions, AddBulkEmails, UpdateLastSeenTag

LEMMA IdleHandlerSound == IdleHandler \in HandlerRecord /\ IdleHandler.pc = "idle"
BY MaxEventsType DEF IdleHandler, HandlerRecord, MaybeTag

(* A step inside the handler moves only its pc and its subscriptions.      *)
LEMMA HandlerMoves ==
  ASSUME TypeInv, handler.pc # "idle",
         NEW pc \in {"find", "add", "save", "return"}, NEW subs \in SUBSET User,
         handler' = [handler EXCEPT !.pc = pc, !.subs = subs], UNCHANGED event
  PROVE  HandlerOK'
BY DEF TypeInv, HandlerOK, HandlerRecord

LEMMA HandlerOKStep == TypeInv /\ [Next]_vars => HandlerOK'
<1> SUFFICES ASSUME TypeInv, [Next]_vars PROVE HandlerOK'
  OBVIOUS
<1>1. handler \in HandlerRecord
  BY DEF TypeInv, HandlerOK
<1>2. CASE UNCHANGED <<event, handler>>
  BY <1>2 DEF HandlerOK, TypeInv
<1>3. CASE Publish
  <2>1. UNCHANGED handler
    BY <1>3 DEF Publish, mainApi
  <2>2. handler.pc # "idle" => event'[handler.at] = event[handler.at]
    <3> SUFFICES ASSUME handler.pc # "idle" PROVE handler.at \in Event \ {published + 1}
      BY <1>3, PublishAppends
    <3> QED
      BY <1>3, PublishAppends DEF TypeInv, HandlerOK, NoEvent, NoJob
  <2> QED
    BY <2>1, <2>2 DEF TypeInv, HandlerOK
<1>4. ASSUME NEW n \in Repo, NEW u \in User, Cancel(n, u) PROVE HandlerOK'
  <2>1. UNCHANGED handler /\ \A k \in Event : event'[k].job = event[k].job
    BY <1>4, CancelTakesOff DEF Cancel
  <2> QED
    BY <2>1 DEF TypeInv, HandlerOK
<1>5. ASSUME NEW i \in Event, TakeEvent(i) PROVE HandlerOK'
  <2>1. event'[i].job.state = "active"
    BY <1>5, TakeEventMoves, JobMoves
  <2>2. event[i].repo \in Repo
    BY <1>5, TakeEventMoves DEF TypeInv, QueueOK, SoundEvent
  <2> DEFINE pc == IF NotifySubscribers(i) THEN "find"
                   ELSE SaveOr(projection[event[i].repo], i)
  <2>3. handler' = [pc |-> pc, at |-> i, lastSeenTag |-> projection[event[i].repo],
                    subs |-> {}]
    BY <1>5 DEF TakeEvent
  <2>4. pc \in {"find", "save", "return"}
    BY DEF SaveOr
  <2>5. i \in 0..MaxEvents /\ projection[event[i].repo] \in MaybeTag
    BY <2>2, MaxEventsType DEF Event, TypeInv, TablesOK
  <2> HIDE DEF pc
  <2>6. handler' \in HandlerRecord /\ handler'.at = i
    BY <2>3, <2>4, <2>5 DEF HandlerRecord
  <2> QED
    BY <2>1, <2>6 DEF HandlerOK
<1>6. CASE FindSubscriptions
  <2> DEFINE subs == subscribed[Handled.repo]
             pc == IF subs = {} THEN SaveOr(handler.lastSeenTag, handler.at) ELSE "add"
  <2>1. Handled.repo \in Repo
    BY <1>6 DEF FindSubscriptions, TypeInv, HandlerOK, QueueOK, SoundEvent, Handled
  <2>2. subs \in SUBSET User /\ pc \in {"find", "add", "save", "return"}
    BY <2>1 DEF TypeInv, TablesOK, SaveOr
  <2>3. handler' = [handler EXCEPT !.pc = pc, !.subs = subs]
    BY <1>1, <1>6 DEF FindSubscriptions, HandlerRecord
  <2> HIDE DEF subs, pc
  <2>4. handler.pc # "idle" /\ UNCHANGED event
    BY <1>6 DEF FindSubscriptions, queue
  <2> QED
    BY <2>2, <2>3, <2>4, HandlerMoves
<1>7. CASE AddBulkEmails \/ UpdateLastSeenTag
  <2>1. PICK pc \in {"find", "add", "save", "return"} : handler' = [handler EXCEPT !.pc = pc]
    BY <1>7 DEF AddBulkEmails, UpdateLastSeenTag, SaveOr
  <2>2. handler' = [handler EXCEPT !.pc = pc, !.subs = handler.subs]
        /\ handler.subs \in SUBSET User
    BY <1>1, <2>1 DEF HandlerRecord
  <2>3. handler.pc # "idle" /\ UNCHANGED event
    BY <1>7 DEF AddBulkEmails, UpdateLastSeenTag, queue
  <2> QED
    BY <2>2, <2>3, HandlerMoves
<1>8. CASE Return \/ HandlerFails \/ MainCrash
  BY <1>8, EndMoves, IdleHandlerSound DEF HandlerOK
<1> QED
  BY <1>2, <1>3, <1>4, <1>5, <1>6, <1>7, <1>8
  DEF Next, vars, queue, mainApi, ScanStep, HandlerStep, Release, SyncTracking, Confirm,
      StartScan, ReadCache, AskGitHub, FillCache, SaveTag, RepoFails, EndScan, ScannerCrash

LEMMA TablesStep == TypeInv /\ [Next]_vars => TablesOK'
<1> SUFFICES ASSUME TypeInv, [Next]_vars PROVE TablesOK'
  OBVIOUS
<1>1. CASE UNCHANGED <<subscribed, projection, mails, entitled>>
  BY <1>1 DEF TablesOK, TypeInv
<1>2. ASSUME NEW n \in Repo, NEW u \in User, Confirm(n, u) PROVE TablesOK'
  <2>1. ASSUME NEW j \in Event, Notifies(j) PROVE MailFor(j, u) \in Repo \X User \X Tag
    BY <2>1 DEF Notifies, MailFor, TypeInv, QueueOK, SoundEvent
  <2>2. entitled' \subseteq Repo \X User \X Tag
    BY <1>2, <2>1 DEF Confirm, TablesOK, TypeInv
  <2> QED
    BY <1>2, <2>2 DEF Confirm, TablesOK, TypeInv
<1>6. ASSUME NEW n \in Repo, NEW u \in User, Cancel(n, u) PROVE TablesOK'
  BY <1>6 DEF Cancel, TablesOK, TypeInv
<1>7. CASE Publish
  <2>1. scan.at \in Repo /\ scan.answer \in Tag
    BY <1>7 DEF Publish, TypeInv, ScannerOK, SoundScan
  <2>2. entitled' \subseteq Repo \X User \X Tag
    BY <1>7, <2>1 DEF Publish, TablesOK, TypeInv
  <2> QED
    BY <1>7, <2>2 DEF Publish, TablesOK, TypeInv
<1>3. handler.pc # "idle" => Handled.repo \in Repo /\ Handled.currentTag \in Tag
  BY DEF TypeInv, HandlerOK, QueueOK, SoundEvent, Handled
<1>4. CASE AddBulkEmails
  BY <1>3, <1>4 DEF AddBulkEmails, MailFor, Handled, TypeInv, TablesOK, HandlerOK, HandlerRecord
<1>5. CASE UpdateLastSeenTag
  BY <1>3, <1>5 DEF UpdateLastSeenTag, TypeInv, TablesOK, MaybeTag
<1> QED
  BY <1>1, <1>2, <1>4, <1>5, <1>6, <1>7
  DEF Next, vars, mainApi, ScanStep, HandlerStep, Release, SyncTracking,
      StartScan, ReadCache, AskGitHub, FillCache, SaveTag, RepoFails, EndScan,
      ScannerCrash, TakeEvent, FindSubscriptions, Return, HandlerFails, MainCrash

LEMMA WorldStep == TypeInv /\ [Next]_vars => WorldOK'
<1> SUFFICES ASSUME TypeInv, [Next]_vars PROVE WorldOK'
  OBVIOUS
<1> USE ScanAssumption DEF ScanAssumption, TypeInv, WorldOK
<1>1. CASE UNCHANGED <<latest, releases, faults>>
  BY <1>1
<1>2. ASSUME NEW n \in Repo, NEW t \in MaybeTag, Release(n, t) PROVE WorldOK'
  BY <1>2 DEF Release
<1>3. CASE UNCHANGED <<latest, releases>> /\ Fault
  BY <1>3 DEF Fault
<1> QED
  BY <1>1, <1>2, <1>3
  DEF Next, vars, gitHub, ScanStep, HandlerStep, SyncTracking, Confirm, Cancel,
      StartScan, ReadCache, AskGitHub, FillCache, Publish, SaveTag, RepoFails, EndScan,
      ScannerCrash, TakeEvent, FindSubscriptions, AddBulkEmails, UpdateLastSeenTag, Return,
      HandlerFails, MainCrash

LEMMA TypeInvariance == Spec => []TypeInv
<1>1. TypeInv /\ [Next]_vars => TypeInv'
  BY ScannerStep, QueueStep, HandlerOKStep, TablesStep, WorldStep DEF TypeInv
<1> QED
  BY <1>1, TypeInvInit, PTL DEF Spec

(* Every reachable state is well typed: no more events are published than  *)
(* the bound allows, no job is retried or stalls beyond its limits, and    *)
(* only known repositories and releases get into events and mail jobs.     *)
THEOREM TypeCorrect == Spec => []TypeOK
BY TypeInvariance, TypeInvImpliesTypeOK, PTL

-----------------------------------------------------------------------------
(* A release is announced before its tag is saved.                         *)
Announced(n, t) == \E i \in 1..published : event[i].repo = n /\ event[i].currentTag = t

SeenInv == /\ scan.pc = "save" => Announced(scan.at, scan.answer)
           /\ \A n \in Repo : tracked[n].lastSeenTag # None =>
                Announced(n, tracked[n].lastSeenTag)

(* Events are never taken back.                                            *)
LEMMA AnnouncedStable ==
  ASSUME TypeInv, [Next]_vars, NEW n, NEW t, Announced(n, t)
  PROVE  Announced(n, t)'
<1>1. PICK i \in 1..published : event[i].repo = n /\ event[i].currentTag = t
  BY DEF Announced
<1>2. i \in Event /\ published \in Nat
  BY MaxEventsType DEF Event, TypeInv, QueueOK
<1>3. CASE UNCHANGED queue
  BY <1>1, <1>3 DEF queue, Announced
<1>4. CASE Publish
  <2>1. event'[i] = event[i] /\ published' = published + 1
    BY <1>1, <1>2, <1>4, PublishAppends
  <2>2. i \in 1..published'
    BY <1>1, <1>2, <2>1
  <2> QED
    BY <1>1, <2>1, <2>2 DEF Announced
<1>5. ASSUME NEW m \in Repo, NEW u \in User, Cancel(m, u) PROVE Announced(n, t)'
  BY <1>1, <1>2, <1>5, CancelTakesOff DEF Announced, Cancel
<1>6. ASSUME NEW k \in Event, TakeEvent(k) PROVE Announced(n, t)'
  <2>1. Taken(event[k].job).state # "none" /\ event[k].job.state # "none"
    BY <1>6, TakeEventMoves
  <2>2. event'[i].repo = event[i].repo /\ event'[i].currentTag = event[i].currentTag
    BY <1>2, <1>6, <2>1, TakeEventMoves, JobMoves
  <2> QED
    BY <1>1, <1>6, <2>2 DEF Announced, TakeEvent
<1>7. CASE Return \/ HandlerFails \/ MainCrash
  <2>1. PICK job : /\ SoundJob(job) /\ job.state \in {"completed", "wait", "failed"}
                   /\ event' = [event EXCEPT ![handler.at].job = job]
    BY <1>7, EndMoves
  <2>2. handler.at \in Event /\ event[handler.at].job.state # "none" /\ UNCHANGED published
    BY <1>7, EndMoves
  <2>3. event'[i].repo = event[i].repo /\ event'[i].currentTag = event[i].currentTag
    BY <1>2, <2>1, <2>2, JobMoves
  <2> QED
    BY <1>1, <2>2, <2>3 DEF Announced
<1> QED
  BY <1>3, <1>4, <1>5, <1>6, <1>7
  DEF Next, vars, queue, ScanStep, HandlerStep, Release, SyncTracking, Confirm, StartScan,
      ReadCache, AskGitHub, FillCache, SaveTag, RepoFails, EndScan, ScannerCrash,
      FindSubscriptions, AddBulkEmails, UpdateLastSeenTag

LEMMA SeenInvInit == Init => SeenInv
BY DEF Init, SeenInv, IdleScan

(* Only a publication brings the scan to the point where it saves a tag.   *)
LEMMA ElsewhereNothingToSave ==
  ASSUME TypeInv, [Next]_vars
  PROVE  UNCHANGED scan \/ Publish \/ scan'.pc # "save"
<1>1. scan \in ScanRecord
  BY DEF TypeInv, ScannerOK
<1>2. NextRepo.pc = "next" /\ IdleScan.pc = "idle"
  BY <1>1 DEF NextRepo, ScanRecord, IdleScan
<1>3. ASSUME NEW answer PROVE Returned(answer).pc # "save"
  BY <1>1, <1>2 DEF Returned, ScanRecord
<1>4. CASE AskGitHub \/ FillCache
  BY <1>1, <1>3, <1>4 DEF AskGitHub, FillCache, ScanRecord
<1>5. CASE StartScan
  BY <1>5 DEF StartScan, IdleScan
<1>6. ASSUME NEW n \in Repo, ReadCache(n) PROVE scan'.pc # "save"
  BY <1>1, <1>6 DEF ReadCache, ScanRecord
<1>7. CASE SaveTag \/ RepoFails \/ EndScan \/ ScannerCrash
  BY <1>2, <1>7 DEF SaveTag, RepoFails, EndScan, ScannerCrash
<1> QED
  BY <1>4, <1>5, <1>6, <1>7
  DEF Next, vars, scanner, ScanStep, HandlerStep, Release, SyncTracking, Confirm, Cancel,
      TakeEvent, FindSubscriptions, AddBulkEmails, UpdateLastSeenTag, Return,
      HandlerFails, MainCrash

LEMMA SeenInvStep == TypeInv /\ SeenInv /\ [Next]_vars => SeenInv'
<1> SUFFICES ASSUME TypeInv, SeenInv, [Next]_vars PROVE SeenInv'
  OBVIOUS
<1>1. ASSUME scan'.pc = "save" PROVE Announced(scan.at, scan.answer)' 
  <2>1. CASE UNCHANGED scan
    BY <1>1, <2>1, AnnouncedStable DEF SeenInv
  <2>2. CASE Publish
    <3>1. /\ published + 1 \in 1..published'
          /\ event'[published + 1].repo = scan.at
          /\ event'[published + 1].currentTag = scan.answer
      BY <2>2, PublishAppends DEF Event, TypeInv, QueueOK
    <3>2. scan'.at = scan.at /\ scan'.answer = scan.answer
      BY <2>2 DEF Publish, TypeInv, ScannerOK, ScanRecord
    <3> QED
      BY <3>1, <3>2 DEF Announced
  <2>3. \/ UNCHANGED scan \/ Publish \/ scan'.pc # "save"
    BY ElsewhereNothingToSave
  <2> QED
    BY <1>1, <2>1, <2>2, <2>3
<1>2. ASSUME NEW n \in Repo, tracked'[n].lastSeenTag # None
      PROVE  Announced(n, tracked[n].lastSeenTag)'
  <2>1. CASE tracked'[n].lastSeenTag = tracked[n].lastSeenTag
    BY <1>2, <2>1, AnnouncedStable DEF SeenInv
  <2>2. CASE SaveTag /\ n = scan.at
    <3>1. tracked'[n].lastSeenTag = scan.answer
      BY <2>2 DEF SaveTag, TypeInv, ScannerOK, TrackedRecord
    <3>2. PICK t : t = scan.answer /\ Announced(n, t)
      BY <2>2 DEF SaveTag, SeenInv
    <3>3. Announced(n, t)'
      BY <3>2, AnnouncedStable
    <3> QED
      BY <3>1, <3>2, <3>3
  <2>3. tracked'[n].lastSeenTag = tracked[n].lastSeenTag \/ (SaveTag /\ n = scan.at)
    <3>1. CASE UNCHANGED tracked
      BY <3>1
    <3>2. ASSUME NEW m \in Repo, SyncTracking(m)
          PROVE  tracked'[n].lastSeenTag = tracked[n].lastSeenTag
      <4>1. tracked' = [tracked EXCEPT ![m] = [tracked[m] EXCEPT !.active = ~@]]
        BY <3>2 DEF SyncTracking, TypeInv, ScannerOK
      <4>2. tracked[m] \in TrackedRecord /\ tracked \in [Repo -> TrackedRecord]
        BY DEF TypeInv, ScannerOK
      <4>3. [tracked[m] EXCEPT !.active = ~@].lastSeenTag = tracked[m].lastSeenTag
        BY <4>2 DEF TrackedRecord
      <4> QED
        BY <4>1, <4>2, <4>3
    <3>3. CASE SaveTag /\ n # scan.at
      <4>1. tracked'[n] = tracked[n]
        BY <3>3 DEF SaveTag, TypeInv, ScannerOK
      <4> QED
        BY <4>1
    <3> QED
      BY <3>1, <3>2, <3>3
      DEF Next, vars, scanner, ScanStep, HandlerStep, Release, Confirm, Cancel, StartScan,
          ReadCache, AskGitHub, FillCache, Publish, RepoFails, EndScan, ScannerCrash,
          TakeEvent, FindSubscriptions, AddBulkEmails, UpdateLastSeenTag, Return,
          HandlerFails, MainCrash
  <2> QED
    BY <2>1, <2>2, <2>3
<1> QED
  BY <1>1, <1>2 DEF SeenInv

(* The scanner never marks a tag as seen that it has not announced,        *)
(* whatever fails between the two.                                         *)
THEOREM SeenTagsWereAnnounced == Spec => []SeenWasAnnounced
<1>1. SeenInv => SeenWasAnnounced
  BY DEF SeenInv, SeenWasAnnounced, Announced
<1> QED
  BY <1>1, TypeInvariance, SeenInvInit, SeenInvStep, PTL DEF Spec

-----------------------------------------------------------------------------
(* Who is owed a mail gets it.                                             *)
Mailed(i, u) == MailFor(i, u) \in mails

(* Who is owed one is still ACTIVE until the event is handled: whoever     *)
(* cancels is struck off.                                                  *)
OwedAreActive ==
  \A i \in Event : event[i].job.state # "completed" =>
    \A u \in event[i].owed : u \in subscribed[event[i].repo]

(* Those the worker has read, and those that became ACTIVE since.          *)
OwedWereRead ==
  handler.pc = "add" => \A u \in Handled.owed : u \in handler.subs

OwedHaveJobs ==
  handler.pc \in {"save", "return"} /\ NotifySubscribers(handler.at) =>
    \A u \in Handled.owed : Mailed(handler.at, u)

OwedInv == OwedAreActive /\ OwedWereRead /\ OwedHaveJobs /\ OwedAreMailed

LEMMA OwedInvInit == Init => OwedInv
BY DEF Init, OwedInv, OwedAreActive, OwedWereRead, OwedHaveJobs, OwedAreMailed,
       NoEvent, NoJob, IdleHandler

(* Only a publication and a cancellation change what is owed, and a        *)
(* cancellation only takes away.                                           *)
OwedStep(i) ==
  /\ event'[i].repo = event[i].repo
  /\ event'[i].previousTag = event[i].previousTag
  /\ event'[i].currentTag = event[i].currentTag
  /\ event'[i].owed \subseteq event[i].owed
  /\ event[i].job.state = "completed" => event'[i].job.state = "completed"
  /\ event'[i].job.state = "completed" =>
       event[i].job.state = "completed" \/ (Return /\ i = handler.at)

LEMMA OwedSteps ==
  ASSUME TypeInv, [Next]_vars, NEW i \in Event, ~Publish \/ event[i].job.state # "none"
  PROVE  OwedStep(i)
<1>1. CASE UNCHANGED event
  BY <1>1 DEF OwedStep
<1>2. CASE Publish
  <2>1. i # published + 1
    BY <1>2, PublishAppends DEF NoEvent, NoJob
  <2> QED
    BY <1>2, <2>1, PublishAppends DEF OwedStep
<1>3. ASSUME NEW n \in Repo, NEW u \in User, Cancel(n, u) PROVE OwedStep(i)
  <2>1. /\ event'[i].job = event[i].job /\ event'[i].repo = event[i].repo
        /\ event'[i].previousTag = event[i].previousTag
        /\ event'[i].currentTag = event[i].currentTag
        /\ event'[i].owed = IF event[i].repo = n /\ event[i].job.state # "completed"
                            THEN event[i].owed \ {u} ELSE event[i].owed
    BY <1>3, CancelTakesOff
  <2> QED
    BY <2>1 DEF OwedStep
<1>4. ASSUME NEW k \in Event, TakeEvent(k) PROVE OwedStep(i)
  <2> DEFINE job == Taken(event[k].job)
  <2>1. /\ job.state = "active" /\ event[k].job.state = "wait"
        /\ SoundJob(job) /\ UNCHANGED published
        /\ event' = [event EXCEPT ![k].job = job]
    BY <1>4, TakeEventMoves
  <2> HIDE DEF job
  <2>2. /\ event'[k].job = job
        /\ i # k => event'[i] = event[i]
        /\ event'[i].repo = event[i].repo /\ event'[i].previousTag = event[i].previousTag
        /\ event'[i].currentTag = event[i].currentTag /\ event'[i].owed = event[i].owed
    BY <2>1, JobMoves
  <2> QED
    BY <2>1, <2>2 DEF OwedStep
<1>5. CASE Return \/ HandlerFails \/ MainCrash
  <2>1. PICK job : /\ SoundJob(job) /\ job.state \in {"completed", "wait", "failed"}
                   /\ job.state = "completed" => Return
                   /\ event' = [event EXCEPT ![handler.at].job = job]
    BY <1>5, EndMoves
  <2>2. /\ handler.at \in Event /\ event[handler.at].job.state = "active"
        /\ UNCHANGED published
    BY <1>5, EndMoves
  <2>3. /\ event'[handler.at].job = job
        /\ i # handler.at => event'[i] = event[i]
        /\ event'[i].repo = event[i].repo /\ event'[i].previousTag = event[i].previousTag
        /\ event'[i].currentTag = event[i].currentTag /\ event'[i].owed = event[i].owed
    BY <2>1, <2>2, JobMoves
  <2> QED
    BY <2>1, <2>2, <2>3 DEF OwedStep
<1> QED
  BY <1>1, <1>2, <1>3, <1>4, <1>5
  DEF Next, vars, queue, ScanStep, HandlerStep, Release, SyncTracking, Confirm, StartScan,
      ReadCache, AskGitHub, FillCache, SaveTag, RepoFails, EndScan, ScannerCrash,
      FindSubscriptions, AddBulkEmails, UpdateLastSeenTag

(* Mail jobs are never removed.                                            *)
LEMMA MailsStay == [Next]_vars => mails \subseteq mails'
BY DEF Next, vars, mainApi, scanner, queue, gitHub, ScanStep, HandlerStep, Release,
       SyncTracking, Confirm, Cancel, StartScan, ReadCache, AskGitHub, FillCache, Publish,
       SaveTag, RepoFails, EndScan, ScannerCrash, TakeEvent, FindSubscriptions,
       AddBulkEmails, UpdateLastSeenTag, Return, HandlerFails, MainCrash

LEMMA OwedAreActiveStep == TypeInv /\ OwedInv /\ [Next]_vars => OwedAreActive'
<1> SUFFICES ASSUME TypeInv, OwedInv, [Next]_vars,
                    NEW i \in Event, event'[i].job.state # "completed",
                    NEW u \in event'[i].owed
             PROVE  u \in subscribed'[event'[i].repo]
  BY DEF OwedAreActive
<1>1. CASE event[i].job.state = "none"
  <2>1. CASE Publish
    <3>1. CASE i = published + 1
      BY <2>1, <3>1, PublishAppends DEF Publish, mainApi
    <3>2. CASE i # published + 1
      BY <1>1, <2>1, <3>2, PublishAppends DEF TypeInv, QueueOK, SoundEvent
    <3> QED
      BY <3>1, <3>2
  <2>2. CASE ~Publish
    <3>1. event'[i].owed \subseteq event[i].owed
      BY <2>2, OwedSteps DEF OwedStep
    <3> QED
      BY <1>1, <3>1 DEF TypeInv, QueueOK, SoundEvent
  <2> QED
    BY <2>1, <2>2
<1>2. CASE event[i].job.state # "none"
  <2>1. event'[i].repo = event[i].repo /\ u \in event[i].owed /\ event[i].repo \in Repo
    BY <1>2, OwedSteps DEF OwedStep, TypeInv, QueueOK, SoundEvent
  <2>2. event[i].job.state # "completed"
    BY <1>2, OwedSteps DEF OwedStep
  <2>3. u \in subscribed[event[i].repo]
    BY <2>1, <2>2 DEF OwedInv, OwedAreActive
  <2>4. ASSUME NEW n \in Repo, NEW v \in User, Cancel(n, v)
        PROVE  u \in subscribed'[event[i].repo]
    <3>1. event[i].repo = n => u # v
      BY <2>2, <2>4, CancelTakesOff
    <3>2. subscribed' = [subscribed EXCEPT ![n] = subscribed[n] \ {v}]
      BY <2>4 DEF Cancel
    <3> QED
      BY <2>1, <2>3, <3>1, <3>2 DEF TypeInv, TablesOK
  <2>5. ASSUME NEW n \in Repo, NEW v \in User, Confirm(n, v)
        PROVE  u \in subscribed'[event[i].repo]
    BY <2>1, <2>3, <2>5 DEF Confirm, TypeInv, TablesOK
  <2>6. ASSUME UNCHANGED subscribed PROVE u \in subscribed'[event[i].repo]
    BY <2>3, <2>6
  <2>7. \/ UNCHANGED subscribed
        \/ \E n \in Repo, v \in User : Confirm(n, v) \/ Cancel(n, v)
    BY DEF Next, vars, mainApi, ScanStep, HandlerStep, Release, SyncTracking, StartScan,
           ReadCache, AskGitHub, FillCache, Publish, SaveTag, RepoFails, EndScan,
           ScannerCrash, TakeEvent, FindSubscriptions, AddBulkEmails, UpdateLastSeenTag,
           Return, HandlerFails, MainCrash
  <2>8. u \in subscribed'[event[i].repo]
    BY <2>4, <2>5, <2>6, <2>7
  <2> QED
    BY <2>1, <2>8
<1> QED
  BY <1>1, <1>2

LEMMA OwedWereReadStep == TypeInv /\ OwedInv /\ [Next]_vars => OwedWereRead'
<1> SUFFICES ASSUME TypeInv, OwedInv, [Next]_vars, handler'.pc = "add",
                    NEW u \in event'[handler'.at].owed
             PROVE  u \in handler'.subs
  BY DEF OwedWereRead, Handled
<1>1. handler \in HandlerRecord
  BY DEF TypeInv, HandlerOK
<1>2. CASE UNCHANGED handler
  <2>1. /\ handler.pc = "add" /\ handler.at \in Event
        /\ event[handler.at].job.state = "active"
    BY <1>2 DEF TypeInv, HandlerOK
  <2>2. u \in event[handler.at].owed
    BY <1>2, <2>1, OwedSteps DEF OwedStep
  <2> QED
    BY <1>2, <2>1, <2>2 DEF OwedInv, OwedWereRead, Handled
<1>3. CASE FindSubscriptions
  <2>1. /\ handler.at \in Event /\ event[handler.at].job.state = "active"
        /\ UNCHANGED event
    BY <1>3 DEF FindSubscriptions, TypeInv, HandlerOK, queue
  <2>2. handler'.subs = subscribed[Handled.repo] /\ handler'.at = handler.at
    BY <1>1, <1>3 DEF FindSubscriptions, HandlerRecord
  <2> QED
    BY <2>1, <2>2 DEF OwedInv, OwedAreActive, Handled
<1>4. ASSUME NEW i \in Event, TakeEvent(i) PROVE FALSE
  BY <1>4 DEF TakeEvent, SaveOr
<1>5. CASE AddBulkEmails \/ UpdateLastSeenTag
  BY <1>1, <1>5 DEF AddBulkEmails, UpdateLastSeenTag, SaveOr, HandlerRecord
<1>6. CASE Return \/ HandlerFails \/ MainCrash
  BY <1>6 DEF Return, HandlerFails, MainCrash, IdleHandler
<1> QED
  BY <1>2, <1>3, <1>4, <1>5, <1>6
  DEF Next, vars, mainApi, ScanStep, HandlerStep, Release, SyncTracking, Confirm, Cancel,
      StartScan, ReadCache, AskGitHub, FillCache, Publish, SaveTag, RepoFails, EndScan,
      ScannerCrash

LEMMA OwedHaveJobsStep == TypeInv /\ OwedInv /\ [Next]_vars => OwedHaveJobs'
<1> SUFFICES ASSUME TypeInv, OwedInv, [Next]_vars, handler'.pc \in {"save", "return"},
                    event'[handler'.at].previousTag # None,
                    NEW u \in event'[handler'.at].owed
             PROVE  <<event'[handler'.at].repo, u, event'[handler'.at].currentTag>> \in mails'
  BY DEF OwedHaveJobs, Handled, Mailed, MailFor, NotifySubscribers
<1> DEFINE a == handler.at
<1>1. handler \in HandlerRecord
  BY DEF TypeInv, HandlerOK
<1>2. ASSUME handler.pc # "idle", handler'.at = a
      PROVE  /\ a \in Event /\ event[a].job.state = "active"
             /\ u \in event[a].owed /\ NotifySubscribers(a)
             /\ event'[a].repo = event[a].repo /\ event'[a].currentTag = event[a].currentTag
  <2>1. a \in Event /\ event[a].job.state = "active"
    BY <1>2 DEF TypeInv, HandlerOK
  <2> QED
    BY <1>2, <2>1, OwedSteps DEF OwedStep, NotifySubscribers
<1>3. CASE UNCHANGED handler \/ UpdateLastSeenTag
  <2>1. handler.pc \in {"save", "return"} /\ handler'.at = a
    BY <1>1, <1>3 DEF UpdateLastSeenTag, HandlerRecord
  <2>2. Mailed(a, u)
    BY <1>2, <2>1 DEF OwedInv, OwedHaveJobs, Handled
  <2> QED
    BY <1>2, <2>1, <2>2, MailsStay DEF Mailed, MailFor
<1>4. CASE FindSubscriptions
  <2>1. handler.pc # "idle" /\ handler'.at = a /\ UNCHANGED event
        /\ subscribed[event[a].repo] = {}
    BY <1>1, <1>4 DEF FindSubscriptions, HandlerRecord, Handled, queue
  <2>2. u \in subscribed[event[a].repo]
    BY <1>2, <2>1 DEF OwedInv, OwedAreActive
  <2> QED
    BY <2>1, <2>2
<1>5. CASE AddBulkEmails
  <2>1. handler.pc = "add" /\ handler'.at = a
    BY <1>1, <1>5 DEF AddBulkEmails, HandlerRecord
  <2>2. u \in handler.subs
    BY <1>2, <2>1 DEF OwedInv, OwedWereRead, Handled
  <2>3. <<event[a].repo, u, event[a].currentTag>> \in mails'
    BY <1>5, <2>2 DEF AddBulkEmails, Handled, MailFor
  <2> QED
    BY <1>2, <2>1, <2>3
<1>6. ASSUME NEW i \in Event, TakeEvent(i) PROVE FALSE
  <2>1. handler'.at = i /\ (NotifySubscribers(i) => handler'.pc = "find")
    BY <1>6 DEF TakeEvent
  <2>2. event'[i].previousTag = event[i].previousTag
    BY <1>6, TakeEventMoves, OwedSteps DEF OwedStep
  <2> QED
    BY <2>1, <2>2 DEF NotifySubscribers
<1>7. CASE Return \/ HandlerFails \/ MainCrash
  BY <1>7 DEF Return, HandlerFails, MainCrash, IdleHandler
<1> QED
  BY <1>3, <1>4, <1>5, <1>6, <1>7
  DEF Next, vars, mainApi, ScanStep, HandlerStep, Release, SyncTracking, Confirm, Cancel,
      StartScan, ReadCache, AskGitHub, FillCache, Publish, SaveTag, RepoFails, EndScan,
      ScannerCrash

LEMMA OwedAreMailedStep == TypeInv /\ OwedInv /\ [Next]_vars => OwedAreMailed'
<1> SUFFICES ASSUME TypeInv, OwedInv, [Next]_vars, NEW i \in Event,
                    event'[i].job.state = "completed", event'[i].previousTag # None,
                    NEW u \in event'[i].owed
             PROVE  <<event'[i].repo, u, event'[i].currentTag>> \in mails'
  BY DEF OwedAreMailed, NotifySubscribers, MailFor
<1>1. ~Publish \/ event[i].job.state # "none"
  <2> SUFFICES ASSUME Publish, event[i].job.state = "none" PROVE FALSE
    OBVIOUS
  <2> QED
    BY PublishAppends
<1>2. OwedStep(i)
  BY <1>1, OwedSteps
<1>3. Mailed(i, u)
  <2>1. CASE event[i].job.state = "completed"
    BY <1>2, <2>1 DEF OwedStep, OwedInv, OwedAreMailed, Mailed, NotifySubscribers
  <2>2. CASE Return /\ i = handler.at
    BY <1>2, <2>2 DEF OwedStep, Return, OwedInv, OwedHaveJobs, Handled, NotifySubscribers
  <2> QED
    BY <1>2, <2>1, <2>2 DEF OwedStep
<1> QED
  BY <1>2, <1>3, MailsStay DEF OwedStep, Mailed, MailFor

LEMMA OwedInvariance == Spec => []OwedInv
<1>1. TypeInv /\ OwedInv /\ [Next]_vars => OwedInv'
  BY OwedAreActiveStep, OwedWereReadStep, OwedHaveJobsStep, OwedAreMailedStep DEF OwedInv
<1> QED
  BY <1>1, TypeInvariance, OwedInvInit, PTL DEF Spec

(* Who was ACTIVE when a release was announced, and still is when its      *)
(* event has been handled, has a new-release job for it: for any number of *)
(* subscribers, retries, restarts and confirmations in between.            *)
THEOREM OwedAlwaysMailed == Spec => []OwedAreMailed
<1>1. OwedInv => OwedAreMailed
  BY DEF OwedInv
<1> QED
  BY <1>1, OwedInvariance, PTL

-----------------------------------------------------------------------------
(* The tag that the handler has read is the row's: no other activation     *)
(* writes it (concurrency: 1).                                             *)
ReadIsCurrent ==
  handler.pc \in {"find", "add", "save"} =>
    projection[Handled.repo] = handler.lastSeenTag

TagIsSaved ==
  handler.pc = "return" => projection[Handled.repo] = Handled.currentTag

ProjectionInv == ReadIsCurrent /\ TagIsSaved

LEMMA ProjectionInvInit == Init => ProjectionInv
BY DEF Init, ProjectionInv, ReadIsCurrent, TagIsSaved, IdleHandler

(* The event that is being handled stays what it is.                       *)
LEMMA HandledStays ==
  ASSUME TypeInv, [Next]_vars, handler.pc # "idle"
  PROVE  /\ handler.at \in Event /\ Handled.repo \in Repo
         /\ event'[handler.at].repo = Handled.repo
         /\ event'[handler.at].currentTag = Handled.currentTag
<1>1. handler.at \in Event /\ event[handler.at].job.state = "active"
  BY DEF TypeInv, HandlerOK
<1>2. event[handler.at].repo \in Repo
  BY <1>1 DEF TypeInv, QueueOK, SoundEvent
<1> QED
  BY <1>1, <1>2, OwedSteps DEF OwedStep, Handled

LEMMA ProjectionInvStep == TypeInv /\ ProjectionInv /\ [Next]_vars => ProjectionInv'
<1> SUFFICES ASSUME TypeInv, ProjectionInv, [Next]_vars PROVE ProjectionInv'
  OBVIOUS
<1>1. handler \in HandlerRecord /\ projection \in [Repo -> MaybeTag]
  BY DEF TypeInv, HandlerOK, TablesOK
<1>2. CASE UNCHANGED <<handler, projection>>
  <2>1. CASE handler.pc = "idle"
    BY <1>2, <2>1 DEF ProjectionInv, ReadIsCurrent, TagIsSaved
  <2>2. CASE handler.pc # "idle"
    BY <1>2, <2>2, HandledStays DEF ProjectionInv, ReadIsCurrent, TagIsSaved, Handled
  <2> QED
    BY <2>1, <2>2
<1>3. ASSUME NEW i \in Event, TakeEvent(i) PROVE ProjectionInv'
  <2>1. /\ handler'.at = i /\ handler'.lastSeenTag = projection[event[i].repo]
        /\ handler'.pc \in {"find", "save", "return"}
        /\ handler'.pc = "return" => projection[event[i].repo] = event[i].currentTag
        /\ projection' = projection
    BY <1>3 DEF TakeEvent, SaveOr
  <2>2. event'[i].repo = event[i].repo /\ event'[i].currentTag = event[i].currentTag
    BY <1>3, TakeEventMoves, OwedSteps DEF OwedStep
  <2> QED
    BY <2>1, <2>2 DEF ProjectionInv, ReadIsCurrent, TagIsSaved, Handled
<1>4. CASE FindSubscriptions \/ AddBulkEmails
  <2>1. /\ handler.pc \in {"find", "add"} /\ handler'.at = handler.at
        /\ handler'.lastSeenTag = handler.lastSeenTag /\ projection' = projection
        /\ handler'.pc \in {"add", "save", "return"}
        /\ handler'.pc = "return" => handler.lastSeenTag = Handled.currentTag
    BY <1>1, <1>4 DEF FindSubscriptions, AddBulkEmails, SaveOr, Handled, HandlerRecord
  <2> QED
    BY <2>1, HandledStays DEF ProjectionInv, ReadIsCurrent, TagIsSaved, Handled
<1>5. CASE UpdateLastSeenTag
  <2>1. /\ handler.pc = "save" /\ handler'.at = handler.at /\ handler'.pc = "return"
        /\ projection' = [projection EXCEPT ![Handled.repo] = Handled.currentTag]
    BY <1>1, <1>5 DEF UpdateLastSeenTag, HandlerRecord
  <2>2. projection'[Handled.repo] = Handled.currentTag
    BY <1>1, <2>1, HandledStays
  <2> QED
    BY <2>1, <2>2, HandledStays DEF ProjectionInv, ReadIsCurrent, TagIsSaved, Handled
<1>6. CASE Return \/ HandlerFails \/ MainCrash
  BY <1>6 DEF Return, HandlerFails, MainCrash, IdleHandler, ProjectionInv, ReadIsCurrent,
              TagIsSaved
<1> QED
  BY <1>2, <1>3, <1>4, <1>5, <1>6
  DEF Next, vars, mainApi, ScanStep, HandlerStep, Release, SyncTracking, Confirm, Cancel,
      StartScan, ReadCache, AskGitHub, FillCache, Publish, SaveTag, RepoFails, EndScan,
      ScannerCrash

(* An event that is completed leaves its own tag in the row, retried or    *)
(* repeated as it may be, for any number of repositories and tags.         *)
THEOREM EventsLeaveTheirTags == Spec => EventLeavesItsTag
<1>1. TypeInv /\ ProjectionInv /\ [Next]_vars =>
        [\A i \in Event :
           event[i].job.state # "completed" /\ event'[i].job.state = "completed"
           => projection'[event[i].repo] = event[i].currentTag]_vars
  <2> SUFFICES ASSUME TypeInv, ProjectionInv, [Next]_vars, NEW i \in Event,
                      event[i].job.state # "completed", event'[i].job.state = "completed"
               PROVE  projection'[event[i].repo] = event[i].currentTag
    OBVIOUS
  <2>1. ~Publish \/ event[i].job.state # "none"
    BY PublishAppends
  <2>2. Return /\ i = handler.at
    BY <2>1, OwedSteps DEF OwedStep
  <2> QED
    BY <2>2 DEF Return, ProjectionInv, TagIsSaved, Handled
<1> QED
  BY <1>1, TypeInvariance, ProjectionInvInit, ProjectionInvStep, PTL
  DEF Spec, EventLeavesItsTag

-----------------------------------------------------------------------------
(* While no event fails or stalls, events are handled in the order of      *)
(* their publication, and the row has the tag of the last one.             *)

Clean(i) == Fresh(i) /\ event[i].job.state # "failed"

AllClean == \A i \in Event : Clean(i)

PublishedHaveJobs == \A i \in Event : i <= published => event[i].job.state # "none"

ActiveIsHandled ==
  \A i \in Event : event[i].job.state = "active" => handler.pc # "idle" /\ handler.at = i

InOrder ==
  AllClean => \A i, j \in Event :
    i < j /\ event[j].job.state \in {"active", "completed"} => event[i].job.state = "completed"

LastCompleted(i) ==
  /\ event[i].job.state = "completed"
  /\ \A j \in Event : j > i /\ event[j].repo = event[i].repo => event[j].job.state # "completed"

LastIsSaved ==
  AllClean => \A i \in Event : LastCompleted(i) =>
    \/ projection[event[i].repo] = event[i].currentTag
    \/ handler.pc = "return" /\ Handled.repo = event[i].repo

OrderInv == PublishedHaveJobs /\ ActiveIsHandled /\ InOrder /\ LastIsSaved

LEMMA OrderInvInit == Init => OrderInv
<1> SUFFICES ASSUME Init PROVE OrderInv
  OBVIOUS
<1>1. \A i \in Event : event[i].job.state = "none" /\ ~(i <= published)
  BY DEF Init, NoEvent, NoJob, Event
<1> QED
  BY <1>1 DEF OrderInv, PublishedHaveJobs, ActiveIsHandled, InOrder, LastIsSaved, LastCompleted

(* What can become of the job of an event.                                 *)
JobKept(i) == event'[i].job = event[i].job

JobFails(i) == (HandlerFails \/ MainCrash) /\ i = handler.at /\ ~ Clean(i)'

LEMMA JobsMove ==
  ASSUME TypeInv, [Next]_vars, NEW i \in Event
  PROVE  \/ JobKept(i)
         \/ Publish /\ i = published + 1 /\ event'[i].job.state = "wait"
         \/ TakeEvent(i) /\ event'[i].job.state = "active"
         \/ Return /\ i = handler.at /\ event'[i].job.state = "completed"
         \/ JobFails(i)
<1>1. CASE UNCHANGED event
  BY <1>1 DEF JobKept
<1>2. CASE Publish
  BY <1>2, PublishAppends DEF JobKept
<1>3. ASSUME NEW n \in Repo, NEW u \in User, Cancel(n, u) PROVE JobKept(i)
  BY <1>3, CancelTakesOff DEF JobKept
<1>4. ASSUME NEW k \in Event, TakeEvent(k)
      PROVE  JobKept(i) \/ (TakeEvent(i) /\ event'[i].job.state = "active")
  <2> DEFINE job == Taken(event[k].job)
  <2>1. /\ job.state = "active" /\ event[k].job.state = "wait"
        /\ SoundJob(job) /\ UNCHANGED published
        /\ event' = [event EXCEPT ![k].job = job]
    BY <1>4, TakeEventMoves
  <2> HIDE DEF job
  <2>2. event'[k].job = job /\ (i # k => event'[i] = event[i])
    BY <2>1, JobMoves
  <2> QED
    BY <1>4, <2>1, <2>2 DEF JobKept
<1>5. ASSUME NEW job, SoundJob(job), job.state # "none", Return \/ HandlerFails \/ MainCrash,
             event' = [event EXCEPT ![handler.at].job = job]
      PROVE  event'[handler.at].job = job /\ (i # handler.at => JobKept(i))
  <2>1. handler.at \in Event /\ event[handler.at].job.state # "none" /\ UNCHANGED published
    BY <1>5, EndMoves
  <2> QED
    BY <1>5, <2>1, JobMoves DEF JobKept
<1>6. ASSUME Return \/ HandlerFails \/ MainCrash
      PROVE  SoundJob(event[handler.at].job) /\ event[handler.at].job.state = "active"
             /\ event[handler.at].job \in Job /\ event[handler.at].job.attempts \in Nat
  BY <1>6, EndMoves, BullJobAssumption
  DEF BullJobAssumption, TypeInv, QueueOK, SoundEvent, SoundJob, Job
<1>7. CASE Return
  <2>1. /\ event' = [event EXCEPT ![handler.at].job = Succeeded(event[handler.at].job)]
        /\ SoundJob(Succeeded(event[handler.at].job))
        /\ Succeeded(event[handler.at].job).state = "completed"
    BY <1>6, <1>7, SucceededSound DEF Return
  <2> QED
    BY <1>5, <1>7, <2>1
<1>8. CASE HandlerFails
  <2>1. /\ event' = [event EXCEPT ![handler.at].job = Failed(event[handler.at].job)]
        /\ SoundJob(Failed(event[handler.at].job))
        /\ Failed(event[handler.at].job).state # "none"
        /\ Failed(event[handler.at].job).attempts # 0
    BY <1>6, <1>8, FailedSound, FailedCounts DEF HandlerFails
  <2>2. event'[handler.at].job.attempts # 0 /\ (i # handler.at => JobKept(i))
    BY <1>5, <1>8, <2>1
  <2> QED
    BY <1>8, <2>2 DEF JobFails, Clean, Fresh
<1>9. CASE MainCrash
  <2>1. /\ event' = [event EXCEPT ![handler.at].job = Stalled(event[handler.at].job)]
        /\ SoundJob(Stalled(event[handler.at].job))
        /\ Stalled(event[handler.at].job).state # "none"
        /\ Stalled(event[handler.at].job).stalls # 0
           \/ Stalled(event[handler.at].job).state = "failed"
    BY <1>6, <1>9, StalledSound, StalledShows DEF MainCrash
  <2>2. event'[handler.at].job = Stalled(event[handler.at].job) /\ (i # handler.at => JobKept(i))
    BY <1>5, <1>9, <2>1
  <2> QED
    BY <1>9, <2>1, <2>2 DEF JobFails, Clean, Fresh
<1> QED
  BY <1>1, <1>2, <1>3, <1>4, <1>7, <1>8, <1>9
  DEF Next, vars, queue, ScanStep, HandlerStep, Release, SyncTracking, Confirm, StartScan,
      ReadCache, AskGitHub, FillCache, SaveTag, RepoFails, EndScan, ScannerCrash,
      FindSubscriptions, AddBulkEmails, UpdateLastSeenTag

LEMMA CleanBefore ==
  ASSUME TypeInv, [Next]_vars, AllClean'
  PROVE  AllClean /\ ~ HandlerFails /\ ~ MainCrash
<1>1. ASSUME NEW i \in Event
      PROVE  Clean(i) /\ ~ JobFails(i)
  <2>1. Clean(i)'
    BY DEF AllClean
  <2>2. CASE JobKept(i)
    BY <2>1, <2>2 DEF Clean, Fresh, JobKept, JobFails
  <2>3. CASE Publish /\ i = published + 1
    <3>1. event[i] = NoEvent
      BY <2>3, PublishAppends
    <3> QED
      BY <2>1, <3>1 DEF Clean, Fresh, JobFails, NoEvent, NoJob
  <2>4. CASE TakeEvent(i)
    <3>1. /\ event[i].job.state = "wait" /\ event[i].job \in Job
          /\ event'[i].job = Taken(event[i].job)
      BY <2>4, TakeEventMoves, JobMoves DEF TypeInv, QueueOK, SoundEvent, SoundJob
    <3>2. event'[i].job.attempts = event[i].job.attempts /\ event'[i].job.stalls = event[i].job.stalls
      BY <3>1 DEF Taken, Job
    <3> QED
      BY <2>1, <3>1, <3>2 DEF Clean, Fresh, JobFails
  <2>5. CASE Return /\ i = handler.at
    <3>1. /\ event[i].job.state = "active" /\ SoundJob(event[i].job) /\ event[i].job \in Job
      BY <2>5, EndMoves DEF TypeInv, QueueOK, SoundEvent, SoundJob
    <3>2. SoundJob(Succeeded(event[i].job)) /\ Succeeded(event[i].job).state # "none"
      BY <3>1, SucceededSound
    <3>3. event'[i].job = Succeeded(event[i].job)
      BY <2>5, <3>1, <3>2, JobMoves DEF Return
    <3>4. event'[i].job.attempts = event[i].job.attempts /\ event'[i].job.stalls = event[i].job.stalls
      BY <3>1, <3>3 DEF Succeeded, Job
    <3> QED
      BY <2>1, <3>1, <3>4 DEF Clean, Fresh, JobFails
  <2> QED
    BY <2>1, <2>2, <2>3, <2>4, <2>5, JobsMove DEF JobFails
<1>2. ASSUME HandlerFails \/ MainCrash
      PROVE  FALSE
  <2>1. handler.at \in Event /\ event[handler.at].job.state = "active" /\ ~ Return
    BY <1>2, EndMoves DEF Return, HandlerFails, MainCrash, Fault, TypeInv, WorldOK
  <2>2. PICK i \in Event : i = handler.at
    BY <2>1
  <2>3. JobKept(i)
    <3>1. handler.pc # "idle" /\ handler' = IdleHandler
      BY <1>2 DEF HandlerFails, MainCrash
    <3>2. ~ Publish /\ ~ TakeEvent(i)
      BY <3>1 DEF Publish, mainApi, TakeEvent, IdleHandler
    <3>3. ~ JobFails(i)
      BY <1>1
    <3> QED
      BY <2>1, <3>2, <3>3, JobsMove
  <2>4. event'[i].job.state # "active"
    BY <1>2, <2>1, <2>2, EndMoves, JobMoves
  <2> QED
    BY <2>1, <2>2, <2>3, <2>4 DEF JobKept
<1> QED
  BY <1>1, <1>2 DEF AllClean

LEMMA PublishedHaveJobsStep ==
  ASSUME TypeInv, PublishedHaveJobs, [Next]_vars
  PROVE  PublishedHaveJobs'
<1> SUFFICES ASSUME NEW i \in Event, i <= published' PROVE event'[i].job.state # "none"
  BY DEF PublishedHaveJobs
<1>1. CASE JobKept(i)
  <2>1. published' = published \/ (Publish /\ published' = published + 1)
    <3>1. (Return \/ HandlerFails \/ MainCrash) => published' = published
      BY EndMoves
    <3> QED
      BY <3>1, PublishAppends
      DEF Next, vars, queue, ScanStep, HandlerStep, Release, SyncTracking, Confirm, Cancel,
          StartScan, ReadCache, AskGitHub, FillCache, SaveTag, RepoFails, EndScan, ScannerCrash,
          TakeEvent, FindSubscriptions, AddBulkEmails, UpdateLastSeenTag
  <2>2. published \in Nat
    BY MaxEventsType DEF TypeInv, QueueOK
  <2>3. Publish /\ i = published + 1 => event'[i].job.state = "wait"
    BY PublishAppends
  <2>4. i <= published \/ (Publish /\ i = published + 1)
    BY <2>1, <2>2 DEF Event
  <2> QED
    BY <1>1, <2>3, <2>4 DEF JobKept, PublishedHaveJobs
<1>2. CASE JobFails(i)
  BY <1>2, EndMoves, JobMoves DEF JobFails
<1> QED
  BY <1>1, <1>2, JobsMove

LEMMA ActiveIsHandledStep ==
  ASSUME TypeInv, ActiveIsHandled, [Next]_vars
  PROVE  ActiveIsHandled'
<1> SUFFICES ASSUME NEW i \in Event, event'[i].job.state = "active"
             PROVE  handler'.pc # "idle" /\ handler'.at = i
  BY DEF ActiveIsHandled
<1>1. CASE TakeEvent(i)
  BY <1>1 DEF TakeEvent, SaveOr
<1>2. ~ JobFails(i)
  <2> SUFFICES ASSUME JobFails(i) PROVE FALSE
    OBVIOUS
  <2>1. (HandlerFails \/ MainCrash) /\ i = handler.at
    BY DEF JobFails
  <2>2. PICK job : /\ SoundJob(job) /\ job.state \in {"completed", "wait", "failed"}
                   /\ event' = [event EXCEPT ![i].job = job]
    BY <2>1, EndMoves
  <2>3. event[i].job.state = "active" /\ UNCHANGED published
    BY <2>1, EndMoves
  <2>4. event'[i].job = job
    BY <2>2, <2>3, JobMoves
  <2> QED
    BY <2>2, <2>4
<1>3. CASE JobKept(i)
  <2>1. handler.pc # "idle" /\ handler.at = i
    BY <1>3 DEF JobKept, ActiveIsHandled
  <2>2. ~ Return /\ ~ HandlerFails /\ ~ MainCrash
    BY <2>1, EndMoves, JobMoves
  <2>3. handler' = handler \/ FindSubscriptions \/ AddBulkEmails \/ UpdateLastSeenTag
    BY <2>1, <2>2
    DEF Next, vars, mainApi, ScanStep, HandlerStep, Release, SyncTracking, Confirm, Cancel,
        StartScan, ReadCache, AskGitHub, FillCache, Publish, SaveTag, RepoFails, EndScan,
        ScannerCrash, TakeEvent
  <2>4. handler \in HandlerRecord
    BY DEF TypeInv, HandlerOK
  <2> QED
    BY <2>1, <2>3, <2>4
    DEF FindSubscriptions, AddBulkEmails, UpdateLastSeenTag, SaveOr, HandlerRecord
<1> QED
  BY <1>1, <1>2, <1>3, JobsMove

LEMMA InOrderStep ==
  ASSUME TypeInv, OrderInv, [Next]_vars
  PROVE  InOrder'
<1> SUFFICES ASSUME AllClean', NEW i \in Event, NEW j \in Event, i < j,
                    event'[j].job.state \in {"active", "completed"}
             PROVE  event'[i].job.state = "completed"
  BY DEF InOrder
<1>1. AllClean /\ ~ HandlerFails /\ ~ MainCrash
  BY CleanBefore
<1>2. ASSUME event[i].job.state = "completed"
      PROVE  event'[i].job.state = "completed"
  BY <1>2, OwedSteps DEF OwedStep
<1>3. CASE JobKept(j)
  BY <1>1, <1>2, <1>3 DEF JobKept, OrderInv, InOrder
<1>4. CASE TakeEvent(j)
  <2>1. handler.pc = "idle" /\ event[j].job.state = "wait" /\ (Fresh(j) => ~(Waits(i) /\ Fresh(i)))
    BY <1>4 DEF TakeEvent, Waits
  <2>2. event[i].job.state \notin {"wait", "failed", "active"}
    BY <1>1, <2>1 DEF AllClean, Clean, Waits, OrderInv, ActiveIsHandled
  <2>3. event[i].job.state # "none"
    <3>1. j <= published
      BY <2>1, MaxEventsType DEF TypeInv, QueueOK, NoEvent, NoJob, Event
    <3>2. i <= published
      BY <3>1, MaxEventsType DEF TypeInv, QueueOK, Event
    <3> QED
      BY <3>2 DEF OrderInv, PublishedHaveJobs
  <2>4. event[i].job.state \in JobState
    BY DEF TypeInv, QueueOK, SoundEvent, SoundJob, Job
  <2> QED
    BY <1>2, <2>2, <2>3, <2>4 DEF JobState
<1>5. CASE Return /\ j = handler.at
  <2>1. event[j].job.state = "active"
    BY <1>5, EndMoves
  <2> QED
    BY <1>1, <1>2, <2>1 DEF OrderInv, InOrder
<1> QED
  BY <1>1, <1>3, <1>4, <1>5, JobsMove DEF JobFails

LEMMA LastIsSavedStep ==
  ASSUME TypeInv, ProjectionInv, OrderInv, [Next]_vars
  PROVE  LastIsSaved'
<1> SUFFICES ASSUME AllClean', NEW i \in Event, LastCompleted(i)'
             PROVE  \/ projection'[event'[i].repo] = event'[i].currentTag
                    \/ handler'.pc = "return" /\ Handled'.repo = event'[i].repo
  BY DEF LastIsSaved
<1>1. AllClean /\ ~ HandlerFails /\ ~ MainCrash /\ event'[i].job.state = "completed"
  BY CleanBefore DEF LastCompleted
<1>2. \A j \in Event : event[j].job.state = "completed" => OwedStep(j)
  BY OwedSteps
<1>3. event[i].job.state = "completed" \/ (Return /\ i = handler.at)
  BY <1>1, JobsMove DEF JobKept, JobFails
<1>4. OwedStep(i)
  BY <1>3, OwedSteps, EndMoves
<1>5. event'[i].repo = event[i].repo /\ event'[i].currentTag = event[i].currentTag
  BY <1>4 DEF OwedStep
<1>6. CASE Return /\ i = handler.at
  BY <1>5, <1>6 DEF Return, ProjectionInv, TagIsSaved, Handled
<1>7. CASE event[i].job.state = "completed"
  <2>1. ASSUME NEW j \in Event, j > i, event[j].repo = event[i].repo
        PROVE  event[j].job.state # "completed"
    BY <1>2, <1>5, <2>1 DEF LastCompleted, OwedStep
  <2>2. LastCompleted(i)
    BY <1>7, <2>1 DEF LastCompleted
  <2>3. \/ projection[event[i].repo] = event[i].currentTag
        \/ handler.pc = "return" /\ Handled.repo = event[i].repo
    BY <1>1, <2>2 DEF OrderInv, LastIsSaved
  <2>4. CASE Return
    <3>1. PICK h \in Event : h = handler.at /\ event[h].job.state = "active"
      BY <2>4, EndMoves
    <3>2. event'[h].job.state = "completed" /\ event'[h].repo = event[h].repo
      <4>1. ~ JobKept(h)
        <5>1. SoundJob(Succeeded(event[h].job)) /\ Succeeded(event[h].job).state = "completed"
          BY <3>1, SucceededSound DEF TypeInv, QueueOK, SoundEvent
        <5>2. event'[h].job = Succeeded(event[h].job)
          BY <2>4, <3>1, <5>1, JobMoves DEF Return
        <5> QED
          BY <3>1, <5>1, <5>2 DEF JobKept
      <4>2. ~ TakeEvent(h)
        BY <3>1, TakeEventMoves
      <4>3. ~ Publish
        BY <2>4 DEF Publish, Return, mainApi, IdleHandler
      <4> QED
        BY <1>1, <3>1, <4>1, <4>2, <4>3, JobsMove, OwedSteps DEF JobFails, OwedStep
    <3>3. Handled.repo # event[i].repo
      <4>1. SUFFICES ASSUME event[h].repo = event[i].repo PROVE FALSE
        BY <3>1 DEF Handled
      <4>2. ~ (h > i)
        BY <1>5, <3>2, <4>1 DEF LastCompleted
      <4>3. h < i
        BY <1>7, <3>1, <4>2 DEF Event
      <4> QED
        BY <1>1, <1>7, <3>1, <4>3 DEF OrderInv, InOrder
    <3> QED
      BY <1>5, <2>3, <2>4, <3>3 DEF Return
  <2>5. CASE UpdateLastSeenTag
    <3>1. /\ handler.pc = "save" /\ handler'.at = handler.at /\ handler'.pc = "return"
          /\ projection' = [projection EXCEPT ![Handled.repo] = Handled.currentTag]
          /\ projection \in [Repo -> MaybeTag]
      BY <2>5 DEF UpdateLastSeenTag, TypeInv, HandlerOK, HandlerRecord, TablesOK
    <3>2. Handled'.repo = Handled.repo
      BY <3>1, HandledStays DEF Handled
    <3> QED
      BY <1>5, <2>3, <3>1, <3>2
  <2>6. CASE ~ Return /\ ~ UpdateLastSeenTag
    <3>1. projection' = projection
          /\ (handler.pc = "return" => handler' = handler)
      BY <1>1, <2>6
      DEF Next, vars, mainApi, ScanStep, HandlerStep, Release, SyncTracking, Confirm, Cancel,
          StartScan, ReadCache, AskGitHub, FillCache, Publish, SaveTag, RepoFails, EndScan,
          ScannerCrash, TakeEvent, FindSubscriptions, AddBulkEmails
    <3>2. handler.pc = "return" => Handled'.repo = Handled.repo
      BY <3>1, HandledStays DEF Handled
    <3> QED
      BY <1>5, <2>3, <3>1, <3>2
  <2> QED
    BY <2>4, <2>5, <2>6
<1> QED
  BY <1>3, <1>6, <1>7

(* The Main API's lastSeenTag is that of the last event, for any number of *)
(* repositories, tags and repeated announcements, once all are handled and *)
(* as long as none had to be retried.                                      *)
THEOREM ProjectionIsLastEvent == Spec => []ProjectionFollows
<1>1. TypeInv /\ ProjectionInv /\ OrderInv /\ [Next]_vars => OrderInv'
  BY PublishedHaveJobsStep, ActiveIsHandledStep, InOrderStep, LastIsSavedStep DEF OrderInv
<1>2. TypeInv /\ OrderInv => ProjectionFollows
  <2> SUFFICES ASSUME TypeInv, OrderInv,
                      \A i \in 1..published : event[i].job.state = "completed" /\ Fresh(i),
                      NEW i \in 1..published,
                      \A j \in 1..published : event[j].repo = event[i].repo => j <= i
               PROVE  projection[event[i].repo] = event[i].currentTag
    BY DEF ProjectionFollows
  <2>1. published \in Nat /\ MaxEvents \in Nat /\ published <= MaxEvents
    BY MaxEventsType DEF TypeInv, QueueOK
  <2>2. \A j \in Event : j \in 1..published \/ event[j] = NoEvent
    BY <2>1 DEF TypeInv, QueueOK, Event
  <2>3. AllClean
    BY <2>2 DEF AllClean, Clean, Fresh, NoEvent, NoJob
  <2>4. i \in Event
    BY <2>1 DEF Event
  <2>5. ASSUME NEW j \in Event, j > i, event[j].repo = event[i].repo
        PROVE  event[j].job.state # "completed"
    BY <2>1, <2>2, <2>4, <2>5 DEF NoEvent, NoJob, Event
  <2>6. LastCompleted(i)
    BY <2>5 DEF LastCompleted
  <2>7. handler.pc = "idle"
    BY <2>2 DEF TypeInv, HandlerOK, NoEvent, NoJob
  <2> QED
    BY <2>3, <2>4, <2>6, <2>7 DEF OrderInv, LastIsSaved
<1> QED
  BY <1>1, <1>2, TypeInvariance, ProjectionInvInit, ProjectionInvStep, OrderInvInit, PTL DEF Spec

-----------------------------------------------------------------------------
(* Nobody is mailed but who was ACTIVE while the release was announced.    *)

(* Who is ACTIVE while an event is not at its end may be mailed its        *)
(* release.                                                                *)
ActiveAreEntitled ==
  \A i \in Event : Notifies(i) =>
    \A u \in subscribed[event[i].repo] : MailFor(i, u) \in entitled

(* Those the worker has read may, even when they are not ACTIVE any more.  *)
ReadAreEntitled ==
  handler.pc = "add" => \A u \in handler.subs : MailFor(handler.at, u) \in entitled

(* The worker reads subscriptions for a notification only.                 *)
NotifierReads == handler.pc \in {"find", "add"} => NotifySubscribers(handler.at)

EntitledInv == ActiveAreEntitled /\ ReadAreEntitled /\ NotifierReads

LEMMA EntitledInvInit == Init => EntitledInv
BY DEF Init, EntitledInv, ActiveAreEntitled, ReadAreEntitled, NotifierReads, Notifies,
       NoEvent, NoJob, IdleHandler

(* Nobody is ever struck off, and who becomes ACTIVE comes to it.          *)
LEMMA EntitledGrows ==
  [Next]_vars => entitled \subseteq entitled'
BY DEF Next, vars, mainApi, scanner, queue, gitHub, ScanStep, HandlerStep, Release,
       SyncTracking, Confirm, Cancel, StartScan, ReadCache, AskGitHub, FillCache, Publish,
       SaveTag, RepoFails, EndScan, ScannerCrash, TakeEvent, FindSubscriptions,
       AddBulkEmails, UpdateLastSeenTag, Return, HandlerFails, MainCrash

(* An event that is not at its end was published before, and stays.        *)
LEMMA NotifiesStays ==
  ASSUME TypeInv, [Next]_vars, NEW i \in Event, Notifies(i)', ~(Publish /\ i = published + 1)
  PROVE  /\ Notifies(i)
         /\ event[i].repo \in Repo
         /\ event'[i].repo = event[i].repo /\ event'[i].currentTag = event[i].currentTag
<1>1. event'[i].job.state \in {"wait", "active"} /\ event'[i].previousTag # None
  BY DEF Notifies, NotifySubscribers
<1>2. (Return \/ HandlerFails \/ MainCrash) /\ i = handler.at => event[i].job.state = "active"
  BY EndMoves
<1>3. TakeEvent(i) => event[i].job.state = "wait"
  BY TakeEventMoves
<1>4. event[i].job.state \in {"wait", "active"}
  BY <1>1, <1>2, <1>3, JobsMove DEF JobKept, JobFails
<1>5. OwedStep(i)
  BY <1>4, OwedSteps
<1> QED
  BY <1>1, <1>4, <1>5
  DEF OwedStep, Notifies, NotifySubscribers, TypeInv, QueueOK, SoundEvent

LEMMA OnlyConfirmAdds ==
  ASSUME TypeInv, [Next]_vars, NEW n \in Repo, NEW u \in subscribed'[n], u \notin subscribed[n]
  PROVE  u \in User /\ Confirm(n, u)
<1>1. subscribed \in [Repo -> SUBSET User]
  BY DEF TypeInv, TablesOK
<1>2. ASSUME NEW m \in Repo, NEW v \in User, Confirm(m, v) PROVE m = n /\ v = u
  BY <1>1, <1>2 DEF Confirm
<1>3. ASSUME NEW m \in Repo, NEW v \in User, Cancel(m, v) PROVE FALSE
  BY <1>1, <1>3 DEF Cancel
<1>4. subscribed' # subscribed
  OBVIOUS
<1> QED
  BY <1>2, <1>3, <1>4
  DEF Next, vars, mainApi, ScanStep, HandlerStep, Release, SyncTracking, StartScan,
      ReadCache, AskGitHub, FillCache, Publish, SaveTag, RepoFails, EndScan,
      ScannerCrash, TakeEvent, FindSubscriptions, AddBulkEmails, UpdateLastSeenTag,
      Return, HandlerFails, MainCrash

LEMMA ActiveAreEntitledStep == TypeInv /\ EntitledInv /\ [Next]_vars => ActiveAreEntitled'
<1> SUFFICES ASSUME TypeInv, EntitledInv, [Next]_vars, NEW i \in Event, Notifies(i)',
                    NEW u \in subscribed'[event'[i].repo]
             PROVE  MailFor(i, u)' \in entitled'
  BY DEF ActiveAreEntitled
<1>1. CASE Publish /\ i = published + 1
  <2>1. /\ event'[i].repo = scan.at /\ event'[i].currentTag = scan.answer
        /\ event'[i].previousTag = scan.found[scan.at]
        /\ subscribed' = subscribed
    BY <1>1, PublishAppends DEF Publish
  <2>2. entitled' = entitled \cup {<<scan.at, v, scan.answer>> : v \in subscribed[scan.at]}
    BY <1>1, <2>1 DEF Publish, Notifies, NotifySubscribers
  <2> QED
    BY <2>1, <2>2 DEF MailFor
<1>2. CASE ~(Publish /\ i = published + 1)
  <2>1. /\ Notifies(i) /\ event[i].repo \in Repo
        /\ event'[i].repo = event[i].repo /\ MailFor(i, u)' = MailFor(i, u)
    BY <1>2, NotifiesStays DEF MailFor
  <2>2. CASE u \in subscribed[event[i].repo]
    BY <2>1, <2>2, EntitledGrows DEF EntitledInv, ActiveAreEntitled
  <2>3. CASE u \notin subscribed[event[i].repo]
    <3>1. PICK n \in Repo : n = event[i].repo
      BY <2>1
    <3>2. Confirm(n, u)
      BY <2>1, <2>3, <3>1, OnlyConfirmAdds
    <3>3. MailFor(i, u) \in {MailFor(k, u) : k \in {j \in Event : event[j].repo = n /\ Notifies(j)}}
      BY <2>1, <3>1
    <3> QED
      BY <2>1, <3>2, <3>3 DEF Confirm
  <2> QED
    BY <2>2, <2>3
<1> QED
  BY <1>1, <1>2

LEMMA ReadAreEntitledStep ==
  TypeInv /\ EntitledInv /\ [Next]_vars => ReadAreEntitled' /\ NotifierReads'
<1> SUFFICES ASSUME TypeInv, EntitledInv, [Next]_vars PROVE ReadAreEntitled' /\ NotifierReads'
  OBVIOUS
<1>1. handler \in HandlerRecord
  BY DEF TypeInv, HandlerOK
<1>2. handler.pc # "idle" =>
        /\ handler.at \in Event /\ event[handler.at].job.state = "active"
        /\ OwedStep(handler.at)
  BY OwedSteps DEF TypeInv, HandlerOK
<1>3. CASE UNCHANGED handler
  <2>1. handler.pc # "idle" =>
          /\ NotifySubscribers(handler.at)' = NotifySubscribers(handler.at)
          /\ \A u : MailFor(handler.at, u)' = MailFor(handler.at, u)
    BY <1>2, <1>3 DEF OwedStep, NotifySubscribers, MailFor
  <2> QED
    BY <1>3, <2>1, EntitledGrows DEF EntitledInv, ReadAreEntitled, NotifierReads
<1>4. CASE FindSubscriptions
  <2>1. /\ handler.pc = "find" /\ NotifySubscribers(handler.at)
        /\ event[handler.at].job.state = "active"
    BY <1>2, <1>4 DEF FindSubscriptions, EntitledInv, NotifierReads
  <2>2. /\ handler'.at = handler.at /\ handler'.subs = subscribed[event[handler.at].repo]
        /\ UNCHANGED <<event, entitled>>
    BY <1>1, <1>4 DEF FindSubscriptions, HandlerRecord, Handled, queue
  <2>3. \A u \in handler'.subs : MailFor(handler.at, u) \in entitled
    BY <1>2, <2>1, <2>2 DEF EntitledInv, ActiveAreEntitled, Notifies
  <2> QED
    BY <2>1, <2>2, <2>3 DEF ReadAreEntitled, NotifierReads, NotifySubscribers, MailFor
<1>5. ASSUME NEW i \in Event, TakeEvent(i) PROVE ReadAreEntitled' /\ NotifierReads'
  <2>1. handler'.at = i /\ handler'.pc # "add" /\ (handler'.pc = "find" => NotifySubscribers(i))
    BY <1>5 DEF TakeEvent, SaveOr
  <2>2. event'[i].previousTag = event[i].previousTag
    BY <1>5, TakeEventMoves, OwedSteps DEF OwedStep
  <2> QED
    BY <2>1, <2>2 DEF ReadAreEntitled, NotifierReads, NotifySubscribers
<1>6. CASE AddBulkEmails \/ UpdateLastSeenTag \/ Return \/ HandlerFails \/ MainCrash
  <2>1. handler'.pc \notin {"find", "add"}
    BY <1>1, <1>6
    DEF AddBulkEmails, UpdateLastSeenTag, Return, HandlerFails, MainCrash, SaveOr, IdleHandler,
        HandlerRecord
  <2> QED
    BY <2>1 DEF ReadAreEntitled, NotifierReads
<1> QED
  BY <1>3, <1>4, <1>5, <1>6
  DEF Next, vars, mainApi, ScanStep, HandlerStep, Release, SyncTracking, Confirm, Cancel,
      StartScan, ReadCache, AskGitHub, FillCache, Publish, SaveTag, RepoFails, EndScan,
      ScannerCrash

LEMMA EntitledInvariance == Spec => []EntitledInv
<1>1. TypeInv /\ EntitledInv /\ [Next]_vars => EntitledInv'
  BY ActiveAreEntitledStep, ReadAreEntitledStep DEF EntitledInv
<1> QED
  BY <1>1, TypeInvariance, EntitledInvInit, PTL DEF Spec

(* Only addBulk makes mail jobs.                                           *)
LEMMA OnlyAddBulkMails ==
  [Next]_vars => UNCHANGED mails \/ AddBulkEmails
BY DEF Next, vars, mainApi, ScanStep, HandlerStep, Release, SyncTracking, Confirm, Cancel,
       StartScan, ReadCache, AskGitHub, FillCache, Publish, SaveTag, RepoFails, EndScan,
       ScannerCrash, TakeEvent, FindSubscriptions, UpdateLastSeenTag, Return, HandlerFails,
       MainCrash

(* A new-release job is for somebody whose subscription was ACTIVE at some *)
(* time between the publication of an event with that release and the end  *)
(* of its job, for any number of subscribers who come and go meanwhile.    *)
THEOREM OnlyEntitledAreMailed == Spec => []Notice!MailsOnlyEntitled
<1>1. Init => Notice!MailsOnlyEntitled
  BY DEF Init, Notice!MailsOnlyEntitled
<1>2. EntitledInv /\ Notice!MailsOnlyEntitled /\ [Next]_vars => Notice!MailsOnlyEntitled'
  <2> SUFFICES ASSUME EntitledInv, mails \subseteq entitled, [Next]_vars
               PROVE  mails' \subseteq entitled'
    BY DEF Notice!MailsOnlyEntitled
  <2>1. CASE AddBulkEmails
    <3>1. \A u \in handler.subs : MailFor(handler.at, u) \in entitled
      BY <2>1 DEF EntitledInv, ReadAreEntitled, AddBulkEmails
    <3> QED
      BY <2>1, <3>1, EntitledGrows DEF AddBulkEmails
  <2> QED
    BY <2>1, OnlyAddBulkMails, EntitledGrows
<1> QED
  BY <1>1, <1>2, EntitledInvariance, PTL DEF Spec

-----------------------------------------------------------------------------
(* ReleaseScan implements ReleaseNotice.                                   *)
NoticeOf(i) ==
  [fate |-> Fate(i), repo |-> event[i].repo, tag |-> event[i].currentTag,
   first |-> ~NotifySubscribers(i), owed |-> event[i].owed]

notices == [i \in Event |-> NoticeOf(i)]

LEMMA FateIs ==
  ASSUME NEW i, event[i].job.state \in JobState
  PROVE  /\ Fate(i) = "none" <=> event[i].job.state = "none"
         /\ Fate(i) = "open" <=> event[i].job.state \in {"wait", "active"}
         /\ Fate(i) = "handled" <=> event[i].job.state = "completed"
         /\ Fate(i) = "dropped" <=> event[i].job.state = "failed"
BY DEF Fate, JobState

LEMMA StateType == TypeInv => \A i \in Event : event[i].job.state \in JobState
BY DEF TypeInv, QueueOK, SoundEvent, SoundJob, Job

(* While no event moves, no announcement does.                             *)
LEMMA NoticesStay ==
  ASSUME UNCHANGED event
  PROVE  notices' = notices
BY DEF notices, NoticeOf, Fate, NotifySubscribers

(* The job of one event moves: at most the fate of its announcement does.  *)
LEMMA NoticeMoves ==
  ASSUME TypeInv, NEW i \in Event, event[i].job.state # "none",
         NEW job, SoundJob(job), job.state # "none",
         event' = [event EXCEPT ![i].job = job], UNCHANGED published
  PROVE  /\ event'[i].job = job
         /\ event'[i].job.state \in JobState
         /\ notices' = [notices EXCEPT ![i].fate = Fate(i)']
<1>1. /\ event'[i].job = job
      /\ \A k \in Event \ {i} : event'[k] = event[k]
      /\ \A k \in Event : /\ event'[k].repo = event[k].repo
                          /\ event'[k].previousTag = event[k].previousTag
                          /\ event'[k].currentTag = event[k].currentTag
                          /\ event'[k].owed = event[k].owed
  BY JobMoves
<1>2. \A k \in Event \ {i} : NoticeOf(k)' = NoticeOf(k)
  BY <1>1 DEF NoticeOf, Fate, NotifySubscribers
<1>3. NoticeOf(i)' = [fate |-> Fate(i)', repo |-> event[i].repo, tag |-> event[i].currentTag,
                      first |-> ~NotifySubscribers(i), owed |-> event[i].owed]
  BY <1>1 DEF NoticeOf, NotifySubscribers
<1>4. NoticeOf(i)' = [NoticeOf(i) EXCEPT !.fate = Fate(i)']
  BY <1>3 DEF NoticeOf
<1>5. notices' = [k \in Event |-> NoticeOf(k)'] /\ notices = [k \in Event |-> NoticeOf(k)]
  BY DEF notices
<1> HIDE DEF notices
<1>6. notices' = [notices EXCEPT ![i] = NoticeOf(i)']
  BY <1>2, <1>5
<1>7. notices[i] = NoticeOf(i)
  BY <1>5
<1> QED
  BY <1>1, <1>4, <1>6, <1>7 DEF SoundJob, Job

LEMMA ConfirmIsConfirm ==
  ASSUME TypeInv, NEW n \in Repo, NEW u \in User, Confirm(n, u)
  PROVE  Notice!Confirm(n, u)
<1> DEFINE open == {j \in Event : /\ notices[j].repo = n /\ notices[j].fate = "open"
                                  /\ ~notices[j].first}
<1>1. \A i \in Event : notices[i] = NoticeOf(i)
  BY DEF notices
<1>2. \A i \in Event : NoticeOf(i).fate = "open" <=> event[i].job.state \in {"wait", "active"}
  BY StateType, FateIs DEF NoticeOf
<1>3. \A i \in Event :
        /\ NoticeOf(i).repo = event[i].repo /\ NoticeOf(i).tag = event[i].currentTag
        /\ ~NoticeOf(i).first <=> NotifySubscribers(i)
  BY DEF NoticeOf, NotifySubscribers
<1>4. open = {j \in Event : event[j].repo = n /\ Notifies(j)}
  BY <1>1, <1>2, <1>3 DEF Notifies
<1>5. \A i \in open : <<notices[i].repo, u, notices[i].tag>> = MailFor(i, u)
  BY <1>1, <1>3 DEF MailFor
<1>6. entitled' = entitled \cup {MailFor(i, u) : i \in open}
  BY <1>4 DEF Confirm
<1> HIDE DEF open
<1>7. entitled' = entitled \cup {<<notices[i].repo, u, notices[i].tag>> : i \in open}
  BY <1>5, <1>6
<1>8. /\ subscribed' = [subscribed EXCEPT ![n] = @ \cup {u}]
      /\ UNCHANGED <<event, mails>>
  BY DEF Confirm, queue
<1>9. notices' = notices
  BY <1>8, NoticesStay
<1> QED
  BY <1>7, <1>8, <1>9 DEF open, notices, NoticeOf, Notice!Confirm, Notice!MailFor

LEMMA CancelIsCancel ==
  ASSUME TypeInv, NEW n \in Repo, NEW u \in User, Cancel(n, u)
  PROVE  Notice!Cancel(n, u)
<1> DEFINE Less(x) == IF x.repo = n /\ x.fate # "handled"
                      THEN [x EXCEPT !.owed = @ \ {u}] ELSE x
<1>1. ASSUME NEW i \in Event
      PROVE  NoticeOf(i)' = Less(NoticeOf(i))
  <2>1. /\ event'[i].job = event[i].job /\ event'[i].repo = event[i].repo
        /\ event'[i].previousTag = event[i].previousTag
        /\ event'[i].currentTag = event[i].currentTag
        /\ event'[i].owed = IF event[i].repo = n /\ event[i].job.state # "completed"
                            THEN event[i].owed \ {u} ELSE event[i].owed
    BY CancelTakesOff
  <2>2. Fate(i) = "handled" <=> event[i].job.state = "completed"
    BY StateType, FateIs
  <2>3. Fate(i)' = Fate(i) /\ NotifySubscribers(i)' = NotifySubscribers(i)
    BY <2>1 DEF Fate, NotifySubscribers
  <2>4. NoticeOf(i)' = [fate |-> Fate(i), repo |-> event[i].repo, tag |-> event[i].currentTag,
                        first |-> ~NotifySubscribers(i), owed |-> event'[i].owed]
    BY <2>1, <2>3 DEF NoticeOf
  <2> QED
    BY <2>1, <2>2, <2>4 DEF NoticeOf
<1>2. notices' = [i \in Event |-> Less(notices[i])]
  BY <1>1 DEF notices
<1>3. /\ subscribed' = [subscribed EXCEPT ![n] = @ \ {u}]
      /\ UNCHANGED <<mails, entitled>>
  BY DEF Cancel
<1> QED
  BY <1>2, <1>3 DEF notices, NoticeOf, Notice!Cancel

LEMMA PublishAnnounces ==
  ASSUME TypeInv, Publish
  PROVE  \E i \in Event, n \in Repo, t \in Tag, first \in BOOLEAN : Notice!Announce(i, n, t, first)
<1>1. PICK i \in Event, n \in Repo, t \in Tag, first \in BOOLEAN :
        /\ i = published + 1 /\ n = scan.at /\ t = scan.answer
        /\ first = ~(scan.found[scan.at] # None)
  BY PublishAppends DEF Publish, TypeInv, ScannerOK, SoundScan
<1> DEFINE new == [fate |-> "open", repo |-> n, tag |-> t, first |-> first,
                   owed |-> subscribed[n]]
<1>2. /\ event[i] = NoEvent
      /\ \A k \in Event \ {i} : event'[k] = event[k]
      /\ event'[i] = [job |-> Added(NoJob), repo |-> n, previousTag |-> scan.found[scan.at],
                      currentTag |-> t, owed |-> subscribed[n]]
      /\ Added(NoJob).state = "wait"
  BY <1>1, PublishAppends
<1>3. NoticeOf(i)' = new
  <2>1. Fate(i)' = "open"
    BY <1>2 DEF Fate
  <2>2. (~NotifySubscribers(i))' = first
    BY <1>1, <1>2 DEF NotifySubscribers
  <2> QED
    BY <1>2, <2>1, <2>2 DEF NoticeOf
<1>4. \A k \in Event \ {i} : NoticeOf(k)' = NoticeOf(k)
  BY <1>2 DEF NoticeOf, Fate, NotifySubscribers
<1>5. notices[i].fate = "none"
  BY <1>2 DEF notices, NoticeOf, Fate, NoEvent, NoJob
<1>6. entitled' = IF first THEN entitled ELSE entitled \cup {<<n, u, t>> : u \in subscribed[n]}
  BY <1>1 DEF Publish
<1>7. UNCHANGED <<subscribed, mails>>
  BY DEF Publish
<1> HIDE DEF new
<1>8. notices' = [notices EXCEPT ![i] = new]
  BY <1>3, <1>4 DEF notices
<1>9. Notice!Announce(i, n, t, first)
  BY <1>5, <1>6, <1>7, <1>8 DEF new, notices, NoticeOf, Notice!Announce
<1> QED
  BY <1>9

(* A retry mails nobody new, or those it did not reach the first time.     *)
LEMMA AddBulkMails ==
  ASSUME TypeInv, EntitledInv, AddBulkEmails
  PROVE  \E i \in Event : Notice!Mail(i)
<1>1. PICK i \in Event : i = handler.at /\ event[i].job.state = "active"
  BY DEF AddBulkEmails, TypeInv, HandlerOK
<1>2. PICK users \in SUBSET User : users = handler.subs
  BY DEF TypeInv, HandlerOK, HandlerRecord
<1>3. NotifySubscribers(i) /\ \A u \in users : MailFor(i, u) \in entitled
  BY <1>1, <1>2 DEF AddBulkEmails, EntitledInv, ReadAreEntitled, NotifierReads
<1>4. mails' = mails \cup {MailFor(i, u) : u \in users}
  BY <1>1, <1>2 DEF AddBulkEmails
<1>5. UNCHANGED <<event, subscribed, entitled>>
  BY DEF AddBulkEmails, queue
<1>6. /\ notices[i].fate = "open" /\ ~notices[i].first
      /\ notices[i].repo = event[i].repo /\ notices[i].tag = event[i].currentTag
  BY <1>1, <1>3 DEF notices, NoticeOf, Fate
<1>7. \A u : <<notices[i].repo, u, notices[i].tag>> = MailFor(i, u)
  BY <1>6 DEF MailFor
<1>8. /\ \A u \in users : <<notices[i].repo, u, notices[i].tag>> \in entitled
      /\ mails' = mails \cup {<<notices[i].repo, u, notices[i].tag>> : u \in users}
  BY <1>3, <1>4, <1>7
<1>9. notices' = notices
  BY <1>5, NoticesStay
<1>10. Notice!Mail(i)
  BY <1>2, <1>5, <1>6, <1>8, <1>9 DEF notices, NoticeOf, Notice!Mail, Notice!MailFor
<1> QED
  BY <1>10

(* The end of an activation handles the event, drops it or leaves it open. *)
LEMMA EndSettles ==
  ASSUME TypeInv, OwedInv, Return \/ HandlerFails \/ MainCrash
  PROVE  \/ \E i \in Event : Notice!Handle(i) \/ Notice!Drop(i)
         \/ notices' = notices /\ UNCHANGED <<subscribed, mails, entitled>>
<1>1. PICK i \in Event : i = handler.at /\ event[i].job.state = "active"
  BY EndMoves
<1>2. PICK job : /\ SoundJob(job) /\ job.state \in {"completed", "wait", "failed"}
                 /\ job.state = "completed" => Return
                 /\ event' = [event EXCEPT ![i].job = job]
  BY <1>1, EndMoves
<1>3. UNCHANGED <<published, subscribed, mails, entitled>>
  BY DEF Return, HandlerFails, MainCrash
<1>4. /\ event'[i].job = job /\ event'[i].job.state \in JobState
      /\ notices' = [notices EXCEPT ![i].fate = Fate(i)']
  BY <1>1, <1>2, <1>3, NoticeMoves
<1>5. /\ notices[i].fate = "open" /\ notices[i].repo = event[i].repo
      /\ notices[i].tag = event[i].currentTag /\ notices[i].owed = event[i].owed
      /\ ~notices[i].first <=> NotifySubscribers(i)
  BY <1>1 DEF notices, NoticeOf, Fate
<1>6. CASE job.state = "completed"
  <2>1. Fate(i)' = "handled"
    BY <1>4, <1>6 DEF Fate
  <2>2. NotifySubscribers(i) => \A u \in event[i].owed : MailFor(i, u) \in mails
    BY <1>1, <1>2, <1>6 DEF Return, OwedInv, OwedHaveJobs, Mailed, Handled
  <2>3. notices[i].first
        \/ \A u \in notices[i].owed : <<notices[i].repo, u, notices[i].tag>> \in mails
    BY <1>5, <2>2 DEF MailFor
  <2>4. notices' = [notices EXCEPT ![i].fate = "handled"]
    BY <1>4, <2>1
  <2>5. Notice!Handle(i)
    BY <1>3, <1>5, <2>3, <2>4 DEF notices, NoticeOf, Notice!Handle, Notice!MailFor
  <2> QED
    BY <2>5
<1>7. CASE job.state = "failed"
  <2>1. Fate(i)' = "dropped"
    BY <1>4, <1>7 DEF Fate
  <2>2. notices' = [notices EXCEPT ![i].fate = "dropped"]
    BY <1>4, <2>1
  <2>3. Notice!Drop(i)
    BY <1>3, <1>5, <2>2 DEF notices, NoticeOf, Notice!Drop
  <2> QED
    BY <2>3
<1>8. CASE job.state = "wait"
  <2>1. Fate(i)' = "open"
    BY <1>4, <1>8 DEF Fate
  <2>2. notices' = notices
    <3>1. notices' = [notices EXCEPT ![i].fate = "open"]
      BY <1>4, <2>1
    <3>2. Fate(i) = "open"
      BY <1>1 DEF Fate
    <3>3. [NoticeOf(i) EXCEPT !.fate = "open"] = NoticeOf(i)
      BY <3>2 DEF NoticeOf
    <3>4. notices = [k \in Event |-> NoticeOf(k)]
      BY DEF notices
    <3> HIDE DEF notices
    <3>5. notices' = [notices EXCEPT ![i] = [NoticeOf(i) EXCEPT !.fate = "open"]]
      BY <3>1, <3>4
    <3> QED
      BY <3>3, <3>4, <3>5
  <2> QED
    BY <1>3, <2>2
<1> QED
  BY <1>2, <1>6, <1>7, <1>8

LEMMA TakingStutters ==
  ASSUME TypeInv, NEW i \in Event, TakeEvent(i)
  PROVE  notices' = notices /\ UNCHANGED <<subscribed, mails, entitled>>
<1>1. /\ event[i].job.state = "wait" /\ UNCHANGED <<published, subscribed, mails, entitled>>
  BY TakeEventMoves DEF TakeEvent
<1>2. PICK job : /\ SoundJob(job) /\ job.state = "active"
                 /\ event' = [event EXCEPT ![i].job = job]
  BY TakeEventMoves
<1>3. event'[i].job = job /\ notices' = [notices EXCEPT ![i].fate = Fate(i)']
  BY <1>1, <1>2, NoticeMoves
<1>4. Fate(i)' = "open" /\ Fate(i) = "open"
  BY <1>1, <1>2, <1>3 DEF Fate
<1>5. [NoticeOf(i) EXCEPT !.fate = "open"] = NoticeOf(i)
  BY <1>4 DEF NoticeOf
<1>6. notices = [k \in Event |-> NoticeOf(k)]
  BY DEF notices
<1>7. notices' = [notices EXCEPT ![i] = [NoticeOf(i) EXCEPT !.fate = "open"]]
  <2> HIDE DEF notices
  <2> QED
    BY <1>3, <1>4, <1>6
<1> HIDE DEF notices
<1> QED
  BY <1>1, <1>5, <1>6, <1>7

LEMMA NoticeInit == Init => Notice!Init
<1> SUFFICES ASSUME Init PROVE Notice!Init
  OBVIOUS
<1>1. \A i \in Event :
        NoticeOf(i) = [fate |-> "none", repo |-> None, tag |-> None, first |-> TRUE, owed |-> {}]
  BY DEF Init, NoticeOf, Fate, NotifySubscribers, NoEvent, NoJob
<1>2. notices = [i \in Event |-> [fate |-> "none", repo |-> None, tag |-> None, first |-> TRUE,
                                  owed |-> {}]]
  BY <1>1 DEF notices
<1>3. subscribed = [n \in Repo |-> {}] /\ mails = {} /\ entitled = {}
  BY DEF Init
<1> QED
  BY <1>2, <1>3 DEF notices, NoticeOf, Notice!Init, Notice!NoNotice

LEMMA NoticeStep ==
  TypeInv /\ OwedInv /\ EntitledInv /\ [Next]_vars => [Notice!Next]_Notice!vars
<1> SUFFICES ASSUME TypeInv, OwedInv, EntitledInv, [Next]_vars
             PROVE  [Notice!Next]_Notice!vars
  OBVIOUS
<1>1. ASSUME notices' = notices, UNCHANGED <<subscribed, mails, entitled>>
      PROVE  [Notice!Next]_Notice!vars
  BY <1>1 DEF notices, NoticeOf, Notice!vars
<1>2. ASSUME UNCHANGED <<event, subscribed, mails, entitled>>
      PROVE  [Notice!Next]_Notice!vars
  BY <1>1, <1>2, NoticesStay
<1>3. ASSUME NEW n \in Repo, NEW u \in User, Confirm(n, u)
      PROVE  [Notice!Next]_Notice!vars
  BY <1>3, ConfirmIsConfirm DEF Notice!Next
<1>4. ASSUME NEW n \in Repo, NEW u \in User, Cancel(n, u)
      PROVE  [Notice!Next]_Notice!vars
  BY <1>4, CancelIsCancel DEF Notice!Next
<1>5. CASE Publish
  BY <1>5, PublishAnnounces DEF Notice!Next
<1>6. ASSUME NEW i \in Event, TakeEvent(i)
      PROVE  [Notice!Next]_Notice!vars
  BY <1>1, <1>6, TakingStutters
<1>7. CASE AddBulkEmails
  BY <1>7, AddBulkMails DEF Notice!Next
<1>8. CASE Return \/ HandlerFails \/ MainCrash
  BY <1>1, <1>8, EndSettles DEF Notice!Next
<1> QED
  BY <1>2, <1>3, <1>4, <1>5, <1>6, <1>7, <1>8
  DEF Next, vars, mainApi, queue, ScanStep, HandlerStep, Release, SyncTracking, StartScan,
      ReadCache, AskGitHub, FillCache, SaveTag, RepoFails, EndScan, ScannerCrash,
      FindSubscriptions, UpdateLastSeenTag

(* The scan and its event worker implement ReleaseNotice, for any number   *)
(* of repositories, subscribers, releases and faults.                      *)
THEOREM ImplementsReleaseNotice == Spec => ImplementsNotice
BY NoticeInit, NoticeStep, TypeInvariance, OwedInvariance, EntitledInvariance, PTL
DEF Spec, ImplementsNotice, Notice!Spec
=============================================================================
