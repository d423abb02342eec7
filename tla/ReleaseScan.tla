---------------------------- MODULE ReleaseScan ----------------------------
(***************************************************************************)
(* From a GitHub release to the jobs that mail it.  The scanner's cron     *)
(* runs scanRepositories over its active TrackedRepository rows: ask       *)
(* GitHub (a conditional request with the cached ETag), publish a          *)
(* repository-tag-updated event, save the tag.  The Main API's             *)
(* ScannerEventWorker (concurrency: 1) adds a new-release job for each     *)
(* ACTIVE subscription and saves the tag in its own Repository row.        *)
(*                                                                         *)
(* Repositories keep their ids and names here, so the handler's branches   *)
(* for an unknown id or another name are never taken.  Definitions marked  *)
(* "Fault" are wrong variants of the one below them, used to see that the  *)
(* properties reject them.                                                 *)
(***************************************************************************)
EXTENDS BullJob, FiniteSets

CONSTANTS Repo,         \* repositories
          User,         \* subscribers
          Tag,          \* release tags
          None,         \* null
          MaxReleases,  \* bound: changes of what GitHub answers
          MaxFaults     \* bound: crashes and thrown errors

ASSUME ScanAssumption == /\ None \notin Repo \cup Tag
                         /\ IsFiniteSet(Repo)
                         /\ MaxReleases \in Nat
                         /\ MaxFaults \in Nat

VARIABLES
  latest,      \* Repo -> the tag GitHub answers for releases/latest, or None (404)
  releases,    \* how often that has changed
  tracked,     \* Repo -> the scanner's TrackedRepository row
  cache,       \* Repo -> the tag whose ETag is cached, or None
  scan,        \* scanRepositories in progress
  event,       \* the events published, in order, with their jobs
  published,   \* how many there are
  subscribed,  \* Repo -> the users whose subscription is ACTIVE
  projection,  \* Repo -> lastSeenTag of the Main API's Repository row
  handler,     \* handleRepositoryTagUpdated in progress
  mails,       \* the ids of the new-release jobs: repository, user and tag
  faults,
  entitled     \* history: the mails (as in mails) to users whose subscription was
               \*   ACTIVE while an event with that release was not at its end

vars == <<latest, releases, tracked, cache, scan, event, published, subscribed,
          projection, handler, mails, faults, entitled>>

scanner == <<tracked, cache, scan>>
mainApi == <<subscribed, projection, handler, mails, entitled>>
queue   == <<event, published>>
gitHub  == <<latest, releases>>

MaybeTag == Tag \cup {None}

(* Bound of the events.  It is never reached before everything is seen: a  *)
(* publication follows a tag GitHub had from the start, a change of it, or *)
(* a failure that kept the last one from being saved.                      *)
MaxEvents == Cardinality(Repo) + MaxReleases + MaxFaults

Event == 1..MaxEvents

NoEvent == [job |-> NoJob, repo |-> None, previousTag |-> None, currentTag |-> None,
            owed |-> {}]

IdleScan == [pc |-> "idle", rest |-> {}, found |-> [n \in Repo |-> None],
             at |-> None, cached |-> None, answer |-> None]

IdleHandler == [pc |-> "idle", at |-> 0, lastSeenTag |-> None, subs |-> {}]

TypeOK ==
  /\ latest \in [Repo -> MaybeTag]
  /\ releases \in 0..MaxReleases
  /\ tracked \in [Repo -> [active: BOOLEAN, lastSeenTag: MaybeTag]]
  /\ cache \in [Repo -> MaybeTag]
  /\ scan \in [pc: {"idle", "next", "ask", "fill", "publish", "save"},
               rest: SUBSET Repo, found: [Repo -> MaybeTag],
               at: Repo \cup {None}, cached: MaybeTag, answer: MaybeTag]
  /\ event \in [Event -> [job: Job, repo: Repo \cup {None}, previousTag: MaybeTag,
                          currentTag: MaybeTag, owed: SUBSET User]]
  /\ published \in 0..MaxEvents
  /\ subscribed \in [Repo -> SUBSET User]
  /\ projection \in [Repo -> MaybeTag]
  /\ handler \in [pc: {"idle", "find", "add", "save", "return"}, at: 0..MaxEvents,
                  lastSeenTag: MaybeTag, subs: SUBSET User]
  /\ mails \subseteq Repo \X User \X Tag
  /\ faults \in 0..MaxFaults
  /\ entitled \subseteq Repo \X User \X Tag

Init ==
  /\ latest \in [Repo -> MaybeTag]
  /\ releases = 0
  /\ tracked = [n \in Repo |-> [active |-> FALSE, lastSeenTag |-> None]]
  /\ cache = [n \in Repo |-> None]
  /\ scan = IdleScan
  /\ event = [i \in Event |-> NoEvent]
  /\ published = 0
  /\ subscribed = [n \in Repo |-> {}]
  /\ projection = [n \in Repo |-> None]
  /\ handler = IdleHandler
  /\ mails = {}
  /\ faults = 0
  /\ entitled = {}

Fault == faults < MaxFaults /\ faults' = faults + 1

-----------------------------------------------------------------------------
(* The world around the scan.                                              *)

(* A release is published, or deleted so that another one, or none, is the *)
(* latest.                                                                 *)
Release(n, t) ==
  /\ releases < MaxReleases
  /\ latest[n] # t
  /\ latest' = [latest EXCEPT ![n] = t]
  /\ releases' = releases + 1
  /\ UNCHANGED <<scanner, mainApi, queue, faults>>

(* The commands that RepositoryTracking models: they keep lastSeenTag.     *)
SyncTracking(n) ==
  /\ tracked' = [tracked EXCEPT ![n].active = ~@]
  /\ UNCHANGED <<cache, scan, mainApi, queue, gitHub, faults>>

NotifySubscribers(i) == event[i].previousTag # None

Notifies(i) == event[i].job.state \in {"wait", "active"} /\ NotifySubscribers(i)

MailFor(i, u) == <<event[i].repo, u, event[i].currentTag>>

Confirm(n, u) ==
  /\ subscribed' = [subscribed EXCEPT ![n] = @ \cup {u}]
  /\ u \notin subscribed[n]
  /\ entitled' = entitled \cup
       {MailFor(i, u) : i \in {j \in Event : event[j].repo = n /\ Notifies(j)}}
  /\ UNCHANGED <<projection, handler, mails, scanner, queue, gitHub, faults>>

(* From here on the events that are not handled yet owe the user nothing.  *)
Cancel(n, u) ==
  /\ u \in subscribed[n]
  /\ subscribed' = [subscribed EXCEPT ![n] = @ \ {u}]
  /\ event' = [i \in Event |->
       IF event[i].repo = n /\ event[i].job.state # "completed"
       THEN [event[i] EXCEPT !.owed = @ \ {u}] ELSE event[i]]
  /\ UNCHANGED <<published, projection, handler, mails, entitled, scanner, gitHub, faults>>

-----------------------------------------------------------------------------
(* The scanner.                                                            *)

(* A cron tick with no scan in progress; findActive.                       *)
StartScan ==
  /\ scan.pc = "idle"
  /\ scan' = [IdleScan EXCEPT !.pc = "next",
       !.rest = {n \in Repo : tracked[n].active},
       !.found = [n \in Repo |-> IF tracked[n].active THEN tracked[n].lastSeenTag ELSE None]]
  /\ UNCHANGED <<tracked, cache, mainApi, queue, gitHub, faults>>

(* releaseCache.get *)
ReadCache(n) ==
  /\ scan.pc = "next"
  /\ n \in scan.rest
  /\ scan' = [scan EXCEPT !.pc = "ask", !.rest = @ \ {n}, !.at = n, !.cached = cache[n]]
  /\ UNCHANGED <<tracked, cache, mainApi, queue, gitHub, faults>>

NextRepo == [scan EXCEPT !.pc = "next", !.at = None, !.cached = None, !.answer = None]

(* Fault: a repository that has no release any more is announced, too.     *)
ReturnedNoRelease(answer) ==
  IF answer = scan.found[scan.at] THEN NextRepo
  ELSE [scan EXCEPT !.pc = "publish", !.answer = answer]

(* getLatestRelease returns: no release, or the one already seen, ends it. *)
Returned(answer) ==
  IF answer \in {None, scan.found[scan.at]} THEN NextRepo
  ELSE [scan EXCEPT !.pc = "publish", !.answer = answer]

(* Fault: 304 is read as "nothing new".                                    *)
AskGitHubNotModifiedIsNull ==
  /\ scan.pc = "ask"
  /\ \/ scan.cached # None /\ scan.cached = latest[scan.at]
        /\ scan' = Returned(None)
     \/ scan' = [scan EXCEPT !.pc = "fill", !.answer = latest[scan.at]]
  /\ UNCHANGED <<tracked, cache, mainApi, queue, gitHub, faults>>

(* 304 if the cached ETag still is the current one; else 200, or 404 when  *)
(* there is no release.  A 200 with the cached tag is what comes of an     *)
(* edited release (a new ETag) or of an entry whose time to live was over. *)
AskGitHub ==
  /\ scan.pc = "ask"
  /\ \/ scan.cached # None /\ scan.cached = latest[scan.at]
        /\ scan' = Returned(scan.cached)
     \/ scan' = [scan EXCEPT !.pc = "fill", !.answer = latest[scan.at]]
  /\ UNCHANGED <<tracked, cache, mainApi, queue, gitHub, faults>>

(* releaseCache.set; after a 404 the entry has no ETag.                    *)
FillCache ==
  /\ scan.pc = "fill"
  /\ cache' = [cache EXCEPT ![scan.at] = scan.answer]
  /\ scan' = Returned(scan.answer)
  /\ UNCHANGED <<tracked, mainApi, queue, gitHub, faults>>

Publish ==
  /\ scan.pc = "publish"
  /\ published < MaxEvents
  /\ published' = published + 1
  /\ event' = [event EXCEPT ![published + 1] =
       [job |-> Added(NoJob), repo |-> scan.at, previousTag |-> scan.found[scan.at],
        currentTag |-> scan.answer, owed |-> subscribed[scan.at]]]
  /\ entitled' = IF scan.found[scan.at] = None THEN entitled
                 ELSE entitled \cup {<<scan.at, u, scan.answer>> : u \in subscribed[scan.at]}
  /\ scan' = [scan EXCEPT !.pc = "save"]
  /\ UNCHANGED <<tracked, cache, subscribed, projection, handler, mails, gitHub, faults>>

SaveTag ==
  /\ scan.pc = "save"
  /\ tracked' = [tracked EXCEPT ![scan.at].lastSeenTag = scan.answer]
  /\ scan' = NextRepo
  /\ UNCHANGED <<cache, mainApi, queue, gitHub, faults>>

(* Fault: an error of the event queue is logged where it happens.          *)
RepoFailsButSaves ==
  /\ scan.pc \in {"ask", "fill", "publish", "save"}
  /\ Fault
  /\ scan' = IF scan.pc = "publish" THEN [scan EXCEPT !.pc = "save"] ELSE NextRepo
  /\ UNCHANGED <<tracked, cache, mainApi, queue, gitHub>>

(* GitHub, Redis or the database throws, before or after it took effect    *)
(* (after: the step and then this one): the next repository's turn.        *)
RepoFails ==
  /\ scan.pc \in {"ask", "fill", "publish", "save"}
  /\ Fault
  /\ scan' = NextRepo
  /\ UNCHANGED <<tracked, cache, mainApi, queue, gitHub>>

EndScan ==
  /\ scan.pc = "next" /\ scan.rest = {}
  /\ scan' = IdleScan
  /\ UNCHANGED <<tracked, cache, mainApi, queue, gitHub, faults>>

(* The scanner dies, or is stopped without waiting for the scan.           *)
ScannerCrash ==
  /\ scan.pc # "idle"
  /\ Fault
  /\ scan' = IdleScan
  /\ UNCHANGED <<tracked, cache, mainApi, queue, gitHub>>

-----------------------------------------------------------------------------
(* The Main API's scanner event worker.                                    *)

Handled == event[handler.at]

Waits(i) == event[i].job.state = "wait"

Fresh(i) == event[i].job.attempts = 0 /\ event[i].job.stalls = 0

(* The last statement is skipped when the row already has the tag.         *)
SaveOr(tag, i) == IF tag = event[i].currentTag THEN "return" ELSE "save"

(* Fault: an event whose tag is already in the row is taken for a repeat.  *)
TakeEventSkipsKnown(i) ==
  /\ handler.pc = "idle"
  /\ Waits(i)
  /\ Fresh(i) => \A j \in Event : j < i => ~(Waits(j) /\ Fresh(j))
  /\ LET tag == projection[event[i].repo] IN
       handler' = [pc |-> IF NotifySubscribers(i) /\ tag # event[i].currentTag
                          THEN "find" ELSE SaveOr(tag, i),
                   at |-> i, lastSeenTag |-> tag, subs |-> {}]
  /\ event' = [event EXCEPT ![i].job = Taken(@)]
  /\ UNCHANGED <<published, subscribed, entitled, projection, mails, scanner, gitHub, faults>>

(* Fault: an event that does not continue the row's tag is dropped.        *)
TakeEventDropsMismatch(i) ==
  /\ handler.pc = "idle"
  /\ Waits(i)
  /\ Fresh(i) => \A j \in Event : j < i => ~(Waits(j) /\ Fresh(j))
  /\ LET tag == projection[event[i].repo] IN
       handler' = [pc |-> IF tag # event[i].previousTag THEN "return"
                          ELSE IF NotifySubscribers(i) THEN "find" ELSE SaveOr(tag, i),
                   at |-> i, lastSeenTag |-> tag, subs |-> {}]
  /\ event' = [event EXCEPT ![i].job = Taken(@)]
  /\ UNCHANGED <<published, subscribed, entitled, projection, mails, scanner, gitHub, faults>>

(* The worker runs one event at a time; fresh ones in order, one that      *)
(* failed when its back-off ends.  findById.                               *)
TakeEvent(i) ==
  /\ handler.pc = "idle"
  /\ Waits(i)
  /\ Fresh(i) => \A j \in Event : j < i => ~(Waits(j) /\ Fresh(j))
  /\ LET tag == projection[event[i].repo] IN
       handler' = [pc |-> IF NotifySubscribers(i) THEN "find" ELSE SaveOr(tag, i),
                   at |-> i, lastSeenTag |-> tag, subs |-> {}]
  /\ event' = [event EXCEPT ![i].job = Taken(@)]
  /\ UNCHANGED <<published, subscribed, entitled, projection, mails, scanner, gitHub, faults>>

(* Fault: with nobody to notify, the handler returns at once.              *)
FindSubscriptionsReturns ==
  /\ handler.pc = "find"
  /\ LET subs == subscribed[Handled.repo] IN
       handler' = [handler EXCEPT !.subs = subs,
                                  !.pc = IF subs = {} THEN "return" ELSE "add"]
  /\ UNCHANGED <<subscribed, entitled, projection, mails, queue, scanner, gitHub, faults>>

(* Fault: subscriptions of every status are found.                         *)
FindSubscriptionsOfAnyStatus ==
  /\ handler.pc = "find"
  /\ handler' = [handler EXCEPT !.subs = User, !.pc = "add"]
  /\ UNCHANGED <<subscribed, entitled, projection, mails, queue, scanner, gitHub, faults>>

FindSubscriptions ==
  /\ handler.pc = "find"
  /\ LET subs == subscribed[Handled.repo] IN
       handler' = [handler EXCEPT !.subs = subs,
         !.pc = IF subs = {} THEN SaveOr(handler.lastSeenTag, handler.at) ELSE "add"]
  /\ UNCHANGED <<subscribed, entitled, projection, mails, queue, scanner, gitHub, faults>>

(* addBulk: a job whose id exists is left as it is.                        *)
AddBulkEmails ==
  /\ handler.pc = "add"
  /\ mails' = mails \cup {MailFor(handler.at, u) : u \in handler.subs}
  /\ handler' = [handler EXCEPT !.pc = SaveOr(handler.lastSeenTag, handler.at)]
  /\ UNCHANGED <<subscribed, entitled, projection, queue, scanner, gitHub, faults>>

UpdateLastSeenTag ==
  /\ handler.pc = "save"
  /\ projection' = [projection EXCEPT ![Handled.repo] = Handled.currentTag]
  /\ handler' = [handler EXCEPT !.pc = "return"]
  /\ UNCHANGED <<subscribed, entitled, mails, queue, scanner, gitHub, faults>>

Return ==
  /\ handler.pc = "return"
  /\ event' = [event EXCEPT ![handler.at].job = Succeeded(@)]
  /\ handler' = IdleHandler
  /\ UNCHANGED <<published, subscribed, entitled, projection, mails, scanner, gitHub, faults>>

(* A statement throws, before or after it took effect.                     *)
HandlerFails ==
  /\ handler.pc # "idle"
  /\ Fault
  /\ event' = [event EXCEPT ![handler.at].job = Failed(@)]
  /\ handler' = IdleHandler
  /\ UNCHANGED <<published, subscribed, entitled, projection, mails, scanner, gitHub>>

(* Fault: the event of a dead worker is not handed out again.              *)
MainCrashLosesEvent ==
  /\ handler.pc # "idle"
  /\ Fault
  /\ handler' = IdleHandler
  /\ UNCHANGED <<queue, subscribed, entitled, projection, mails, scanner, gitHub>>

(* The Main API dies and is started again; its event has stalled.          *)
MainCrash ==
  /\ handler.pc # "idle"
  /\ Fault
  /\ event' = [event EXCEPT ![handler.at].job = Stalled(@)]
  /\ handler' = IdleHandler
  /\ UNCHANGED <<published, subscribed, entitled, projection, mails, scanner, gitHub>>

-----------------------------------------------------------------------------
ScanStep == \/ \E n \in Repo : ReadCache(n)
            \/ AskGitHub \/ FillCache \/ Publish \/ SaveTag \/ EndScan

HandlerStep == FindSubscriptions \/ AddBulkEmails \/ UpdateLastSeenTag \/ Return

Next ==
  \/ \E n \in Repo : \/ \E t \in MaybeTag : Release(n, t)
                     \/ SyncTracking(n)
                     \/ \E u \in User : Confirm(n, u) \/ Cancel(n, u)
  \/ StartScan \/ ScanStep \/ RepoFails \/ ScannerCrash
  \/ \E i \in Event : TakeEvent(i)
  \/ HandlerStep \/ HandlerFails \/ MainCrash

Spec == Init /\ [][Next]_vars

(* The cron goes on ticking, the event worker polls its queue, and every   *)
(* awaited call ends (the GitHub request has a timeout).  Nothing makes    *)
(* GitHub or the users move.                                               *)
FairSpec == /\ Spec
            /\ WF_vars(StartScan) /\ WF_vars(ScanStep)
            /\ WF_vars(\E i \in Event : TakeEvent(i)) /\ WF_vars(HandlerStep)

-----------------------------------------------------------------------------
(* Who was ACTIVE when a release was announced, and still is when its      *)
(* event has been handled, has a new-release job for it: through repeated  *)
(* announcements, retries, restarts and confirmations in between.          *)
OwedAreMailed ==
  \A i \in Event : event[i].job.state = "completed" /\ NotifySubscribers(i) =>
    \A u \in event[i].owed : MailFor(i, u) \in mails

(* The scanner never marks a tag as seen that it has not announced: what   *)
(* fails on the way is announced again (publish comes before save).        *)
SeenWasAnnounced ==
  \A n \in Repo : tracked[n].lastSeenTag # None =>
    \E i \in 1..published : /\ event[i].repo = n
                            /\ event[i].currentTag = tracked[n].lastSeenTag

(* The Main API's lastSeenTag is that of the last event, repeats and gaps  *)
(* in the chain of previousTags included, once all are handled and as long *)
(* as none had to be retried (a retried event may overwrite a newer tag).  *)
ProjectionFollows ==
  (\A i \in 1..published : event[i].job.state = "completed" /\ Fresh(i)) =>
    \A i \in 1..published :
      (\A j \in 1..published : event[j].repo = event[i].repo => j <= i)
      => projection[event[i].repo] = event[i].currentTag

(* Whatever ran before, repeats and retries included, an event that is     *)
(* completed leaves its own tag in the row, also where the statement that  *)
(* saves it was skipped because of a tag that was read earlier.            *)
EventLeavesItsTag ==
  [][\A i \in Event :
       event[i].job.state # "completed" /\ event'[i].job.state = "completed"
       => projection'[event[i].repo] = event[i].currentTag]_vars

(* What ReleaseNotice calls the events and what became of them.            *)
Fate(i) == CASE event[i].job.state = "none" -> "none"
             [] event[i].job.state = "completed" -> "handled"
             [] event[i].job.state = "failed" -> "dropped"
             [] OTHER -> "open"

Notice == INSTANCE ReleaseNotice WITH
  Id <- Event,
  notice <- [i \in Event |->
    [fate |-> Fate(i), repo |-> event[i].repo, tag |-> event[i].currentTag,
     first |-> ~NotifySubscribers(i), owed |-> event[i].owed]]

(* The handler keeps ReleaseNotice: a release is mailed to nobody but who  *)
(* was ACTIVE while it was announced, a first tag to nobody at all, and an *)
(* event is completed only with everybody mailed who stayed ACTIVE.        *)
ImplementsNotice == Notice!Spec

(* Whoever was ACTIVE when a release was announced, and stayed so, has a   *)
(* job for it, unless the event was given up.                              *)
NobodyWaits ==
  \A i \in Event : NotifySubscribers(i) /\ event[i].job.state # "failed" =>
    \A u \in event[i].owed : MailFor(i, u) \in mails

(* Nobody waits for ever: events are handled through errors and restarts.  *)
OwedGetMailed == []<>NobodyWaits

(* A release of a repository that stays tracked is seen: no failed         *)
(* publication, conditional answer or interrupted scan hides it for good   *)
(* (the latest release changes MaxReleases times at most).                 *)
ReleaseIsSeen ==
  \A n \in Repo :
    <>[](latest[n] # None /\ tracked[n].active) => []<>(tracked[n].lastSeenTag = latest[n])
=============================================================================
