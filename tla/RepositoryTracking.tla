------------------------ MODULE RepositoryTracking ------------------------
(***************************************************************************)
(* How the scanner learns which repositories to scan.  A confirmation or   *)
(* cancellation updates its subscription, counts the ACTIVE ones of the    *)
(* repository and publishes a sync-repository-tracking command; the        *)
(* scanner's ScannerCommandWorker applies the commands to its own table,   *)
(* several at a time.                                                      *)
(*                                                                         *)
(* One repository: commands of different repositories touch different      *)
(* rows.  Definitions marked "Fault" are wrong variants of the one below   *)
(* them, used to see that the properties reject them.                      *)
(***************************************************************************)
EXTENDS BullJob, FiniteSets

CONSTANTS Subscription,  \* the subscriptions of the repository
          Click,         \* visits of links that the Main API serves at a time
          Slot,          \* activations of the scanner's worker (concurrency: 5)
          None,          \* not a subscription
          MaxCommands,   \* bound: links that are followed
          MaxFaults      \* bound: crashes, thrown errors and expired locks

ASSUME TrackingAssumption == /\ None \notin Subscription
                             /\ MaxCommands \in Nat
                             /\ MaxFaults \in Nat

VARIABLES
  status,    \* Subscription -> its status in the Main API's table
  request,   \* the subscription that a new request found UNSUBSCRIBED, or None
  click,     \* Click -> confirmSubscription or cancelSubscription in progress
  command,   \* the commands published, in order
  published, \* how many there are
  tracked,   \* the scanner's TrackedRepository row of the repository
  slot,      \* Slot -> the command it runs, and whether it holds its lock
  faults,
  alone      \* history: since the last link was followed, nothing else ran
             \*   beside it, and nothing was lost or overwritten

vars == <<status, request, click, command, published, tracked, slot, faults, alone>>

SubStatus == {"PENDING", "ACTIVE", "UNSUBSCRIBED"}

Target == {"ACTIVE", "UNSUBSCRIBED"}

ClickPc == {"idle", "update", "count", "publish"}

NoClick == [pc |-> "idle", sub |-> None, to |-> "ACTIVE", active |-> FALSE]

Command == 1..MaxCommands

NoCommand == [job |-> NoJob, active |-> FALSE]

IdleSlot == [pc |-> "idle", at |-> 0, held |-> FALSE]

(* The last conjunct: who holds the lock of a job runs it, alone.          *)
TypeOK ==
  /\ status \in [Subscription -> SubStatus]
  /\ request \in Subscription \cup {None}
  /\ click \in [Click -> [pc: ClickPc, sub: Subscription \cup {None},
                          to: Target, active: BOOLEAN]]
  /\ command \in [Command -> [job: Job, active: BOOLEAN]]
  /\ published \in 0..MaxCommands
  /\ tracked \in {"none", "active", "inactive"}
  /\ slot \in [Slot -> [pc: {"idle", "sync", "return"}, at: 0..MaxCommands, held: BOOLEAN]]
  /\ faults \in 0..MaxFaults
  /\ alone \in BOOLEAN
  /\ \A w \in Slot : slot[w].held =>
       /\ slot[w].pc # "idle" /\ command[slot[w].at].job.state = "active"
       /\ \A v \in Slot \ {w} : slot[v].held => slot[v].at # slot[w].at

Init ==
  /\ status = [s \in Subscription |-> "PENDING"]
  /\ request = None
  /\ click = [c \in Click |-> NoClick]
  /\ command = [i \in Command |-> NoCommand]
  /\ published = 0
  /\ tracked = "none"
  /\ slot = [w \in Slot |-> IdleSlot]
  /\ faults = 0
  /\ alone = TRUE

Serving == {c \in Click : click[c].pc # "idle"}

Open == {i \in Command : command[i].job.state \in {"wait", "active"}}

(* No link is being served, no command waits and no activation runs.       *)
Quiet == Serving = {} /\ Open = {} /\ \A w \in Slot : slot[w].pc = "idle"

Fault == faults < MaxFaults /\ faults' = faults + 1

-----------------------------------------------------------------------------
(* The Main API.                                                           *)

(* findByConfirmToken or findByUnsubscribeToken, and the guard on status.  *)
(* The unsubscribe link of a PENDING row was never mailed to anybody.      *)
FollowLink(c, s, to) ==
  /\ click[c].pc = "idle"
  /\ published + Cardinality(Serving) < MaxCommands
  /\ status[s] \in IF to = "ACTIVE" THEN {"PENDING", "UNSUBSCRIBED"} ELSE {"ACTIVE"}
  /\ click' = [click EXCEPT ![c] = [pc |-> "update", sub |-> s, to |-> to, active |-> FALSE]]
  /\ alone' = Quiet
  /\ UNCHANGED <<status, request, command, published, tracked, slot, faults>>

UpdateStatus(c) ==
  /\ click[c].pc = "update"
  /\ status' = [status EXCEPT ![click[c].sub] = click[c].to]
  /\ click' = [click EXCEPT ![c].pc = "count"]
  /\ UNCHANGED <<request, command, published, tracked, slot, faults, alone>>

(* Fault: the count forgets the subscriptions of everybody else.           *)
CountOwn(c) ==
  /\ click[c].pc = "count"
  /\ click' = [click EXCEPT ![c].pc = "publish", ![c].active = (click[c].to = "ACTIVE")]
  /\ UNCHANGED <<status, request, command, published, tracked, slot, faults, alone>>

(* syncRepositoryTracking reads the repository, which outlives its ACTIVE  *)
(* and UNSUBSCRIBED rows, and counts.                                      *)
Count(c) ==
  /\ click[c].pc = "count"
  /\ click' = [click EXCEPT ![c].pc = "publish",
                            ![c].active = \E s \in Subscription : status[s] = "ACTIVE"]
  /\ UNCHANGED <<status, request, command, published, tracked, slot, faults, alone>>

Publish(c) ==
  /\ click[c].pc = "publish"
  /\ published' = published + 1
  /\ command' = [command EXCEPT
       ![published + 1] = [job |-> Added(NoJob), active |-> click[c].active]]
  /\ click' = [click EXCEPT ![c] = NoClick]
  /\ UNCHANGED <<status, request, tracked, slot, faults, alone>>

(* A statement throws, before or after it took effect (after: the step and *)
(* then this one): the user is answered 500.                               *)
ClickFails(c) ==
  /\ click[c].pc # "idle"
  /\ Fault
  /\ click' = [click EXCEPT ![c] = NoClick]
  /\ alone' = FALSE
  /\ UNCHANGED <<status, request, command, published, tracked, slot>>

(* The saga of a new request reads an UNSUBSCRIBED row and, in a later     *)
(* statement, makes it PENDING, whatever an old link has made of it in     *)
(* between.  It publishes no command.                                      *)
FindUnsubscribed(s) ==
  /\ request = None /\ status[s] = "UNSUBSCRIBED"
  /\ request' = s
  /\ UNCHANGED <<status, click, command, published, tracked, slot, faults, alone>>

Resubscribe ==
  /\ request # None
  /\ status' = [status EXCEPT ![request] = "PENDING"]
  /\ request' = None
  /\ alone' = (alone /\ status[request] # "ACTIVE")
  /\ UNCHANGED <<click, command, published, tracked, slot, faults>>

(* The Main API has no shutdown handler: what it serves is lost.           *)
MainCrash ==
  /\ Serving # {} \/ request # None
  /\ Fault
  /\ click' = [c \in Click |-> NoClick]
  /\ request' = None
  /\ alone' = (alone /\ Serving = {})
  /\ UNCHANGED <<status, command, published, tracked, slot>>

-----------------------------------------------------------------------------
(* The scanner.                                                            *)

Waits(i) == command[i].job.state = "wait"

Fresh(i) == command[i].job.attempts = 0 /\ command[i].job.stalls = 0

(* Fresh commands are taken in order; one that failed comes back when its  *)
(* back-off ends.                                                          *)
Take(w, i) ==
  /\ slot[w].pc = "idle"
  /\ Waits(i)
  /\ Fresh(i) => \A j \in Command : j < i => ~(Waits(j) /\ Fresh(j))
  /\ command' = [command EXCEPT ![i].job = Taken(@)]
  /\ slot' = [slot EXCEPT ![w] = [pc |-> "sync", at |-> i, held |-> TRUE]]
  /\ UNCHANGED <<status, request, click, published, tracked, faults, alone>>

(* sync: activate upserts the row, deactivate updates it if it is there.   *)
Sync(w) ==
  /\ slot[w].pc = "sync"
  /\ tracked' = IF command[slot[w].at].active THEN "active"
                ELSE IF tracked = "none" THEN "none" ELSE "inactive"
  /\ slot' = [slot EXCEPT ![w].pc = "return"]
  /\ UNCHANGED <<status, request, click, command, published, faults, alone>>

(* Only the holder of the lock moves its job.                              *)
Finish(w, moved) ==
  /\ IF slot[w].held
     THEN command' = [command EXCEPT ![slot[w].at].job = moved]
     ELSE UNCHANGED command
  /\ slot' = [slot EXCEPT ![w] = IdleSlot]
  /\ UNCHANGED <<status, request, click, published, tracked>>

Return(w) ==
  /\ slot[w].pc = "return"
  /\ Finish(w, Succeeded(command[slot[w].at].job))
  /\ UNCHANGED <<faults, alone>>

(* activate or deactivate throws, before or after it took effect.  A       *)
(* command that has no attempt left is lost.                               *)
SyncFails(w) ==
  /\ slot[w].pc # "idle"
  /\ Fault
  /\ Finish(w, Failed(command[slot[w].at].job))
  /\ alone' = (alone /\ \A i \in Command : command'[i].job.state # "failed"
                                           \/ command[i].job.state = "failed")

(* Fault: whoever took the job first may still move it.                    *)
LoseLockUnchecked(w) ==
  /\ slot[w].pc # "idle" /\ slot[w].held
  /\ Fault
  /\ command' = [command EXCEPT ![slot[w].at].job = Stalled(@)]
  /\ alone' = (alone /\ command'[slot[w].at].job.state # "failed")
  /\ UNCHANGED <<status, request, click, published, tracked, slot>>

(* The lock expires under a running activation: the job is handed out      *)
(* again while the activation goes on.                                     *)
LoseLock(w) ==
  /\ slot[w].pc # "idle" /\ slot[w].held
  /\ Fault
  /\ command' = [command EXCEPT ![slot[w].at].job = Stalled(@)]
  /\ slot' = [slot EXCEPT ![w].held = FALSE]
  /\ alone' = (alone /\ command'[slot[w].at].job.state # "failed")
  /\ UNCHANGED <<status, request, click, published, tracked>>

(* Fault: nobody recovers the jobs of a dead worker.                       *)
ScannerCrashLosesJobs ==
  /\ \E w \in Slot : slot[w].pc # "idle"
  /\ Fault
  /\ slot' = [w \in Slot |-> IdleSlot]
  /\ UNCHANGED <<status, request, click, command, published, tracked, alone>>

(* The scanner dies and is started again; the jobs it held have stalled.   *)
ScannerCrash ==
  /\ \E w \in Slot : slot[w].pc # "idle"
  /\ Fault
  /\ command' = [i \in Command |->
       IF command[i].job.state = "active"
       THEN [command[i] EXCEPT !.job = Stalled(@)] ELSE command[i]]
  /\ slot' = [w \in Slot |-> IdleSlot]
  /\ alone' = (alone /\ \A i \in Open : command'[i].job.state # "failed")
  /\ UNCHANGED <<status, request, click, published, tracked>>

-----------------------------------------------------------------------------
ClickStep(c) == UpdateStatus(c) \/ Count(c) \/ Publish(c)

SlotStep(w) == Sync(w) \/ Return(w)

Next ==
  \/ \E c \in Click : \/ \E s \in Subscription, to \in Target : FollowLink(c, s, to)
                      \/ ClickStep(c) \/ ClickFails(c)
  \/ \E s \in Subscription : FindUnsubscribed(s)
  \/ Resubscribe
  \/ \E w \in Slot : \/ \E i \in Command : Take(w, i)
                     \/ SlotStep(w) \/ SyncFails(w) \/ LoseLock(w)
  \/ MainCrash \/ ScannerCrash

Spec == Init /\ [][Next]_vars

(* A call that a click or an activation awaits ends, and a running worker  *)
(* polls its queue.  Nobody has to follow a link.                          *)
FairSpec == /\ Spec
            /\ \A c \in Click : WF_vars(ClickStep(c))
            /\ \A w \in Slot : WF_vars(SlotStep(w))
            /\ WF_vars(\E w \in Slot, i \in Command : Take(w, i))

-----------------------------------------------------------------------------
(* The scanner scans the repository exactly if somebody is subscribed.     *)
InStep == (tracked = "active") <=> (\E s \in Subscription : status[s] = "ACTIVE")

(* The projection heals.  Whatever went wrong before (commands applied out *)
(* of order, counts that were stale, commands lost for good), a link that  *)
(* is served while nothing else runs and whose command is not lost leaves  *)
(* the scanner in step with the subscriptions, however often that command  *)
(* is retried: it publishes a fresh count, not the difference it made.     *)
AloneClickHeals == alone /\ Quiet => InStep

(* What a retried, stalled or overtaken command can do wrong ends with it: *)
(* if the last link was served alone, the scanner comes to be in step.     *)
LastClickSettles == <>[]alone => []<>InStep

(* README.md and system-design.md: ACTIVE means that the user receives     *)
(* notifications, so at rest the repository of an ACTIVE row is scanned.   *)
ActiveIsScanned ==
  Quiet => ((\E s \in Subscription : status[s] = "ACTIVE") => tracked = "active")
=============================================================================
