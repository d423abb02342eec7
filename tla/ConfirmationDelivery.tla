------------------------ MODULE ConfirmationDelivery ------------------------
(***************************************************************************)
(* What the Notification Service promises to the Main API about one        *)
(* confirm-subscription command per saga, whatever is retried, lost or     *)
(* repeated on the way:                                                    *)
(*   - "confirmation-email-sent" is reported only of a confirmation that   *)
(*     the mail provider accepted;                                         *)
(*   - the command ends completed only if that was reported;               *)
(*   - nothing is delivered or reported that was not requested.            *)
(* It promises no more: "confirmation-email-failed" may be reported of a   *)
(* message the provider accepted, both results may be reported, and an     *)
(* abandoned command may have reported neither.                            *)
(***************************************************************************)
CONSTANT Saga

Report == {"sent", "failed"}

VARIABLES
  outcome,    \* of the saga's command: "none", "queued", "completed", "abandoned"
  delivered,  \* the sagas whose confirmation the mail provider accepted
  reported    \* the results reported of each saga

vars == <<outcome, delivered, reported>>

TypeOK == /\ outcome \in [Saga -> {"none", "queued", "completed", "abandoned"}]
          /\ delivered \subseteq Saga
          /\ reported \in [Saga -> SUBSET Report]

Init == /\ outcome = [s \in Saga |-> "none"]
        /\ delivered = {}
        /\ reported = [s \in Saga |-> {}]

Command(s) == /\ outcome[s] = "none"
              /\ outcome' = [outcome EXCEPT ![s] = "queued"]
              /\ UNCHANGED <<delivered, reported>>

Deliver(s) == /\ outcome[s] # "none"
              /\ delivered' = delivered \cup {s}
              /\ UNCHANGED <<outcome, reported>>

ReportSent(s) == /\ s \in delivered
                 /\ reported' = [reported EXCEPT ![s] = @ \cup {"sent"}]
                 /\ UNCHANGED <<outcome, delivered>>

ReportFailed(s) == /\ outcome[s] # "none"
                   /\ reported' = [reported EXCEPT ![s] = @ \cup {"failed"}]
                   /\ UNCHANGED <<outcome, delivered>>

Complete(s) == /\ outcome[s] = "queued"
               /\ "sent" \in reported[s]
               /\ outcome' = [outcome EXCEPT ![s] = "completed"]
               /\ UNCHANGED <<delivered, reported>>

(* A crash may end several commands at once.                               *)
Abandon(S) == /\ \A s \in S : outcome[s] = "queued"
              /\ outcome' = [s \in Saga |-> IF s \in S THEN "abandoned" ELSE outcome[s]]
              /\ UNCHANGED <<delivered, reported>>

Next == \/ \E s \in Saga : \/ Command(s)
                           \/ Deliver(s)
                           \/ ReportSent(s)
                           \/ ReportFailed(s)
                           \/ Complete(s)
        \/ \E S \in SUBSET Saga : Abandon(S)

Spec == Init /\ [][Next]_vars
=============================================================================
