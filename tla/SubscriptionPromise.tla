------------------------ MODULE SubscriptionPromise ------------------------
(***************************************************************************)
(* What the Main API promises to the people behind the addresses, whatever *)
(* is retried, repeated, overtaken or cut short on the way:                *)
(*   - double opt-in: a row of Subscription becomes ACTIVE or UNSUBSCRIBED *)
(*     only after a confirmation link for that very row was mailed;        *)
(*   - only a PENDING row is ever taken back, and only by a saga that has  *)
(*     this row: deleted if that saga inserted it, UNSUBSCRIBED if not;    *)
(*   - a saga completes only after its mail, and is compensated only when  *)
(*     no row waits for its link;                                          *)
(*   - a token is given to one row, once.                                  *)
(* It does not promise that a settled saga stays settled, nor which of two *)
(* requests for an UNSUBSCRIBED row gets it.                               *)
(***************************************************************************)
CONSTANTS Request,  \* the requests, and the rows, tokens and sagas drawn for them
          None      \* null

VARIABLES
  status,   \* row -> its status
  token,    \* row -> the request that drew its tokens
  row,      \* request -> the row that its saga has
  outcome,  \* request -> "none", "open", "completed" or "compensated"
  mailed    \* the requests whose confirmation link was mailed

vars == <<status, token, row, outcome, mailed>>

TypeOK ==
  /\ status \in [Request -> {"ABSENT", "PENDING", "ACTIVE", "UNSUBSCRIBED"}]
  /\ token \in [Request -> Request \cup {None}]
  /\ row \in [Request -> Request \cup {None}]
  /\ outcome \in [Request -> {"none", "open", "completed", "compensated"}]
  /\ mailed \subseteq Request

Init ==
  /\ status = [i \in Request |-> "ABSENT"]
  /\ token = [i \in Request |-> None]
  /\ row = [s \in Request |-> None]
  /\ outcome = [s \in Request |-> "none"]
  /\ mailed = {}

OptedIn(i) == \E s \in mailed : row[s] = i

(* A saga begins with a new row, or with one that was confirmed before.    *)
Begin(s, i) ==
  /\ outcome[s] = "none"
  /\ IF i = s THEN status[i] = "ABSENT" ELSE status[i] # "ABSENT" /\ OptedIn(i)
  /\ status' = [status EXCEPT ![i] = "PENDING"]
  /\ token' = [token EXCEPT ![i] = s]
  /\ row' = [row EXCEPT ![s] = i]
  /\ outcome' = [outcome EXCEPT ![s] = "open"]
  /\ UNCHANGED mailed

Mail(s) ==
  /\ outcome[s] # "none"
  /\ mailed' = mailed \cup {s}
  /\ UNCHANGED <<status, token, row, outcome>>

(* A link is followed.                                                     *)
Answer(i, answer) ==
  /\ status[i] # "ABSENT"
  /\ OptedIn(i)
  /\ status' = [status EXCEPT ![i] = answer]
  /\ UNCHANGED <<token, row, outcome, mailed>>

TakeBack(s) ==
  /\ outcome[s] # "none"
  /\ status[row[s]] = "PENDING"
  /\ IF row[s] = s
     THEN status' = [status EXCEPT ![s] = "ABSENT"] /\ token' = [token EXCEPT ![s] = None]
     ELSE status' = [status EXCEPT ![row[s]] = "UNSUBSCRIBED"] /\ UNCHANGED token
  /\ UNCHANGED <<row, outcome, mailed>>

Waits(s) == \E i \in Request : token[i] = s /\ status[i] = "PENDING"

Settle(s, end) ==
  /\ outcome[s] # "none"
  /\ end = "completed" => s \in mailed
  /\ end = "compensated" => ~Waits(s)
  /\ outcome' = [outcome EXCEPT ![s] = end]
  /\ UNCHANGED <<status, token, row, mailed>>

Next ==
  \E s \in Request :
    \/ Mail(s)
    \/ \E end \in {"open", "completed", "compensated"} : Settle(s, end)
    \/ TakeBack(s)
    \/ \E answer \in {"ACTIVE", "UNSUBSCRIBED"} : Answer(s, answer)
    \/ \E i \in Request : Begin(s, i)

Spec == Init /\ [][Next]_vars

(* Nobody is sent releases, or was sent any, who was not mailed the link   *)
(* that confirms this subscription.                                        *)
DoubleOptIn ==
  \A i \in Request : status[i] \in {"ACTIVE", "UNSUBSCRIBED"} => OptedIn(i)
=============================================================================
