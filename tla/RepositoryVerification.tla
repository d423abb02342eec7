---------------------- MODULE RepositoryVerification ----------------------
(***************************************************************************)
(* "Does this repository exist?", asked by the Main API over gRPC          *)
(* (GrpcRepositoryVerifier, with a deadline) or REST                       *)
(* (RestRepositoryVerifier, without one: nothing in the repository builds  *)
(* it, with or without a timeout), and answered by the scanner, which asks *)
(* GitHub.  An error crosses three tables: GitHub's answer to a domain     *)
(* code, the code to a gRPC or HTTP status, and that to the status the     *)
(* user gets.                                                              *)
(*                                                                         *)
(* Definitions marked "Fault" are wrong variants of the one below them,    *)
(* used to see that the properties reject them.                            *)
(***************************************************************************)
EXTENDS Naturals

CONSTANTS Call  \* the verifications that are asked for

VARIABLES
  call,  \* Call -> the Main API's side: the transport and what came of it
  work   \* Call -> the scanner's side, which a deadline does not stop

vars == <<call, work>>

Transport == {"grpc", "rest"}

(* What GitHub answers to GET /repos/{owner}/{repository}; "limited403" is *)
(* a 403 with x-ratelimit-remaining: 0.                                    *)
GitHubAnswer == {"found", "missing", "forbidden", "limited403", "limited429",
                 "broken", "other"}

(* What the verification comes to; "silent" is no response at all, and     *)
(* "malformed" never gets to GitHub.                                       *)
Verdict == GitHubAnswer \cup {"silent", "malformed"}

Code == {"INVALID_ARGUMENT", "NOT_FOUND", "PERMISSION_DENIED", "RESOURCE_EXHAUSTED",
         "UNAVAILABLE", "INTERNAL"}

(* The statuses the Main API answers with; 200 stands for going on.        *)
Answer == {200, 400, 403, 404, 429, 502, 503, 504}

Unknown == "unknown"

TypeOK ==
  /\ call \in [Call -> [pc: {"idle", "waiting", "done"}, via: Transport,
                        answer: Answer \cup {0}, verdict: Verdict \cup {Unknown}]]
  /\ work \in [Call -> [pc: {"none", "received", "asking", "replying"},
                        verdict: Verdict \cup {Unknown}]]

NoCall == [pc |-> "idle", via |-> "grpc", answer |-> 0, verdict |-> Unknown]

NoWork == [pc |-> "none", verdict |-> Unknown]

Init ==
  /\ call = [c \in Call |-> NoCall]
  /\ work = [c \in Call |-> NoWork]

-----------------------------------------------------------------------------
(* The tables.                                                             *)

(* Fault: every 403 is taken for a private repository.                     *)
HandleGitHubErrorIgnoresLimit(v) ==
  CASE v = "missing" -> "NOT_FOUND"
    [] v = "limited429" -> "RESOURCE_EXHAUSTED"
    [] v \in {"forbidden", "limited403"} -> "PERMISSION_DENIED"
    [] v \in {"broken", "silent"} -> "UNAVAILABLE"
    [] OTHER -> "INTERNAL"

HandleGitHubError(v) ==
  CASE v = "missing" -> "NOT_FOUND"
    [] v \in {"limited429", "limited403"} -> "RESOURCE_EXHAUSTED"
    [] v = "forbidden" -> "PERMISSION_DENIED"
    [] v \in {"broken", "silent"} -> "UNAVAILABLE"
    [] OTHER -> "INTERNAL"

VerificationError(v) ==
  IF v = "malformed" THEN "INVALID_ARGUMENT" ELSE HandleGitHubError(v)

(* The numbers of the gRPC statuses.                                       *)
GrpcStatus(code) ==
  CASE code = "INVALID_ARGUMENT" -> 3
    [] code = "NOT_FOUND" -> 5
    [] code = "PERMISSION_DENIED" -> 7
    [] code = "RESOURCE_EXHAUSTED" -> 8
    [] code = "UNAVAILABLE" -> 14
    [] code = "INTERNAL" -> 13

CANCELLED == 1
DEADLINE_EXCEEDED == 4

HttpStatus(code) ==
  CASE code = "INVALID_ARGUMENT" -> 400
    [] code = "NOT_FOUND" -> 404
    [] code = "PERMISSION_DENIED" -> 403
    [] code = "RESOURCE_EXHAUSTED" -> 429
    [] code = "UNAVAILABLE" -> 503
    [] code = "INTERNAL" -> 500

(* Fault: an unexpected status is the Main API's own error.                *)
GrpcMapErrorInternal(status) ==
  CASE status = 3 -> 400 [] status = 7 -> 403 [] status = 5 -> 404 [] status = 8 -> 429
    [] status = DEADLINE_EXCEEDED -> 504
    [] status \in {14, CANCELLED} -> 503
    [] OTHER -> 500

GrpcMapError(status) ==
  CASE status = 3 -> 400 [] status = 7 -> 403 [] status = 5 -> 404 [] status = 8 -> 429
    [] status = DEADLINE_EXCEEDED -> 504
    [] status \in {14, CANCELLED} -> 503
    [] OTHER -> 502

(* What axios fails with besides a status of the scanner.  ECONNABORTED is *)
(* a timeout, which the adapter leaves to the AxiosInstance it is given.   *)
ECONNABORTED == 1
NoResponse == 2

(* Fault: only the user's errors are passed on.                            *)
RestMapErrorNo503(status) ==
  CASE status = ECONNABORTED -> 504
    [] status \in {400, 403, 404, 429} -> status
    [] status = NoResponse -> 503
    [] OTHER -> 502

RestMapError(status) ==
  CASE status = ECONNABORTED -> 504
    [] status \in {400, 403, 404, 429, 503} -> status
    [] status = NoResponse -> 503
    [] OTHER -> 502

(* The answer a verdict leads to when the scanner's reply arrives.         *)
AnswerTo(via, v) ==
  IF v = "found" THEN 200
  ELSE IF via = "grpc" THEN GrpcMapError(GrpcStatus(VerificationError(v)))
       ELSE RestMapError(HttpStatus(VerificationError(v)))

-----------------------------------------------------------------------------
(* The Main API calls the scanner.                                         *)
VerifyRepository(c, via) ==
  /\ call[c].pc = "idle"
  /\ call' = [call EXCEPT ![c].pc = "waiting", ![c].via = via]
  /\ work' = [work EXCEPT ![c].pc = "received"]

(* RepositoryVerificationService.verify: the coordinates are checked (the  *)
(* Main API's schema has the same pattern), then GitHub is asked.          *)
Verify(c) ==
  /\ work[c].pc = "received"
  /\ \/ work' = [work EXCEPT ![c] = [pc |-> "replying", verdict |-> "malformed"]]
     \/ work' = [work EXCEPT ![c].pc = "asking"]
  /\ UNCHANGED call

GitHubAnswers(c, a) ==
  /\ work[c].pc = "asking"
  /\ work' = [work EXCEPT ![c] = [pc |-> "replying", verdict |-> a]]
  /\ UNCHANGED call

(* Fault: the scanner's GitHub client has no timeout.                      *)
GitHubTimesOutNever(c) == FALSE /\ work[c].pc = "asking" /\ UNCHANGED vars

(* No connection, or no response within the timeout of the scanner's       *)
(* GitHub client.                                                          *)
GitHubTimesOut(c) ==
  /\ work[c].pc = "asking"
  /\ work' = [work EXCEPT ![c] = [pc |-> "replying", verdict |-> "silent"]]
  /\ UNCHANGED call

(* The scanner's reply; after the deadline nobody listens to it.           *)
Reply(c) ==
  /\ work[c].pc = "replying"
  /\ call' = IF call[c].pc # "waiting" THEN call
             ELSE [call EXCEPT ![c].pc = "done", ![c].verdict = work[c].verdict,
                               ![c].answer = AnswerTo(call[c].via, work[c].verdict)]
  /\ work' = [work EXCEPT ![c] = NoWork]

(* verifyRepository rejects; the error handler answers the status.         *)
Rejected(c, status) == [call EXCEPT ![c] = [@ EXCEPT !.pc = "done", !.answer = status]]

(* Fault: no deadline is passed with the call.                             *)
DeadlineNever(c) == FALSE /\ call[c].pc = "waiting" /\ UNCHANGED vars

(* Only a gRPC call has one; what the scanner does for it goes on.         *)
Deadline(c) ==
  /\ call[c].pc = "waiting" /\ call[c].via = "grpc"
  /\ call' = Rejected(c, GrpcMapError(DEADLINE_EXCEEDED))
  /\ UNCHANGED work

(* The scanner cannot be reached, or it or the connection dies.            *)
ConnectionFails(c) ==
  /\ call[c].pc = "waiting"
  /\ \E status \in {GrpcStatus("UNAVAILABLE"), CANCELLED} :
       call' = Rejected(c, IF call[c].via = "grpc" THEN GrpcMapError(status)
                           ELSE RestMapError(NoResponse))
  /\ work' \in {work, [work EXCEPT ![c] = NoWork]}

Next == \E c \in Call :
          \/ \E via \in Transport : VerifyRepository(c, via)
          \/ Verify(c)
          \/ \E a \in GitHubAnswer : GitHubAnswers(c, a)
          \/ GitHubTimesOut(c) \/ Reply(c) \/ Deadline(c) \/ ConnectionFails(c)

Spec == Init /\ [][Next]_vars

-----------------------------------------------------------------------------
(* ADR-007: the REST and gRPC adapters support the same logic.  The same   *)
(* verdict of the scanner is the same answer to the user over both.        *)
AdaptersAgree ==
  \A c, d \in Call :
    call[c].verdict # Unknown /\ call[c].verdict = call[d].verdict
    => call[c].answer = call[d].answer

(* A request is refused for something the user could mend, or goes on,     *)
(* only for the reason the status names; what fails on the way (GitHub,    *)
(* the connection, the deadline) is a 5xx.                                 *)
RefusedForItsReason ==
  \A c \in Call : call[c].pc = "done" /\ call[c].answer < 500 =>
    call[c].verdict \in CASE call[c].answer = 200 -> {"found"}
                          [] call[c].answer = 400 -> {"malformed"}
                          [] call[c].answer = 403 -> {"forbidden"}
                          [] call[c].answer = 404 -> {"missing"}
                          [] call[c].answer = 429 -> {"limited403", "limited429"}

(* Whatever GitHub and the scanner do, dead or alive, a request that asks  *)
(* over gRPC does not hang: its deadline needs nobody else.                *)
EveryCallAnswered ==
  \A c \in Call : call[c].pc = "waiting" /\ call[c].via = "grpc" ~> call[c].pc = "done"
=============================================================================
