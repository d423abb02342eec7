--------------------- MODULE RepositoryVerificationProofs ---------------------
(***************************************************************************)
(* RepositoryVerification for any set of calls.                            *)
(***************************************************************************)
EXTENDS RepositoryVerification, TLAPS

(* What the three tables come to, over either transport.                   *)
Meaning(v) ==
  CASE v = "found" -> 200
    [] v = "malformed" -> 400
    [] v = "forbidden" -> 403
    [] v = "missing" -> 404
    [] v \in {"limited403", "limited429"} -> 429
    [] v \in {"broken", "silent"} -> 503
    [] v = "other" -> 502

CallRecord == [pc: {"idle", "waiting", "done"}, via: Transport,
               answer: Answer \cup {0}, verdict: Verdict \cup {Unknown}]

WorkRecord == [pc: {"none", "received", "asking", "replying"},
               verdict: Verdict \cup {Unknown}]

(* A call is settled by the scanner's verdict or, without one, by a 5xx.   *)
Settled(x) ==
  IF x.verdict = Unknown
  THEN x.pc = "done" => x.answer \in {503, 504}
  ELSE x.pc = "done" /\ x.answer = Meaning(x.verdict)

(* The scanner replies what it has found out.                              *)
Founded(y) == y.pc = "replying" => y.verdict # Unknown

IInv == /\ call \in [Call -> CallRecord] /\ work \in [Call -> WorkRecord]
        /\ \A c \in Call : Settled(call[c]) /\ Founded(work[c])

-----------------------------------------------------------------------------
(* The tables of both transports, composed, are the same function.         *)
LEMMA TablesAgree ==
  ASSUME NEW via \in Transport, NEW v \in Verdict
  PROVE  AnswerTo(via, v) = Meaning(v)
<1> USE DEF DEADLINE_EXCEEDED, CANCELLED, ECONNABORTED, NoResponse
<1>1. v \in {"found", "missing", "forbidden", "limited403", "limited429",
             "broken", "silent", "other", "malformed"}
  BY DEF Verdict, GitHubAnswer
<1>2. CASE v = "found"
  BY <1>2 DEF AnswerTo, Meaning
<1>3. CASE v = "malformed"
  <2>1. VerificationError(v) = "INVALID_ARGUMENT"
    BY <1>3 DEF VerificationError
  <2>2. GrpcStatus(VerificationError(v)) = 3 /\ HttpStatus(VerificationError(v)) = 400
    BY <2>1 DEF GrpcStatus, HttpStatus
  <2> QED
    BY <1>3, <2>2 DEF AnswerTo, Meaning, GrpcMapError, RestMapError
<1>4. CASE v = "missing"
  <2>1. VerificationError(v) = "NOT_FOUND"
    BY <1>4 DEF VerificationError, HandleGitHubError
  <2>2. GrpcStatus(VerificationError(v)) = 5 /\ HttpStatus(VerificationError(v)) = 404
    BY <2>1 DEF GrpcStatus, HttpStatus
  <2> QED
    BY <1>4, <2>2 DEF AnswerTo, Meaning, GrpcMapError, RestMapError
<1>5. CASE v = "forbidden"
  <2>1. VerificationError(v) = "PERMISSION_DENIED"
    BY <1>5 DEF VerificationError, HandleGitHubError
  <2>2. GrpcStatus(VerificationError(v)) = 7 /\ HttpStatus(VerificationError(v)) = 403
    BY <2>1 DEF GrpcStatus, HttpStatus
  <2> QED
    BY <1>5, <2>2 DEF AnswerTo, Meaning, GrpcMapError, RestMapError
<1>6. CASE v \in {"limited403", "limited429"}
  <2>1. VerificationError(v) = "RESOURCE_EXHAUSTED"
    BY <1>6 DEF VerificationError, HandleGitHubError
  <2>2. GrpcStatus(VerificationError(v)) = 8 /\ HttpStatus(VerificationError(v)) = 429
    BY <2>1 DEF GrpcStatus, HttpStatus
  <2> QED
    BY <1>6, <2>2 DEF AnswerTo, Meaning, GrpcMapError, RestMapError
<1>7. CASE v \in {"broken", "silent"}
  <2>1. VerificationError(v) = "UNAVAILABLE"
    BY <1>7 DEF VerificationError, HandleGitHubError
  <2>2. GrpcStatus(VerificationError(v)) = 14 /\ HttpStatus(VerificationError(v)) = 503
    BY <2>1 DEF GrpcStatus, HttpStatus
  <2> QED
    BY <1>7, <2>2 DEF AnswerTo, Meaning, GrpcMapError, RestMapError
<1>8. CASE v = "other"
  <2>1. VerificationError(v) = "INTERNAL"
    BY <1>8 DEF VerificationError, HandleGitHubError
  <2>2. GrpcStatus(VerificationError(v)) = 13 /\ HttpStatus(VerificationError(v)) = 500
    BY <2>1 DEF GrpcStatus, HttpStatus
  <2> QED
    BY <1>8, <2>2 DEF AnswerTo, Meaning, GrpcMapError, RestMapError
<1> QED
  BY <1>1, <1>2, <1>3, <1>4, <1>5, <1>6, <1>7, <1>8

LEMMA MeaningType ==
  ASSUME NEW v \in Verdict
  PROVE  Meaning(v) \in Answer
BY DEF Verdict, GitHubAnswer, Meaning, Answer

(* A call that fails on the way is answered 503 or 504.                    *)
LEMMA FailureStatuses ==
  /\ GrpcMapError(DEADLINE_EXCEEDED) = 504
  /\ RestMapError(ECONNABORTED) = 504
  /\ GrpcMapError(GrpcStatus("UNAVAILABLE")) = 503
  /\ GrpcMapError(CANCELLED) = 503
  /\ RestMapError(NoResponse) = 503
BY DEF GrpcMapError, RestMapError, GrpcStatus, DEADLINE_EXCEEDED, ECONNABORTED,
       CANCELLED, NoResponse

-----------------------------------------------------------------------------
LEMMA InitIInv == Init => IInv
BY DEF Init, IInv, CallRecord, WorkRecord, Settled, Founded, NoCall, NoWork, Transport, Unknown

(* Every step changes the records of one call.                             *)
LEMMA Preserved ==
  ASSUME IInv, NEW c \in Call,
         call' \in [Call -> CallRecord], work' \in [Call -> WorkRecord],
         \A d \in Call \ {c} : call'[d] = call[d] /\ work'[d] = work[d],
         Settled(call'[c]), Founded(work'[c])
  PROVE  IInv'
<1>1. ASSUME NEW d \in Call PROVE Settled(call'[d]) /\ Founded(work'[d])
  <2>1. CASE d = c
    BY <2>1
  <2>2. CASE d # c
    BY <2>2 DEF IInv
  <2> QED
    BY <2>1, <2>2
<1> QED
  BY <1>1 DEF IInv

(* A call that the scanner does not settle.                                *)
LEMMA FailedCall ==
  ASSUME IInv, NEW c \in Call, NEW n \in {503, 504}, call[c].pc = "waiting",
         call' = Rejected(c, n),
         work' = work \/ work' = [work EXCEPT ![c] = NoWork]
  PROVE  IInv'
<1>1. NoWork \in WorkRecord /\ Founded(NoWork)
  BY DEF NoWork, WorkRecord, Founded
<1>2. call \in [Call -> CallRecord] /\ work \in [Call -> WorkRecord]
  BY DEF IInv
<1>3. work' \in [Call -> WorkRecord] /\ Founded(work'[c])
  BY <1>1, <1>2 DEF IInv
<1>4. n \in Answer \cup {0}
  BY DEF Answer
<1>5. call' \in [Call -> CallRecord]
  <2>1. call[c] \in CallRecord
    BY <1>2
  <2>2. [call[c] EXCEPT !.pc = "done", !.answer = n] \in CallRecord
    BY <1>4, <2>1 DEF CallRecord
  <2> QED
    BY <1>2, <2>2 DEF Rejected
<1>6. call[c].verdict = Unknown
  BY DEF IInv, Settled
<1>7. call'[c].verdict = Unknown /\ call'[c].answer = n
  BY <1>2, <1>6 DEF CallRecord, Rejected
<1>8. \A d \in Call \ {c} : call'[d] = call[d] /\ work'[d] = work[d]
  BY <1>2 DEF Rejected
<1> QED
  BY <1>3, <1>5, <1>7, <1>8, Preserved DEF Settled

LEMMA StepIInv == IInv /\ [Next]_vars => IInv'
<1> SUFFICES ASSUME IInv, [Next]_vars PROVE IInv'
  OBVIOUS
<1>1. Unknown \notin Verdict
  BY DEF Unknown, Verdict, GitHubAnswer
<1>2. CASE UNCHANGED vars
  BY <1>2 DEF vars, IInv
<1>3. call \in [Call -> CallRecord] /\ work \in [Call -> WorkRecord]
  BY DEF IInv
<1>4. ASSUME NEW c \in Call, NEW via \in Transport, VerifyRepository(c, via)
      PROVE IInv'
  <2>1. call' \in [Call -> CallRecord] /\ work' \in [Call -> WorkRecord]
    <3>1. call[c] \in CallRecord /\ work[c] \in WorkRecord
      BY <1>3
    <3>2. [call[c] EXCEPT !.pc = "waiting", !.via = via] \in CallRecord
      BY <3>1 DEF CallRecord
    <3>3. [work[c] EXCEPT !.pc = "received"] \in WorkRecord
      BY <3>1 DEF WorkRecord
    <3>4. /\ call' = [call EXCEPT ![c] = [call[c] EXCEPT !.pc = "waiting", !.via = via]]
          /\ work' = [work EXCEPT ![c] = [work[c] EXCEPT !.pc = "received"]]
      BY <1>3, <1>4 DEF VerifyRepository
    <3> QED
      BY <1>3, <3>2, <3>3, <3>4
  <2>2. \A d \in Call \ {c} : call'[d] = call[d] /\ work'[d] = work[d]
    BY <1>3, <1>4 DEF VerifyRepository
  <2>3. call'[c].pc = "waiting" /\ call'[c].verdict = call[c].verdict
        /\ work'[c].pc = "received"
    BY <1>3, <1>4 DEF VerifyRepository, CallRecord, WorkRecord
  <2>4. call[c].verdict = Unknown
    BY <1>4 DEF VerifyRepository, IInv, Settled
  <2> QED
    BY <2>1, <2>2, <2>3, <2>4, Preserved DEF Settled, Founded
<1>5. ASSUME NEW c \in Call, Verify(c) PROVE IInv'
  <2>1. "malformed" \in Verdict
    BY DEF Verdict
  <2>2. work' \in [Call -> WorkRecord] /\ Founded(work'[c])
    BY <1>1, <1>3, <1>5, <2>1 DEF Verify, WorkRecord, Founded
  <2>3. \A d \in Call \ {c} : call'[d] = call[d] /\ work'[d] = work[d]
    BY <1>3, <1>5 DEF Verify
  <2> QED
    BY <1>3, <1>5, <2>2, <2>3, Preserved DEF Verify, IInv
<1>6. ASSUME NEW c \in Call, NEW a \in GitHubAnswer, GitHubAnswers(c, a) PROVE IInv'
  <2>1. a \in Verdict
    BY DEF Verdict
  <2>2. work' \in [Call -> WorkRecord] /\ Founded(work'[c])
    BY <1>1, <1>3, <1>6, <2>1 DEF GitHubAnswers, WorkRecord, Founded
  <2>3. \A d \in Call \ {c} : call'[d] = call[d] /\ work'[d] = work[d]
    BY <1>3, <1>6 DEF GitHubAnswers
  <2> QED
    BY <1>3, <1>6, <2>2, <2>3, Preserved DEF GitHubAnswers, IInv
<1>10. ASSUME NEW c \in Call, GitHubTimesOut(c) PROVE IInv'
  <2>1. "silent" \in Verdict
    BY DEF Verdict
  <2>2. work' \in [Call -> WorkRecord] /\ Founded(work'[c])
    BY <1>1, <1>3, <1>10, <2>1 DEF GitHubTimesOut, WorkRecord, Founded
  <2>3. \A d \in Call \ {c} : call'[d] = call[d] /\ work'[d] = work[d]
    BY <1>3, <1>10 DEF GitHubTimesOut
  <2> QED
    BY <1>3, <1>10, <2>2, <2>3, Preserved DEF GitHubTimesOut, IInv
<1>7. ASSUME NEW c \in Call, Reply(c) PROVE IInv'
  <2>1. work[c].verdict \in Verdict /\ work[c].verdict # Unknown
    BY <1>1, <1>3, <1>7 DEF Reply, WorkRecord, Founded, IInv
  <2>2. /\ AnswerTo(call[c].via, work[c].verdict) = Meaning(work[c].verdict)
        /\ Meaning(work[c].verdict) \in Answer
    BY <1>3, <2>1, TablesAgree, MeaningType DEF CallRecord
  <2>3. work' \in [Call -> WorkRecord] /\ Founded(work'[c])
    BY <1>3, <1>7 DEF Reply, NoWork, WorkRecord, Founded
  <2>4. CASE call[c].pc # "waiting"
    <3>1. call' = call /\ \A d \in Call \ {c} : work'[d] = work[d]
      BY <1>3, <1>7, <2>4 DEF Reply
    <3> QED
      BY <1>3, <2>3, <3>1, Preserved DEF IInv
  <2>5. CASE call[c].pc = "waiting"
    <3>1. call' = [call EXCEPT ![c].pc = "done", ![c].verdict = work[c].verdict,
                               ![c].answer = Meaning(work[c].verdict)]
      BY <1>7, <2>2, <2>5 DEF Reply
    <3>2. call' \in [Call -> CallRecord]
      <4> DEFINE new == [call[c] EXCEPT !.pc = "done", !.verdict = work[c].verdict,
                                        !.answer = Meaning(work[c].verdict)]
      <4>1. new \in CallRecord
        BY <1>3, <2>1, <2>2 DEF CallRecord
      <4>2. call' = [call EXCEPT ![c] = new]
        BY <1>3, <3>1
      <4> HIDE DEF new
      <4> QED
        BY <1>3, <4>1, <4>2
    <3>3. /\ call'[c].pc = "done"
          /\ call'[c].verdict = work[c].verdict
          /\ call'[c].answer = Meaning(work[c].verdict)
      BY <1>3, <3>1 DEF CallRecord
    <3>4. \A d \in Call \ {c} : call'[d] = call[d] /\ work'[d] = work[d]
      BY <1>3, <1>7, <3>1 DEF Reply
    <3> QED
      BY <2>1, <2>3, <3>2, <3>3, <3>4, Preserved DEF Settled
  <2> QED
    BY <2>4, <2>5
<1>8. ASSUME NEW c \in Call, Deadline(c) PROVE IInv'
  <2>1. call' = Rejected(c, 504)
    BY <1>8, FailureStatuses DEF Deadline
  <2> QED
    BY <1>8, <2>1, FailedCall DEF Deadline
<1>9. ASSUME NEW c \in Call, ConnectionFails(c) PROVE IInv'
  <2> DEFINE Status(status) == IF call[c].via = "grpc" THEN GrpcMapError(status)
                               ELSE RestMapError(NoResponse)
  <2>1. PICK status \in {GrpcStatus("UNAVAILABLE"), CANCELLED} :
          call' = Rejected(c, Status(status))
    BY <1>9 DEF ConnectionFails
  <2>2. Status(status) = 503
    BY FailureStatuses
  <2>3. call' = Rejected(c, 503)
    BY <2>1, <2>2
  <2> QED
    BY <1>9, <2>3, FailedCall DEF ConnectionFails
<1> QED
  BY <1>2, <1>4, <1>5, <1>6, <1>7, <1>8, <1>9, <1>10 DEF Next

THEOREM Invariance == Spec => []IInv
BY InitIInv, StepIInv, PTL DEF Spec

-----------------------------------------------------------------------------
(* Calls and work of the scanner are well typed: no status outside the     *)
(* tables reaches a user.                                                  *)
THEOREM TypeCorrect == Spec => []TypeOK
<1>1. IInv => TypeOK
  BY DEF IInv, TypeOK, CallRecord, WorkRecord
<1> QED
  BY <1>1, Invariance, PTL

(* The adapters agree on every verdict, for any number of calls.           *)
THEOREM AdaptersAlwaysAgree == Spec => []AdaptersAgree
<1>1. IInv => AdaptersAgree
  BY DEF IInv, AdaptersAgree, Settled
<1> QED
  BY <1>1, Invariance, PTL

(* An answer below 500 has the reason it names.                            *)
THEOREM RefusalsHaveTheirReason == Spec => []RefusedForItsReason
<1>1. IInv => RefusedForItsReason
  <2> SUFFICES ASSUME IInv, NEW c \in Call, call[c].pc = "done", call[c].answer < 500
               PROVE  call[c].verdict \in
                        CASE call[c].answer = 200 -> {"found"}
                          [] call[c].answer = 400 -> {"malformed"}
                          [] call[c].answer = 403 -> {"forbidden"}
                          [] call[c].answer = 404 -> {"missing"}
                          [] call[c].answer = 429 -> {"limited403", "limited429"}
    BY DEF RefusedForItsReason
  <2>1. call[c].verdict # Unknown
    BY DEF IInv, Settled
  <2>2. call[c].verdict \in Verdict /\ call[c].answer = Meaning(call[c].verdict)
    BY <2>1 DEF IInv, CallRecord, Settled
  <2>3. call[c].verdict \in {"found", "missing", "forbidden", "limited403", "limited429",
                             "malformed"}
    BY <2>2 DEF Verdict, GitHubAnswer, Meaning
  <2> QED
    BY <2>2, <2>3 DEF Meaning
<1> QED
  BY <1>1, Invariance, PTL
=============================================================================
