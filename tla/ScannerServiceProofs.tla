------------------------ MODULE ScannerServiceProofs ------------------------
(***************************************************************************)
(* ScannerService for any verifications and tracking commands.             *)
(***************************************************************************)
EXTENDS ScannerService, RepositoryVerificationProofs

(* The state of the process itself.                                        *)
ProcessOK ==
  /\ boot \in {"binding", "serving", "failing"}
  /\ stop \in {"none", "rest", "grpc", "worker", "release"}
  /\ rest \in {"down", "up", "deaf", "closing", "closed"}
  /\ grpc \in {"down", "up", "closing", "closed"}
  /\ worker \in {"down", "up", "closing", "closed"}
  /\ jobs \subseteq Job
  /\ exitCode \in {"none", "0", "1", "killed"}
  /\ orderly \in BOOLEAN

(* An orderly stop has emptied and closed what it has gone past, and it    *)
(* started after bootstrap() had, so nothing is opened again behind it.    *)
Started == orderly /\ stop # "none" => boot = "serving"

RestStopped == orderly /\ stop \in {"grpc", "worker", "release"} =>
                 rest = "closed" /\ InFlight("rest") = {}

GrpcStopped == orderly /\ stop \in {"worker", "release"} =>
                 grpc = "closed" /\ InFlight("grpc") = {}

WorkerStopped == orderly /\ stop = "release" => worker = "closed" /\ jobs = {}

ExitedLast == exitCode = "0" => stop = "release"

StopInv == /\ ProcessOK
           /\ Started /\ RestStopped /\ GrpcStopped /\ WorkerStopped
           /\ ExitedLast

-----------------------------------------------------------------------------
(* The process takes the steps of RepositoryVerification, or none of them. *)
LEMMA ServiceStep == [ServiceNext]_serviceVars => [Next]_vars
<1> SUFFICES ASSUME ServiceNext PROVE [Next]_vars
  BY DEF serviceVars, vars
<1>1. ASSUME NEW c \in Call, Serve(c) \/ Ask(c) PROVE [Next]_vars
  BY <1>1 DEF Serve, Ask, Next
<1>2. CASE \A c \in Call : ~(Serve(c) \/ Ask(c))
  BY <1>2 DEF ServiceNext, Bootstrap, BootstrapFails, BootstrapExits, Exits, TakeJob, EndJob,
              Shutdown, StopStep, RestCloses, GrpcCloses, WorkerCloses, Released,
              CloseRejects, StopFails, Kill, vars
<1> QED
  BY <1>1, <1>2

(* All that RepositoryVerification promises holds of the process, too,     *)
(* whenever it is started, stopped or killed.                              *)
THEOREM ServiceVerifies == ServiceSpec => Spec
<1>1. ServiceInit => Init
  BY DEF ServiceInit
<1> QED
  BY <1>1, ServiceStep, PTL DEF ServiceSpec, Spec

-----------------------------------------------------------------------------
LEMMA ProcessInit == ServiceInit => StopInv
BY DEF ServiceInit, StopInv, ProcessOK, Started, RestStopped, GrpcStopped, WorkerStopped,
       ExitedLast

(* What the service does while it is up, and what its callers do, moves    *)
(* neither the start nor the stop.                                         *)
LEMMA ServingSteps ==
  ASSUME NEW c \in Call, Serve(c) \/ Ask(c)
  PROVE  UNCHANGED service
BY DEF Serve, Ask

(* A call is in flight only from its acceptance on.                        *)
LEMMA AcceptedOnly ==
  ASSUME IInv, ServiceNext, NEW via \in Transport, NEW c \in Call,
         c \in InFlight(via)', c \notin InFlight(via)
  PROVE  Accepts(via)
<1>1. call \in [Call -> CallRecord] /\ work \in [Call -> WorkRecord]
  BY DEF IInv
<1>2. ASSUME UNCHANGED vars PROVE FALSE
  BY <1>2 DEF vars, InFlight
<1>3. PICK d \in Call : Serve(d) \/ Ask(d)
  BY <1>2 DEF ServiceNext, Bootstrap, BootstrapFails, BootstrapExits, Exits, TakeJob, EndJob,
              Shutdown, StopStep, RestCloses, GrpcCloses, WorkerCloses, Released,
              CloseRejects, StopFails, Kill
<1>4. /\ call'[c].pc = "waiting" /\ call'[c].via = via
      /\ work'[c].pc \in {"asking", "replying"}
      /\ ~(/\ call[c].pc = "waiting" /\ call[c].via = via
           /\ work[c].pc \in {"asking", "replying"})
  BY DEF InFlight
<1>5. CASE Accepts(call[d].via) /\ Verify(d)
  <2>1. call' = call /\ (work'[c] = work[c] \/ c = d)
    BY <1>1, <1>5 DEF Verify
  <2> QED
    BY <1>4, <1>5, <2>1
<1>6. ASSUME NEW a \in GitHubAnswer, GitHubAnswers(d, a) PROVE FALSE
  <2>1. call' = call /\ (work'[c] = work[c] \/ (c = d /\ work[c].pc = "asking"))
    BY <1>1, <1>6 DEF GitHubAnswers
  <2> QED
    BY <1>4, <2>1
<1>10. ASSUME GitHubTimesOut(d) PROVE FALSE
  <2>1. call' = call /\ (work'[c] = work[c] \/ (c = d /\ work[c].pc = "asking"))
    BY <1>1, <1>10 DEF GitHubTimesOut
  <2> QED
    BY <1>4, <2>1
<1>7. ASSUME Reply(d) PROVE FALSE
  <2>1. work'[d] = NoWork /\ (c # d => call'[c] = call[c] /\ work'[c] = work[c])
    BY <1>1, <1>7 DEF Reply
  <2> QED
    BY <1>4, <2>1 DEF NoWork
<1>8. ASSUME NEW v \in Transport, VerifyRepository(d, v) PROVE FALSE
  <2>1. work'[d].pc = "received" /\ (c # d => call'[c] = call[c] /\ work'[c] = work[c])
    BY <1>1, <1>8 DEF VerifyRepository, WorkRecord
  <2> QED
    BY <1>4, <2>1
<1>9. ASSUME Deadline(d) \/ ConnectionFails(d) PROVE FALSE
  <2>1. call'[d].pc = "done" /\ (c # d => call'[c] = call[c] /\ work'[c] = work[c])
    BY <1>1, <1>9 DEF Deadline, ConnectionFails, Rejected, CallRecord
  <2> QED
    BY <1>4, <2>1
<1> QED
  BY <1>3, <1>5, <1>6, <1>7, <1>8, <1>9, <1>10 DEF Serve, Ask

(* What is closed and empty stays empty.                                   *)
LEMMA StaysEmpty ==
  ASSUME IInv, ServiceNext, NEW via \in Transport, InFlight(via) = {}, ~Accepts(via)
  PROVE  InFlight(via)' = {}
<1>1. ASSUME NEW c \in InFlight(via)' PROVE FALSE
  <2>1. c \in Call
    BY DEF InFlight
  <2> QED
    BY <2>1, AcceptedOnly
<1> QED
  BY <1>1

LEMMA StepStopInv == IInv /\ StopInv /\ [ServiceNext]_serviceVars => StopInv'
<1> SUFFICES ASSUME IInv, StopInv, [ServiceNext]_serviceVars PROVE StopInv'
  OBVIOUS
<1> USE DEF StopInv
<1>1. CASE UNCHANGED serviceVars
  BY <1>1 DEF serviceVars, service, vars, ProcessOK, Started, RestStopped, GrpcStopped,
              WorkerStopped, ExitedLast, InFlight
<1>2. CASE ServiceNext
  <2>1. /\ InFlight("rest") = {} /\ rest # "up" => InFlight("rest")' = {}
        /\ InFlight("grpc") = {} /\ grpc # "up" => InFlight("grpc")' = {}
    BY <1>2, StaysEmpty DEF Accepts, Transport
  <2>2. ASSUME NEW c \in Call, Serve(c) \/ Ask(c) PROVE StopInv'
    <3>1. UNCHANGED service
      BY <2>2, ServingSteps
    <3> QED
      BY <2>1, <3>1 DEF service, ProcessOK, Started, RestStopped, GrpcStopped, WorkerStopped,
                        ExitedLast
  <2>3. CASE Bootstrap
    BY <2>3 DEF Bootstrap, Alive, ProcessOK, Started, RestStopped, GrpcStopped, WorkerStopped,
                ExitedLast
  <2>4. CASE BootstrapFails
    BY <2>4 DEF BootstrapFails, Alive, ProcessOK, Started, RestStopped, GrpcStopped,
                WorkerStopped, ExitedLast
  <2>5. ASSUME NEW code \in {"0", "1", "killed"}, Exits(code),
               code = "0" => stop = "release"
        PROVE  StopInv'
    BY <2>1, <2>5 DEF Exits, Alive, ProcessOK, Started, RestStopped, GrpcStopped,
                      WorkerStopped, ExitedLast
  <2>6. ASSUME NEW j \in Job, TakeJob(j) PROVE StopInv'
    BY <2>1, <2>6 DEF TakeJob, Alive, ProcessOK, Started, RestStopped, GrpcStopped,
                      WorkerStopped, ExitedLast
  <2>7. ASSUME NEW j \in Job, EndJob(j) PROVE StopInv'
    BY <2>1, <2>7 DEF EndJob, Alive, ProcessOK, Started, RestStopped, GrpcStopped,
                      WorkerStopped, ExitedLast
  <2>8. CASE Shutdown
    BY <2>8 DEF Shutdown, Alive, ProcessOK, Started, RestStopped, GrpcStopped, WorkerStopped,
                ExitedLast
  <2>9. CASE RestCloses
    BY <2>1, <2>9 DEF RestCloses, Alive, ProcessOK, Started, RestStopped, GrpcStopped,
                      WorkerStopped, ExitedLast
  <2>10. CASE GrpcCloses
    <3>1. InFlight("grpc")' = {}
      BY <2>10 DEF GrpcCloses, InFlight, vars
    <3> QED
      BY <2>1, <2>10, <3>1 DEF GrpcCloses, Alive, ProcessOK, Started, RestStopped, GrpcStopped,
                        WorkerStopped, ExitedLast
  <2>11. CASE WorkerCloses
    BY <2>1, <2>11 DEF WorkerCloses, Alive, ProcessOK, Started, RestStopped, GrpcStopped,
                       WorkerStopped, ExitedLast
  <2>12. CASE BootstrapExits \/ Released \/ CloseRejects \/ StopFails \/ Kill
    BY <2>5, <2>12 DEF BootstrapExits, Released, CloseRejects, StopFails, Kill
  <2> QED
    BY <1>2, <2>2, <2>3, <2>4, <2>6, <2>7, <2>8, <2>9, <2>10, <2>11, <2>12
    DEF ServiceNext, StopStep
<1> QED
  BY <1>1, <1>2

THEOREM StopInvariance == ServiceSpec => []StopInv
BY ProcessInit, StepStopInv, ServiceVerifies, Invariance, PTL DEF ServiceSpec

-----------------------------------------------------------------------------
(* The process and its verifications stay well typed, signals and failed   *)
(* starts included.                                                        *)
THEOREM ServiceTypeCorrect == ServiceSpec => []ServiceTypeOK
<1>1. StopInv /\ TypeOK => ServiceTypeOK
  BY DEF StopInv, ProcessOK, ServiceTypeOK
<1> QED
  BY <1>1, StopInvariance, ServiceVerifies, TypeCorrect, PTL

(* Over whichever transport and however the process ends: the same verdict *)
(* is the same answer, and no request is refused for another reason.       *)
THEOREM ServiceAnswersRightly ==
  ServiceSpec => [](AdaptersAgree /\ RefusedForItsReason)
BY ServiceVerifies, AdaptersAlwaysAgree, RefusalsHaveTheirReason, PTL

(* An orderly stop with exit code 0 cuts short neither a verification nor  *)
(* a tracking command, however many there are.                             *)
THEOREM StopsGracefully == ServiceSpec => []GracefulExit
<1>1. StopInv => GracefulExit
  BY DEF StopInv, RestStopped, GrpcStopped, WorkerStopped, ExitedLast, GracefulExit
<1> QED
  BY <1>1, StopInvariance, PTL
=============================================================================
