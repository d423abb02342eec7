--------------------------- MODULE ScannerService ---------------------------
(***************************************************************************)
(* The GitHub Scanner Service as a process: how it starts, what it serves  *)
(* meanwhile (verifications over gRPC and REST, tracking commands) and how *)
(* a signal stops it.  bootstrap and shutdown are two coroutines of one    *)
(* thread: each runs from one await to the next without interruption.      *)
(*                                                                         *)
(* The cron task is stopped first, but no scan in progress is awaited: for *)
(* a scan every stop is the ScannerCrash of ReleaseScan, which is why the  *)
(* scan does not appear here.                                              *)
(*                                                                         *)
(* Definitions marked "Fault" are wrong variants of the one below them,    *)
(* used to see that the properties reject them.                            *)
(***************************************************************************)
EXTENDS RepositoryVerification

CONSTANTS Job  \* tracking commands that the worker may run at once

VARIABLES
  boot,     \* bootstrap(): its await, its end, or its catch block
  stop,     \* shutdown(): the close it awaits
  rest,     \* restServer; "deaf" did not get its port
  grpc,     \* grpcServer
  worker,   \* scannerCommandWorker
  jobs,     \* the commands it is running
  exitCode, \* "none" while the process is alive
  orderly   \* history: the signal came after bootstrap() had ended

service == <<boot, stop, rest, grpc, worker, jobs, exitCode, orderly>>

serviceVars == <<vars, service>>

ServiceTypeOK ==
  /\ TypeOK
  /\ boot \in {"binding", "serving", "failing"}
  /\ stop \in {"none", "rest", "grpc", "worker", "release"}
  /\ rest \in {"down", "up", "deaf", "closing", "closed"}
  /\ grpc \in {"down", "up", "closing", "closed"}
  /\ worker \in {"down", "up", "closing", "closed"}
  /\ jobs \subseteq Job
  /\ exitCode \in {"none", "0", "1", "killed"}
  /\ orderly \in BOOLEAN

ServiceInit ==
  /\ Init
  /\ boot = "binding"
  /\ stop = "none"
  /\ rest = "down" /\ grpc = "down" /\ worker = "down"
  /\ jobs = {}
  /\ exitCode = "none"
  /\ orderly = FALSE

Alive == exitCode = "none"

-----------------------------------------------------------------------------
(* bootstrap: grpcServer.start resolves, and all the rest is started in    *)
(* one go, even if a shutdown has gone past closing it.  A REST port that  *)
(* is taken goes unnoticed: Express hands the error to listen's callback,  *)
(* which takes none.                                                       *)
Bootstrap ==
  /\ Alive /\ boot = "binding"
  /\ boot' = "serving"
  /\ grpc' = "up"
  /\ rest' \in {"up", "deaf"}
  /\ worker' = "up"
  /\ UNCHANGED <<vars, stop, jobs, exitCode, orderly>>

(* grpcServer.start rejects; nothing has been started.                     *)
BootstrapFails ==
  /\ Alive /\ boot = "binding"
  /\ boot' = "failing"
  /\ UNCHANGED <<vars, stop, rest, grpc, worker, jobs, exitCode, orderly>>

Exits(code) ==
  /\ Alive
  /\ exitCode' = code
  /\ UNCHANGED <<vars, boot, stop, rest, grpc, worker, jobs, orderly>>

(* The catch block of bootstrap(): finally, exit(1).                       *)
BootstrapExits == boot = "failing" /\ Exits("1")

-----------------------------------------------------------------------------
(* What the service does while it is up.                                   *)

TakeJob(j) ==
  /\ Alive /\ worker = "up"
  /\ j \notin jobs
  /\ jobs' = jobs \cup {j}
  /\ UNCHANGED <<vars, boot, stop, rest, grpc, worker, exitCode, orderly>>

EndJob(j) ==
  /\ Alive /\ j \in jobs
  /\ jobs' = jobs \ {j}
  /\ UNCHANGED <<vars, boot, stop, rest, grpc, worker, exitCode, orderly>>

(* A server that is closing takes no new request.                          *)
Accepts(via) == Alive /\ (IF via = "grpc" THEN grpc ELSE rest) = "up"

Serve(c) ==
  /\ \/ Accepts(call[c].via) /\ Verify(c)
     \/ Alive /\ \E a \in GitHubAnswer : GitHubAnswers(c, a)
     \/ Alive /\ (GitHubTimesOut(c) \/ Reply(c))
  /\ UNCHANGED service

(* The Main API's side, and the network between the two.                   *)
Ask(c) ==
  /\ \/ \E via \in Transport : VerifyRepository(c, via)
     \/ Deadline(c) \/ ConnectionFails(c)
  /\ UNCHANGED service

(* What the close of a server waits for: the calls it has accepted whose   *)
(* caller still listens.                                                   *)
InFlight(via) == {c \in Call : /\ call[c].pc = "waiting" /\ call[c].via = via
                               /\ work[c].pc \in {"asking", "replying"}}

-----------------------------------------------------------------------------
(* shutdown: a second signal returns at once.  What bootstrap has not      *)
(* started yet has nothing to close and is passed over.                    *)
Shutdown ==
  /\ Alive /\ stop = "none"
  /\ orderly' = (boot = "serving")
  /\ stop' = IF boot = "serving" THEN "rest" ELSE "release"
  /\ rest' = IF rest = "up" THEN "closing" ELSE rest
  /\ UNCHANGED <<vars, boot, grpc, worker, jobs, exitCode>>

(* closeHttpServer resolves; grpcServer.close() begins.                    *)
RestCloses ==
  /\ Alive /\ stop = "rest" /\ rest = "closing" /\ InFlight("rest") = {}
  /\ rest' = "closed" /\ grpc' = "closing" /\ stop' = "grpc"
  /\ UNCHANGED <<vars, boot, worker, jobs, exitCode, orderly>>

(* Fault: forceShutdown in the place of tryShutdown.                       *)
GrpcClosesAtOnce ==
  /\ Alive /\ stop = "grpc"
  /\ grpc' = "closed" /\ worker' = "closing" /\ stop' = "worker"
  /\ UNCHANGED <<vars, boot, rest, jobs, exitCode, orderly>>

(* Fault: the worker goes on taking commands while it is closed.           *)
GrpcClosesWorkerStays ==
  /\ Alive /\ stop = "grpc" /\ InFlight("grpc") = {}
  /\ grpc' = "closed" /\ stop' = "worker"
  /\ UNCHANGED <<vars, boot, rest, worker, jobs, exitCode, orderly>>

(* tryShutdown is done; scannerCommandWorker.close() begins.               *)
GrpcCloses ==
  /\ Alive /\ stop = "grpc" /\ InFlight("grpc") = {}
  /\ grpc' = "closed" /\ worker' = "closing" /\ stop' = "worker"
  /\ UNCHANGED <<vars, boot, rest, jobs, exitCode, orderly>>

(* It waits for the jobs that are running.                                 *)
WorkerCloses ==
  /\ Alive /\ stop = "worker" /\ jobs = {}
  /\ worker' = "closed" /\ stop' = "release"
  /\ UNCHANGED <<vars, boot, rest, grpc, jobs, exitCode, orderly>>

(* The publisher, the database and Redis are closed; exit(0).              *)
Released == stop = "release" /\ Exits("0")

(* A server that is not listening cannot be closed: exit(1), and the rest  *)
(* is left open.                                                           *)
CloseRejects == stop = "rest" /\ rest = "deaf" /\ Exits("1")

(* Any other close may reject, too.                                        *)
StopFails == stop # "none" /\ Exits("1")

(* It dies, or is killed, before it has stopped.                           *)
Kill == Exits("killed")

-----------------------------------------------------------------------------
StopStep == RestCloses \/ GrpcCloses \/ WorkerCloses \/ Released \/ CloseRejects

ServiceNext ==
  \/ Bootstrap \/ BootstrapFails \/ BootstrapExits
  \/ \E j \in Job : TakeJob(j) \/ EndJob(j)
  \/ \E c \in Call : Serve(c) \/ Ask(c)
  \/ Shutdown \/ StopStep \/ StopFails \/ Kill

ServiceSpec == ServiceInit /\ [][ServiceNext]_serviceVars

(* The timers fire, of a gRPC call and of the scanner's GitHub client, and *)
(* what they wake is replied; a command that runs ends, and so does every  *)
(* close whose turn it is.  GitHub need not answer, nor need a caller over *)
(* REST ever give up.                                                      *)
ServiceFairSpec ==
  /\ ServiceSpec
  /\ \A c \in Call : WF_serviceVars(Deadline(c) /\ UNCHANGED service)
  /\ \A c \in Call : WF_serviceVars(Alive /\ GitHubTimesOut(c) /\ UNCHANGED service)
  /\ \A c \in Call : WF_serviceVars(Alive /\ Reply(c) /\ UNCHANGED service)
  /\ \A j \in Job : WF_serviceVars(EndJob(j))
  /\ WF_serviceVars(StopStep)

-----------------------------------------------------------------------------
(* A stop that came after the start and ends with code 0 has cut nothing   *)
(* short: no tracking command was running, and nobody was still waiting    *)
(* for a verification that had been accepted.                              *)
GracefulExit ==
  exitCode = "0" /\ orderly =>
    jobs = {} /\ InFlight("grpc") = {} /\ InFlight("rest") = {}

(* A verification that the scanner has accepted over REST, where no        *)
(* deadline of the caller ends it, is settled although GitHub is silent    *)
(* and although a stop comes in between: the server stays open for it.     *)
(* Only the end of the process comes before that.                          *)
AcceptedIsAnswered ==
  \A c \in Call : c \in InFlight("rest") ~> call[c].pc = "done" \/ exitCode # "none"

(* A signal ends the process, whatever it is serving and whatever has      *)
(* failed before: the closes do not wait for each other or for ever.       *)
StopEnds == stop # "none" ~> exitCode # "none"
=============================================================================
