----------------------------- MODULE Lifecycle ------------------------------
(***************************************************************************)
(* Starting and stopping the process: main's select (cmd/clatto/main.go),  *)
(* Daemon.Run (internal/daemon), Engine.Run with the goroutine that closes *)
(* the device (internal/tundev) and admin.Server.Serve.  A channel of      *)
(* capacity one holds a result or is Empty; a nil error is "nil".          *)
(*                                                                         *)
(* A goroutine parked in a select takes the case that becomes ready first, *)
(* so main, once parked, is moved on by the action that readies a case.    *)
(* Run's select is left by its ticker again and again (Maintain, which the *)
(* module Pool models and which changes nothing here), so for Run any      *)
(* ready case may be the one taken.                                        *)
(***************************************************************************)
EXTENDS Naturals

CONSTANTS
  ReadErrorLimit,  \* consecutive read errors the engine tolerates (10)
  LinkMayVanish    \* whether the link can be deleted while the daemon runs

ASSUME LifecycleAssumption == ReadErrorLimit \in Nat /\ LinkMayVanish \in BOOLEAN

VARIABLES
  ctx,        \* the signal context is cancelled
  dev,        \* the tun device
  engine,     \* Engine.Run: where it is, and consecutiveErrors
  engineErr,  \* channel from Engine.Run to Daemon.Run
  closer,     \* the goroutine that closes the device on cancellation
  run,        \* Daemon.Run: where it is, and runErr
  ready,      \* d.ready
  save,       \* what came of Run's save of the pool state on its way out
  daemonErr,  \* channel from Daemon.Run to main
  admin,      \* Server.Serve
  adminErr,   \* channel from Serve to main
  main,       \* where main is
  exit        \* its exit status

Empty == "empty"
Results == {"nil", "canceled", "failed"}
Channel == Results \cup {Empty}
EngineState == [at: {"off", "read", "write", "returned"}, errors: 0 .. ReadErrorLimit]
RunState == [at: {"start", "started", "loop", "drain", "save", "returned"}, err: Results]
\* The final save: written, failed (which is only logged), or nothing to do
\* because there is no dynamic pool or no state file.
Saves == {"written", "failed", "nothing"}
MainState == {"setup", "parked", "joinCtx", "joinAdmin", "exited"}

vars == <<ctx, dev, engine, engineErr, closer, run, ready, save,
          daemonErr, admin, adminErr, main, exit>>

Init ==
  /\ ctx = FALSE
  /\ dev = "none"
  /\ engine = [at |-> "off", errors |-> 0]
  /\ engineErr = Empty
  /\ closer = "off"
  /\ run = [at |-> "start", err |-> "nil"]
  /\ ready = FALSE /\ save = "due"
  /\ daemonErr = Empty
  /\ admin \in {"off", "serving"}
  /\ adminErr = Empty
  /\ main = "setup" /\ exit = 0

CtxErr == IF ctx THEN "canceled" ELSE "nil"

-----------------------------------------------------------------------------
(* Engine.Run.                                                             *)

\* The deferred calls: the device is closed and the closer told to leave.
EngineReturn(v) ==
  /\ engine' = [engine EXCEPT !.at = "returned"]
  /\ engineErr' = v
  /\ dev' = "closed"
  /\ closer' = "done"
  /\ UNCHANGED <<ctx, run, ready, save, daemonErr, admin, adminErr, main, exit>>

EngineGoes(at, errors) ==
  /\ engine' = [at |-> at, errors |-> errors]
  /\ UNCHANGED <<ctx, dev, engineErr, closer, run, ready, save,
                 daemonErr, admin, adminErr, main, exit>>

\* A read gives packets that produce output to write, or none.
EngineRead == /\ engine.at = "read" /\ dev = "open"
              /\ \E at \in {"read", "write"} : EngineGoes(at, 0)

\* Mutant of EngineReadError: one error too many is tolerated.
EngineReadErrorLate ==
  /\ engine.at = "read" /\ dev = "open"
  /\ \/ ctx /\ EngineReturn(CtxErr)
     \/ ~ctx /\ engine.errors > ReadErrorLimit /\ EngineReturn("failed")
     \/ ~ctx /\ engine.errors <= ReadErrorLimit /\ EngineGoes("read", engine.errors + 1)

\* A read fails for another reason than a closed device.
EngineReadError ==
  /\ engine.at = "read" /\ dev = "open"
  /\ \/ ctx /\ EngineReturn(CtxErr)
     \/ ~ctx /\ engine.errors = ReadErrorLimit /\ EngineReturn("failed")
     \/ ~ctx /\ engine.errors < ReadErrorLimit /\ EngineGoes("read", engine.errors + 1)

\* A read or a write finds the device closed.
EngineClosed == /\ engine.at \in {"read", "write"} /\ dev \in {"closed", "gone"}
                /\ EngineReturn(CtxErr)

\* A write succeeds, or fails in a way that is only counted.
EngineWrite == engine.at = "write" /\ dev = "open" /\ EngineGoes("read", 0)

\* The goroutine that waits for the context closes the device.
CloseDevice ==
  /\ closer = "waiting" /\ ctx
  /\ dev' = "closed" /\ closer' = "done"
  /\ UNCHANGED <<ctx, engine, engineErr, run, ready, save,
                 daemonErr, admin, adminErr, main, exit>>

\* Someone deletes the link: reads and writes then fail with os.ErrClosed.
LinkVanishes ==
  /\ LinkMayVanish /\ dev = "open"
  /\ dev' = "gone"
  /\ UNCHANGED <<ctx, engine, engineErr, closer, run, ready, save,
                 daemonErr, admin, adminErr, main, exit>>

-----------------------------------------------------------------------------
(* Daemon.Run.                                                             *)

\* Run's result reaches main: directly if main is parked (which then calls
\* stop and returns), else through the channel.
RunReturn(v) ==
  /\ run' = [run EXCEPT !.at = "returned"]
  /\ IF main = "parked"
       THEN /\ main' = "exited" /\ exit' = (IF v = "nil" THEN 0 ELSE 1) /\ ctx' = TRUE
            /\ UNCHANGED daemonErr
       ELSE daemonErr' = v /\ UNCHANGED <<main, exit, ctx>>

\* The device is created and configured and the engine started; or one of
\* the first two fails, and Run returns with no device.
RunStart ==
  /\ run.at = "start"
  /\ \/ /\ run' = [run EXCEPT !.at = "started"]
        /\ dev' = "open"
        /\ engine' = [at |-> "read", errors |-> 0]
        /\ closer' = "waiting"
        /\ UNCHANGED <<ctx, daemonErr, main, exit>>
     \/ RunReturn("failed") /\ dev' \in {"none", "closed"} /\ UNCHANGED <<engine, closer>>
  /\ UNCHANGED <<engineErr, ready, save, admin, adminErr>>

RunGoes(at, err, isReady) ==
  /\ run' = [at |-> at, err |-> err]
  /\ ready' = isReady
  /\ UNCHANGED <<ctx, dev, engine, closer, save, daemonErr, admin, adminErr, main, exit>>

RunReady == run.at = "started" /\ RunGoes("loop", "nil", TRUE) /\ UNCHANGED engineErr

\* The loop ends because the context is cancelled, or with the engine's result.
RunCancelled == run.at = "loop" /\ ctx /\ RunGoes("drain", "nil", FALSE) /\ UNCHANGED engineErr

\* Mutant of RunEngineEnded: Run always waits for a result afterwards.
RunEngineEndedDrain ==
  /\ run.at = "loop" /\ engineErr # Empty
  /\ RunGoes("drain", engineErr, FALSE)
  /\ engineErr' = Empty

RunEngineEnded ==
  /\ run.at = "loop" /\ engineErr # Empty
  /\ RunGoes(IF engineErr = "nil" THEN "drain" ELSE "save", engineErr, FALSE)
  /\ engineErr' = Empty

\* runErr is nil: wait for the engine's result.
RunDrain ==
  /\ run.at = "drain" /\ engineErr # Empty
  /\ RunGoes("save", engineErr, ready)
  /\ engineErr' = Empty

\* Mutant of RunSave: Run reports no error whatever ended the engine.
RunSaveQuiet ==
  /\ run.at = "save"
  /\ save' \in Saves
  /\ RunReturn("nil")
  /\ UNCHANGED <<dev, engine, engineErr, closer, ready, admin, adminErr>>

\* Run tries to save the pool state and returns whatever comes of that;
\* cancellation is not an error.
RunSave ==
  /\ run.at = "save"
  /\ save' \in Saves
  /\ RunReturn(IF run.err = "canceled" THEN "nil" ELSE run.err)
  /\ UNCHANGED <<dev, engine, engineErr, closer, ready, admin, adminErr>>

-----------------------------------------------------------------------------
(* Server.Serve and main.                                                  *)

AdminReturn(v) ==
  /\ main # "exited"
  /\ admin' = "done"
  /\ IF main = "parked"
       THEN main' = "joinAdmin" /\ exit' = 1 /\ ctx' = TRUE /\ UNCHANGED adminErr
       ELSE adminErr' = v /\ UNCHANGED <<main, exit, ctx>>
  /\ UNCHANGED <<dev, engine, engineErr, closer, run, ready, save, daemonErr>>

\* The listener cannot be opened, or serving fails.
AdminFails == admin = "serving" /\ AdminReturn("failed")

\* Shutdown ends in time, or not.
AdminShutdown == admin = "serving" /\ ctx /\ \E v \in {"nil", "failed"} : AdminReturn(v)

Signal ==
  /\ ~ctx /\ main # "exited"
  /\ ctx' = TRUE
  /\ main' = IF main = "parked" THEN "joinCtx" ELSE main
  /\ UNCHANGED <<dev, engine, engineErr, closer, run, ready, save,
                 daemonErr, admin, adminErr, exit>>

\* main reaches its select: a ready case, or it parks.
MainSelect ==
  /\ main = "setup"
  /\ \/ ctx /\ main' = "joinCtx" /\ UNCHANGED <<ctx, exit, daemonErr, adminErr>>
     \/ /\ daemonErr # Empty
        /\ main' = "exited" /\ exit' = (IF daemonErr = "nil" THEN 0 ELSE 1)
        /\ ctx' = TRUE /\ daemonErr' = Empty /\ UNCHANGED adminErr
     \/ /\ adminErr # Empty
        /\ main' = "joinAdmin" /\ exit' = 1
        /\ ctx' = TRUE /\ adminErr' = Empty /\ UNCHANGED daemonErr
     \/ /\ ~ctx /\ daemonErr = Empty /\ adminErr = Empty
        /\ main' = "parked" /\ UNCHANGED <<ctx, exit, daemonErr, adminErr>>
  /\ UNCHANGED <<dev, engine, engineErr, closer, run, ready, save, admin>>

\* Mutant of MainJoin: main does not wait for Run after an admin failure.
MainJoinHasty ==
  /\ main \in {"joinCtx", "joinAdmin"}
  /\ main = "joinCtx" => daemonErr # Empty
  /\ main' = "exited"
  /\ exit' = IF main = "joinCtx" /\ daemonErr = "nil" THEN exit ELSE 1
  /\ daemonErr' = Empty
  /\ UNCHANGED <<ctx, dev, engine, engineErr, closer, run, ready, save, admin, adminErr>>

\* main waits for Run and returns.
MainJoin ==
  /\ main \in {"joinCtx", "joinAdmin"} /\ daemonErr # Empty
  /\ main' = "exited"
  /\ exit' = IF main = "joinCtx" /\ daemonErr = "nil" THEN exit ELSE 1
  /\ daemonErr' = Empty
  /\ UNCHANGED <<ctx, dev, engine, engineErr, closer, run, ready, save, admin, adminErr>>

Engine == EngineRead \/ EngineReadError \/ EngineClosed \/ EngineWrite
Run == RunStart \/ RunReady \/ RunCancelled \/ RunEngineEnded \/ RunDrain \/ RunSave
Main == MainSelect \/ MainJoin
Environment == Signal \/ LinkVanishes \/ AdminFails \/ AdminShutdown

\* main has returned and the process is gone.
Exited == main = "exited" /\ UNCHANGED vars

Next == Engine \/ CloseDevice \/ Run \/ Main \/ Environment \/ Exited

Spec == Init /\ [][Next]_vars

\* Goroutines that can run do run.  Nothing is assumed of the network, the
\* user or the admin server.
FairSpec ==
  Spec /\ WF_vars(Engine) /\ WF_vars(CloseDevice) /\ WF_vars(Run) /\ WF_vars(Main)

-----------------------------------------------------------------------------
(* Properties.                                                             *)

\* Every variable has its type, and the error count stays within its limit.
TypeOK ==
  /\ ctx \in BOOLEAN /\ ready \in BOOLEAN /\ save \in {"due"} \cup Saves
  /\ dev \in {"none", "open", "gone", "closed"}
  /\ engine \in EngineState
  /\ engineErr \in Channel
  /\ closer \in {"off", "waiting", "done"}
  /\ run \in RunState
  /\ daemonErr \in Channel
  /\ admin \in {"off", "serving", "done"}
  /\ adminErr \in Channel
  /\ main \in MainState
  /\ exit \in {0, 1}

\* The process never exits under a running translator: whichever of the three
\* cases ended main's select, by then Run has returned and, if the engine was
\* ever started, it has stopped, the device is closed and a save of the
\* pool has been tried (it may have failed, which changes nothing here).
NothingLeftBehind ==
  main = "exited" =>
    /\ run.at = "returned"
    /\ engine.at # "off" => engine.at = "returned" /\ dev = "closed" /\ save # "due"

\* Exit status 0 means that the translator was started and that a cancelled
\* context, not a failure, ended it.
ExitZeroMeansServed ==
  main = "exited" /\ exit = 0 => engine.at = "returned" /\ run.err = "canceled"

\* Once the context is cancelled the process exits: main waits for Run, Run
\* for the engine, the engine for the device and the closer for the context.
ShutsDown == ctx ~> main = "exited"

\* Run returns once the engine has stopped.
RunReturns == engine.at = "returned" ~> run.at = "returned"

=============================================================================
