------------------------------ MODULE Worker -------------------------------
(***************************************************************************)
(* The worker daemon (internal/worker) over Store.ClaimRun, GetJob and      *)
(* FinalizeRun.  A worker is a pool of loops; a loop claims the oldest       *)
(* queued run in a transaction, fetches its job, runs the command and       *)
(* records the outcome.  Workers crash and are shut down, calls fail, and a *)
(* commit may be applied though its caller sees an error.                   *)
(***************************************************************************)
EXTENDS JobRuns

CONSTANTS
  Workers,        \* worker processes
  Slots,          \* loops of a worker (WORKER_CONCURRENCY)
  NoWorker,       \* NULL of job_runs.worker_id
  MaxWorkerFaults \* bound: crashes, shutdowns and failed database calls

ASSUME WorkerAssumption == NoWorker \notin Workers /\ MaxWorkerFaults \in Nat

Loops == Workers \X Slots

VARIABLES
  workerId,       \* job_runs.worker_id
  execs,          \* how many times a run's command has been started
  up,             \* the process: "down", "up", or "stopping" once cancelled
  lpc,            \* where a loop is; "off" if it does not run
  lrun,           \* the run a loop selected, claimed or executes
  outcome,        \* the terminal status a loop is about to record
  workerFaults    \* crashes, shutdowns and failures so far (bound)

loopVars == <<lpc, lrun, outcome>>
workerVars == <<workerId, execs, up, loopVars, workerFaults>>
allWorkerVars == <<status, workerVars>>

Outcomes == {"succeeded", "failed", "timed_out"}

-----------------------------------------------------------------------------
\* Mutant of ClaimLocks: the run is selected without FOR UPDATE.
ClaimLocksNone == {}

\* Rows of job_runs locked by a ClaimRun transaction that is open.
ClaimLocks == {lrun[l] : l \in {k \in Loops : lpc[k] = "select"}}

Go(l, label) == lpc' = [lpc EXCEPT ![l] = label]

WorkerFault == workerFaults < MaxWorkerFaults /\ workerFaults' = workerFaults + 1

\* A call on the worker's context may fail: it is cancelled, or a fault.
LoopCallFails(l) ==
  \/ up[l[1]] = "stopping" /\ UNCHANGED workerFaults
  \/ up[l[1]] = "up" /\ WorkerFault

-----------------------------------------------------------------------------
(* The loop *)

\* ClaimRun: SELECT ... WHERE status = 'queued' ORDER BY scheduled_for
\* FOR UPDATE SKIP LOCKED LIMIT 1.
SelectRun(l) ==
  /\ lpc[l] = "poll" /\ up[l[1]] = "up"
  /\ \E r \in Oldest(RowsWith("queued") \ ClaimLocks) : lrun' = [lrun EXCEPT ![l] = r]
  /\ Go(l, "select")
  /\ UNCHANGED <<status, workerId, execs, up, outcome, workerFaults>>

\* Mutant of MarkRunning: the claim does not change the status.
MarkRunningNot(l) ==
  /\ status' = status
  /\ workerId' = [workerId EXCEPT ![lrun[l]] = l[1]]

\* UPDATE job_runs SET status = 'running', worker_id = ...
MarkRunning(l) ==
  /\ status' = [status EXCEPT ![lrun[l]] = "running"]
  /\ workerId' = [workerId EXCEPT ![lrun[l]] = l[1]]

\* ClaimRun commits and returns the run.
CommitClaim(l) ==
  /\ lpc[l] = "select"
  /\ MarkRunning(l)
  /\ Go(l, "claimed")
  /\ UNCHANGED <<execs, up, lrun, outcome, workerFaults>>

\* A loop goes back to the head of its loop with nothing in hand.
Poll(l) ==
  /\ Go(l, "poll")
  /\ lrun' = [lrun EXCEPT ![l] = NoRun]
  /\ outcome' = [outcome EXCEPT ![l] = "none"]

\* ClaimRun fails and rolls back.
AbortClaim(l) ==
  /\ lpc[l] = "select"
  /\ LoopCallFails(l)
  /\ Poll(l)
  /\ UNCHANGED <<status, workerId, execs, up>>

\* ClaimRun's commit is applied but its caller gets an error.
LoseClaim(l) ==
  /\ lpc[l] = "select"
  /\ LoopCallFails(l)
  /\ MarkRunning(l)
  /\ Poll(l)
  /\ UNCHANGED <<execs, up>>

\* GetJob returns the job and cmd.Run starts its command; GetJob may have
\* answered just before a shutdown, and execute has a context of its own.
StartCommand(l) ==
  /\ lpc[l] = "claimed"
  /\ execs' = [execs EXCEPT ![lrun[l]] = @ + 1]
  /\ Go(l, "exec")
  /\ UNCHANGED <<status, workerId, up, lrun, outcome, workerFaults>>

\* The outcome of the run is decided.
Decide(l, st) ==
  /\ Go(l, "ended")
  /\ outcome' = [outcome EXCEPT ![l] = st]

\* Mutant of CommandNotStarted: the loop moves on without recording an outcome.
CommandNotStartedSilent(l) ==
  /\ lpc[l] = "claimed"
  /\ Poll(l)
  /\ UNCHANGED <<status, workerId, execs, up, workerFaults>>

\* The command cannot be started: classify says failed, or timed out if the
\* deadline has passed.
CommandNotStarted(l) ==
  /\ lpc[l] = "claimed"
  /\ \E st \in {"failed", "timed_out"} : Decide(l, st)
  /\ UNCHANGED <<status, workerId, execs, up, lrun, workerFaults>>

\* GetJob fails: the run is recorded failed without being executed.
FetchJobFails(l) ==
  /\ lpc[l] = "claimed"
  /\ LoopCallFails(l)
  /\ Decide(l, "failed")
  /\ UNCHANGED <<status, workerId, execs, up, lrun>>

\* The command ends or its timeout kills it: classify.
CommandEnds(l) ==
  /\ lpc[l] = "exec"
  /\ \E st \in Outcomes : Decide(l, st)
  /\ UNCHANGED <<status, workerId, execs, up, lrun, workerFaults>>

\* Mutant of Finalize: it uses the worker's context.
FinalizeIfUp(l) ==
  /\ lpc[l] = "ended" /\ up[l[1]] = "up"
  /\ status' = [status EXCEPT ![lrun[l]] = outcome[l]]
  /\ Poll(l)
  /\ UNCHANGED <<workerId, execs, up, workerFaults>>

\* finalize: FinalizeRun, whatever the row says by now.
Finalize(l) ==
  /\ lpc[l] = "ended"
  /\ status' = [status EXCEPT ![lrun[l]] = outcome[l]]
  /\ Poll(l)
  /\ UNCHANGED <<workerId, execs, up, workerFaults>>

\* finalize fails: the error is logged and the outcome is lost.
FinalizeFails(l) ==
  /\ lpc[l] = "ended"
  /\ WorkerFault
  /\ Poll(l)
  /\ UNCHANGED <<status, workerId, execs, up>>

\* Mutant of LeaveLoop: a loop looks for the cancelled context only when it
\* finds no run to claim.
LeaveLoopIdle(l) ==
  /\ lpc[l] = "poll" /\ up[l[1]] = "stopping"
  /\ RowsWith("queued") \ ClaimLocks = {}
  /\ Go(l, "off")
  /\ UNCHANGED <<status, workerId, execs, up, lrun, outcome, workerFaults>>

\* The loop sees the cancelled context and returns.
LeaveLoop(l) ==
  /\ lpc[l] = "poll" /\ up[l[1]] = "stopping"
  /\ Go(l, "off")
  /\ UNCHANGED <<status, workerId, execs, up, lrun, outcome, workerFaults>>

-----------------------------------------------------------------------------
(* The process *)

LoopsOf(w) == {l \in Loops : l[1] = w}

\* The loops of w stand at label with nothing in hand.
ResetLoops(w, label) ==
  /\ lpc' = [l \in Loops |-> IF l[1] = w THEN label ELSE lpc[l]]
  /\ lrun' = [l \in Loops |-> IF l[1] = w THEN NoRun ELSE lrun[l]]
  /\ outcome' = [l \in Loops |-> IF l[1] = w THEN "none" ELSE outcome[l]]

StartWorker(w) ==
  /\ up[w] = "down"
  /\ up' = [up EXCEPT ![w] = "up"]
  /\ ResetLoops(w, "poll")
  /\ UNCHANGED <<status, workerId, execs, workerFaults>>

\* SIGTERM cancels the context.
ShutdownWorker(w) ==
  /\ up[w] = "up"
  /\ WorkerFault
  /\ up' = [up EXCEPT ![w] = "stopping"]
  /\ UNCHANGED <<status, workerId, execs, loopVars>>

\* Run returns once every loop has (wg.Wait).
ExitWorker(w) ==
  /\ up[w] = "stopping"
  /\ \A l \in LoopsOf(w) : lpc[l] = "off"
  /\ up' = [up EXCEPT ![w] = "down"]
  /\ UNCHANGED <<status, workerId, execs, loopVars, workerFaults>>

\* The process dies; open transactions roll back, claimed rows stay as they are.
CrashWorker(w) ==
  /\ up[w] # "down"
  /\ WorkerFault
  /\ up' = [up EXCEPT ![w] = "down"]
  /\ ResetLoops(w, "off")
  /\ UNCHANGED <<status, workerId, execs>>

-----------------------------------------------------------------------------
(* The specification *)

WorkerInit ==
  /\ workerId = [r \in Runs |-> NoWorker]
  /\ execs = [r \in Runs |-> 0]
  /\ up = [w \in Workers |-> "down"]
  /\ lpc = [l \in Loops |-> "off"]
  /\ lrun = [l \in Loops |-> NoRun]
  /\ outcome = [l \in Loops |-> "none"]
  /\ workerFaults = 0

\* What a loop does when it is let run; a cancelled call returns by itself.
LoopStep(l) ==
  \/ SelectRun(l) \/ CommitClaim(l) \/ StartCommand(l) \/ CommandNotStarted(l)
  \/ CommandEnds(l) \/ Finalize(l) \/ LeaveLoop(l)
  \/ up[l[1]] = "stopping" /\ FetchJobFails(l)

LoopFault(l) == AbortClaim(l) \/ LoseClaim(l) \/ FetchJobFails(l) \/ FinalizeFails(l)

WorkerNext ==
  \/ \E l \in Loops : LoopStep(l) \/ LoopFault(l)
  \/ \E w \in Workers : StartWorker(w) \/ ShutdownWorker(w) \/ ExitWorker(w) \/ CrashWorker(w)

\* What a worker sees of the scheduler: queued rows appear.
Enqueue(r) ==
  /\ status[r] = "none"
  /\ status' = [status EXCEPT ![r] = "queued"]
  /\ UNCHANGED workerVars

WorkersAloneInit == status = NoRows /\ WorkerInit

WorkerSpec ==
  /\ WorkersAloneInit
  /\ [][WorkerNext \/ \E r \in Runs : Enqueue(r)]_allWorkerVars

\* Loops keep running, commands end (their timeout kills them), processes that
\* are down are started again and a drained worker exits.
FairWorkerSpec ==
  /\ WorkerSpec
  /\ \A l \in Loops : WF_allWorkerVars(LoopStep(l))
  /\ \A w \in Workers : WF_allWorkerVars(StartWorker(w) \/ ExitWorker(w))

-----------------------------------------------------------------------------
(* Properties *)

\* The type of every variable of the worker.
WorkerTypeOK ==
  /\ status \in [Runs -> Statuses]
  /\ workerId \in [Runs -> Workers \cup {NoWorker}]
  /\ execs \in [Runs -> Nat]
  /\ up \in [Workers -> {"down", "up", "stopping"}]
  /\ lpc \in [Loops -> {"off", "poll", "select", "claimed", "exec", "ended"}]
  /\ lrun \in [Loops -> Runs \cup {NoRun}]
  /\ outcome \in [Loops -> Outcomes \cup {"none"}]
  /\ workerFaults \in 0 .. MaxWorkerFaults

Holds(l) == lpc[l] \in {"claimed", "exec", "ended"}

\* README.md "Safe claiming": the command of a run is never started twice,
\* whatever workers poll, crash or lose replies (Store.ClaimRun).
AtMostOnce == \A r \in Runs : execs[r] <= 1

\* A run that a loop works on is running in its worker's name, and no other
\* loop works on it: no outcome is written over another (Worker.loop).
ClaimsExclude ==
  /\ \A l \in Loops : Holds(l) => status[lrun[l]] = "running" /\ workerId[lrun[l]] = l[1]
  /\ \A l, k \in Loops : l # k /\ Holds(l) /\ lpc[k] \in {"select", "claimed", "exec", "ended"}
       => lrun[l] # lrun[k]

\* A run is recorded succeeded only if its command has been started, and it is
\* executed only once it has been claimed (Worker.execute, finalize).
OutcomesAreEarned ==
  \A r \in Runs :
    /\ status[r] = "succeeded" => execs[r] = 1
    /\ status[r] \in {"none", "waiting", "queued", "skipped"} => execs[r] = 0

\* Worker implements the ledger; it consumes no events.
WorkerLedger == INSTANCE RunLedger WITH events <- <<>>, Names <- {}
WorkerImplementsLedger == WorkerLedger!Spec

\* A queued run is not left queued: some worker claims it, after any crash,
\* shutdown or failed call of another (Worker.loop).
QueuedIsClaimed == \A r \in Runs : status[r] = "queued" ~> status[r] # "queued"

\* A loop with a run in hand comes back to polling or returns, and a worker
\* that is shut down drains and exits (Worker.Run, wg.Wait).
LoopsComeBack ==
  /\ \A l \in Loops : Holds(l) ~> ~Holds(l)
  /\ \A w \in Workers : up[w] = "stopping" ~> up[w] = "down"

\* A row left running that no loop works on needs a fault: without one, every
\* running row is in hand (nothing else would ever finish it).
RunningIsHeld ==
  workerFaults = 0 =>
    \A r \in RowsWith("running") : \E l \in Loops : Holds(l) /\ lrun[l] = r
=============================================================================
