----------------------------- MODULE Execution -----------------------------
(***************************************************************************)
(* Worker.execute for one claimed run: the command and the processes it     *)
(* forks, its deadline, the pipe behind stderr, the heartbeat and the       *)
(* outcome.  exec.Cmd is the Go library's: Start refuses an expired         *)
(* context, a goroutine calls Cancel at the deadline until Wait has the     *)
(* exit status, and Wait returns only when stderr has been read to its end. *)
(***************************************************************************)
EXTENDS Integers, FiniteSets

CONSTANTS
  Kids,         \* processes the command may fork
  PipeSize,     \* units the pipe holds
  MaxOutput,    \* units boundedBuffer keeps (maxOutputBytes)
  MaxWrites,    \* bound: units ever written
  MaxFaults     \* bound: shutdown, crash, failed FinalizeRun

Leader == "leader"              \* the process of the command
Procs == Kids \cup {Leader}

ASSUME ExecutionAssumption ==
  /\ Leader \notin Kids
  /\ PipeSize \in Nat /\ MaxOutput \in Nat /\ MaxWrites \in Nat /\ MaxFaults \in Nat

VARIABLES
  up,           \* the worker process: "up", "stopping" or "down"
  faults,       \* faults so far (bound)
  epc,          \* where execute is
  timer,        \* the deadline of execCtx has passed
  watch,        \* who will call Cancel: "off", "armed", "fired" or "released"
  runErr,       \* what cmd.Run returns: "nil", "exit" or "error"
  proc,         \* "none", in the command's "group", "away" in one of its own, "dead"
  code,         \* exit status of the leader, -1 for a signal
  holds,        \* the processes that have stderr open
  pipe,         \* units waiting in the pipe
  seen,         \* units read from it
  copier,       \* the goroutine that reads it: "off", "copying", "done"
  captured,     \* units in boundedBuffer.buf
  truncated,    \* boundedBuffer.truncated
  hb,           \* heartbeatLoop: "idle", "calling" or "off"
  hbStop,       \* stopHeartbeat was called
  outcome,      \* what classify returned: [st, exit]
  row,          \* the row of job_runs: [st, exit]
  lateBeats     \* heartbeats that landed on a terminal row

processVars == <<proc, code, holds>>
outputVars == <<pipe, seen, copier, captured, truncated>>
beatVars == <<hb, hbStop, lateBeats>>
resultVars == <<runErr, outcome, row>>
workerVars == <<up, faults>>
execVars == <<workerVars, epc, timer, watch, processVars, outputVars, beatVars, resultVars>>

Alive(p) == proc[p] \in {"group", "away"}
Running == up # "down"
Result(st, exit) == [st |-> st, exit |-> exit]
Fault == faults < MaxFaults /\ faults' = faults + 1

-----------------------------------------------------------------------------
(* execute and cmd.Run *)

\* cmd.Start: a process group of its own, stderr piped to boundedBuffer.
StartCommand ==
  /\ Running /\ epc = "start" /\ ~timer
  /\ proc' = [proc EXCEPT ![Leader] = "group"]
  /\ holds' = {Leader}
  /\ copier' = "copying"
  /\ watch' = "armed"
  /\ epc' = "wait"
  /\ UNCHANGED <<workerVars, timer, code, pipe, seen, captured, truncated, beatVars, resultVars>>

\* Mutant of StartFails: execute returns without recording the run.
StartFailsSilently ==
  /\ Running /\ epc = "start"
  /\ epc' = "done"
  /\ UNCHANGED <<workerVars, timer, watch, processVars, outputVars, beatVars, resultVars>>

\* cmd.Start returns an error: no such command, or the context expired.
StartFails ==
  /\ Running /\ epc = "start"
  /\ runErr' = "error"
  /\ epc' = "returned"
  /\ UNCHANGED <<workerVars, timer, watch, processVars, outputVars, beatVars, outcome, row>>

\* The deadline of context.WithTimeout passes.
TimerFires ==
  /\ Running /\ ~timer /\ epc # "done"
  /\ timer' = TRUE
  /\ UNCHANGED <<workerVars, epc, watch, processVars, outputVars, beatVars, resultVars>>

\* Mutant of Killed: Setpgid or the minus sign is forgotten.
KilledLeader == {Leader} \cap {p \in Procs : proc[p] = "group"}

\* Whom kill(-pid, SIGKILL) reaches.
Killed == {p \in Procs : proc[p] = "group"}

\* cmd.Cancel.
Cancel ==
  /\ Running /\ timer /\ watch = "armed"
  /\ watch' = "fired"
  /\ proc' = [p \in Procs |-> IF p \in Killed THEN "dead" ELSE proc[p]]
  /\ holds' = holds \ Killed
  /\ code' = IF Leader \in Killed THEN -1 ELSE code
  /\ UNCHANGED <<workerVars, epc, timer, outputVars, beatVars, resultVars>>

\* Process.Wait has the exit status of the leader.
Reap ==
  /\ Running /\ epc = "wait" /\ proc[Leader] = "dead"
  /\ runErr' = IF code = 0 THEN "nil" ELSE "exit"
  /\ epc' = "collect"
  /\ UNCHANGED <<workerVars, timer, watch, processVars, outputVars, beatVars, outcome, row>>

\* Wait takes the result of the goroutine that watches the context.  From here
\* on the deadline kills nobody.  A Cancel that was called shows in the error.
Release ==
  /\ Running /\ epc = "collect"
  /\ watch' = IF watch = "armed" THEN "released" ELSE watch
  /\ runErr' = IF watch = "fired" /\ runErr = "nil" THEN "error" ELSE runErr
  /\ epc' = "drain"
  /\ UNCHANGED <<workerVars, timer, processVars, outputVars, beatVars, outcome, row>>

\* cmd.Run returns once stderr has been read to its end.
Drained ==
  /\ Running /\ epc = "drain" /\ copier = "done"
  /\ epc' = "returned"
  /\ UNCHANGED <<workerVars, timer, watch, processVars, outputVars, beatVars, resultVars>>

\* Mutant of Verdict: the error of cmd.Run is looked at before the deadline.
VerdictExitFirst ==
  CASE runErr = "nil" -> Result("succeeded", 0)
    [] runErr = "exit" -> Result("failed", code)
    [] OTHER -> IF timer THEN Result("timed_out", -1) ELSE Result("failed", -1)

\* classify.
Verdict ==
  CASE timer -> Result("timed_out", -1)
    [] ~timer /\ runErr = "nil" -> Result("succeeded", 0)
    [] ~timer /\ runErr = "exit" -> Result("failed", code)
    [] OTHER -> Result("failed", -1)

\* stopHeartbeat and classify.
Classify ==
  /\ Running /\ epc = "returned"
  /\ hbStop' = TRUE
  /\ outcome' = Verdict
  /\ epc' = "ended"
  /\ UNCHANGED <<workerVars, timer, watch, processVars, outputVars, hb, lateBeats, runErr, row>>

\* FinalizeRun.
Finalize ==
  /\ Running /\ epc = "ended"
  /\ row' = outcome
  /\ epc' = "done"
  /\ UNCHANGED <<workerVars, timer, watch, processVars, outputVars, beatVars, runErr, outcome>>

FinalizeFails ==
  /\ Running /\ epc = "ended"
  /\ Fault
  /\ epc' = "done"
  /\ UNCHANGED <<up, timer, watch, processVars, outputVars, beatVars, resultVars>>

-----------------------------------------------------------------------------
(* Captured output *)

\* Mutant of Overflows: a write that just fits counts as truncated.
OverflowsAtLimit(n) == n >= MaxOutput - captured

\* A write of n units does not fit into what is left of the buffer.
Overflows(n) == n > MaxOutput - captured

\* Mutant of Copy: the goroutine stops reading when the buffer is full.
CopyUntilFull ==
  /\ Running /\ copier = "copying" /\ captured < MaxOutput
  /\ \E n \in 1 .. pipe :
       /\ pipe' = pipe - n
       /\ seen' = seen + n
       /\ captured' = IF Overflows(n) THEN MaxOutput ELSE captured + n
       /\ truncated' = (truncated \/ Overflows(n))
  /\ UNCHANGED <<workerVars, epc, timer, watch, processVars, copier, beatVars, resultVars>>

\* boundedBuffer.Write of some of what the pipe holds: a prefix is kept, and
\* the write always counts as full.
Copy ==
  /\ Running /\ copier = "copying"
  /\ \E n \in 1 .. pipe :
       /\ pipe' = pipe - n
       /\ seen' = seen + n
       /\ captured' = IF Overflows(n) THEN MaxOutput ELSE captured + n
       /\ truncated' = (truncated \/ Overflows(n))
  /\ UNCHANGED <<workerVars, epc, timer, watch, processVars, copier, beatVars, resultVars>>

\* End of file: nobody has the pipe open for writing.
CopyEnds ==
  /\ Running /\ copier = "copying" /\ pipe = 0 /\ holds = {}
  /\ copier' = "done"
  /\ UNCHANGED <<workerVars, epc, timer, watch, processVars, pipe, seen, captured, truncated,
                 beatVars, resultVars>>

-----------------------------------------------------------------------------
(* The heartbeat *)

\* The ticker fires; a call on a cancelled context does not reach the database.
Beat ==
  /\ Running /\ hb = "idle" /\ ~hbStop
  /\ hb' = "calling"
  /\ UNCHANGED <<workerVars, epc, timer, watch, processVars, outputVars, hbStop, lateBeats, resultVars>>

\* Heartbeat: its UPDATE is applied, whatever the status, or it fails; the
\* count of late ones stops at 2 (bound).
BeatReturns ==
  /\ Running /\ hb = "calling"
  /\ hb' = "idle"
  /\ \/ lateBeats' = IF row.st # "running" /\ lateBeats < 2 THEN lateBeats + 1 ELSE lateBeats
     \/ UNCHANGED lateBeats
  /\ UNCHANGED <<workerVars, epc, timer, watch, processVars, outputVars, hbStop, resultVars>>

BeatLoopEnds ==
  /\ Running /\ hb = "idle" /\ hbStop
  /\ hb' = "off"
  /\ UNCHANGED <<workerVars, epc, timer, watch, processVars, outputVars, hbStop, lateBeats, resultVars>>

-----------------------------------------------------------------------------
(* The worker process, and what the command's processes may do *)

\* SIGTERM: execCtx does not derive from the cancelled context.
Shutdown ==
  /\ up = "up"
  /\ Fault
  /\ up' = "stopping"
  /\ UNCHANGED <<epc, timer, watch, processVars, outputVars, beatVars, resultVars>>

Die ==
  /\ Running
  /\ Fault
  /\ up' = "down"
  /\ UNCHANGED <<epc, timer, watch, processVars, outputVars, beatVars, resultVars>>

Fork(p, k) ==
  /\ Alive(p) /\ proc[k] = "none"
  /\ proc' = [proc EXCEPT ![k] = proc[p]]
  /\ holds' = IF p \in holds THEN holds \cup {k} ELSE holds
  /\ UNCHANGED code

\* setsid.
LeaveGroup(k) ==
  /\ proc[k] = "group"
  /\ proc' = [proc EXCEPT ![k] = "away"]
  /\ UNCHANGED <<code, holds>>

CloseStderr(p) ==
  /\ Alive(p) /\ p \in holds
  /\ holds' = holds \ {p}
  /\ UNCHANGED <<proc, code>>

Exit(p) ==
  /\ Alive(p)
  /\ proc' = [proc EXCEPT ![p] = "dead"]
  /\ holds' = holds \ {p}
  /\ IF p = Leader THEN code' \in {0, 1, -1} ELSE UNCHANGED code

ProcessStep ==
  /\ \/ \E p \in Procs : CloseStderr(p) \/ Exit(p)
     \/ \E p \in Procs, k \in Kids : Fork(p, k)
     \/ \E k \in Kids : LeaveGroup(k)
  /\ UNCHANGED <<workerVars, epc, timer, watch, outputVars, beatVars, resultVars>>

WriteStderr ==
  /\ Running /\ holds # {}
  /\ pipe < PipeSize /\ pipe + seen < MaxWrites
  /\ pipe' = pipe + 1
  /\ UNCHANGED <<workerVars, epc, timer, watch, processVars, seen, copier, captured, truncated,
                 beatVars, resultVars>>

-----------------------------------------------------------------------------
(* The specification *)

\* GetJob has returned and the heartbeat goroutine is started.
ExecutionInit ==
  /\ up \in {"up", "stopping"} /\ faults = 0
  /\ epc = "start" /\ timer = FALSE /\ watch = "off" /\ runErr = "nil"
  /\ proc = [p \in Procs |-> "none"] /\ code = 0 /\ holds = {}
  /\ pipe = 0 /\ seen = 0 /\ copier = "off" /\ captured = 0 /\ truncated = FALSE
  /\ hb = "idle" /\ hbStop = FALSE /\ lateBeats = 0
  /\ outcome = Result("none", -1) /\ row = Result("running", -1)

MainStep ==
  StartCommand \/ StartFails \/ Reap \/ Release \/ Drained \/ Classify \/ Finalize

ExecutionNext ==
  \/ MainStep \/ FinalizeFails
  \/ TimerFires \/ Cancel
  \/ Copy \/ CopyEnds
  \/ Beat \/ BeatReturns \/ BeatLoopEnds
  \/ Shutdown \/ Die
  \/ ProcessStep \/ WriteStderr

ExecutionSpec == ExecutionInit /\ [][ExecutionNext]_execVars

\* The goroutines of the worker run, deadlines pass and calls return; nothing
\* is assumed of the processes of the command.
FairExecutionSpec ==
  /\ ExecutionSpec
  /\ WF_execVars(MainStep) /\ WF_execVars(TimerFires) /\ WF_execVars(Cancel)
  /\ WF_execVars(Copy) /\ WF_execVars(CopyEnds)
  /\ WF_execVars(BeatReturns) /\ WF_execVars(BeatLoopEnds)

-----------------------------------------------------------------------------
(* Properties *)

Results ==
  [st : {"none", "running", "succeeded", "failed", "timed_out"}, exit : {0, 1, -1}]

\* The type of every variable; captured output stays within its limit.
ExecutionTypeOK ==
  /\ up \in {"up", "stopping", "down"} /\ faults \in 0 .. MaxFaults
  /\ epc \in {"start", "wait", "collect", "drain", "returned", "ended", "done"}
  /\ timer \in BOOLEAN /\ watch \in {"off", "armed", "fired", "released"}
  /\ runErr \in {"nil", "exit", "error"}
  /\ proc \in [Procs -> {"none", "group", "away", "dead"}]
  /\ code \in {0, 1, -1} /\ holds \in SUBSET Procs
  /\ pipe \in 0 .. PipeSize /\ seen \in 0 .. MaxWrites
  /\ copier \in {"off", "copying", "done"}
  /\ captured \in 0 .. MaxOutput /\ truncated \in BOOLEAN
  /\ hb \in {"idle", "calling", "off"} /\ hbStop \in BOOLEAN /\ lateBeats \in 0 .. 2
  /\ outcome \in Results /\ row \in Results

\* The outcome says what became of the command: succeeded is an exit with 0
\* that no deadline touched, failed is the command's own failure or one to start
\* it, and a command that was killed, or not waited for, is never called
\* either (classify over the races of exit, deadline and shutdown).
OutcomeIsTrue ==
  epc \in {"ended", "done"} =>
    CASE outcome.st = "succeeded" ->
           proc[Leader] = "dead" /\ code = 0 /\ watch = "released" /\ outcome.exit = 0
      [] outcome.st = "failed" ->
           \/ proc[Leader] = "dead" /\ code # 0 /\ watch = "released" /\ outcome.exit = code
           \/ proc[Leader] = "none" /\ outcome.exit = -1
      [] OTHER -> outcome.st = "timed_out" /\ timer /\ outcome.exit = -1

\* worker.go:148 "so a timeout kills child processes too, not just the parent":
\* after Cancel no process of the group is left, whoever forks or exits.
KillIsTotal == watch = "fired" => \A p \in Procs : proc[p] # "group"

\* The message of a failed run is what the command wrote, cut at the limit, and
\* marked exactly when something was cut; it is read when nobody writes it any
\* more (boundedBuffer, shared with the goroutine of exec.Cmd).
OutputIsFaithful ==
  /\ captured = IF seen > MaxOutput THEN MaxOutput ELSE seen
  /\ truncated <=> seen > MaxOutput
  /\ epc \in {"returned", "ended", "done"} => copier # "copying" /\ pipe = 0

\* Heartbeat has no guard on the status, and execute does not wait for the
\* goroutine: of all heartbeats only the one that was under way when it was
\* stopped may land on a terminal row.
OneLateBeat == lateBeats <= 1

\* What Worker says of a loop with a run in hand is what execute does.
TheRun == <<"job", 0>>
TheLoop == <<"worker", 1>>
InLoop == Running /\ epc # "done"
LoopPosition ==
  CASE ~Running -> "off"
    [] Running /\ epc = "done" -> "poll"
    [] Running /\ epc = "ended" -> "ended"
    [] Running /\ epc \notin {"done", "ended"} /\ proc[Leader] = "none" -> "claimed"
    [] OTHER -> "exec"
LoopOutcome == IF InLoop THEN outcome.st ELSE "none"

Loop == INSTANCE Worker
  WITH Jobs <- {"job"}, MaxTime <- 0, NoRun <- "none",
       Workers <- {"worker"}, Slots <- {1}, NoWorker <- "none", MaxWorkerFaults <- MaxFaults,
       status <- [r \in {TheRun} |-> row.st],
       workerId <- [r \in {TheRun} |-> "worker"],
       execs <- [r \in {TheRun} |-> IF proc[Leader] = "none" THEN 0 ELSE 1],
       up <- [w \in {"worker"} |-> up],
       lpc <- [l \in {TheLoop} |-> LoopPosition],
       lrun <- [l \in {TheLoop} |-> IF InLoop THEN TheRun ELSE "none"],
       outcome <- [l \in {TheLoop} |-> LoopOutcome],
       workerFaults <- faults

LoopAction ==
  \/ Loop!LoopStep(TheLoop) \/ Loop!FinalizeFails(TheLoop)
  \/ Loop!ShutdownWorker("worker") \/ Loop!CrashWorker("worker")

ExecutionImplementsLoop == [][LoopAction]_(Loop!allWorkerVars)

\* A process that writes to stderr is not blocked for good, however much it
\* writes (worker.go:262 "so the child process is never blocked").
CommandNeverBlocked == pipe = PipeSize ~> pipe < PipeSize \/ ~Running

\* Somebody whom the deadline does not reach has stderr open: it left the
\* group, or it outlived a command that had exited in time.
OutOfReach == \E p \in holds : proc[p] = "away" \/ watch = "released"

\* After the deadline the loop comes back, unless such a process keeps stderr
\* open for ever; with that exception "bounded by its own timeout" holds.
LoopIsReleased == timer ~> (epc = "done" \/ ~Running \/ []OutOfReach)

\* worker.go:130: "an in-flight run finishes on graceful shutdown, bounded by
\* its own timeout": after the deadline the loop comes back.
BoundedByTimeout == timer ~> epc = "done" \/ ~Running
=============================================================================
