-------------------------- MODULE ExecutionProofs --------------------------
(***************************************************************************)
(* Safety of Execution for any number of child processes and any bounds.     *)
(***************************************************************************)
EXTENDS Execution, TLAPS

\* cmd.Run has returned.
Over == epc \in {"returned", "ended", "done"}

\* Before the command starts, and for ever if it cannot be started, there is
\* no process, no pipe and nobody to call Cancel.
NotStarted ==
  proc[Leader] = "none" =>
    /\ epc \in {"start", "returned", "ended", "done"}
    /\ watch = "off" /\ holds = {} /\ copier = "off" /\ pipe = 0 /\ seen = 0
    /\ \A p \in Procs : proc[p] = "none"
    /\ epc = "returned" => runErr = "error"

\* Where execute is tells what became of the leader, who holds the pipe and
\* whether the deadline can still kill.
Position ==
  /\ epc = "start" => proc[Leader] = "none"
  /\ proc[Leader] # "none" =>
       /\ epc = "wait" => watch \in {"armed", "fired"}
       /\ epc = "collect" => watch \in {"armed", "fired"}
       /\ epc \in {"drain", "returned", "ended", "done"} => watch \in {"released", "fired"}
       /\ epc # "wait" => proc[Leader] = "dead"
       /\ copier = (IF Over THEN "done" ELSE copier) /\ copier # "off"
  /\ copier = "done" => holds = {} /\ pipe = 0
  /\ watch = "fired" => timer
  /\ epc = "collect" => runErr = IF code = 0 THEN "nil" ELSE "exit"
  /\ epc \in {"drain", "returned"} /\ watch = "released" =>
       runErr = IF code = 0 THEN "nil" ELSE "exit"

\* The heartbeat is stopped with the verdict, and the row ends after that.
BeatInv ==
  /\ hbStop <=> epc \in {"ended", "done"}
  /\ row.st # "running" => epc = "done"
  /\ ~hbStop => lateBeats = 0
  /\ hb = "calling" => lateBeats = 0
  /\ lateBeats <= 1

Captured ==
  /\ captured = IF seen > MaxOutput THEN MaxOutput ELSE seen
  /\ truncated <=> seen > MaxOutput
  /\ pipe + seen <= MaxWrites

Decided == OutcomeIsTrue /\ (epc \notin {"ended", "done"} => outcome.st = "none")

EInv ==
  /\ ExecutionTypeOK /\ NotStarted /\ Position /\ KillIsTotal
  /\ Captured /\ BeatInv /\ Decided

LEMMA EInit == ExecutionInit => EInv
<1> SUFFICES ASSUME ExecutionInit
             PROVE  EInv
  OBVIOUS
<1> USE ExecutionAssumption DEF ExecutionAssumption
<1>0. Leader \in Procs
  BY DEF Procs
<1>1. outcome \in Results /\ row \in Results /\ outcome.st = "none" /\ row.st = "running"
  BY DEF ExecutionInit, Result, Results
<1>2. ExecutionTypeOK
  <2>1. /\ 0 \in 0 .. MaxFaults /\ 0 \in 0 .. PipeSize /\ 0 \in 0 .. MaxWrites
        /\ 0 \in 0 .. MaxOutput /\ 0 \in 0 .. 2
    BY DEF ExecutionAssumption
  <2>2. proc \in [Procs -> {"none", "group", "away", "dead"}] /\ holds \in SUBSET Procs
    BY DEF ExecutionInit
  <2> QED
    BY <1>1, <2>1, <2>2 DEF ExecutionInit, ExecutionTypeOK
<1>3. NotStarted /\ Position /\ KillIsTotal
  BY <1>0 DEF ExecutionInit, NotStarted, Position, KillIsTotal, Over
<1>4. Captured
  BY DEF ExecutionInit, Captured, ExecutionAssumption
<1>5. BeatInv /\ Decided
  BY <1>1 DEF ExecutionInit, BeatInv, Decided, OutcomeIsTrue
<1> QED
  BY <1>2, <1>3, <1>4, <1>5 DEF EInv

LEMMA EMain ==
  ASSUME EInv, MainStep \/ FinalizeFails
  PROVE  EInv'
<1> USE ExecutionAssumption
    DEF ExecutionAssumption, EInv, ExecutionTypeOK, NotStarted, Position, KillIsTotal, Captured,
        BeatInv, Decided, OutcomeIsTrue, Over, Running, workerVars, processVars, outputVars, beatVars, resultVars
<1>0. Leader \in Procs
  BY DEF Procs
<1>1. CASE StartCommand
  BY <1>0, <1>1 DEF StartCommand
<1>2. CASE StartFails
  BY <1>0, <1>2 DEF StartFails
<1>3. CASE Reap
  BY <1>0, <1>3 DEF Reap
<1>4. CASE Release
  BY <1>0, <1>4 DEF Release
<1>5. CASE Drained
  BY <1>0, <1>5 DEF Drained
<1>6. CASE Classify
  <2>0. \/ timer /\ Verdict = Result("timed_out", -1)
        \/ ~timer /\ runErr = "nil" /\ Verdict = Result("succeeded", 0)
        \/ ~timer /\ runErr = "exit" /\ Verdict = Result("failed", code)
        \/ ~timer /\ runErr = "error" /\ Verdict = Result("failed", -1)
    BY DEF Verdict
  <2>1. Verdict \in Results /\ Verdict.st # "none"
    BY <2>0 DEF Result, Results
  <2>2. outcome' = Verdict /\ UNCHANGED <<timer, proc, code, watch>>
    BY <1>6 DEF Classify
  <2>3. proc[Leader] # "none" => proc[Leader] = "dead" /\ watch \in {"released", "fired"}
    BY <1>6 DEF Classify
  <2>4. \/ timer /\ outcome'.st = "timed_out" /\ outcome'.exit = -1
        \/ ~timer /\ runErr = "nil" /\ outcome'.st = "succeeded" /\ outcome'.exit = 0
        \/ ~timer /\ runErr = "exit" /\ outcome'.st = "failed" /\ outcome'.exit = code
        \/ ~timer /\ runErr = "error" /\ outcome'.st = "failed" /\ outcome'.exit = -1
    BY <2>0, <2>2 DEF Result
  <2>5. OutcomeIsTrue'
    <3>1. CASE runErr = "error" /\ ~timer
      BY <1>6, <2>2, <2>3, <2>4, <3>1 DEF Classify
    <3>2. CASE runErr # "error" /\ ~timer
      <4>1. proc[Leader] = "dead" /\ watch = "released"
        BY <1>6, <2>3, <3>2 DEF Classify
      <4>2. runErr = IF code = 0 THEN "nil" ELSE "exit"
        BY <1>6, <4>1 DEF Classify
      <4> QED
        BY <2>2, <2>4, <3>2, <4>1, <4>2
    <3>3. CASE timer
      BY <2>2, <2>4, <3>3
    <3> QED
      BY <3>1, <3>2, <3>3
  <2>6. /\ ExecutionTypeOK' /\ NotStarted' /\ Position' /\ KillIsTotal' /\ Captured' /\ BeatInv'
        /\ epc' = "ended"
    BY <1>0, <1>6, <2>1 DEF Classify
  <2> QED
    BY <2>5, <2>6
<1>7. CASE Finalize
  BY <1>0, <1>7 DEF Finalize
<1>8. CASE FinalizeFails
  BY <1>0, <1>8 DEF FinalizeFails, Fault
<1> QED
  BY <1>1, <1>2, <1>3, <1>4, <1>5, <1>6, <1>7, <1>8 DEF MainStep

LEMMA EDeadline ==
  ASSUME EInv, TimerFires \/ Cancel
  PROVE  EInv'
<1> USE ExecutionAssumption
    DEF ExecutionAssumption, EInv, ExecutionTypeOK, NotStarted, Position, KillIsTotal, Captured,
        BeatInv, Decided, OutcomeIsTrue, Over, Running, workerVars, processVars, outputVars, beatVars, resultVars
<1>0. Leader \in Procs
  BY DEF Procs
<1>1. CASE TimerFires
  BY <1>0, <1>1 DEF TimerFires
<1>2. CASE Cancel
  <2>1. proc' \in [Procs -> {"none", "group", "away", "dead"}]
    BY <1>2 DEF Cancel
  <2>2. \A p \in Procs : proc'[p] # "group"
    BY <1>2 DEF Cancel, Killed
  <2>3. proc[Leader] # "none" /\ proc'[Leader] # "none"
    BY <1>0, <1>2 DEF Cancel
  <2>4. proc[Leader] = "dead" => proc'[Leader] = "dead" /\ code' = code
    BY <1>0, <1>2 DEF Cancel, Killed
  <2>5. epc \in {"wait", "collect"}
    BY <1>2, <2>3 DEF Cancel
  <2> QED
    BY <1>0, <1>2, <2>1, <2>2, <2>3, <2>4, <2>5 DEF Cancel
<1> QED
  BY <1>1, <1>2

LEMMA ECopy ==
  ASSUME EInv, Copy \/ CopyEnds
  PROVE  EInv'
<1> USE ExecutionAssumption
    DEF ExecutionAssumption, EInv, ExecutionTypeOK, NotStarted, Position, KillIsTotal, Captured,
        BeatInv, Decided, OutcomeIsTrue, Over, Running, workerVars, processVars, outputVars, beatVars, resultVars
<1>1. CASE Copy
  <2>1. PICK n \in 1 .. pipe :
          /\ pipe' = pipe - n /\ seen' = seen + n
          /\ captured' = IF Overflows(n) THEN MaxOutput ELSE captured + n
          /\ truncated' = (truncated \/ Overflows(n))
    BY <1>1 DEF Copy
  <2>2. n \in Nat /\ n > 0 /\ seen + n <= MaxWrites
    BY <2>1
  <2>3. Overflows(n) <=> seen + n > MaxOutput
    BY <2>2 DEF Overflows
  <2>4. Captured' /\ captured' \in 0 .. MaxOutput /\ seen' \in 0 .. MaxWrites /\ pipe' \in 0 .. PipeSize
    <3>1. seen' \in 0 .. MaxWrites /\ pipe' \in 0 .. PipeSize /\ pipe' + seen' <= MaxWrites
      BY <2>1, <2>2
    <3>2. captured' = IF seen + n > MaxOutput THEN MaxOutput ELSE seen + n
      <4>1. CASE Overflows(n)
        BY <2>1, <2>3, <4>1
      <4>2. CASE ~Overflows(n)
        BY <2>1, <2>2, <2>3, <4>2
      <4> QED
        BY <4>1, <4>2
    <3>3. truncated' <=> seen + n > MaxOutput
      <4>1. truncated \/ Overflows(n) <=> seen + n > MaxOutput
        <5>1. seen > MaxOutput => seen + n > MaxOutput
          BY <2>2
        <5>2. truncated <=> seen > MaxOutput
          OBVIOUS
        <5> QED
          BY <2>3, <5>1, <5>2, Zenon
      <4> QED
        BY <2>1, <4>1, Zenon
    <3> QED
      BY <2>1, <2>2, <3>1, <3>2, <3>3
  <2>5. truncated' \in BOOLEAN
    BY <2>1 DEF Overflows
  <2> QED
    BY <1>1, <2>1, <2>4, <2>5 DEF Copy
<1>2. CASE CopyEnds
  BY <1>2 DEF CopyEnds
<1> QED
  BY <1>1, <1>2

LEMMA EBeat ==
  ASSUME EInv, Beat \/ BeatReturns \/ BeatLoopEnds \/ Shutdown \/ Die
  PROVE  EInv'
<1> USE ExecutionAssumption
    DEF ExecutionAssumption, EInv, ExecutionTypeOK, NotStarted, Position, KillIsTotal, Captured,
        BeatInv, Decided, OutcomeIsTrue, Over, Running, workerVars, processVars, outputVars, beatVars, resultVars
<1>1. CASE Beat
  BY <1>1 DEF Beat
<1>2. CASE BeatReturns
  BY <1>2 DEF BeatReturns
<1>3. CASE BeatLoopEnds
  BY <1>3 DEF BeatLoopEnds
<1>4. CASE Shutdown
  BY <1>4 DEF Shutdown, Fault
<1>5. CASE Die
  BY <1>5 DEF Die, Fault
<1> QED
  BY <1>1, <1>2, <1>3, <1>4, <1>5

\* What the processes of the command may do, to any of them.
LEMMA EProcess ==
  ASSUME EInv, ProcessStep
  PROVE  EInv'
<1> USE ExecutionAssumption
    DEF ExecutionAssumption, EInv, ExecutionTypeOK, NotStarted, Position, KillIsTotal, Captured,
        BeatInv, Decided, OutcomeIsTrue, Over, Alive, workerVars, processVars, outputVars, beatVars, resultVars
<1>0. Leader \in Procs /\ \A k \in Kids : k \in Procs /\ k # Leader
  BY DEF Procs
<1>1. ASSUME NEW p \in Procs, CloseStderr(p) PROVE EInv'
  BY <1>0, <1>1, ProcessStep DEF CloseStderr, ProcessStep
<1>2. ASSUME NEW p \in Procs, Exit(p) PROVE EInv'
  <2>1. proc[Leader] = "dead" => p # Leader
    BY <1>2 DEF Exit
  <2>2. proc[Leader] # "none"
    BY <1>2 DEF Exit
  <2>3. proc'[Leader] # "none" /\ code' \in {0, 1, -1}
    BY <1>0, <1>2, <2>2 DEF Exit
  <2>4. proc[Leader] = "dead" => proc'[Leader] = "dead" /\ code' = code
    BY <1>0, <1>2, <2>1 DEF Exit
  <2>5. \A q \in Procs : proc'[q] = "group" => proc[q] = "group"
    BY <1>2 DEF Exit
  <2>6. proc' \in [Procs -> {"none", "group", "away", "dead"}] /\ holds' \subseteq holds
    BY <1>2 DEF Exit
  <2> QED
    BY <1>0, <2>2, <2>3, <2>4, <2>5, <2>6, ProcessStep DEF ProcessStep
<1>3. ASSUME NEW p \in Procs, NEW k \in Kids, Fork(p, k) PROVE EInv'
  <2>1. proc[Leader] # "none"
    BY <1>3 DEF Fork
  <2>2. proc'[Leader] = proc[Leader] /\ code' = code
    BY <1>0, <1>3 DEF Fork
  <2>3. watch = "fired" => \A q \in Procs : proc'[q] # "group"
    BY <1>0, <1>3 DEF Fork
  <2>4. proc' \in [Procs -> {"none", "group", "away", "dead"}] /\ holds' \in SUBSET Procs
    BY <1>0, <1>3 DEF Fork
  <2>5. holds = {} => holds' = {}
    BY <1>3 DEF Fork
  <2> QED
    BY <1>0, <2>1, <2>2, <2>3, <2>4, <2>5, ProcessStep DEF ProcessStep
<1>4. ASSUME NEW k \in Kids, LeaveGroup(k) PROVE EInv'
  BY <1>0, <1>4, ProcessStep DEF LeaveGroup, ProcessStep
<1> QED
  BY <1>1, <1>2, <1>3, <1>4, ProcessStep DEF ProcessStep

LEMMA EWrite ==
  ASSUME EInv, WriteStderr
  PROVE  EInv'
BY ExecutionAssumption
   DEF WriteStderr, EInv, ExecutionTypeOK, NotStarted, Position, KillIsTotal, Captured, BeatInv,
       Decided, OutcomeIsTrue, Over, workerVars, processVars, outputVars, beatVars, resultVars

LEMMA ENext == EInv /\ [ExecutionNext]_execVars => EInv'
<1> SUFFICES ASSUME EInv, [ExecutionNext]_execVars
             PROVE  EInv'
  OBVIOUS
<1>1. CASE ExecutionNext
  BY <1>1, EMain, EDeadline, ECopy, EBeat, EProcess, EWrite DEF ExecutionNext
<1>2. CASE UNCHANGED execVars
  BY <1>2
     DEF execVars, EInv, ExecutionTypeOK, NotStarted, Position, KillIsTotal, Captured, BeatInv,
         Decided, OutcomeIsTrue, Over, workerVars, processVars, outputVars, beatVars, resultVars
<1> QED
  BY <1>1, <1>2

THEOREM EInvariance == ExecutionSpec => []EInv
BY EInit, ENext, PTL DEF ExecutionSpec

\* The types, and with them the bound on the memory an output takes.
THEOREM ExecutionTypes == ExecutionSpec => []ExecutionTypeOK
<1>1. EInv => ExecutionTypeOK
  BY DEF EInv
<1> QED
  BY <1>1, EInvariance, PTL

\* The recorded outcome is the command's own, in every race with the deadline.
THEOREM OutcomesAreTrue == ExecutionSpec => []OutcomeIsTrue
<1>1. EInv => OutcomeIsTrue
  BY DEF EInv, Decided
<1> QED
  BY <1>1, EInvariance, PTL

\* No process of the group survives the deadline that killed it.
THEOREM KillsAreTotal == ExecutionSpec => []KillIsTotal
<1>1. EInv => KillIsTotal
  BY DEF EInv
<1> QED
  BY <1>1, EInvariance, PTL

\* What was captured is what was written, up to the limit.
THEOREM OutputsAreFaithful == ExecutionSpec => []OutputIsFaithful
<1>1. EInv => OutputIsFaithful
  BY DEF EInv, Captured, Position, NotStarted, Over, OutputIsFaithful
<1> QED
  BY <1>1, EInvariance, PTL

\* At most one heartbeat lands on a terminal row.
THEOREM LateBeatIsSingle == ExecutionSpec => []OneLateBeat
<1>1. EInv => OneLateBeat
  BY DEF EInv, BeatInv, OneLateBeat
<1> QED
  BY <1>1, EInvariance, PTL

-----------------------------------------------------------------------------
(* Execution implements a loop of Worker *)

\* A step that leaves the mapped state alone is a stutter of the loop.
LEMMA LoopStutters ==
  ASSUME UNCHANGED <<row, up, faults, outcome>>, proc[Leader] = "none" <=> proc'[Leader] = "none",
         LoopPosition' = LoopPosition
  PROVE  UNCHANGED Loop!allWorkerVars
<1>1. InLoop' = InLoop
  BY DEF InLoop, LoopPosition, Running
<1> QED
  BY <1>1 DEF Loop!allWorkerVars, Loop!workerVars, Loop!loopVars, LoopOutcome

\* The command is started, or it could not be.
LEMMA LoopStarts ==
  ASSUME EInv, StartCommand
  PROVE  Loop!StartCommand(TheLoop)
<1>1. Leader \in Procs /\ proc[Leader] = "none" /\ proc'[Leader] = "group"
  BY DEF EInv, Position, StartCommand, ExecutionTypeOK, Procs
<1>2. LoopPosition = "claimed" /\ LoopPosition' = "exec" /\ InLoop /\ InLoop'
  BY <1>1 DEF StartCommand, LoopPosition, InLoop, Running, workerVars
<1>3. UNCHANGED <<row, up, faults, outcome>>
  BY DEF StartCommand, workerVars, resultVars
<1> QED
  BY <1>1, <1>2, <1>3 DEF Loop!StartCommand, Loop!Go, LoopOutcome

LEMMA LoopDecides ==
  ASSUME EInv, Classify
  PROVE  Loop!CommandNotStarted(TheLoop) \/ Loop!CommandEnds(TheLoop)
<1>1. UNCHANGED <<row, up, faults, proc, runErr, timer>> /\ outcome' = Verdict
  BY DEF Classify, workerVars, processVars
<1>2. InLoop /\ InLoop' /\ LoopPosition' = "ended"
  BY DEF Classify, LoopPosition, InLoop, Running, workerVars
<1>3. Verdict.st \in {"succeeded", "failed", "timed_out"}
  BY DEF Verdict, Result
<1>4. CASE proc[Leader] = "none"
  <2>1. LoopPosition = "claimed" /\ runErr = "error"
    BY <1>4 DEF EInv, NotStarted, Classify, LoopPosition, Running
  <2>2. Verdict.st \in {"failed", "timed_out"}
    BY <2>1 DEF Verdict, Result
  <2> QED
    BY <1>1, <1>2, <2>1, <2>2 DEF Loop!CommandNotStarted, Loop!Decide, Loop!Go, LoopOutcome
<1>5. CASE proc[Leader] # "none"
  <2>1. LoopPosition = "exec"
    BY <1>5 DEF Classify, LoopPosition, Running
  <2> QED
    BY <1>1, <1>2, <1>3, <2>1
       DEF Loop!CommandEnds, Loop!Outcomes, Loop!Decide, Loop!Go, LoopOutcome
<1> QED
  BY <1>4, <1>5

LEMMA LoopFinalizes ==
  ASSUME EInv, Finalize \/ FinalizeFails
  PROVE  Loop!Finalize(TheLoop) \/ Loop!FinalizeFails(TheLoop)
<1>1. /\ InLoop /\ LoopPosition = "ended" /\ ~InLoop' /\ LoopPosition' = "poll"
      /\ UNCHANGED <<up, proc>>
  BY DEF Finalize, FinalizeFails, LoopPosition, InLoop, Running, workerVars, processVars
<1>2. CASE Finalize
  BY <1>1, <1>2 DEF Finalize, workerVars, Loop!Finalize, Loop!Poll, Loop!Go, LoopOutcome
<1>3. CASE FinalizeFails
  BY <1>1, <1>3
     DEF FinalizeFails, Fault, resultVars, Loop!FinalizeFails, Loop!WorkerFault, Loop!Poll, Loop!Go,
         LoopOutcome
<1> QED
  BY <1>2, <1>3

LEMMA LoopProcess ==
  ASSUME EInv, Shutdown \/ Die
  PROVE  Loop!ShutdownWorker("worker") \/ Loop!CrashWorker("worker")
<1>1. UNCHANGED <<row, outcome, proc, epc>>
  BY DEF Shutdown, Die, resultVars, processVars
<1>2. CASE Shutdown
  <2>1. LoopPosition' = LoopPosition /\ InLoop' = InLoop
    BY <1>1, <1>2 DEF Shutdown, LoopPosition, InLoop, Running
  <2> QED
    BY <1>1, <1>2, <2>1
       DEF Shutdown, Fault, Loop!ShutdownWorker, Loop!WorkerFault, Loop!loopVars, LoopOutcome
<1>3. CASE Die
  <2>1. LoopPosition' = "off" /\ ~InLoop'
    BY <1>3 DEF Die, LoopPosition, InLoop, Running
  <2> QED
    BY <1>1, <1>3, <2>1
       DEF Die, Running, Fault, Loop!CrashWorker, Loop!WorkerFault, Loop!ResetLoops, Loop!Loops,
           TheLoop, LoopOutcome
<1> QED
  BY <1>2, <1>3

LEMMA LoopNext ==
  EInv /\ [ExecutionNext]_execVars => [LoopAction]_(Loop!allWorkerVars)
<1> SUFFICES ASSUME EInv, [ExecutionNext]_execVars
             PROVE  [LoopAction]_(Loop!allWorkerVars)
  OBVIOUS
<1>0. Leader \in Procs /\ \A k \in Kids : k # Leader
  BY ExecutionAssumption DEF ExecutionAssumption, Procs
<1>1. CASE StartCommand \/ Classify \/ Finalize \/ FinalizeFails \/ Shutdown \/ Die
  BY <1>1, LoopStarts, LoopDecides, LoopFinalizes, LoopProcess DEF LoopAction, Loop!LoopStep
<1>2. CASE StartFails \/ Reap \/ Release \/ Drained
  BY <1>2, LoopStutters
     DEF StartFails, Reap, Release, Drained, LoopPosition, Running, workerVars, processVars, resultVars
<1>3. CASE TimerFires \/ Copy \/ CopyEnds \/ Beat \/ BeatReturns \/ BeatLoopEnds \/ WriteStderr
  BY <1>3, LoopStutters
     DEF TimerFires, Copy, CopyEnds, Beat, BeatReturns, BeatLoopEnds, WriteStderr, LoopPosition,
         Running, workerVars, processVars, resultVars
<1>4. CASE Cancel
  <2>1. proc[Leader] = "none" <=> proc'[Leader] = "none"
    BY <1>0, <1>4 DEF Cancel, Killed
  <2> QED
    BY <1>4, <2>1, LoopStutters DEF Cancel, LoopPosition, Running, workerVars, resultVars
<1>5. CASE ProcessStep
  <2>1. proc[Leader] = "none" <=> proc'[Leader] = "none"
    BY <1>0, <1>5
       DEF ProcessStep, CloseStderr, Exit, Fork, LeaveGroup, Alive, EInv, ExecutionTypeOK
  <2> QED
    BY <1>5, <2>1, LoopStutters DEF ProcessStep, LoopPosition, Running, workerVars, resultVars
<1>6. CASE UNCHANGED execVars
  BY <1>6, LoopStutters DEF execVars, LoopPosition, Running, workerVars, processVars, resultVars
<1> QED
  BY <1>1, <1>2, <1>3, <1>4, <1>5, <1>6 DEF ExecutionNext, MainStep

\* Everything execute does to the row of its run, and when, is what a loop of
\* Worker does between claiming the run and polling again.
THEOREM ExecutionImplements == ExecutionSpec => ExecutionImplementsLoop
BY LoopNext, EInvariance, PTL DEF ExecutionSpec, ExecutionImplementsLoop

=============================================================================
