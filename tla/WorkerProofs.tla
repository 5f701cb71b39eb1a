--------------------------- MODULE WorkerProofs ----------------------------
(***************************************************************************)
(* Safety of Worker for any number of workers and loops and any bounds.      *)
(***************************************************************************)
EXTENDS Worker, TLAPS

\* The loops with a run in hand.
Active(l) == lpc[l] \notin {"off", "poll"}

\* A loop knows its run exactly while it is active, and no two loops have the
\* same one: that is what the row lock of ClaimRun and the running status give.
Exclusion ==
  /\ \A l \in Loops : Active(l) <=> lrun[l] # NoRun
  /\ \A l, k \in Loops : l # k /\ Active(l) /\ Active(k) => lrun[l] # lrun[k]

\* What a loop has in hand is in the state its position says.
LoopInHand ==
  \A l \in Loops :
    /\ lpc[l] = "select" => status[lrun[l]] = "queued"
    /\ Holds(l) => status[lrun[l]] = "running" /\ workerId[lrun[l]] = l[1]
    /\ lpc[l] = "claimed" => execs[lrun[l]] = 0
    /\ lpc[l] = "exec" => execs[lrun[l]] = 1
    /\ lpc[l] = "ended" => outcome[l] \in Outcomes
    /\ lpc[l] = "ended" /\ outcome[l] = "succeeded" => execs[lrun[l]] = 1

WInv == WorkerTypeOK /\ Exclusion /\ LoopInHand /\ AtMostOnce /\ OutcomesAreEarned

LEMMA WInit == WorkersAloneInit => WInv
BY NoRunAssumption, WorkerAssumption
   DEF WorkersAloneInit, WorkerInit, NoRows, WInv, WorkerTypeOK, Exclusion, LoopInHand, AtMostOnce, OutcomesAreEarned,
       Active, Holds, Outcomes, Statuses

\* A loop is the pair of its worker and its slot.
LEMMA LoopIsPair ==
  ASSUME NEW l \in Loops
  PROVE  l[1] \in Workers
BY DEF Loops

LEMMA WSelect ==
  ASSUME WInv, NEW l \in Loops, SelectRun(l) \/ CommitClaim(l) \/ AbortClaim(l) \/ LoseClaim(l)
  PROVE  WInv'
<1> USE NoRunAssumption, WorkerAssumption, LoopIsPair
    DEF WInv, WorkerTypeOK, Exclusion, LoopInHand, AtMostOnce, OutcomesAreEarned, Active, Holds, Go
<1>1. CASE SelectRun(l)
  <2>1. PICK r \in Runs : /\ status[r] = "queued" /\ r \notin ClaimLocks
                          /\ lrun' = [lrun EXCEPT ![l] = r]
    BY <1>1 DEF SelectRun, Oldest, RowsWith
  <2>2. \A k \in Loops : Active(k) => lrun[k] # r
    BY <2>1 DEF ClaimLocks
  <2> QED
    BY <1>1, <2>1, <2>2 DEF SelectRun
<1>2. CASE CommitClaim(l)
  <2>1. lrun[l] \in Runs
    BY <1>2 DEF CommitClaim
  <2> QED
    BY <1>2, <2>1 DEF CommitClaim, MarkRunning, Statuses
<1>3. CASE AbortClaim(l)
  BY <1>3 DEF AbortClaim, Poll, LoopCallFails, WorkerFault
<1>4. CASE LoseClaim(l)
  <2>1. lrun[l] \in Runs
    BY <1>4 DEF LoseClaim
  <2> QED
    BY <1>4, <2>1 DEF LoseClaim, MarkRunning, Poll, LoopCallFails, WorkerFault, Statuses
<1> QED
  BY <1>1, <1>2, <1>3, <1>4

LEMMA WExecute ==
  ASSUME WInv, NEW l \in Loops,
         \/ StartCommand(l) \/ CommandNotStarted(l) \/ FetchJobFails(l) \/ CommandEnds(l)
         \/ Finalize(l) \/ FinalizeFails(l) \/ LeaveLoop(l)
  PROVE  WInv'
<1> USE NoRunAssumption, WorkerAssumption
    DEF WInv, WorkerTypeOK, Exclusion, LoopInHand, AtMostOnce, OutcomesAreEarned, Active, Holds, Go,
        Outcomes
<1>0. Holds(l) => lrun[l] \in Runs
  OBVIOUS
<1>1. CASE StartCommand(l)
  <2>1. lrun[l] \in Runs /\ execs[lrun[l]] = 0 /\ status[lrun[l]] = "running"
    BY <1>1 DEF StartCommand
  <2>2. execs' = [execs EXCEPT ![lrun[l]] = 1]
    BY <1>1, <2>1 DEF StartCommand
  <2> QED
    BY <1>1, <2>1, <2>2 DEF StartCommand
<1>2. CASE CommandNotStarted(l)
  BY <1>2 DEF CommandNotStarted, Decide
<1>3. CASE FetchJobFails(l)
  BY <1>3 DEF FetchJobFails, Decide, LoopCallFails, WorkerFault
<1>4. CASE CommandEnds(l)
  BY <1>4 DEF CommandEnds, Decide
<1>5. CASE Finalize(l)
  <2>1. lrun[l] \in Runs /\ outcome[l] \in Outcomes /\ outcome[l] \in Statuses
    BY <1>5 DEF Finalize, Statuses, Terminal
  <2> QED
    BY <1>5, <2>1 DEF Finalize, Poll
<1>6. CASE FinalizeFails(l)
  BY <1>6 DEF FinalizeFails, Poll, WorkerFault
<1>7. CASE LeaveLoop(l)
  BY <1>7 DEF LeaveLoop
<1> QED
  BY <1>1, <1>2, <1>3, <1>4, <1>5, <1>6, <1>7

LEMMA WProcess ==
  ASSUME WInv, NEW w \in Workers,
         StartWorker(w) \/ ShutdownWorker(w) \/ ExitWorker(w) \/ CrashWorker(w)
  PROVE  WInv'
<1> USE NoRunAssumption, WorkerAssumption
    DEF WInv, WorkerTypeOK, Exclusion, LoopInHand, AtMostOnce, OutcomesAreEarned, Active, Holds,
        Outcomes, loopVars
<1>1. CASE StartWorker(w)
  BY <1>1 DEF StartWorker, ResetLoops
<1>2. CASE ShutdownWorker(w)
  BY <1>2 DEF ShutdownWorker, WorkerFault
<1>3. CASE ExitWorker(w)
  BY <1>3 DEF ExitWorker
<1>4. CASE CrashWorker(w)
  BY <1>4 DEF CrashWorker, ResetLoops, WorkerFault
<1> QED
  BY <1>1, <1>2, <1>3, <1>4

\* What the scheduler may do to the rows while a worker looks: it moves rows
\* that are none or waiting, and leaves them unexecuted.
RowsMove ==
  /\ \A r \in Runs : \/ status'[r] = status[r]
                     \/ /\ status[r] \in {"none", "waiting"}
                        /\ status'[r] \in {"waiting", "queued", "skipped"}
  /\ status' \in [Runs -> Statuses]
  /\ UNCHANGED workerVars

LEMMA WRowsMove ==
  ASSUME WInv, RowsMove
  PROVE  WInv'
BY NoRunAssumption
   DEF WInv, WorkerTypeOK, Exclusion, LoopInHand, AtMostOnce, OutcomesAreEarned, Active, Holds,
       RowsMove, workerVars, loopVars

LEMMA WNext ==
  WInv /\ [WorkerNext \/ \E r \in Runs : Enqueue(r)]_allWorkerVars => WInv'
<1> SUFFICES ASSUME WInv, [WorkerNext \/ \E r \in Runs : Enqueue(r)]_allWorkerVars
             PROVE  WInv'
  OBVIOUS
<1>1. CASE WorkerNext
  BY <1>1, WSelect, WExecute, WProcess DEF WorkerNext, LoopStep, LoopFault
<1>2. CASE \E r \in Runs : Enqueue(r)
  <2>1. RowsMove
    BY <1>2 DEF Enqueue, RowsMove, WInv, WorkerTypeOK, Statuses
  <2> QED
    BY <2>1, WRowsMove
<1>3. CASE UNCHANGED allWorkerVars
  <2>1. RowsMove
    BY <1>3 DEF RowsMove, allWorkerVars, WInv, WorkerTypeOK
  <2> QED
    BY <2>1, WRowsMove
<1> QED
  BY <1>1, <1>2, <1>3

THEOREM WInvariance == WorkerSpec => []WInv
BY WInit, WNext, PTL DEF WorkerSpec

\* Every variable of the worker keeps its type.
THEOREM WorkerTypes == WorkerSpec => []WorkerTypeOK
<1>1. WInv => WorkerTypeOK
  BY DEF WInv
<1> QED
  BY <1>1, WInvariance, PTL

\* No command is started twice, whatever workers crash, stop or lose replies.
THEOREM NoDoubleExecution == WorkerSpec => []AtMostOnce
<1>1. WInv => AtMostOnce
  BY DEF WInv
<1> QED
  BY <1>1, WInvariance, PTL

\* A loop owns the run it works on.
THEOREM LoopsExclude == WorkerSpec => []ClaimsExclude
<1>1. WInv => ClaimsExclude
  BY DEF WInv, Exclusion, LoopInHand, ClaimsExclude, Active, Holds
<1> QED
  BY <1>1, WInvariance, PTL

\* Only executed runs succeed, only claimed runs are executed.
THEOREM EarnedOutcomes == WorkerSpec => []OutcomesAreEarned
<1>1. WInv => OutcomesAreEarned
  BY DEF WInv
<1> QED
  BY <1>1, WInvariance, PTL

-----------------------------------------------------------------------------
(* Worker implements RunLedger *)

LEMMA WorkerStepRefines ==
  ASSUME WInv, WorkerNext
  PROVE  [WorkerLedger!Next]_WorkerLedger!vars
<1> USE NoRunAssumption
    DEF WInv, WorkerTypeOK, Exclusion, LoopInHand, Active, Holds, Go, WorkerLedger!vars
<1>1. ASSUME NEW l \in Loops, CommitClaim(l) \/ LoseClaim(l)
      PROVE  [WorkerLedger!Next]_WorkerLedger!vars
  <2>1. lrun[l] \in Runs /\ status[lrun[l]] = "queued"
    BY <1>1 DEF CommitClaim, LoseClaim
  <2>2. WorkerLedger!Claim(lrun[l])
    BY <1>1, <2>1 DEF CommitClaim, LoseClaim, MarkRunning, WorkerLedger!Claim
  <2> QED
    BY <2>1, <2>2 DEF WorkerLedger!Next
<1>2. ASSUME NEW l \in Loops, StartCommand(l)
      PROVE  [WorkerLedger!Next]_WorkerLedger!vars
  <2>1. lrun[l] \in Runs /\ execs[lrun[l]] = 0 /\ status[lrun[l]] = "running"
    BY <1>2 DEF StartCommand
  <2>2. WorkerLedger!Start(lrun[l])
    BY <1>2, <2>1 DEF StartCommand, WorkerLedger!Start
  <2> QED
    BY <2>1, <2>2 DEF WorkerLedger!Next
<1>3. ASSUME NEW l \in Loops, Finalize(l)
      PROVE  [WorkerLedger!Next]_WorkerLedger!vars
  <2>1. lrun[l] \in Runs /\ status[lrun[l]] = "running" /\ outcome[l] \in Outcomes
    BY <1>3 DEF Finalize
  <2>2. WorkerLedger!Finish(lrun[l], outcome[l])
    BY <1>3, <2>1 DEF Finalize, WorkerLedger!Finish
  <2> QED
    BY <2>1, <2>2 DEF WorkerLedger!Next, Outcomes
<1>4. CASE UNCHANGED <<status, execs>>
  BY <1>4
<1> QED
  BY <1>1, <1>2, <1>3, <1>4
     DEF WorkerNext, LoopStep, LoopFault, SelectRun, AbortClaim, CommandNotStarted, FetchJobFails,
         CommandEnds, FinalizeFails, LeaveLoop, StartWorker, ShutdownWorker, ExitWorker,
         CrashWorker

\* Workers only ever claim, start and finish runs the way the ledger allows.
THEOREM WorkerImplements == WorkerSpec => WorkerImplementsLedger
<1>1. WorkersAloneInit => WorkerLedger!Init
  BY DEF WorkersAloneInit, WorkerInit, NoRows, WorkerLedger!Init
<1>2. WInv /\ [WorkerNext \/ \E r \in Runs : Enqueue(r)]_allWorkerVars
        => [WorkerLedger!Next]_WorkerLedger!vars
  <2> SUFFICES ASSUME WInv, [WorkerNext \/ \E r \in Runs : Enqueue(r)]_allWorkerVars
               PROVE  [WorkerLedger!Next]_WorkerLedger!vars
    OBVIOUS
  <2>1. CASE WorkerNext
    BY <2>1, WorkerStepRefines
  <2>2. ASSUME NEW r \in Runs, Enqueue(r) PROVE [WorkerLedger!Next]_WorkerLedger!vars
    <3>1. WorkerLedger!Create(r)
      BY <2>2 DEF Enqueue, WorkerLedger!Create, workerVars
    <3> QED
      BY <3>1 DEF WorkerLedger!Next
  <2>3. CASE UNCHANGED allWorkerVars
    BY <2>3 DEF allWorkerVars, workerVars, WorkerLedger!vars
  <2> QED
    BY <2>1, <2>2, <2>3
<1> QED
  BY <1>1, <1>2, WInvariance, PTL DEF WorkerSpec, WorkerImplementsLedger, WorkerLedger!Spec

-----------------------------------------------------------------------------
(* Without a fault every running row is in hand *)

\* A worker that is down has no loops, and a shutdown is a fault.
RowInHand ==
  /\ \A l \in Loops : up[l[1]] = "down" => lpc[l] = "off"
  /\ workerFaults = 0 => \A w \in Workers : up[w] # "stopping"
  /\ RunningIsHeld

LEMMA HandInit == WorkersAloneInit => RowInHand
BY LoopIsPair DEF WorkersAloneInit, WorkerInit, NoRows, RowInHand, RunningIsHeld, RowsWith

\* A step that leaves the rows running as they are, and lets go of none.
LEMMA HandFrame ==
  ASSUME RowInHand, workerFaults' = 0, workerFaults = 0,
         \A r \in Runs : status'[r] = "running" => status[r] = "running",
         \A l \in Loops : Holds(l) /\ status'[lrun[l]] = "running" => Holds(l)' /\ lrun'[l] = lrun[l]
  PROVE  RunningIsHeld'
<1> SUFFICES ASSUME NEW r \in Runs, status'[r] = "running"
             PROVE  \E l \in Loops : Holds(l)' /\ lrun'[l] = r
  BY DEF RunningIsHeld, RowsWith
<1>1. PICK l \in Loops : Holds(l) /\ lrun[l] = r
  BY DEF RowInHand, RunningIsHeld, RowsWith
<1> QED
  BY <1>1

LEMMA HandLoop ==
  ASSUME WInv, RowInHand, NEW l \in Loops, LoopStep(l) \/ LoopFault(l)
  PROVE  RowInHand'
<1> USE NoRunAssumption, WorkerAssumption, LoopIsPair
<1>0. /\ workerFaults \in Nat /\ lpc \in [Loops -> {"off", "poll", "select", "claimed", "exec", "ended"}]
      /\ lrun \in [Loops -> Runs \cup {NoRun}] /\ status \in [Runs -> Statuses]
      /\ \A k \in Loops : Active(k) <=> lrun[k] # NoRun
      /\ \A k, n \in Loops : k # n /\ Active(k) /\ Active(n) => lrun[k] # lrun[n]
  BY DEF WInv, WorkerTypeOK, Exclusion
<1>1. UNCHANGED up /\ workerFaults' >= workerFaults
  BY <1>0 DEF LoopStep, LoopFault, SelectRun, CommitClaim, StartCommand, CommandNotStarted, CommandEnds,
              Finalize, LeaveLoop, FetchJobFails, AbortClaim, LoseClaim, FinalizeFails, LoopCallFails,
              WorkerFault
<1>2. lpc[l] # "off" /\ \A k \in Loops \ {l} : lpc'[k] = lpc[k] /\ lrun'[k] = lrun[k]
  BY <1>0 DEF LoopStep, LoopFault, SelectRun, CommitClaim, StartCommand, CommandNotStarted, CommandEnds,
              Finalize, LeaveLoop, FetchJobFails, AbortClaim, LoseClaim, FinalizeFails, Go, Poll, Decide
<1>3. \A k \in Loops : up'[k[1]] = "down" => lpc'[k] = "off"
  BY <1>1, <1>2 DEF RowInHand
<1>4. workerFaults' = 0 => workerFaults = 0 /\ \A w \in Workers : up'[w] # "stopping"
  BY <1>0, <1>1 DEF RowInHand
<1>5. ASSUME workerFaults' = 0 PROVE RunningIsHeld'
  <2>1. workerFaults = 0 /\ up[l[1]] # "stopping"
    BY <1>0, <1>1, <1>5 DEF RowInHand
  <2>2. ~LoseClaim(l) /\ ~FetchJobFails(l) /\ ~AbortClaim(l) /\ ~FinalizeFails(l)
    BY <1>0, <1>5, <2>1
       DEF LoseClaim, FetchJobFails, AbortClaim, FinalizeFails, LoopCallFails, WorkerFault
  <2>3. CASE SelectRun(l) \/ LeaveLoop(l)
    <3>1. ~Holds(l) /\ status' = status
      BY <2>3 DEF SelectRun, LeaveLoop, Holds
    <3>2. \A k \in Loops : Holds(k) => Holds(k)' /\ lrun'[k] = lrun[k]
      BY <1>2, <3>1 DEF Holds
    <3> QED
      BY <1>5, <2>1, <3>1, <3>2, HandFrame
  <2>4. CASE StartCommand(l) \/ CommandNotStarted(l) \/ CommandEnds(l)
    <3>1. status' = status /\ lrun' = lrun /\ lpc'[l] \in {"exec", "ended"}
      BY <1>0, <2>4 DEF StartCommand, CommandNotStarted, CommandEnds, Decide, Go
    <3>2. \A k \in Loops : Holds(k) => Holds(k)' /\ lrun'[k] = lrun[k]
      BY <1>2, <3>1 DEF Holds
    <3> QED
      BY <1>5, <2>1, <3>1, <3>2, HandFrame
  <2>5. CASE Finalize(l)
    <3>1. /\ Active(l) /\ lrun[l] \in Runs /\ status' = [status EXCEPT ![lrun[l]] = outcome[l]]
          /\ outcome[l] \in Outcomes
      BY <1>0, <2>5 DEF Finalize, Active, WInv, LoopInHand
    <3>2. status'[lrun[l]] # "running"
      BY <1>0, <3>1 DEF Outcomes
    <3>3. \A r \in Runs : status'[r] = "running" => status[r] = "running"
      BY <1>0, <3>1, <3>2
    <3>4. \A k \in Loops : Holds(k) /\ status'[lrun[k]] = "running" => Holds(k)' /\ lrun'[k] = lrun[k]
      BY <1>2, <3>2 DEF Holds
    <3> QED
      BY <1>5, <2>1, <3>3, <3>4, HandFrame
  <2>6. CASE CommitClaim(l)
    <3>1. /\ lpc[l] = "select" /\ lpc'[l] = "claimed" /\ lrun' = lrun
          /\ status' = [status EXCEPT ![lrun[l]] = "running"]
      BY <1>0, <2>6 DEF CommitClaim, MarkRunning, Go
    <3>2. SUFFICES ASSUME NEW r \in Runs, status'[r] = "running"
                   PROVE  \E k \in Loops : Holds(k)' /\ lrun'[k] = r
      BY DEF RunningIsHeld, RowsWith
    <3>3. CASE r = lrun[l]
      BY <3>1, <3>3 DEF Holds
    <3>4. CASE r # lrun[l]
      <4>1. status[r] = "running"
        BY <1>0, <3>1, <3>2, <3>4
      <4>2. PICK k \in Loops : Holds(k) /\ lrun[k] = r
        BY <2>1, <4>1 DEF RowInHand, RunningIsHeld, RowsWith
      <4> QED
        BY <1>2, <3>1, <3>4, <4>2 DEF Holds
    <3> QED
      BY <3>3, <3>4
  <2> QED
    BY <2>2, <2>3, <2>4, <2>5, <2>6 DEF LoopStep, LoopFault
<1>6. RunningIsHeld'
  BY <1>5 DEF RunningIsHeld
<1> QED
  BY <1>3, <1>4, <1>6 DEF RowInHand

LEMMA HandProcess ==
  ASSUME WInv, RowInHand, NEW w \in Workers,
         StartWorker(w) \/ ShutdownWorker(w) \/ ExitWorker(w) \/ CrashWorker(w)
  PROVE  RowInHand'
<1> USE LoopIsPair
<1>0. /\ workerFaults \in Nat /\ up \in [Workers -> {"down", "up", "stopping"}]
      /\ lpc \in [Loops -> {"off", "poll", "select", "claimed", "exec", "ended"}]
  BY WorkerAssumption DEF WInv, WorkerTypeOK
<1>1. CASE StartWorker(w) \/ ExitWorker(w)
  <2>1. /\ workerFaults' = workerFaults /\ status' = status
        /\ \A v \in Workers : up'[v] = "stopping" => up[v] = "stopping"
    BY <1>0, <1>1 DEF StartWorker, ExitWorker
  <2>2. \A l \in Loops : up'[l[1]] = "down" => lpc'[l] = "off"
    BY <1>0, <1>1 DEF StartWorker, ExitWorker, ResetLoops, LoopsOf, loopVars, RowInHand
  <2>3. \A l \in Loops : Holds(l) => Holds(l)' /\ lrun'[l] = lrun[l]
    BY <1>0, <1>1 DEF StartWorker, ExitWorker, ResetLoops, loopVars, RowInHand, Holds
  <2>4. workerFaults' = 0 => RunningIsHeld'
    BY <2>1, <2>3, HandFrame
  <2> QED
    BY <2>1, <2>2, <2>4 DEF RowInHand, RunningIsHeld
<1>2. CASE ShutdownWorker(w) \/ CrashWorker(w)
  <2>1. workerFaults' # 0
    BY <1>0, <1>2 DEF ShutdownWorker, CrashWorker, WorkerFault
  <2>2. \A l \in Loops : up'[l[1]] = "down" => lpc'[l] = "off"
    BY <1>0, <1>2 DEF ShutdownWorker, CrashWorker, ResetLoops, loopVars, RowInHand
  <2> QED
    BY <2>1, <2>2 DEF RowInHand, RunningIsHeld
<1> QED
  BY <1>1, <1>2

\* A row left running with nobody working on it took a fault.
THEOREM RunningRowsAreHeld == WorkerSpec => []RunningIsHeld
<1>1. WInv /\ RowInHand /\ [WorkerNext \/ \E r \in Runs : Enqueue(r)]_allWorkerVars => RowInHand'
  <2> SUFFICES ASSUME WInv, RowInHand, [WorkerNext \/ \E r \in Runs : Enqueue(r)]_allWorkerVars
               PROVE  RowInHand'
    OBVIOUS
  <2>1. CASE WorkerNext
    BY <2>1, HandLoop, HandProcess DEF WorkerNext
  <2>2. CASE UNCHANGED allWorkerVars \/ \E r \in Runs : Enqueue(r)
    <3>1. /\ UNCHANGED workerVars
          /\ \A r \in Runs : status'[r] = "running" => status[r] = "running"
      BY <2>2 DEF allWorkerVars, workerVars, Enqueue, WInv, WorkerTypeOK
    <3>2. \A l \in Loops : Holds(l) => Holds(l)' /\ lrun'[l] = lrun[l]
      BY <3>1 DEF workerVars, loopVars, Holds
    <3>3. workerFaults' = 0 => RunningIsHeld'
      BY <3>1, <3>2, HandFrame DEF workerVars
    <3> QED
      BY <3>1, <3>3 DEF RowInHand, RunningIsHeld, workerVars, loopVars
  <2> QED
    BY <2>1, <2>2
<1>2. RowInHand => RunningIsHeld
  BY DEF RowInHand
<1> QED
  BY <1>1, <1>2, HandInit, WInvariance, PTL DEF WorkerSpec
=============================================================================
