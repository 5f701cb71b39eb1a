--------------------------- MODULE KronwrkProofs ---------------------------
(***************************************************************************)
(* Safety of the whole: the invariants of Scheduler and of Worker hold       *)
(* together, because each component moves a row only out of states in which  *)
(* the other has no claim on it, and so both refinements carry over.         *)
(***************************************************************************)
EXTENDS Kronwrk, SchedulerProofs, WorkerProofs

\* What the workers may do to the rows while a scheduler looks: they move rows
\* that are queued or running.
WorkersMove ==
  /\ \A r \in Runs : \/ status'[r] = status[r]
                     \/ /\ status[r] \in {"queued", "running"}
                        /\ status'[r] \in {"running"} \cup Outcomes
  /\ status' \in [Runs -> Statuses]
  /\ UNCHANGED schedulerVars

LEMMA WorkerMoves ==
  ASSUME WInv, WInv', WorkerNext, UNCHANGED schedulerVars
  PROVE  WorkersMove
<1> USE DEF WInv, WorkerTypeOK, Exclusion, LoopInHand, Active, Holds, Outcomes, WorkersMove
<1>1. ASSUME NEW l \in Loops, CommitClaim(l) \/ LoseClaim(l)
      PROVE  WorkersMove
  <2>1. lrun[l] \in Runs /\ status[lrun[l]] = "queued"
    BY <1>1, NoRunAssumption DEF CommitClaim, LoseClaim
  <2> QED
    BY <1>1, <2>1 DEF CommitClaim, LoseClaim, MarkRunning
<1>2. ASSUME NEW l \in Loops, Finalize(l)
      PROVE  WorkersMove
  <2>1. lrun[l] \in Runs /\ status[lrun[l]] = "running" /\ outcome[l] \in Outcomes
    BY <1>2, NoRunAssumption DEF Finalize
  <2> QED
    BY <1>2, <2>1 DEF Finalize
<1>3. CASE UNCHANGED status
  BY <1>3
<1> QED
  BY <1>1, <1>2, <1>3
     DEF WorkerNext, LoopStep, LoopFault, SelectRun, AbortClaim, StartCommand, CommandNotStarted,
         FetchJobFails, CommandEnds, FinalizeFails, LeaveLoop, StartWorker, ShutdownWorker,
         ExitWorker, CrashWorker

\* A scheduler's invariant survives what workers do.
LEMMA WorkersKeepIInv ==
  ASSUME IInv, WorkersMove
  PROVE  IInv'
<1> USE DEF IInv, WorkersMove, schedulerVars, tableVars, localVars, enqueueVars, passVars
<1>1. TypeInv'
  BY DEF TypeInv, TypeOK, LocalsMatchPc
<1>2. LockInv'
  <2>1. \A s \in Schedulers : pc[s] \in {"read", "match"} => run[s] \in Runs
    BY NoRunAssumption DEF TypeInv, TypeOK, LocalsMatchPc
  <2> QED
    BY <2>1 DEF LockInv, LocksExclude, HeldNames
<1>3. CronInv'
  <2>1. Quiet
    BY DEF Quiet, InHand
  <2>2. Grows
    <3>1. \A r \in Runs : status[r] # "none" => status'[r] # "none"
      BY DEF Outcomes
    <3>2. now \in Times /\ now' = now /\ since' = since
      BY DEF TypeInv, TypeOK
    <3>3. now <= now
      BY <3>2, MaxTimeAssumption DEF Times
    <3> QED
      BY <3>1, <3>2, <3>3 DEF Grows
  <2> QED
    BY <2>1, <2>2, CronQuiet
<1>4. NoEventBurnt'
  <2> SUFFICES ASSUME NEW i \in DOMAIN events, events[i].by # NoRun
               PROVE  status'[events[i].by] \notin {"none", "waiting", "skipped"}
    BY DEF NoEventBurnt
  <2>1. events[i].by \in Runs
    BY EventType DEF TypeInv
  <2> QED
    BY <2>1 DEF NoEventBurnt, Outcomes
<1> QED
  BY <1>1, <1>2, <1>3, <1>4

\* Schedulers move rows that are not there yet or waiting.
LEMMA SchedulerMoves ==
  ASSUME IInv, IInv', SchedulerNext, UNCHANGED workerVars
  PROVE  RowsMove
<1> USE NoRunAssumption DEF IInv, TypeInv, TypeOK, LocalsMatchPc, RowsMove
<1>1. ASSUME NEW s \in Schedulers, CommitEnqueue(s) PROVE RowsMove
  <2>1. item[s] \in Runs /\ plan[s].status \in {"waiting", "queued"}
    BY <1>1 DEF CommitEnqueue
  <2> QED
    BY <1>1, <2>1 DEF CommitEnqueue, InsertRun
<1>2. ASSUME NEW s \in Schedulers, CommitPromote(s) PROVE RowsMove
  <2>1. run[s] \in Runs /\ status[run[s]] = "waiting"
    BY <1>2 DEF CommitPromote, LockInv, LocksExclude
  <2> QED
    BY <1>2, <2>1 DEF CommitPromote
<1>3. ASSUME NEW s \in Schedulers, Expire(s) PROVE RowsMove
  BY <1>3 DEF Expire, Late
<1>4. CASE UNCHANGED status
  BY <1>4
<1> QED
  BY <1>1, <1>2, <1>3, <1>4
     DEF SchedulerNext, SchedulerStep, SchedulerFault, Command, Start, BeginTick, PlanEnqueue,
         BeginPromote, LockRun, SkipCandidate, ReadNames, LockEvent, Unmet, Exit, Halt,
         AbortEnqueue, AbortPromote, AbortExpire, Stop, Crash, InsertJob, SetEnabled,
         AddJobCondition, RemoveJobCondition, EmitEvent, Tick, vars, schedulerVars

-----------------------------------------------------------------------------
(* The invariant of the composition *)

KInv == IInv /\ WInv

LEMMA KInit == KronwrkInit => KInv
BY IInvInit, WInit DEF KronwrkInit, KInv, Init, WorkersAloneInit

LEMMA KNext == KInv /\ [KronwrkNext]_kronwrkVars => KInv'
<1> SUFFICES ASSUME KInv, [KronwrkNext]_kronwrkVars PROVE KInv'
  OBVIOUS
<1> USE DEF KInv
<1>1. CASE SchedulerNext /\ UNCHANGED workerVars
  <2>1. IInv'
    BY <1>1, IInvNext
  <2> QED
    BY <1>1, <2>1, SchedulerMoves, WRowsMove
<1>2. CASE WorkerNext /\ UNCHANGED schedulerVars
  <2>1. WInv'
    BY <1>2, WNext
  <2> QED
    BY <1>2, <2>1, WorkerMoves, WorkersKeepIInv
<1>3. CASE UNCHANGED kronwrkVars
  <2>1. UNCHANGED vars /\ UNCHANGED allWorkerVars
    BY <1>3 DEF kronwrkVars, vars, allWorkerVars
  <2> QED
    BY <2>1, IInvNext, WNext
<1> QED
  BY <1>1, <1>2, <1>3 DEF KronwrkNext

THEOREM KInvariance == KronwrkSpec => []KInv
BY KInit, KNext, PTL DEF KronwrkSpec

\* README.md "without double-running jobs", for the whole control plane: with
\* any number of schedulers and workers, crashes, failures and restarts, the
\* command of a run is started at most once.
THEOREM NoDoubleRun == KronwrkSpec => []AtMostOnce
<1>1. KInv => AtMostOnce
  BY DEF KInv, WInv
<1> QED
  BY <1>1, KInvariance, PTL

\* A consumed event belongs to a run that a worker gets, whatever workers and
\* schedulers do to its row meanwhile.
THEOREM EventsReachWorkers == KronwrkSpec => []SpentEventsReachWorkers
<1>1. KInv => SpentEventsReachWorkers
  <2> SUFFICES ASSUME KInv, NEW i \in DOMAIN events, events[i].by # NoRun
               PROVE  status[events[i].by] \in {"queued", "running"} \cup Outcomes
    BY DEF SpentEventsReachWorkers
  <2>1. events[i].by \in Runs
    BY EventType DEF KInv, IInv, TypeInv
  <2>2. status[events[i].by] \in Statuses
    BY <2>1 DEF KInv, WInv, WorkerTypeOK
  <2>3. status[events[i].by] \notin {"none", "waiting", "skipped"}
    BY DEF KInv, IInv, NoEventBurnt
  <2> QED
    BY <2>2, <2>3 DEF Statuses, Terminal, Outcomes
<1> QED
  BY <1>1, KInvariance, PTL

\* What the scheduler's theorems say of schedulers alone holds while workers
\* claim and finish the rows: no occurrence is lost, no row is an invention,
\* the row locks exclude and no event is burnt.  "Lost" and "invention" are
\* judged from the present of the client that added the job.
THEOREM SchedulerSafety ==
  KronwrkSpec => [](/\ NoLostOccurrence /\ RunsAreOccurrences /\ LocksExclude
                    /\ NoEventBurnt)
<1>1. KInv => NoLostOccurrence /\ RunsAreOccurrences /\ LocksExclude /\ NoEventBurnt
  BY DEF KInv, IInv, CronInv, LockInv, NoLostOccurrence, Scheduled, Covered
<1> QED
  BY <1>1, KInvariance, PTL

\* What the worker's theorems say of rows that appear queued holds when
\* schedulers insert, promote and expire them: claims exclude each other and
\* outcomes are earned.
THEOREM WorkerSafety == KronwrkSpec => [](ClaimsExclude /\ OutcomesAreEarned)
<1>1. KInv => ClaimsExclude /\ OutcomesAreEarned
  BY DEF KInv, WInv, Exclusion, LoopInHand, ClaimsExclude, Active, Holds
<1> QED
  BY <1>1, KInvariance, PTL

\* A command is started only for an occurrence of its job's schedule that is due
\* by the database's clock and later than what the client that added the job
\* took for the present (queries.go:61), and never for a run that was skipped or is
\* still gated: what Scheduler.tick and waitPlan decide, Worker.loop respects.
ExecutionsAreDue ==
  \A r \in Runs : execs[r] > 0 =>
    /\ since[r[1]] # Null /\ since[r[1]] < r[2]
    /\ r[2] \in Occurs[r[1]] /\ r[2] <= now
    /\ status[r] \in {"running"} \cup Outcomes

\* Neither component shows this alone: the scheduler knows the schedule, the
\* worker the command.
THEOREM OnlyDueRunsExecute == KronwrkSpec => []ExecutionsAreDue
<1>1. KInv => ExecutionsAreDue
  <2> SUFFICES ASSUME KInv, NEW r \in Runs, execs[r] > 0
               PROVE  /\ since[r[1]] # Null /\ since[r[1]] < r[2]
                      /\ r[2] \in Occurs[r[1]] /\ r[2] <= now
                      /\ status[r] \in {"running"} \cup Outcomes
    BY DEF ExecutionsAreDue
  <2>1. status[r] \in Statuses /\ execs[r] \in Nat
    BY DEF KInv, WInv, WorkerTypeOK
  <2>2. status[r] \notin {"none", "waiting", "queued", "skipped"}
    BY <2>1 DEF KInv, WInv, OutcomesAreEarned
  <2>3. RunsAreOccurrences
    BY DEF KInv, IInv, CronInv
  <2> QED
    BY <2>1, <2>2, <2>3 DEF RunsAreOccurrences, Statuses, Terminal, Outcomes
<1> QED
  BY <1>1, KInvariance, PTL

\* A gate opens whole whatever workers do meanwhile to the rows that others
\* have queued.
THEOREM GatesStayWhole == KronwrkSpec => [][MatchesWhole]_kronwrkVars
<1>1. ASSUME KInv, KInv', KronwrkNext PROVE MatchesWhole
  <2>1. CASE WorkerNext /\ UNCHANGED schedulerVars
    <3>1. WorkersMove
      BY <1>1, <2>1, WorkerMoves DEF KInv
    <3>2. UNCHANGED <<pc, run, names, held, events>>
      BY <2>1 DEF schedulerVars, tableVars, localVars, passVars
    <3>3. Spent = {} /\ \A s \in Schedulers : Sought(s)' = Sought(s)
      BY <3>2 DEF Spent, Sought
    <3> QED
      BY <3>1, <3>2, <3>3 DEF WorkersMove, MatchesWhole
  <2> QED
    BY <1>1, <2>1, GateNext DEF KronwrkNext, KInv
<1>2. KInv /\ KInv' /\ [KronwrkNext]_kronwrkVars => [MatchesWhole]_kronwrkVars
  BY <1>1
<1> QED
  BY <1>2, KInvariance, PTL DEF KronwrkSpec

\* A recorded outcome is never written over, though FinalizeRun updates its row
\* by id whatever the status, and ExpireWaitingRuns and promoteRun run beside it.
OutcomesAreFinal ==
  [][\A r \in Runs : status[r] \in Terminal => status'[r] = status[r]]_kronwrkVars

\* Each component moves a row only out of a state in which it has a claim on it.
THEOREM FinalOutcomes == KronwrkSpec => OutcomesAreFinal
<1>1. KInv /\ KInv' /\ [KronwrkNext]_kronwrkVars
        => [\A r \in Runs : status[r] \in Terminal => status'[r] = status[r]]_kronwrkVars
  <2> SUFFICES ASSUME KInv, KInv', KronwrkNext, NEW r \in Runs, status[r] \in Terminal
               PROVE  status'[r] = status[r]
    OBVIOUS
  <2>1. CASE SchedulerNext /\ UNCHANGED workerVars
    <3>1. RowsMove
      BY <2>1, SchedulerMoves DEF KInv
    <3> QED
      BY <3>1 DEF RowsMove, Terminal
  <2>2. CASE WorkerNext /\ UNCHANGED schedulerVars
    <3>1. WorkersMove
      BY <2>2, WorkerMoves DEF KInv
    <3> QED
      BY <3>1 DEF WorkersMove, Terminal
  <2> QED
    BY <2>1, <2>2 DEF KronwrkNext
<1> QED
  BY <1>1, KInvariance, PTL DEF KronwrkSpec, OutcomesAreFinal

\* What a scheduler does to the rows puts no run in a worker's hands and takes
\* none out of them.
LEMMA HandKept ==
  ASSUME RowInHand, UNCHANGED workerVars,
         \A r \in Runs : status'[r] = "running" => status[r] = "running"
  PROVE  RowInHand'
<1>1. \A l \in Loops : Holds(l) => Holds(l)' /\ lrun'[l] = lrun[l]
  BY DEF workerVars, loopVars, Holds
<1>2. workerFaults' = 0 => RunningIsHeld'
  BY <1>1, HandFrame DEF workerVars
<1> QED
  BY <1>2 DEF RowInHand, RunningIsHeld, workerVars, loopVars

\* A row left running with nobody working on it took a fault of a worker: no
\* fault of a scheduler orphans a run.
THEOREM OrphansTakeWorkerFaults == KronwrkSpec => []RunningIsHeld
<1>1. KronwrkInit => RowInHand
  BY HandInit DEF KronwrkInit, Init, WorkersAloneInit
<1>2. KInv /\ RowInHand /\ [KronwrkNext]_kronwrkVars => RowInHand'
  <2> SUFFICES ASSUME KInv, RowInHand, [KronwrkNext]_kronwrkVars PROVE RowInHand'
    OBVIOUS
  <2>1. CASE SchedulerNext /\ UNCHANGED workerVars
    <3>1. RowsMove
      BY <2>1, IInvNext, SchedulerMoves DEF KInv
    <3>2. \A r \in Runs : status'[r] = "running" => status[r] = "running"
      BY <3>1 DEF RowsMove
    <3> QED
      BY <2>1, <3>2, HandKept
  <2>2. CASE WorkerNext /\ UNCHANGED schedulerVars
    BY <2>2, HandLoop, HandProcess DEF KInv, WorkerNext
  <2>3. CASE UNCHANGED kronwrkVars
    BY <2>3, HandKept DEF kronwrkVars
  <2> QED
    BY <2>1, <2>2, <2>3 DEF KronwrkNext
<1>3. RowInHand => RunningIsHeld
  BY DEF RowInHand
<1> QED
  BY <1>1, <1>2, <1>3, KInvariance, PTL DEF KronwrkSpec

-----------------------------------------------------------------------------
(* Kronwrk implements RunLedger *)

\* A step a scheduler takes on its ledger is one on the shared ledger.
LEMMA SchedulerLedgerCarries ==
  ASSUME [Ledger!Next]_Ledger!vars, UNCHANGED execs
  PROVE  [KronwrkLedger!Next]_KronwrkLedger!vars
<1> USE DEF KronwrkLedger!vars, KronwrkLedger!Next
<1>1. ASSUME NEW r \in Runs, Ledger!Create(r) \/ Ledger!Claim(r) \/ Ledger!Start(r)
      PROVE  KronwrkLedger!Next
  BY <1>1 DEF Ledger!Create, Ledger!Claim, Ledger!Start,
              KronwrkLedger!Create, KronwrkLedger!Claim
<1>2. ASSUME NEW r \in Runs, NEW taken \in SUBSET DOMAIN events, Ledger!Promote(r, taken)
      PROVE  KronwrkLedger!Next
  BY <1>2 DEF Ledger!Promote, KronwrkLedger!Promote
<1>3. ASSUME NEW late \in SUBSET Runs, Ledger!Expire(late)
      PROVE  KronwrkLedger!Next
  BY <1>3 DEF Ledger!Expire, KronwrkLedger!Expire
<1>4. ASSUME NEW r \in Runs, NEW st \in {"succeeded", "failed", "timed_out"},
             Ledger!Finish(r, st)
      PROVE  KronwrkLedger!Next
  <2>1. [q \in Runs |-> 0][r] # 1
    OBVIOUS
  <2>2. st # "succeeded"
    BY <1>4, <2>1 DEF Ledger!Finish
  <2>3. KronwrkLedger!Finish(r, st)
    BY <1>4, <2>2 DEF Ledger!Finish, KronwrkLedger!Finish
  <2> QED
    BY <2>3
<1>5. ASSUME NEW n \in Names, Ledger!Emit(n)
      PROVE  KronwrkLedger!Next
  BY <1>5 DEF Ledger!Emit, KronwrkLedger!Emit
<1> QED
  BY <1>1, <1>2, <1>3, <1>4, <1>5 DEF Ledger!Next, Ledger!vars

\* So is one a worker takes on its own, in which there are no events.
LEMMA WorkerLedgerCarries ==
  ASSUME [WorkerLedger!Next]_WorkerLedger!vars, UNCHANGED events, events \in Seq(Events)
  PROVE  [KronwrkLedger!Next]_KronwrkLedger!vars
<1> USE DEF KronwrkLedger!vars, KronwrkLedger!Next
<1>1. ASSUME NEW r \in Runs, \/ WorkerLedger!Create(r) \/ WorkerLedger!Claim(r)
                             \/ WorkerLedger!Start(r)
      PROVE  KronwrkLedger!Next
  BY <1>1 DEF WorkerLedger!Create, WorkerLedger!Claim, WorkerLedger!Start,
              KronwrkLedger!Create, KronwrkLedger!Claim, KronwrkLedger!Start
<1>2. ASSUME NEW r \in Runs, NEW taken \in SUBSET DOMAIN <<>>, WorkerLedger!Promote(r, taken)
      PROVE  KronwrkLedger!Next
  <2>1. events = [i \in DOMAIN events |-> events[i]]
    OBVIOUS
  <2>2. KronwrkLedger!Promote(r, {})
    BY <1>2, <2>1 DEF WorkerLedger!Promote, KronwrkLedger!Promote
  <2> QED
    BY <2>2
<1>3. ASSUME NEW late \in SUBSET Runs, WorkerLedger!Expire(late)
      PROVE  KronwrkLedger!Next
  BY <1>3 DEF WorkerLedger!Expire, KronwrkLedger!Expire
<1>4. ASSUME NEW r \in Runs, NEW st \in {"succeeded", "failed", "timed_out"},
             WorkerLedger!Finish(r, st)
      PROVE  KronwrkLedger!Next
  BY <1>4 DEF WorkerLedger!Finish, KronwrkLedger!Finish
<1> QED
  BY <1>1, <1>2, <1>3, <1>4 DEF WorkerLedger!Next, WorkerLedger!vars

LEMMA KLedgerNext ==
  KInv /\ [KronwrkNext]_kronwrkVars => [KronwrkLedger!Next]_KronwrkLedger!vars
<1> SUFFICES ASSUME KInv, [KronwrkNext]_kronwrkVars
             PROVE  [KronwrkLedger!Next]_KronwrkLedger!vars
  OBVIOUS
<1>1. CASE SchedulerNext /\ UNCHANGED workerVars
  BY <1>1, LedgerNext, SchedulerLedgerCarries DEF KInv, workerVars
<1>2. CASE WorkerNext /\ UNCHANGED schedulerVars
  BY <1>2, WorkerStepRefines, WorkerLedgerCarries
     DEF KInv, IInv, TypeInv, TypeOK, schedulerVars, tableVars
<1>3. CASE UNCHANGED kronwrkVars
  BY <1>3 DEF kronwrkVars, schedulerVars, tableVars, workerVars, KronwrkLedger!vars
<1> QED
  BY <1>1, <1>2, <1>3 DEF KronwrkNext

\* Everything schedulers, workers and commands do to the shared tables is a
\* behaviour of the abstract ledger.
THEOREM KronwrkImplements == KronwrkSpec => KronwrkImplementsLedger
<1>1. KronwrkInit => KronwrkLedger!Init
  BY DEF KronwrkInit, Init, SchedulerInit, WorkerInit, NoRows, KronwrkLedger!Init
<1> QED
  BY <1>1, KLedgerNext, KInvariance, PTL
     DEF KronwrkSpec, KronwrkImplementsLedger, KronwrkLedger!Spec
=============================================================================
