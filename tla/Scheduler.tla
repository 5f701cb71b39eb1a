----------------------------- MODULE Scheduler -----------------------------
(***************************************************************************)
(* The scheduler daemon (internal/scheduler) over the store operations it   *)
(* calls (internal/db/queries.go, internal/db/conditions.go), the CLI       *)
(* commands that change the same tables (jobs, job_conditions, events), and *)
(* the clock.  Every database statement or transaction commit is a step, so *)
(* several schedulers, the CLI and the clock interleave between any two of  *)
(* them.  A row lock is held from the statement that takes it to the end of *)
(* its transaction and is a function of the local state: scheduler s locks  *)
(* the row run[s] of job_runs and the rows held[s] of events.               *)
(***************************************************************************)
EXTENDS JobRuns

CONSTANTS
  Schedulers,   \* scheduler processes
  Names,        \* event names
  Waits,        \* wait_seconds values a condition may have; 0 waits forever
  Occurs,       \* Occurs[j]: the times the cron expression of job j matches
  MaxSkew,      \* bound: the distance between a client's reading of its clock and
                \* the database's clock when the INSERT for it is executed
  MaxEvents,    \* bound: rows of the events table
  MaxFaults     \* bound: process crashes, shutdowns and failed database calls

ASSUME SchedulerAssumption ==
  /\ Waits \subseteq Nat
  /\ Occurs \in [Jobs -> SUBSET (Nat \ {0})]
  /\ MaxSkew \in Nat
  /\ MaxEvents \in Nat
  /\ MaxFaults \in Nat

VARIABLES
  now,          \* the database clock
  since,        \* the reading of the client's clock that InsertJob computed the
                \* first next_run_at from; Null while the job does not exist
  enabled,      \* jobs.enabled
  nextRun,      \* jobs.next_run_at
  conds,        \* job_conditions: conds[j][n] is wait_seconds, Null if no row
  events,       \* the events table in id order: [name, by]
  deadline,     \* job_runs.wait_deadline
  pc,           \* where the scheduler's tick is; "down" if it does not run
  stopping,     \* the scheduler's context is cancelled
  due,          \* jobs of DueJobs not yet handled, as <<job, scheduledFor>>
  item,         \* the occurrence EnqueueRun is inserting
  plan,         \* the status and deadline waitPlan chose for it
  cands,        \* candidates of PromoteWaitingRuns not yet tried
  run,          \* the run promoteRun has locked
  names,        \* condition names promoteRun has still to match
  held,         \* events promoteRun has locked
  faults        \* crashes, shutdowns and failures so far (bound)

tableVars == <<since, enabled, nextRun, conds, events, deadline>>
passVars == <<cands, run, names, held>>
enqueueVars == <<due, item, plan>>
localVars == <<pc, stopping, enqueueVars, passVars>>
schedulerVars == <<now, tableVars, localVars, faults>>
vars == <<status, schedulerVars>>

-----------------------------------------------------------------------------
(* Operators *)

\* Mutant of NextRun: an occurrence at t itself counts.
NextRunFromT(j, t) ==
  LET later == {u \in Occurs[j] : u >= t}
  IN  IF later = {} THEN ZeroTime
      ELSE CHOOSE u \in later : \A v \in later : u <= v

\* robfig/cron's Next as schedule.NextRun returns it: the first occurrence
\* strictly after t, and the zero time, without an error, when there is none.
NextRun(j, t) ==
  LET later == {u \in Occurs[j] : u > t}
  IN  IF later = {} THEN ZeroTime
      ELSE CHOOSE u \in later : \A v \in later : u <= v

NoPlan == [status |-> "none", deadline |-> Null]

\* The rows of job_conditions for j.
Conditions(j) == {n \in Names : conds[j][n] # Null}
WaitsOf(j) == {conds[j][n] : n \in Conditions(j)}

\* Mutant of WaitPlan: the longest window decides, whether or not one is 0.
WaitPlanLongest(t, ws) ==
  IF ws = {} THEN [status |-> "queued", deadline |-> Null]
  ELSE IF ws = {0} THEN [status |-> "waiting", deadline |-> Null]
  ELSE [status |-> "waiting",
        deadline |-> t + (CHOOSE w \in ws : \A v \in ws : v <= w)]

\* waitPlan: queued if nothing gates the job; else waiting, for ever if one of
\* the windows is 0, and otherwise until the longest is over.
WaitPlan(t, ws) ==
  IF ws = {} THEN [status |-> "queued", deadline |-> Null]
  ELSE IF 0 \in ws THEN [status |-> "waiting", deadline |-> Null]
  ELSE [status |-> "waiting",
        deadline |-> t + (CHOOSE w \in ws : \A v \in ws : v <= w)]

\* Mutant of DueJobs: a job is due one unit too early.
DueJobsEarly ==
  {<<j, nextRun[j]>> : j \in {k \in Jobs : /\ since[k] # Null
                                           /\ enabled[k]
                                           /\ nextRun[k] # Null
                                           /\ nextRun[k] <= now + 1}}

DueJobs ==
  {<<j, nextRun[j]>> : j \in {k \in Jobs : /\ since[k] # Null
                                           /\ enabled[k]
                                           /\ nextRun[k] # Null
                                           /\ nextRun[k] <= now}}

\* Rows that another scheduler's transaction holds.
LockedRuns(s) == {run[p] : p \in Schedulers \ {s}} \ {NoRun}
LockedEvents(s) == UNION {held[p] : p \in Schedulers \ {s}}

\* SELECT ... WHERE id = r AND status = 'waiting' FOR UPDATE SKIP LOCKED
Lockable(s, r) == status[r] = "waiting" /\ r \notin LockedRuns(s)

Unconsumed(n) == {i \in DOMAIN events : events[i].name = n /\ events[i].by = NoRun}

\* The events of name n that FOR UPDATE SKIP LOCKED lets s take.
Takeable(s, n) == Unconsumed(n) \ LockedEvents(s)

\* Mutant of Late: runs of disabled jobs are passed over.
LateEnabled(r) ==
  status[r] = "waiting" /\ deadline[r] # Null /\ deadline[r] <= now /\ enabled[r[1]]

\* WHERE status = 'waiting' AND wait_deadline <= now()
Late(r) == status[r] = "waiting" /\ deadline[r] # Null /\ deadline[r] <= now

Goto(s, label) == pc' = [pc EXCEPT ![s] = label]

\* A database call of s may fail: its context is cancelled, or the bounded
\* budget of faults allows it.
CallFails(s) ==
  \/ stopping[s] /\ UNCHANGED faults
  \/ ~stopping[s] /\ faults < MaxFaults /\ faults' = faults + 1

\* The end of promoteRun's transaction: the row locks go.
EndPromote(s) ==
  /\ run' = [run EXCEPT ![s] = NoRun]
  /\ names' = [names EXCEPT ![s] = {}]
  /\ held' = [held EXCEPT ![s] = {}]

-----------------------------------------------------------------------------
(* The scheduler's tick *)

\* Run: a process begins to tick.
Start(s) ==
  /\ pc[s] = "down"
  /\ Goto(s, "idle")
  /\ UNCHANGED <<status, now, tableVars, stopping, enqueueVars, passVars, faults>>

\* tick: DueJobs is a snapshot of the due jobs and their next_run_at.
BeginTick(s) ==
  /\ pc[s] = "idle" /\ ~stopping[s]
  /\ due' = [due EXCEPT ![s] = DueJobs]
  /\ Goto(s, "enqueue")
  /\ UNCHANGED <<status, now, tableVars, stopping, item, plan, passVars, faults>>

\* EnqueueRun: begin, read the job's conditions and decide the plan.
PlanEnqueue(s) ==
  /\ pc[s] = "enqueue" /\ ~stopping[s]
  /\ \E d \in due[s] :
       /\ due' = [due EXCEPT ![s] = @ \ {d}]
       /\ item' = [item EXCEPT ![s] = d]
       /\ plan' = [plan EXCEPT ![s] = WaitPlan(d[2], WaitsOf(d[1]))]
  /\ Goto(s, "commit")
  /\ UNCHANGED <<status, now, tableVars, stopping, passVars, faults>>

\* Mutant of InsertRun: ON CONFLICT DO UPDATE.
InsertRunUpsert(r, p) ==
  /\ status' = [status EXCEPT ![r] = p.status]
  /\ deadline' = [deadline EXCEPT ![r] = p.deadline]

\* INSERT ... ON CONFLICT (job_id, scheduled_for) DO NOTHING
InsertRun(r, p) ==
  IF status[r] = "none"
  THEN /\ status' = [status EXCEPT ![r] = p.status]
       /\ deadline' = [deadline EXCEPT ![r] = p.deadline]
  ELSE UNCHANGED <<status, deadline>>

\* Mutant of AdvanceJob: the next run is computed from the clock.
AdvanceJobFromNow(r) == nextRun' = [nextRun EXCEPT ![r[1]] = NextRun(r[1], now)]

\* UPDATE jobs SET next_run_at: the occurrence after the one in r
AdvanceJob(r) == nextRun' = [nextRun EXCEPT ![r[1]] = NextRun(r[1], r[2])]

EndEnqueue(s) ==
  /\ item' = [item EXCEPT ![s] = NoRun]
  /\ plan' = [plan EXCEPT ![s] = NoPlan]
  /\ Goto(s, "enqueue")

\* EnqueueRun: insert the run and advance the job in one commit.
CommitEnqueue(s) ==
  /\ pc[s] = "commit"
  /\ InsertRun(item[s], plan[s])
  /\ AdvanceJob(item[s])
  /\ EndEnqueue(s)
  /\ UNCHANGED <<now, since, enabled, conds, events, stopping, due, passVars, faults>>

\* EnqueueRun fails before its commit: the error is logged, the loop goes on.
AbortEnqueue(s) ==
  /\ \/ /\ pc[s] = "commit"
        /\ due' = due
     \/ /\ pc[s] = "enqueue"
        /\ \E d \in due[s] : due' = [due EXCEPT ![s] = @ \ {d}]
  /\ CallFails(s)
  /\ EndEnqueue(s)
  /\ UNCHANGED <<status, now, tableVars, stopping, passVars>>

\* Mutants of BeginPromote: runs past their deadline are not candidates; only
\* runs of enabled jobs are.
BeginPromoteFresh(s) ==
  /\ pc[s] = "enqueue" /\ due[s] = {} /\ ~stopping[s]
  /\ cands' = [cands EXCEPT ![s] = {r \in RowsWith("waiting") : ~Late(r)}]
  /\ Goto(s, "promote")
  /\ UNCHANGED <<status, now, tableVars, stopping, enqueueVars, run, names, held, faults>>

BeginPromoteEnabled(s) ==
  /\ pc[s] = "enqueue" /\ due[s] = {} /\ ~stopping[s]
  /\ cands' = [cands EXCEPT ![s] = {r \in RowsWith("waiting") : enabled[r[1]]}]
  /\ Goto(s, "promote")
  /\ UNCHANGED <<status, now, tableVars, stopping, enqueueVars, run, names, held, faults>>

\* PromoteWaitingRuns: snapshot the waiting runs.
BeginPromote(s) ==
  /\ pc[s] = "enqueue" /\ due[s] = {} /\ ~stopping[s]
  /\ cands' = [cands EXCEPT ![s] = RowsWith("waiting")]
  /\ Goto(s, "promote")
  /\ UNCHANGED <<status, now, tableVars, stopping, enqueueVars, run, names, held, faults>>

\* promoteRun: begin and lock the next candidate ...
LockRun(s) ==
  /\ pc[s] = "promote" /\ ~stopping[s]
  /\ \E r \in Oldest(cands[s]) :
       /\ Lockable(s, r)
       /\ run' = [run EXCEPT ![s] = r]
       /\ cands' = [cands EXCEPT ![s] = @ \ {r}]
  /\ Goto(s, "read")
  /\ UNCHANGED <<status, now, tableVars, stopping, enqueueVars, names, held, faults>>

\* ... or pass it over, when it is no longer waiting or another scheduler has it.
SkipCandidate(s) ==
  /\ pc[s] = "promote" /\ ~stopping[s]
  /\ \E r \in Oldest(cands[s]) :
       /\ ~Lockable(s, r)
       /\ cands' = [cands EXCEPT ![s] = @ \ {r}]
  /\ UNCHANGED <<status, now, tableVars, pc, stopping, enqueueVars, run, names, held, faults>>

\* promoteRun: read the condition names of the job.
ReadNames(s) ==
  /\ pc[s] = "read" /\ ~stopping[s]
  /\ names' = [names EXCEPT ![s] = Conditions(run[s][1])]
  /\ Goto(s, "match")
  /\ UNCHANGED <<status, now, tableVars, stopping, enqueueVars, cands, run, held, faults>>

\* Mutants of LockEvent: the newest event is taken; the event is consumed at
\* once, outside the transaction.
LockEventNewest(s) ==
  /\ pc[s] = "match" /\ ~stopping[s]
  /\ \E n \in names[s] : \E i \in Takeable(s, n) :
       /\ \A k \in Takeable(s, n) : k <= i
       /\ held' = [held EXCEPT ![s] = @ \cup {i}]
       /\ names' = [names EXCEPT ![s] = @ \ {n}]
  /\ UNCHANGED <<status, now, tableVars, pc, stopping, enqueueVars, cands, run, faults>>

LockEventConsuming(s) ==
  /\ pc[s] = "match" /\ ~stopping[s]
  /\ \E n \in names[s] : \E i \in Takeable(s, n) :
       /\ \A k \in Takeable(s, n) : i <= k
       /\ events' = [events EXCEPT ![i].by = run[s]]
       /\ names' = [names EXCEPT ![s] = @ \ {n}]
  /\ UNCHANGED <<status, now, since, enabled, nextRun, conds, deadline, pc, stopping,
                 enqueueVars, cands, run, held, faults>>

\* promoteRun: lock the oldest event one of the names may take.
LockEvent(s) ==
  /\ pc[s] = "match" /\ ~stopping[s]
  /\ \E n \in names[s] : \E i \in Takeable(s, n) :
       /\ \A k \in Takeable(s, n) : i <= k
       /\ held' = [held EXCEPT ![s] = @ \cup {i}]
       /\ names' = [names EXCEPT ![s] = @ \ {n}]
  /\ UNCHANGED <<status, now, tableVars, pc, stopping, enqueueVars, cands, run, faults>>

\* promoteRun: a condition has no event to take; roll back.
Unmet(s) ==
  /\ pc[s] = "match" /\ ~stopping[s]
  /\ \E n \in names[s] : Takeable(s, n) = {}
  /\ EndPromote(s)
  /\ Goto(s, "promote")
  /\ UNCHANGED <<status, now, tableVars, stopping, enqueueVars, cands, faults>>

\* promoteRun: consume the events and queue the run in one commit.
CommitPromote(s) ==
  /\ pc[s] = "match" /\ names[s] = {}
  /\ status' = [status EXCEPT ![run[s]] = "queued"]
  /\ events' = [i \in DOMAIN events |->
                  IF i \in held[s] THEN [events[i] EXCEPT !.by = run[s]] ELSE events[i]]
  /\ EndPromote(s)
  /\ Goto(s, "promote")
  /\ UNCHANGED <<now, since, enabled, nextRun, conds, deadline, stopping, enqueueVars,
                 cands, faults>>

\* PromoteWaitingRuns fails, at its snapshot or inside promoteRun: the
\* transaction rolls back and the candidates that are left are abandoned.
AbortPromote(s) ==
  /\ \/ pc[s] = "enqueue" /\ due[s] = {}
     \/ pc[s] = "promote" /\ cands[s] # {}
     \/ pc[s] \in {"read", "match"}
  /\ CallFails(s)
  /\ EndPromote(s)
  /\ cands' = [cands EXCEPT ![s] = {}]
  /\ Goto(s, "promote")
  /\ UNCHANGED <<status, now, tableVars, stopping, enqueueVars>>

\* ExpireWaitingRuns: one UPDATE, which waits for rows others have locked.
\* The pass is over, whether it succeeded or failed.
Expire(s) ==
  /\ pc[s] = "promote" /\ cands[s] = {}
  /\ \A r \in LockedRuns(s) : ~Late(r)
  /\ status' = [r \in Runs |-> IF Late(r) THEN "skipped" ELSE status[r]]
  /\ Goto(s, "idle")
  /\ UNCHANGED <<now, tableVars, stopping, enqueueVars, passVars, faults>>

AbortExpire(s) ==
  /\ pc[s] = "promote" /\ cands[s] = {}
  /\ CallFails(s)
  /\ Goto(s, "idle")
  /\ UNCHANGED <<status, now, tableVars, stopping, enqueueVars, passVars>>

\* SIGTERM cancels the context; the loop leaves at the end of the tick.
Stop(s) ==
  /\ pc[s] # "down" /\ ~stopping[s]
  /\ faults < MaxFaults
  /\ stopping' = [stopping EXCEPT ![s] = TRUE]
  /\ faults' = faults + 1
  /\ UNCHANGED <<status, now, tableVars, pc, enqueueVars, passVars>>

\* The process is gone and its open transaction with it.
Halt(s) ==
  /\ Goto(s, "down")
  /\ stopping' = [stopping EXCEPT ![s] = FALSE]
  /\ due' = [due EXCEPT ![s] = {}]
  /\ item' = [item EXCEPT ![s] = NoRun]
  /\ plan' = [plan EXCEPT ![s] = NoPlan]
  /\ cands' = [cands EXCEPT ![s] = {}]
  /\ EndPromote(s)
  /\ UNCHANGED <<status, now, tableVars>>

Exit(s) ==
  /\ pc[s] = "idle" /\ stopping[s]
  /\ Halt(s)
  /\ UNCHANGED faults

Crash(s) ==
  /\ pc[s] # "down"
  /\ faults < MaxFaults
  /\ faults' = faults + 1
  /\ Halt(s)

-----------------------------------------------------------------------------
(* The commands of the CLI, and the clock *)

\* What a client's clock may have said when it asked for a statement: it is
\* fast or slow, and the statement is executed later than the clock is read.
ClientReadings == {t \in Times : t <= now + MaxSkew /\ now <= t + MaxSkew}

\* Store.InsertJob: the first run is computed from the client's clock.
InsertJob(j) ==
  /\ since[j] = Null
  /\ \E t \in ClientReadings :
       /\ since' = [since EXCEPT ![j] = t]
       /\ nextRun' = [nextRun EXCEPT ![j] = NextRun(j, t)]
  /\ enabled' = [enabled EXCEPT ![j] = TRUE]
  /\ UNCHANGED <<status, now, conds, events, deadline, localVars, faults>>

\* Store.EnableJob, Store.DisableJob
SetEnabled(j, b) ==
  /\ since[j] # Null
  /\ enabled' = [enabled EXCEPT ![j] = b]
  /\ UNCHANGED <<status, now, since, nextRun, conds, events, deadline, localVars, faults>>

\* Store.AddJobCondition
AddJobCondition(j, n, w) ==
  /\ since[j] # Null /\ conds[j][n] = Null
  /\ conds' = [conds EXCEPT ![j][n] = w]
  /\ UNCHANGED <<status, now, since, enabled, nextRun, events, deadline, localVars, faults>>

\* Store.RemoveJobCondition
RemoveJobCondition(j, n) ==
  /\ conds[j][n] # Null
  /\ conds' = [conds EXCEPT ![j][n] = Null]
  /\ UNCHANGED <<status, now, since, enabled, nextRun, events, deadline, localVars, faults>>

\* Store.EmitEvent
EmitEvent(n) ==
  /\ Len(events) < MaxEvents
  /\ events' = Append(events, [name |-> n, by |-> NoRun])
  /\ UNCHANGED <<status, now, since, enabled, nextRun, conds, deadline, localVars, faults>>

Tick ==
  /\ now < MaxTime
  /\ now' = now + 1
  /\ UNCHANGED <<status, tableVars, localVars, faults>>

-----------------------------------------------------------------------------
(* The specification *)

SchedulerInit ==
  /\ now = 0
  /\ since = [j \in Jobs |-> Null]
  /\ enabled = [j \in Jobs |-> FALSE]
  /\ nextRun = [j \in Jobs |-> Null]
  /\ conds = [j \in Jobs |-> [n \in Names |-> Null]]
  /\ events = <<>>
  /\ deadline = [r \in Runs |-> Null]
  /\ pc = [s \in Schedulers |-> "down"]
  /\ stopping = [s \in Schedulers |-> FALSE]
  /\ due = [s \in Schedulers |-> {}]
  /\ item = [s \in Schedulers |-> NoRun]
  /\ plan = [s \in Schedulers |-> NoPlan]
  /\ cands = [s \in Schedulers |-> {}]
  /\ run = [s \in Schedulers |-> NoRun]
  /\ names = [s \in Schedulers |-> {}]
  /\ held = [s \in Schedulers |-> {}]
  /\ faults = 0

Init == status = NoRows /\ SchedulerInit

\* The steps of a process that is let run.
SchedulerStep(s) ==
  \/ Start(s) \/ BeginTick(s)
  \/ PlanEnqueue(s) \/ CommitEnqueue(s)
  \/ BeginPromote(s) \/ LockRun(s) \/ SkipCandidate(s) \/ ReadNames(s)
  \/ LockEvent(s) \/ Unmet(s) \/ CommitPromote(s)
  \/ Expire(s)
  \/ Exit(s)

SchedulerFault(s) ==
  AbortEnqueue(s) \/ AbortPromote(s) \/ AbortExpire(s) \/ Stop(s) \/ Crash(s)

Command ==
  \/ \E j \in Jobs : InsertJob(j)
  \/ \E j \in Jobs, b \in BOOLEAN : SetEnabled(j, b)
  \/ \E j \in Jobs, n \in Names, w \in Waits : AddJobCondition(j, n, w)
  \/ \E j \in Jobs, n \in Names : RemoveJobCondition(j, n)
  \/ \E n \in Names : EmitEvent(n)

SchedulerNext ==
  \/ \E s \in Schedulers : SchedulerStep(s) \/ SchedulerFault(s)
  \/ Command
  \/ Tick

Spec == Init /\ [][SchedulerNext]_vars

\* A cancelled context makes every further call of the tick return.
Cancelled(s) == stopping[s] /\ (AbortEnqueue(s) \/ AbortPromote(s) \/ AbortExpire(s))

-----------------------------------------------------------------------------
(* Properties *)

Events == [name : Names, by : Runs \cup {NoRun}]

\* The type of every variable.
TypeOK ==
  /\ status \in [Runs -> Statuses]
  /\ now \in Times
  /\ since \in [Jobs -> Times \cup {Null}]
  /\ enabled \in [Jobs -> BOOLEAN]
  /\ nextRun \in [Jobs -> Nat \cup {Null}]
  /\ conds \in [Jobs -> [Names -> Waits \cup {Null}]]
  /\ events \in Seq(Events)
  /\ deadline \in [Runs -> Nat \cup {Null}]
  /\ pc \in [Schedulers -> {"down", "idle", "enqueue", "commit", "promote", "read", "match"}]
  /\ stopping \in [Schedulers -> BOOLEAN]
  /\ due \in [Schedulers -> SUBSET Runs]
  /\ item \in [Schedulers -> Runs \cup {NoRun}]
  /\ plan \in [Schedulers -> [status : {"none", "waiting", "queued"}, deadline : Nat \cup {Null}]]
  /\ cands \in [Schedulers -> SUBSET Runs]
  /\ run \in [Schedulers -> Runs \cup {NoRun}]
  /\ names \in [Schedulers -> SUBSET Names]
  /\ held \in [Schedulers -> SUBSET DOMAIN events]
  /\ faults \in 0 .. MaxFaults

\* No occurrence is lost: every time the cron expression matches between what
\* the client that added the job took for the present and the job's next_run_at
\* has its row in job_runs, whatever schedulers overlapped, failed, crashed or
\* were down, and even when a scheduler acting on an old DueJobs snapshot moves
\* next_run_at back (Scheduler.tick, Store.EnqueueRun).
NoLostOccurrence ==
  \A j \in Jobs, t \in Times :
    since[j] # Null /\ t \in Occurs[j] /\ since[j] < t /\ t < nextRun[j]
      => status[<<j, t>>] # "none"

\* Every run is an occurrence of its job's schedule, after what the client that
\* added the job took for the present (InsertJob, queries.go:61: not after the
\* row's created_at, which is the database's), and none is inserted before its
\* time by the database's clock (Scheduler.tick, Store.DueJobs).
RunsAreOccurrences ==
  \A r \in Runs : status[r] # "none" =>
    /\ since[r[1]] # Null
    /\ r[2] \in Occurs[r[1]]
    /\ since[r[1]] < r[2]
    /\ r[2] <= now

\* An event is never wasted: the run that consumed it left waiting for queued
\* and is not skipped, whatever the schedulers' transactions interleave or
\* roll back (promoteRun, ExpireWaitingRuns).
NoEventBurnt ==
  \A i \in DOMAIN events :
    events[i].by # NoRun => status[events[i].by] \notin {"none", "waiting", "skipped"}

\* The row locks of promoteRun do what its comment says: two schedulers never
\* work on the same run nor on the same event, and what a scheduler has locked
\* is still waiting, or unconsumed, when it comes to commit.
LocksExclude ==
  /\ \A s \in Schedulers : pc[s] \in {"read", "match"} =>
       /\ status[run[s]] = "waiting"
       /\ \A i \in held[s] : events[i].by = NoRun
  /\ \A s, p \in Schedulers : s # p =>
       /\ run[s] # NoRun => run[s] # run[p]
       /\ held[s] \cap held[p] = {}

\* README.md: a row never goes back in its lifecycle, appears once and takes
\* events once, whatever overlaps: the tables obey the abstract specification.
\* The scheduler starts no command, so execs stays 0.
Ledger == INSTANCE RunLedger WITH execs <- [r \in Runs |-> 0]
ImplementsLedger == Ledger!Spec

\* Every run promoteRun could promote.
Promotable(r) ==
  status[r] = "waiting" /\ \A n \in Conditions(r[1]) : Unconsumed(n) # {}

\* docs/event_gating.md: an event that arrives after the scheduled time
\* promotes the run; no run stays promotable for ever (PromoteWaitingRuns).
NoStuckWaiter == \A r \in Runs : ~<>[]Promotable(r)

\* A waiting run whose deadline has passed ends waiting (ExpireWaitingRuns).
LateRunsLeave ==
  \A r \in Runs :
    (status[r] = "waiting" /\ deadline[r] # Null /\ deadline[r] <= now)
      ~> status[r] # "waiting"

\* schedule.go:16: NextRun returns "a zero time only with a non-nil error", so
\* no run can be scheduled for it.
NoRunAtZeroTime == \A j \in Jobs : status[<<j, ZeroTime>>] = "none"
=============================================================================
