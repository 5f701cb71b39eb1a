# Verification of Kronwrk

TLA+ models of Kronwrk, the TLC configurations that check them on small instances, and
theorems about them that TLAPS checks for every instance. `src/` in the text below is the
repository; line numbers are those of the commit the models were written from.

    tlc  -config TwoSchedulers.cfg MCPromotionFirst.tla  # any run of the table below
    tlapm SchedulerProofs.tla                            # any proof module

1. [The system](#1-the-system) 2. [The modules](#2-the-modules) 3. [The runs](#3-the-runs)
4. [Fairness](#4-fairness) 5. [The proofs](#5-the-proofs) 6. [Disagreements](#6-where-code-and-documents-disagree)
7. [Not modelled](#7-what-is-not-modelled) 8. [Plan](#8-plan)

## 1. The system

Kronwrk is one Go binary over one PostgreSQL database. Its processes never talk to each
other: they share tables, and everything that is correct about Kronwrk is correct because
of what single statements and transactions do to those tables.

| component | state it keeps | operations |
|---|---|---|
| scheduler (`internal/scheduler`, `internal/db/conditions.go`) | none between ticks; during a tick the snapshot of due jobs, the candidates, the row locks | `tick`: `DueJobs`, `EnqueueRun` per job, `PromoteWaitingRuns` with `promoteRun` per run, `ExpireWaitingRuns`; shutdown on a signal |
| worker (`internal/worker`) | per loop: the claimed run and its outcome | `ClaimRun`, `GetJob`, `execute`, `FinalizeRun`; shutdown that waits for the loops |
| command execution (`Worker.execute`) | the process group, the deadline, the pipe and buffer behind stderr, the heartbeat goroutine | start, kill at the deadline, wait, `classify`, `boundedBuffer.Write`, `Heartbeat`, `finalize` |
| store (`internal/db`) | `jobs`, `job_runs`, `events`, `job_conditions`, `service_events` | the transactions above, and the commands `InsertJob`, `EnableJob`/`DisableJob`, `AddJobCondition`, `RemoveJobCondition`, `EmitEvent`, the listings |
| schedule (`internal/schedule`) | none | `NextRun` |
| roles (`internal/db/migrations`, `users.go`, `permissions.go`) | schema version, roles, memberships, grants; the copy of the matrix in `cmdPerms` | `RunMigrations`, `CreateUser`, `SetUserRole`, `DropUser`, the preflights, `allowedFor` |
| shell and wizards (`cmd/kronwrk/shell.go`, `session.go`, `interactive.go`, `main.go`, `events.go`) | connection pool, cached identity, URL, prompt, the stage of the running command | login, logout, commands with their authorization, forms and statement |
| daemon control (`cmd/kronwrk/daemon.go`) | none: it reads the process table | `daemon start`, `stop`, `status`, the `*_requested` audit rows |
| monitor (`cmd/kronwrk/monitor.go`) | the screen, the selected job, two tables with cursor and column widths, the refreshes in flight | key presses, refreshes that answer asynchronously, resizes |

How they interact. Schedulers insert rows of `job_runs` as `queued`, or as `waiting` when
the job has conditions; a waiting run becomes `queued` by consuming one event per
condition, or `skipped` at its deadline. Workers take `queued` rows to `running` and to
`succeeded`, `failed` or `timed_out`. People insert jobs, conditions and events meanwhile.
Any number of schedulers and workers may run. A daemon connects as the login that started it
and can do what its role is granted at the schema version the database has.

What is hard, and which property is about it (`PROJECT.json`, "hazards", has the lines):

- *Overlapping schedulers on old snapshots.* `EnqueueRun` sets `next_run_at` unconditionally
  from a `DueJobs` result that may be stale, so the column can move backwards
  (`NoLostOccurrence`, `RunsAreOccurrences`, `ImplementsLedger`).
- *Promotion holds row locks over several statements*, skips what a rival has locked, and rolls
  back (`LocksExclude`, `NoEventBurnt`, `OldestEventFirst`, `GatesAreMatched`, `NoStuckWaiter`).
- *Promotion against expiry* in the same tick (`PromotionBeatsExpiry`, `LateRunsLeave`), *and
  deadlines computed from conditions that change meanwhile, where 0 means for ever*
  (`WaitsAreKept`).
- *Two clocks*: a job's first `next_run_at` is computed from the clock of the client that adds it,
  everything after it from the database's (`NoLostOccurrence`, `RunsAreOccurrences`).
- *Two workers and the same row; a commit whose reply is lost; a worker that dies with a run in
  hand* (`AtMostOnce`, `ClaimsExclude`, `OutcomesAreEarned`, `RunningIsHeld`).
- *A shutdown at any statement of a tick or a loop* (`LoopsComeBack`, `DueOccurrencesEnd`,
  `OutcomesAreEarned`).
- *A command's exit, its deadline, the kill of its group and a shutdown, in any order*
  (`OutcomeIsTrue`, `KillIsTotal`), *while its children write to, or just hold, a pipe that
  `cmd.Run` waits for* (`OutputIsFaithful`, `CommandNeverBlocked`, `LoopIsReleased`,
  `BoundedByTimeout`), *and a heartbeat nobody waits for* (`OneLateBeat`).
- *A grant matrix that fifteen migrations build, copied by hand twice*: into the preflights
  and into the shell's menu (`SchedulerPreflightSuffices`, `WorkerPreflightSuffices`,
  `MenuIsHonest`, `OneRolePerUser`).
- *Identity, pool, URL and prompt, kept in four places across logins and logouts, with the
  login changed meanwhile* (`IdentityIsOwn`, `NoSuperuserInShell`, `PromptIsTrue`,
  `RefusalsAreDue`).
- *A command left at any of its forms, or run by a script* (`EarlyEndsReachNothing`,
  `PipedNeverBlocks`).
- *Replies that arrive after the screen they were asked for was left, or in another order*
  (`HeadingIsTrue`, `QuietScreenIsCurrent`, `TablesMatchViews`,
  `EnterIsAnswered`, `HighlightMovesByKeys`), *and columns cut to any terminal* (`FitIsSound`).
- *A look-up in the process table, then an action on what it said* (`OneDaemonPerShell`), *and
  audit rows written by two processes on two connections* (`RunsAsRequester`, `RowsAreTrue`).

## 2. The modules

    JobRuns ---- Scheduler ---- PromotionFirst          RunLedger  (abstract)
         \             \
          Worker ------ Kronwrk                         Access     DaemonControl
            |
          Execution  (INSTANCE Worker)                  Shell      Monitor

| module | models | correspondence |
|---|---|---|
| `RunLedger` | what the tables promise about a run and its events: a row appears once, moves forward only, its command starts at most once, it takes unconsumed events of different names when it is promoted | run status values and the event type of `models.go`, README "without double-running jobs" |
| `JobRuns` | the shared part of `job_runs` | UNIQUE `(job_id, scheduled_for)` makes the pair the row's identity; a row that does not exist has status `none` |
| `Scheduler` | scheduler processes, the commands on the same tables, the clock | one action per statement or commit; see below |
| `PromotionFirst` | `Scheduler` with four ghosts: per scheduler the runs that have been in its reach since its pass began (`ready`) and the waits its open insert has read (`seen`), per run the waits it was inserted for (`gates`), and the events a rival held when a newer one was taken (`overtaken`) | for `PromotionBeatsExpiry`, `WaitsAreKept` and `OldestEventFirst` |
| `Worker` | worker processes and their loops | `lpc` follows `Worker.loop`: poll, select, claimed, exec, ended |
| `Kronwrk` | schedulers and workers on one `status` column | the components interleave, each leaves the other's variables alone |
| `Access` | grants per migration, logins, the two preflights probe by probe, a session's cached identity and menu | a privilege is verb × table × columns; `May` is Postgres' check of a statement |
| `DaemonControl` | shells and daemons of one machine: look-up, spawn, kill, audit rows, life cycle of a daemon | one action per system call or row |
| `Execution` | `execute` for one run: the command's processes, deadline, kill, stderr, heartbeat, outcome; implements a loop of `Worker` that has a run in hand | `epc` follows `execute` and, inside it, `cmd.Run` |
| `Shell` | one process: login, session, and every command as the sequence of its stages | `at` is where the process is, `Stages[cmd][step]` what a command does next |
| `Monitor` | the update loop of the two screens and the refreshes in flight | one action per message of `Update`, two per query |
| `MC*` | constants for TLC | |
| `*Proofs` | theorems of the module they extend | |

**Scheduler.** A scheduler's `pc` is where its tick is. `BeginTick` is `DueJobs`; `PlanEnqueue`
reads the conditions in the transaction of `EnqueueRun`, `CommitEnqueue` inserts (`ON CONFLICT
DO NOTHING`), advances the job from the occurrence it was due for and commits. `BeginPromote`
reads the candidates; `LockRun`, `ReadNames`, `LockEvent` (once per name) take the locks of
`promoteRun`, `CommitPromote` consumes and flips, `Unmet` and `AbortPromote` roll back, `Expire`
is the `UPDATE` of `ExpireWaitingRuns`. Reads and writes inside a transaction are separate
steps wherever another process can act in between. Row locks are not variables: a lock is
held exactly from the statement that takes it to the end of the transaction, so it is a
function of the scheduler's local state. A call may fail at any point (`Abort...`), the context
may be cancelled (`Stop`), after which every call fails; the process may die (`Crash`). Failing
promotion still runs the expiry of the tick, as the code does. Times are small integers,
`NextRun` is the first match strictly after its argument and the zero time when there is none
(the behaviour of robfig/cron, which is external). `now` is the database's clock. `InsertJob`
computes the first `next_run_at` from the client's (`since`, one of `ClientReadings`), which may
differ from it by `MaxSkew` in both directions: the clock of another machine, or the time
between reading it and the INSERT. So a first occurrence may lie before the row's `created_at`,
and no property speaks of that column.

**Worker.** `SelectRun` is the `SELECT ... FOR UPDATE SKIP LOCKED` of `ClaimRun`, `CommitClaim` its
`UPDATE` and commit, `LoseClaim` a commit that is applied though its caller sees an error.
`StartCommand`/`FetchJobFails` are `GetJob`; `CommandEnds` is the whole of `execute` after the
start, with any of the three outcomes `classify` may return; `Finalize` is `FinalizeRun`, which
has no guard on status or worker in the code, and none here: that no outcome overwrites another
is a property. The heartbeat changes only `lease_expires_at`, which nothing reads; it is in
`Execution`.

**Execution.** `StartCommand`/`StartFails` are the `Start` of `cmd.Run`; `Reap`, `Release` and
`Drained` are its `Wait`: the exit status, then the goroutine that watches the context (from here
on the deadline kills nobody), then the end of file of stderr. `Cancel` is `cmd.Cancel`, a
`SIGKILL` to the group. The processes are external and free: they fork, leave the group, close
stderr, write and exit at any time; a fork takes the group and the open stderr of its parent. Output
is counted in units: `Copy` is one `Write` of any part of what the pipe holds. `Classify` stops the
heartbeat without waiting for it, as the code does, so `BeatReturns` may come after `Finalize`.
With the mapping in the `INSTANCE` of `Worker` (`LoopPosition`, `LoopOutcome`) every step is a step
of a loop with a run in hand: `CommandEnds` with any of three outcomes is refined to the outcome
that is true.

**Monitor.** A refresh (`Ask`) is a goroutine; `Query` is its query and reply, `Take` the message in
`Update`. Views are abstracted to the number of rows (or the job) and the revision of the database
they were read at; widths of the cells are a constant per revision (`Content`). `FitColumns` is
`fitColumns`, character by character; `Layouts` has TLC compute it once for each view and width. The history variables `alone`, `settled` and `askedAt` say which
refreshes overlapped, for the two properties that hold only without overlap.

**Shell.** A command is the sequence of its stages: `authorize` (`PersistentPreRunE`), `flags` (a form
when a value is missing on a terminal, an error when piped), `secret` (the password of `user add`: a
form, or when piped a line of stdin, `LineRead`), `confirm`, `parse`, `store`, then its
statement. An action is a stage, so that administrators (`Alter`) act between any two. Six logins
would add nothing to two; two of the six group roles and five sets of attributes (`plain`;
`createrole`; `delegate`, ADMIN OPTION on the groups; `useradmin`, both; `superuser`) give every way
`allowedFor` and Postgres can answer. `allowedFor` looks at `CREATEROLE`, Postgres (`Granted`,
`TargetDenied`) at ADMIN OPTION and at the target of `user remove` too. `altered` remembers whether the
session's login was changed since `WhoAmI` was asked: the cache cannot know.

**Access.** A membership is a pair of a group and the administrator who granted it: Postgres 16, which
`am.inherit_option` of `WhoAmI` requires, keeps them apart, and a REVOKE without GRANTED BY takes back
what its own grantor granted. A login inherits from a group (`member`) whoever granted it. A
daemon's preflight is a set of probes, each its own statement, so migrations and
role changes come between them. `steady` remembers whether the daemon's login has kept its role
since the daemon started: no preflight can answer for a role that is changed later. `Needs`
and `SchedulerLoop`/`WorkerLoop` list what the statements of the code touch.

**DaemonControl.** What a shell does is `StartLooks` or `StopLooks` (pgrep), then `Spawn` or a
`Kill` per pid, each followed by `Record` (`logRequested`, which may fail silently). A pgrep that
fails reads as "nothing runs" (`StartBlind`), and what is spawned then is marked `blind`. The daemon
comes up, or not, and writes its own `start` and `stop` rows with the login it runs as. Pids
are not reused. A killed pid may be a zombie (kill succeeds), gone, or the
process of another OS user, whom the shell may not signal (`KillFails`: the command returns at once
and leaves the remaining daemons unsignalled).

Operators named `...` with "Mutant of X" in their comment are wrong variants of the definition X.
Putting one in the place of X must break the property it is listed with in `PROJECT.json`; they
document which mistake each property guards against.

## 3. The runs

All bounds are constants of the configuration. Faults (crashes, shutdowns, failed calls) are
counted by `faults`/`workerFaults` and bounded; the clock stops at `MaxTime`.

| run | instance | what it shows |
|---|---|---|
| `TwoSchedulers` | 2 schedulers, 1 job, 2 event names, 2 events, wait 1, times 0..2, skew 1, 1 fault | `NoLostOccurrence`, `RunsAreOccurrences`, `PromotionBeatsExpiry`, `OldestEventFirst`, and that `Scheduler` implements `RunLedger` |
| `GatedWaits` | 2 schedulers, 1 job with one occurrence in time, 2 event names, 1 event, waits 0, 1 and 2, times 0..3, skew 1, 1 fault | `WaitsAreKept` |
| `Progress` | 1 scheduler, 1 worker, waits 0 and 1, skew 1, 1 fault, fair | `NoStuckWaiter`, `LateRunsLeave`, `DueOccurrencesEnd` |
| `WorkerPool` | 2 workers of 2 loops, 2 runs, 2 faults, fair | `AtMostOnce`, `ClaimsExclude`, `RunningIsHeld`, `QueuedIsClaimed`, `LoopsComeBack`, and that `Worker` implements `RunLedger` |
| `EndToEnd` | 2 schedulers, 1 worker of 2 loops, gated job, 1 event, skew 1 | `SpentEventsReachWorkers` across the two components, and that the composition implements `RunLedger` |
| `Access` | 1 login, 2 administrators, 1 session, 1 daemon, schema versions 0..15 | `OneRolePerUser`, `SchedulerPreflightSuffices`, `WorkerPreflightSuffices`, `MenuIsHonest` |
| `DaemonControl` | 2 shells, 2 pids, 2 logins, 3 audit rows | `OneDaemonPerShell`, `RunsAsRequester`, `RowsAreTrue` |
| `Execution` | 3 processes, pipe and buffer of 2 units, 4 units written, 1 fault, fair | `OutcomeIsTrue`, `KillIsTotal`, `OutputIsFaithful`, `CommandNeverBlocked`, `LoopIsReleased`, and that `Execution` implements `Worker`'s loop |
| `Monitor` | 2 refreshes in flight, 2 jobs, 2 revisions, 1 failed query, 2 widths, 3 columns, fair | `TablesMatchViews`, `HeadingIsTrue`, `QuietScreenIsCurrent`, `FitIsSound`, `EnterIsAnswered` |
| `Shell` | 2 logins, with and without a terminal, 13 commands, fair | `NoSuperuserInShell`, `PromptIsTrue`, `RefusalsAreDue`, `EarlyEndsReachNothing`, `PipedNeverBlocks` |
| `NeverMatches`, `BoundedByTimeout` | the smallest instance | a counterexample each, section 6 |

What section 5 proves for every instance and a stronger property of the same run covers is not
checked a second time: the type invariants, `LocksExclude` (`ImplementsLedger` fails without the
locks), `NoEventBurnt` (`SpentEventsReachWorkers`), `OutcomesAreEarned` and `AtMostOnce` of the
composition (the ledgers), `OneLateBeat` and `IdentityIsOwn` (`PromptIsTrue`).

Why the bounds are enough. Every race of the scheduler is between two transactions on one job,
one run or one event: two schedulers, one job with two occurrences, and two events of one name
or of two contain each of them (an older snapshot against a newer one, the same run from
two sides, one event wanted by two runs, one lock held by a transaction that rolls back). Two
occurrences are needed for `next_run_at` to move back, and three times for a deadline to pass
after a wait of 1, four after a wait of 2. A skew of 1 puts the first occurrence before, at or
after the database's time. One fault is one crash at any statement; two workers with two faults cover a
crash while the other one is shut down or has lost a reply. The second scheduler of `EndToEnd`
and the second loop are there for a row that is inserted again while it is in hand. In `Access`
two administrators are needed for a membership to outlive a REVOKE; one login and one daemon
suffice because memberships and daemons do not meet (that an identity is taken for another's is
`Shell`'s matter, with two logins); the schema versions are all there are. In `DaemonControl` two shells race for one
service; the services share nothing, so one is enough, and no property speaks of more than two rows. In `Execution` a leader and two children
are one child in the group while another has left it, or a grandchild; four units against a pipe
and a buffer of two fill both, hit the limit exactly and pass it, and block a writer. In `Monitor`
two refreshes reorder, a third would only repeat them; the two widths and revisions give views
that fit, that are cut, and that are too wide at the minimum. In `Shell` two logins are the one
before and the one after a logout. The theorems of section 5 then drop
these bounds.

`CHECK_DEADLOCK FALSE` stands where the system may stop: all runs executed and every worker down
with no fault left (`WorkerPool`), all logins dropped (`Access`), the run executed and its
processes gone (`Execution`, `BoundedByTimeout`), the monitor left (`Monitor`).
`SYMMETRY` is used only in runs without temporal properties other than a safety refinement.

## 4. Fairness

- `FairKronwrkSpec`: weak fairness of each scheduler's step. `Scheduler.Run` ticks on a ticker
  until cancelled; each call has either a result or an error, and a cancelled context makes
  calls return (`Cancelled`). That a process which went down is started again is an assumption
  on the deployment (README.md recommends systemd units).
- Weak fairness of each worker loop: `Worker.loop` polls for ever, `FinalizeRun` has a context of
  its own of 5 s, and a command ends because its timeout kills its process group. The last
  point is an assumption of `Worker`. `Execution` shows what it is worth: `LoopIsReleased` gives
  the only exception, `BoundedByTimeout` fails by it.
- `FairExecutionSpec`: the goroutines of a live worker run, deadlines pass, calls return. Nothing
  is assumed of the command: it may run, write or hold stderr for ever.
- `FairMonitorSpec`: each query returns, with a result or an error, and the event loop takes each
  message. Nothing is assumed of the user.
- `FairShellSpec`: what waits for nobody goes on (a login's connection, a stage of a command that
  is not a form; Postgres answers). Nothing is assumed of a human, of whoever writes a script's
  stdin (`LineRead`) or of a daemon's signal, so `PipedNeverBlocks` says that no form is ever shown
  to a script; the line that `user add` reads is its exception, with the daemons' loop.
- Weak fairness of start and exit of a worker process.
- No fairness of clock, people, events, faults or of which lock a rival wins. `NoStuckWaiter` is
  checked with one scheduler only: two schedulers whose passes are always in step can skip each
  other's locks for ever (section 6).

## 5. The proofs

Each theorem has the form `Spec => []Inv` or `Spec => [][Action]_vars`, or says that a specification
implements `RunLedger`, or `Worker`.
All are proved for any sets of jobs, schedulers, workers, loops, names, logins, shells and
processes and for any bounds.

| module | inductive invariant | theorems |
|---|---|---|
| `SchedulerProofs` | `IInv` = `TypeInv` ∧ `LockInv` ∧ `CronInv` ∧ `NoEventBurnt` | `TypeCorrect`, `NoOccurrenceIsLost`, `RowsAreOccurrences`, `SchedulersExclude`, `EventsAreSpentOnQueuedRuns`, `SchedulerImplementsLedger`; `WaitsKept` (`WaitsInv`), `GatesOpenWhole` (with `Sought`), `OldestFirst` and `OldestFirstAlone` (`OrderInv`), `PromotionFirstAlways` (`ReadyInv`) |
| `WorkerProofs` | `WInv` = types ∧ `Exclusion` ∧ `LoopInHand` ∧ `AtMostOnce` ∧ `OutcomesAreEarned`; with `RowInHand` | `WorkerTypes`, `NoDoubleExecution`, `LoopsExclude`, `EarnedOutcomes`, `RunningRowsAreHeld`, `WorkerImplements` |
| `KronwrkProofs` | `KInv` = `IInv` ∧ `WInv`; with `RowInHand` | `NoDoubleRun`, `EventsReachWorkers`, `SchedulerSafety`, `WorkerSafety`, `OnlyDueRunsExecute`, `FinalOutcomes`, `GatesStayWhole`, `OrphansTakeWorkerFaults`, `KronwrkImplements` |
| `AccessProofs` | `AInv` = types ∧ `OneRole` ∧ `Cached` ∧ `Vetted` ∧ `VettedWorkers` | `AccessTypes`, `OneRoleEach`, `OwnIdentity`, `SchedulerVetted`, `WorkerVetted`, `HonestMenu` |
| `DaemonControlProofs` | `CInv` = types ∧ `TaskInv` ∧ `OneDaemonPerShell` ∧ `AuditInv` ∧ `RowsAreTrue` | `ControlTypes`, `OneDaemonEach`, `RequestersAreTrue`, `AuditIsTrue` |
| `ExecutionProofs` | `EInv` = types ∧ what each `epc` knows of the leader, the watcher, stderr and the heartbeat ∧ the four properties | `ExecutionTypes`, `OutcomesAreTrue`, `KillsAreTotal`, `OutputsAreFaithful`, `LateBeatIsSingle`, `ExecutionImplements` |
| `MonitorProofs` | `MInv` = types ∧ tables in step ∧ what a refresh in flight says of `sel`, `alone` and `askedAt` | `MonitorTypes`, `TablesAreInStep`, `HeadingsAreTrue`, `QuietScreensAreCurrent`, `FitsAreSound`, `HighlightIsTheUsers` |
| `ShellProofs` | `SInv` = `ShellTypeOK` ∧ `NobodyBetween` ∧ `VetIsNew` ∧ `SessionIsOne` ∧ `CommandIsVetted` ∧ `PlacesAgree` ∧ `RefusalsAreDue` ∧ `EarlyEndsReachNothing` | `ShellTypes`, `SuperusersStayOut`, `PromptsAreTrue`, `RefusalsAgree`, `EarlyEndsAreClean` |

Why the invariants are strengthened.

- `NoLostOccurrence` alone is not inductive: it speaks of `next_run_at`, but a scheduler will
  write a new `next_run_at` from a snapshot taken long ago. `CronInv` adds what is true of every
  time in anybody's hand (a `next_run_at`, a `due` entry, the `item` being inserted): it is
  an occurrence of the job, after the client's present (`since`), and every occurrence between the
  two has its row. It holds for any skew, because all later times grow from that first one.
  The step of `CommitEnqueue` then follows from `NextRunIsFirst`: between an occurrence and the next
  one there is none. `LocalsMatchPc`, a part of `TypeInv`, says what each `pc` holds.
- `LockInv` is `LocksExclude` with the connection between `pc`, `run` and `held`: the row a
  scheduler has locked stays waiting because whoever changes it must first lock it.
- `NoEventBurnt` keeps a consumed event with a run that is past `waiting` and not skipped.
- `WaitsInv` carries the waits from the statement that reads them (`PlansAreRead`: the plan a scheduler
  has in hand is that of the waits it has seen) to the row (`RowsAsPlanned`: its deadline is the
  longest of them, or none), which only the inserter writes: a rival's `ON CONFLICT DO NOTHING`
  changes nothing.
- `WInv` needs `Exclusion` for all loops with a run, in the open claim transaction too, and
  `LoopInHand` for what a loop knows about the command of its run (`execs` 0 before, 1 after).
- `KInv` is only the conjunction: `WorkersMove` (workers move rows that are queued or running) is
  all `IInv` needs to know of workers, and the scheduler's moves, from `none` and
  `waiting`, are all `WInv` needs to know of schedulers. The two refinements carry over to the
  composition because neither component touches the other's half of the ledger.
- `Vetted` says, of a daemon in preflight, that the probes it has passed tell which role its login
  has; grants are never revoked from that role by a later migration, so the conclusion lasts.
- `VettedWorkers` is kept by the user commands because a login's rights are a function of the version, its
  life and its groups (`SameRights`), by migrations because they only add rights but for 0012
  (`MigrateKeeps`), and established by the probe because only four groups may lock a run (`Lockers`).
  `HonestMenu` needs no more than `OneRole`: it compares the menu with the grants role by role.
- `OrderInv` adds to `OldestEventFirst` that what is older than an event in hand is spent or was in a
  rival's hand when this one was taken (`overtaken`). `ReadyInv` says that a run that has been in a
  scheduler's reach since its pass began is still one of its candidates, or the row it has in hand: so
  there is none left when the pass ends.
- `GatesOpenWhole` follows the names that `promoteRun` read. Until the commit each is either still to
  match or the name of a locked event (`Sought` does not change), the events locked have different
  names (`HeldNames`), and only the commit consumes. Conditions that change meanwhile change
  nothing, as `conditions.go` reads them once.
- What only the composition can say: a command runs only for an occurrence that is due
  (`OnlyDueRunsExecute`: the scheduler knows the schedule, the worker the command), an outcome is never
  written over (`FinalOutcomes`, though `FinalizeRun` has no guard), and no fault of a scheduler leaves
  a row running (`OrphansTakeWorkerFaults`).
- `FitIsSound` is about what a loop computes. `Total` and `Shrunk` are recursive functions; that they
  exist, and every fact about them, is shown by the least counterexample: a set of naturals
  that is not empty has a least element (`WFMin`), and the step from the one before it contradicts that.
  `ShrunkIsCut` is the loop invariant of `fitColumns`: the columns are cut evenly (`CutEvenly`), and a turn
  takes a character or all are at the minimum (`TookOrStuck`).
- `TaskInv` states what a shell knows between its steps: in particular that none of its *own*
  daemons of the service can appear between a look-up that pgrep answered and its spawn.
- `RowInHand` follows a running row to the loop that claimed it and from there to each way the
  loop can be parted from it (crash, lost reply, failed `FinalizeRun`).
- In `EInv` the outcome is tied to `watch`: once `Wait` has released the watcher nothing can be killed
  any more, so an exit status seen untouched stays so; after the kill the group stays empty,
  because a member is needed to fork one.
- In `MInv` a refresh that is `alone` was asked for the present `sel` and after `askedAt`: a later key
  press of its kind would have overlapped it.
- `SInv`: between a logout and the next login there is nobody (`NobodyBetween`), so what `Vet` caches is
  new (`VetIsNew`); in a session pool, identity, prompt and URL are one login (`SessionIsOne`); past
  `authorize` the identity allows the command (`CommandIsVetted`), so that for an unchanged login
  what Postgres denies is one of the named cases (`ChecksAgree`), and statements come after every
  stage that can be left (`EarlyEndsReachNothing`).

Assumptions, each a named `ASSUME` that TLC evaluates in a run: `NoRunAssumption`,
`MaxTimeAssumption`, `SchedulerAssumption`, `WorkerAssumption`, `AccessAssumption`,
`ControlAssumption`, `ExecutionAssumption`, `MonitorAssumption`, `ShellAssumption` are types of the
constants. `CronAssumption` (every expression has a first
match after any time) excludes the expressions of run `NeverMatches`, for which
`RunsAreOccurrences` is false. Nothing is assumed of `MaxSkew` but that it is a number. `WaitsAssumption` (a set of wait windows has a maximum) holds
because `wait_seconds` is a bounded column.

`MonitorAssumption` says besides that a view has at least two columns; both views have fixed ones.

One theorem has a hypothesis besides: `OldestFirstAlone`, that there is one scheduler. It says that nothing
is then overtaken, so `OldestEventFirst` is the order of emission; section 6 says how that fails with two.

Only model-checked. The liveness properties (`NoStuckWaiter`, `LateRunsLeave`, `DueOccurrencesEnd`,
`QueuedIsClaimed`, `LoopsComeBack`, `CommandNeverBlocked`, `LoopIsReleased`, `EnterIsAnswered`,
`PipedNeverBlocks`) and everything under fairness are outside TLAPS' reach. Every other property of
the passing runs is a theorem. Some theorems have no run: `GatesOpenWhole`, `GatesStayWhole`,
`OnlyDueRunsExecute`, `FinalOutcomes`, `HighlightIsTheUsers`, and the types.

## 6. Where code and documents disagree

Shown by a run (details in `PROJECT.json`, "findings"):

- `NeverMatches`: `schedule.go:16` promises an error with a zero time; an expression that never
  matches gives the zero time and no error, and a run for it.
- `BoundedByTimeout`: `worker.go:130` says an in-flight run is bounded by its own timeout on a
  graceful shutdown. `cmd.Run` waits for the end of stderr: a child that outlives the command, or
  that has left its group, holds the loop and the shutdown for as long as it keeps stderr open.

Met while modelling, without a run of their own:

- `queries.go:61` computes the first `next_run_at` from the client's clock, `created_at` is the
  database's: the first run of a job may be scheduled for a time at or before its `created_at`, and a
  client ahead of the database skips occurrences. `NoLostOccurrence` and `RunsAreOccurrences` are
  therefore about the client's reading.
- `users.go:186` says that revoking all groups "is what enforces one-role-per-user", README.md:199 that
  every login gets exactly one, and `fmtRoles` (`main.go:616`) that `user set-role` mends two. The
  REVOKE (`users.go:203`) has no GRANTED BY: on the Postgres that `WhoAmI` needs (16, for
  `inherit_option`) what another administrator granted stays. `OneRolePerUser` is per administrator.
- `permissions.go:52` and README.md:228 name `CREATEROLE` as what user management needs; `users.go:158`
  adds ADMIN OPTION on the group, and `DROP ROLE` asks for it on the target. The shell lets a login
  pass that has `CREATEROLE` alone, and Postgres denies it; it refuses set-role to one that has ADMIN
  OPTION alone, whom Postgres would let. `RefusalsAreDue` names these cases.
- README.md:130 says that with piped stdin "nothing ever blocks on a prompt"; a piped `user add`
  without `--password` reads a line of stdin (`interactive.go:229-231`, `273-283`) and blocks until
  somebody writes or closes it. `PipedNeverBlocks` excepts it.
- The table at README.md:205-206 has the scheduler's and the worker's logins run neither `job list`,
  `run status`, `monitor` nor `job disable`; `cmdPerms` (`permissions.go:31-46`) offers the scheduler
  `job list`, `enable` and `disable`, the worker `job list`, `run status` and `monitor`, and the grants
  let them. `MenuIsHonest` compares `cmdPerms` with the grants.
- `scheduler.go:45` says the current tick finishes on shutdown; its remaining calls fail on the
  cancelled context. Nothing is lost for good (`NoLostOccurrence`).
- `conditions.go:245` says a condition takes effect on later runs; `promoteRun` reads the present
  conditions, so it also gates runs already waiting.
- `worker.go:67` says in-flight runs finish; a run claimed just before the signal is recorded `failed`
  unexecuted, because `GetJob` gets the cancelled context.
- `queries.go:172` says the preflight verifies that the connection can claim runs; a login with the
  scheduler's role passes it and cannot (`WorkerPreflightSuffices` excepts it).
- `queries.go:345` speaks of "a running run's lease"; a heartbeat under way when the command ends may
  land on the finished row. One can, no more (`OneLateBeat`).
- A command that exits with 0 in time but leaves a child with stderr open until the deadline is
  recorded `timed_out`, since `classify` looks at the context, not at who was killed.
- `HEARTBEAT_INTERVAL=0` is accepted by `config.go` and makes `time.NewTicker` panic.
- Enter on job A, then Esc and Enter on job B before A's reply: the heading names B over the
  rows of whichever reply came last (`HeadingIsTrue` excepts overlapping refreshes). A reply that
  comes after Esc throws the user back into the history. `refreshedAt` is shared by the screens.
- README.md says the prompt shows "your role"; it is the role at login, and stays when `user
  set-role` changes it under the session (`PromptIsTrue`, `altered`).
- `permissions.go:79` says a superuser is "only reachable with a piped shell"; `runShell` refuses
  superusers there too.
- `interactive.go:227` says that with piped stdin one line is read for the password; in the shell
  `bufio` and the line editor both read ahead, so the line may have gone to the other.
- "Promotion beats expiry" (`docs/event_gating.md:37`) needs a single scheduler: one that finds
  the events locked passes the run over and then expires it, even if the other rolls back
  (`PromotionBeatsExpiry` speaks of runs that stay in the scheduler's reach). For the same reason
  "oldest unconsumed event first" (`:28`) fails with two, for the events that `overtaken` collects.
- A failing promotion pass is followed by the expiry of the same tick (`scheduler.go:102`), so
  promotable runs can be skipped.
- Two schedulers may skip each other's locks for ever (`docs/event_gating.md:19`).
- Candidates are tried oldest first over a snapshot (`conditions.go:76`), so an event that
  arrives during the pass may go to a later occurrence.
- A job disabled during a tick is still enqueued by it (`queries.go:127`).
- A commit of `ClaimRun` that is applied during shutdown orphans its row (`worker.go:67`): nothing
  reclaims leases yet, as README.md says.
- `queries.go:213` says only `FinalizeRun` sets `finished_at`; `ExpireWaitingRuns` does too.
- `daemon.go:18` says support passes both preflights; migration 0012 took that away.
- `daemon stop` waits for pgrep to find no daemon of the service, so a daemon that another
  shell starts meanwhile is reported as still shutting down.

## 7. What is not modelled

- `jobEnv` and `jobEnvAllowlist`: a filter of strings.
- Table output, styles, the text of cells and forms, scrolling, completion, history (`redactSecrets`),
  help and banners: formatting. Field validators and parsers (`splitArgs`, `parseWaitFlag`,
  `localTimezone`) appear as "it parses or it does not".
- `daemon` and `monitor` as commands of `Shell`: `DaemonControl` and `Monitor` have them; in `Shell`
  they would be one more reading command.
- The cron parser and time zones (library), pgx and Postgres itself: what the code relies on
  (row locks, `SKIP LOCKED`, read committed, unique constraints, ACLs) is in the actions.
- Passwords, name validation, configuration reading; grants on sequences and on
  `schema_migrations`; `down` migrations, which the binary never runs.
- `now()` inside one transaction is the time of its step. Clients' clocks are read in `InsertJob`
  only, the one statement whose effect on the schedule depends on them; the monitor's and the
  workers' are for display and timeouts.

## 8. Plan

Done, in this order: `RunLedger`, `JobRuns`, `Scheduler` with its proofs, `PromotionFirst`, `Worker`
with its proofs, `Kronwrk` with its proofs, `Access`, `DaemonControl`, `Execution`, `Monitor` and `Shell`,
each with its proofs.

What would add most from here:

1. Proofs of the safety lemmas behind the liveness runs (what is waited for stays enabled), stated
   with the guards of the actions, since ENABLED is out of reach.
2. `Scheduler` with two jobs sharing an event name, if the state space allows.
3. When leases are reclaimed (README.md names it as deferred), `lease_expires_at` and a reaper in
   `Worker`: then the late heartbeat and the lost reply matter, and `AtMostOnce` becomes at most
   once per attempt.
