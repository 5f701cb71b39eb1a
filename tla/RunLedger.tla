----------------------------- MODULE RunLedger -----------------------------
(***************************************************************************)
(* What the Postgres tables promise their users about one run and the      *)
(* events it consumes, whatever processes touch them: the run lifecycle of  *)
(* internal/models/models.go, consume-on-match of docs/event_gating.md, and *)
(* "without double-running jobs" of README.md.  Scheduler, Worker and       *)
(* Kronwrk are each shown to implement this specification.                  *)
(***************************************************************************)
EXTENDS Integers, Sequences

CONSTANTS
  Runs,       \* the possible rows of job_runs
  NoRun,      \* the NULL of events.consumed_by_run_id
  Names       \* event names

VARIABLES
  status,     \* job_runs.status; "none" while the row does not exist
  execs,      \* how many times the command of a run has been started
  events      \* the events table, oldest first: [name, by]

vars == <<status, execs, events>>

Init ==
  /\ status = [r \in Runs |-> "none"]
  /\ execs = [r \in Runs |-> 0]
  /\ events = <<>>

\* A row appears once, queued or (its job has conditions) waiting.
Create(r) ==
  /\ status[r] = "none"
  /\ \E st \in {"waiting", "queued"} : status' = [status EXCEPT ![r] = st]
  /\ UNCHANGED <<execs, events>>

\* A waiting run becomes queued and takes, in the same step, unconsumed
\* events of pairwise different names.
Promote(r, taken) ==
  /\ status[r] = "waiting"
  /\ \A i \in taken : events[i].by = NoRun
  /\ \A i, k \in taken : events[i].name = events[k].name => i = k
  /\ status' = [status EXCEPT ![r] = "queued"]
  /\ events' = [i \in DOMAIN events |->
                  IF i \in taken THEN [events[i] EXCEPT !.by = r] ELSE events[i]]
  /\ UNCHANGED execs

\* Waiting runs are given up together.
Expire(late) ==
  /\ \A r \in late : status[r] = "waiting"
  /\ status' = [r \in Runs |-> IF r \in late THEN "skipped" ELSE status[r]]
  /\ UNCHANGED <<execs, events>>

Claim(r) ==
  /\ status[r] = "queued"
  /\ status' = [status EXCEPT ![r] = "running"]
  /\ UNCHANGED <<execs, events>>

\* The command of a run is started at most once, and only while it runs.
Start(r) ==
  /\ status[r] = "running"
  /\ execs[r] = 0
  /\ execs' = [execs EXCEPT ![r] = 1]
  /\ UNCHANGED <<status, events>>

\* Only a run whose command was started can end succeeded.
Finish(r, st) ==
  /\ status[r] = "running"
  /\ st = "succeeded" => execs[r] = 1
  /\ status' = [status EXCEPT ![r] = st]
  /\ UNCHANGED <<execs, events>>

Emit(n) ==
  /\ events' = Append(events, [name |-> n, by |-> NoRun])
  /\ UNCHANGED <<status, execs>>

Next ==
  \/ \E r \in Runs : Create(r) \/ Claim(r) \/ Start(r)
  \/ \E r \in Runs, taken \in SUBSET DOMAIN events : Promote(r, taken)
  \/ \E late \in SUBSET Runs : Expire(late)
  \/ \E r \in Runs, st \in {"succeeded", "failed", "timed_out"} : Finish(r, st)
  \/ \E n \in Names : Emit(n)

Spec == Init /\ [][Next]_vars
=============================================================================
