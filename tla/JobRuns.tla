------------------------------ MODULE JobRuns ------------------------------
(***************************************************************************)
(* The part of the job_runs table that the scheduler and the workers share: *)
(* the identity of a run and its status column.                             *)
(* UNIQUE (job_id, scheduled_for) makes the pair the identity of a row, so  *)
(* a run is that pair and the row that was not inserted has status "none".  *)
(***************************************************************************)
EXTENDS Integers, Sequences, FiniteSets

CONSTANTS
  Jobs,       \* job ids
  MaxTime,    \* the clock stops here (bound)
  NoRun       \* no run: the NULL of a run reference

ASSUME MaxTimeAssumption == MaxTime \in Nat

Times == 0 .. MaxTime           \* every occurrence is later than 0
ZeroTime == 0                   \* Go's zero time.Time: before every occurrence
Null == -1                      \* SQL NULL in a time or number column

Runs == Jobs \X Times           \* <<job_id, scheduled_for>>

ASSUME NoRunAssumption == NoRun \notin Runs

VARIABLE
  status                        \* job_runs.status

Terminal == {"succeeded", "failed", "timed_out", "skipped"}
Statuses == {"none", "waiting", "queued", "running"} \cup Terminal

NoRows == [r \in Runs |-> "none"]

RowsWith(st) == {r \in Runs : status[r] = st}

\* ORDER BY scheduled_for: the rows of rs that may come first (the code
\* leaves the order of equal times to the id or to Postgres).
Oldest(rs) == {r \in rs : \A q \in rs : r[2] <= q[2]}
=============================================================================
