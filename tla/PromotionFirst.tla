-------------------------- MODULE PromotionFirst ---------------------------
(***************************************************************************)
(* What docs/event_gating.md promises of a gated run, which the tables do   *)
(* not show: the scheduler with ghost variables that remember, for the pass *)
(* of each scheduler, the runs it could have promoted when the pass began   *)
(* and ever since; the events that a rival held when a newer one was taken; *)
(* and the wait windows under which each run was inserted.                  *)
(***************************************************************************)
EXTENDS Scheduler

VARIABLES
  ready,        \* what scheduler s could promote since its pass began
  overtaken,    \* events passed over because a rival held them
  seen,         \* the waits that the open EnqueueRun of s has read
  gates         \* the waits read by the transaction that inserted run r

readyVars == <<vars, ready, overtaken, seen, gates>>

PassBegins(s) == pc[s] = "enqueue" /\ pc'[s] = "promote"
InPass(s) == pc'[s] \in {"promote", "read", "match"}

\* The names that r still needs an event of: once s matches it, those that s has
\* read and not yet locked an event of.
Wants(s, r) == IF pc[s] = "match" /\ run[s] = r THEN names[s] ELSE Conditions(r[1])

\* s would promote r: no rival holds the row, nor all the events of a name.
InReach(s, r) == Lockable(s, r) /\ \A n \in Wants(s, r) : Takeable(s, n) # {}

\* What is in reach at the beginning of a pass, less what ceases to be; a failed
\* call gives up the candidates of its pass.
StillReady ==
  ready' = [s \in Schedulers |->
              IF ~InPass(s) \/ AbortPromote(s) THEN {}
              ELSE {r \in (IF PassBegins(s) THEN Runs ELSE ready[s]) : InReach(s, r)'}]

\* The events that a rival held when s took a newer one of their name.
Overtaken(s) ==
  {k \in LockedEvents(s) :
     \E i \in held'[s] \ held[s] : k < i /\ events[k].name = events[i].name}

Overtakes == overtaken' = overtaken \cup UNION {Overtaken(s) : s \in Schedulers}

\* s reads the conditions of a job in the transaction that is to insert its run.
ReadsWaits(s) == pc[s] = "enqueue" /\ pc'[s] = "commit"
Inserts(s, r) == pc[s] = "commit" /\ pc'[s] # "commit" /\ item[s] = r

SeesWaits ==
  seen' = [s \in Schedulers |->
             IF ReadsWaits(s) THEN WaitsOf(item'[s][1])
             ELSE IF pc'[s] = "commit" THEN seen[s] ELSE {}]

\* Who inserts the row decides, once and for all.
Gates ==
  gates' = [r \in Runs |->
              IF status[r] = "none" /\ status'[r] # "none"
              THEN UNION {seen[s] : s \in {p \in Schedulers : Inserts(p, r)}}
              ELSE gates[r]]

ReadyInit ==
  /\ Init
  /\ ready = [s \in Schedulers |-> {}] /\ overtaken = {}
  /\ seen = [s \in Schedulers |-> {}] /\ gates = [r \in Runs |-> {}]
ReadyNext == SchedulerNext /\ StillReady /\ Overtakes /\ SeesWaits /\ Gates
ReadySpec == ReadyInit /\ [][ReadyNext]_readyVars

\* The step is the expiry of s.
Expires(s) == pc[s] = "promote" /\ pc'[s] = "idle"

\* docs/event_gating.md "Promotion beats expiry", scheduler.go:102: a run whose
\* events have been there for a scheduler to take since its pass began is not
\* skipped at the end of the pass, however late it is.
PromotionBeatsExpiry ==
  [][\A s \in Schedulers : Expires(s) =>
       \A r \in ready[s] : status'[r] # "skipped"]_readyVars

\* docs/event_gating.md: "oldest unconsumed event first".  A newer one is
\* consumed first only if a rival held the older one when it was taken.
OldestEventFirst ==
  \A i, k \in DOMAIN events :
    i < k /\ events[i].name = events[k].name /\ events[k].by # NoRun
      => events[i].by # NoRun \/ i \in overtaken

\* waitPlan's comment and docs/event_gating.md: a run is skipped only after the
\* longest of the waits of its job's conditions, counted from its own time, and
\* never if one of them is "wait forever" or there is no condition.  The waits
\* are those read by the transaction that inserted the run: neither conditions
\* added or removed later, nor a rival that finds the row there with another
\* plan in hand, shorten or lengthen the wait.
WaitsAreKept ==
  \A r \in Runs : status[r] = "skipped" =>
    /\ gates[r] # {} /\ 0 \notin gates[r]
    /\ \A w \in gates[r] : r[2] + w <= now
=============================================================================
