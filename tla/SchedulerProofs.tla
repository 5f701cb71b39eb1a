-------------------------- MODULE SchedulerProofs --------------------------
(***************************************************************************)
(* Safety of Scheduler for any sets of jobs, schedulers, names and waits,    *)
(* any schedule that always has a next occurrence, and any bounds; and what  *)
(* holds, of PromotionFirst too, when there is one scheduler only.           *)
(***************************************************************************)
EXTENDS PromotionFirst, TLAPS

\* Every cron expression has a first match after any time (the expressions
\* that never match are the finding of run NeverMatches).
ASSUME CronAssumption ==
  \A j \in Jobs, t \in Times :
    \E u \in Occurs[j] : u > t /\ \A v \in Occurs[j] : v > t => u <= v

\* wait_seconds is a bounded column: any windows have a longest one.
ASSUME WaitsAssumption ==
  \A ws \in SUBSET Waits : ws # {} => \E w \in ws : \A v \in ws : v <= w

\* A run is the pair of its job and its time.
LEMMA RunIsPair ==
  ASSUME NEW r \in Runs
  PROVE  r[1] \in Jobs /\ r[2] \in Times /\ r = <<r[1], r[2]>>
BY DEF Runs

\* NextRun is the first occurrence strictly after t (schedule.NextRun).
LEMMA NextRunIsFirst ==
  ASSUME NEW j \in Jobs, NEW t \in Times
  PROVE  /\ NextRun(j, t) \in Occurs[j]
         /\ NextRun(j, t) \in Nat
         /\ NextRun(j, t) > t
         /\ \A v \in Occurs[j] : v > t => NextRun(j, t) <= v
<1> DEFINE later == {u \in Occurs[j] : u > t}
           First(u) == u \in later /\ \A v \in later : u <= v
<1>1. Occurs[j] \subseteq Nat
  BY SchedulerAssumption
<1>2. PICK u \in later : First(u)
  BY CronAssumption
<1>3. First(CHOOSE w \in later : \A v \in later : w <= v)
  BY <1>2
<1>4. NextRun(j, t) = CHOOSE w \in later : \A v \in later : w <= v
  BY <1>2 DEF NextRun
<1> QED
  BY <1>1, <1>3, <1>4

\* waitPlan chooses waiting or queued and a deadline that is a time or NULL.
LEMMA WaitPlanType ==
  ASSUME NEW t \in Times, NEW ws \in SUBSET Waits
  PROVE  WaitPlan(t, ws) \in [status : {"waiting", "queued"}, deadline : Nat \cup {Null}]
<1>1. CASE ws = {} \/ 0 \in ws
  BY <1>1 DEF WaitPlan
<1>2. CASE ws # {} /\ 0 \notin ws
  <2> DEFINE w == CHOOSE w \in ws : \A v \in ws : v <= w
  <2>1. w \in ws
    BY <1>2, WaitsAssumption
  <2>2. WaitPlan(t, ws) = [status |-> "waiting", deadline |-> t + w]
    BY <1>2 DEF WaitPlan
  <2> HIDE DEF w
  <2>3. t + w \in Nat
    BY <2>1, SchedulerAssumption, MaxTimeAssumption DEF Times
  <2> QED
    BY <2>2, <2>3
<1> QED
  BY <1>1, <1>2

\* The wait windows of a job are values of the column.
LEMMA WaitsOfType ==
  ASSUME TypeOK, NEW j \in Jobs
  PROVE  WaitsOf(j) \in SUBSET Waits
BY DEF TypeOK, WaitsOf, Conditions

-----------------------------------------------------------------------------
(* Type correctness *)

\* What a scheduler holds at each point of its tick.
LocalsMatchPc ==
  \A s \in Schedulers :
    /\ pc[s] = "commit" <=> item[s] # NoRun
    /\ pc[s] = "commit" => plan[s].status # "none"
    /\ pc[s] \in {"read", "match"} <=> run[s] # NoRun
    /\ pc[s] # "match" => held[s] = {} /\ names[s] = {}
    /\ due[s] # {} => pc[s] \in {"enqueue", "commit"}

TypeInv == TypeOK /\ LocalsMatchPc

LEMMA TypeInit == Init => TypeInv
BY MaxTimeAssumption, SchedulerAssumption
   DEF Init, SchedulerInit, NoRows, TypeInv, TypeOK, LocalsMatchPc, Times, Null, NoPlan,
       Statuses, Events, Runs

LEMMA TypeEnqueue ==
  ASSUME TypeInv, NEW s \in Schedulers,
         BeginTick(s) \/ PlanEnqueue(s) \/ CommitEnqueue(s) \/ AbortEnqueue(s)
  PROVE  TypeInv'
<1> USE NoRunAssumption DEF TypeInv, TypeOK, LocalsMatchPc, Goto, tableVars, passVars
<1>1. CASE BeginTick(s)
  <2>1. DueJobs \subseteq Runs
    BY MaxTimeAssumption DEF DueJobs, Runs, Times, Null
  <2> QED
    BY <1>1, <2>1 DEF BeginTick
<1>2. CASE PlanEnqueue(s)
  <2>1. PICK d \in due[s] :
          /\ due' = [due EXCEPT ![s] = @ \ {d}]
          /\ item' = [item EXCEPT ![s] = d]
          /\ plan' = [plan EXCEPT ![s] = WaitPlan(d[2], WaitsOf(d[1]))]
    BY <1>2 DEF PlanEnqueue
  <2>2. d \in Runs /\ d[1] \in Jobs /\ d[2] \in Times
    BY RunIsPair
  <2>3. WaitPlan(d[2], WaitsOf(d[1])) \in [status : {"waiting", "queued"}, deadline : Nat \cup {Null}]
    BY <2>2, WaitPlanType, WaitsOfType
  <2>4. /\ plan' \in [Schedulers -> [status : {"none", "waiting", "queued"}, deadline : Nat \cup {Null}]]
        /\ plan'[s].status # "none"
        /\ \A p \in Schedulers \ {s} : plan'[p] = plan[p]
    BY <2>1, <2>3
  <2> QED
    BY <1>2, <2>1, <2>2, <2>4 DEF PlanEnqueue
<1>3. CASE CommitEnqueue(s)
  <2>1. item[s] \in Runs /\ item[s][1] \in Jobs /\ item[s][2] \in Times
    BY <1>3, RunIsPair DEF CommitEnqueue
  <2>2. NextRun(item[s][1], item[s][2]) \in Nat
    BY <2>1, NextRunIsFirst
  <2>3. nextRun' \in [Jobs -> Nat \cup {Null}]
    BY <1>3, <2>1, <2>2 DEF CommitEnqueue, AdvanceJob
  <2>4. plan[s].status \in Statuses /\ plan[s].deadline \in Nat \cup {Null}
    BY DEF Statuses
  <2>6. status' \in [Runs -> Statuses] /\ deadline' \in [Runs -> Nat \cup {Null}]
    BY <1>3, <2>1, <2>4 DEF CommitEnqueue, InsertRun
  <2>5. plan' \in [Schedulers -> [status : {"none", "waiting", "queued"}, deadline : Nat \cup {Null}]]
    BY <1>3 DEF CommitEnqueue, EndEnqueue, NoPlan
  <2> QED
    BY <1>3, <2>3, <2>5, <2>6 DEF CommitEnqueue, EndEnqueue
<1>4. CASE AbortEnqueue(s)
  <2>1. plan' \in [Schedulers -> [status : {"none", "waiting", "queued"}, deadline : Nat \cup {Null}]]
    BY <1>4 DEF AbortEnqueue, EndEnqueue, NoPlan
  <2>2. due' \in [Schedulers -> SUBSET Runs]
    BY <1>4 DEF AbortEnqueue
  <2>3. faults' \in 0 .. MaxFaults
    BY <1>4, SchedulerAssumption DEF AbortEnqueue, CallFails
  <2> QED
    BY <1>4, <2>1, <2>2, <2>3 DEF AbortEnqueue, EndEnqueue
<1> QED
  BY <1>1, <1>2, <1>3, <1>4

LEMMA TypePass ==
  ASSUME TypeInv, NEW s \in Schedulers,
         \/ BeginPromote(s) \/ LockRun(s) \/ SkipCandidate(s) \/ ReadNames(s)
         \/ LockEvent(s) \/ Unmet(s) \/ AbortPromote(s) \/ Expire(s) \/ AbortExpire(s)
  PROVE  TypeInv'
<1> USE NoRunAssumption
    DEF TypeInv, TypeOK, LocalsMatchPc, Goto, tableVars, enqueueVars, passVars
<1>1. CASE BeginPromote(s)
  BY <1>1 DEF BeginPromote, RowsWith
<1>2. CASE LockRun(s)
  BY <1>2 DEF LockRun, Oldest
<1>3. CASE SkipCandidate(s)
  BY <1>3 DEF SkipCandidate
<1>4. CASE ReadNames(s)
  BY <1>4 DEF ReadNames, Conditions
<1>5. CASE LockEvent(s)
  BY <1>5 DEF LockEvent, Takeable, Unconsumed
<1>6. CASE Unmet(s)
  BY <1>6 DEF Unmet, EndPromote
<1>7. CASE AbortPromote(s)
  BY <1>7, SchedulerAssumption DEF AbortPromote, EndPromote, CallFails
<1>8. CASE Expire(s)
  BY <1>8 DEF Expire, Statuses, Terminal
<1>9. CASE AbortExpire(s)
  BY <1>9, SchedulerAssumption DEF AbortExpire, CallFails
<1> QED
  BY <1>1, <1>2, <1>3, <1>4, <1>5, <1>6, <1>7, <1>8, <1>9

\* What a row of events holds.
LEMMA EventType ==
  ASSUME TypeOK, NEW i \in DOMAIN events
  PROVE  events[i] \in Events /\ events[i].name \in Names /\ events[i].by \in Runs \cup {NoRun}
<1>1. events[i] \in Events
  BY DEF TypeOK
<1> QED
  BY <1>1 DEF Events

\* The events table after a promotion has the same rows.
LEMMA ConsumeKeepsRows ==
  ASSUME TypeOK, NEW r \in Runs, NEW taken \in SUBSET DOMAIN events,
         events' = [i \in DOMAIN events |->
                      IF i \in taken THEN [events[i] EXCEPT !.by = r] ELSE events[i]]
  PROVE  events' \in Seq(Events) /\ DOMAIN events' = DOMAIN events
<1>1. events \in Seq(Events)
  BY DEF TypeOK
<1>2. Len(events) \in Nat /\ DOMAIN events = 1 .. Len(events)
  BY <1>1
<1>3. ASSUME NEW i \in DOMAIN events PROVE events'[i] \in Events
  <2>1. events[i] \in Events
    BY <1>1
  <2>2. [events[i] EXCEPT !.by = r] \in Events
    BY <2>1 DEF Events
  <2> QED
    BY <2>1, <2>2
<1>4. events' \in [1 .. Len(events) -> Events]
  BY <1>2, <1>3
<1> QED
  BY <1>2, <1>4

LEMMA TypeCommitPromote ==
  ASSUME TypeInv, NEW s \in Schedulers, CommitPromote(s)
  PROVE  TypeInv'
<1> USE NoRunAssumption DEF TypeInv, TypeOK, LocalsMatchPc
<1>1. run[s] \in Runs /\ held[s] \in SUBSET DOMAIN events
  BY DEF CommitPromote
<1>2. events' \in Seq(Events) /\ DOMAIN events' = DOMAIN events
  BY <1>1, ConsumeKeepsRows DEF CommitPromote
<1>3. status' \in [Runs -> Statuses]
  BY <1>1 DEF CommitPromote, Statuses
<1> QED
  BY <1>2, <1>3 DEF CommitPromote, EndPromote, Goto, enqueueVars

LEMMA TypeProcess ==
  ASSUME TypeInv, NEW s \in Schedulers, Start(s) \/ Stop(s) \/ Exit(s) \/ Crash(s)
  PROVE  TypeInv'
<1> USE NoRunAssumption, SchedulerAssumption
    DEF TypeInv, TypeOK, LocalsMatchPc, Goto, tableVars, enqueueVars, passVars
<1>1. CASE Start(s)
  BY <1>1 DEF Start
<1>2. CASE Stop(s)
  BY <1>2 DEF Stop
<1>3. CASE Halt(s) /\ faults' \in 0 .. MaxFaults
  <2>1. plan' \in [Schedulers -> [status : {"none", "waiting", "queued"}, deadline : Nat \cup {Null}]]
    BY <1>3 DEF Halt, NoPlan
  <2> QED
    BY <1>3, <2>1 DEF Halt, EndPromote
<1> QED
  BY <1>1, <1>2, <1>3 DEF Exit, Crash

LEMMA TypeCommand ==
  ASSUME TypeInv, Command \/ Tick
  PROVE  TypeInv'
<1> USE DEF TypeInv, TypeOK, LocalsMatchPc, tableVars, enqueueVars, passVars, localVars
<1>1. CASE \E j \in Jobs : InsertJob(j)
  <2>1. PICK j \in Jobs : InsertJob(j)
    BY <1>1
  <2>2. PICK t \in Times : /\ since' = [since EXCEPT ![j] = t]
                          /\ nextRun' = [nextRun EXCEPT ![j] = NextRun(j, t)]
    BY <2>1 DEF InsertJob, ClientReadings
  <2>3. NextRun(j, t) \in Nat
    BY NextRunIsFirst
  <2> QED
    BY <2>1, <2>2, <2>3 DEF InsertJob
<1>2. CASE \E j \in Jobs, b \in BOOLEAN : SetEnabled(j, b)
  BY <1>2 DEF SetEnabled
<1>3. CASE \E j \in Jobs, n \in Names, w \in Waits : AddJobCondition(j, n, w)
  BY <1>3 DEF AddJobCondition
<1>4. CASE \E j \in Jobs, n \in Names : RemoveJobCondition(j, n)
  BY <1>4 DEF RemoveJobCondition
<1>5. CASE \E n \in Names : EmitEvent(n)
  <2>1. PICK n \in Names : EmitEvent(n)
    BY <1>5
  <2>2. [name |-> n, by |-> NoRun] \in Events
    BY DEF Events
  <2>3. events' \in Seq(Events) /\ DOMAIN events \subseteq DOMAIN events'
    BY <2>1, <2>2 DEF EmitEvent
  <2> QED
    BY <2>1, <2>3 DEF EmitEvent
<1>6. CASE Tick
  BY <1>6, MaxTimeAssumption DEF Tick, Times
<1> QED
  BY <1>1, <1>2, <1>3, <1>4, <1>5, <1>6 DEF Command

LEMMA TypeNext == TypeInv /\ [SchedulerNext]_vars => TypeInv'
<1> SUFFICES ASSUME TypeInv, [SchedulerNext]_vars
             PROVE  TypeInv'
  OBVIOUS
<1>1. CASE \E s \in Schedulers : SchedulerStep(s) \/ SchedulerFault(s)
  BY <1>1, TypeEnqueue, TypePass, TypeCommitPromote, TypeProcess
     DEF SchedulerStep, SchedulerFault
<1>2. CASE Command \/ Tick
  BY <1>2, TypeCommand
<1>3. CASE UNCHANGED vars
  BY <1>3 DEF TypeInv, TypeOK, LocalsMatchPc, vars, schedulerVars, tableVars, localVars,
              enqueueVars, passVars
<1> QED
  BY <1>1, <1>2, <1>3 DEF SchedulerNext

\* Every variable keeps its type and every scheduler its bookkeeping.
THEOREM TypeCorrect == Spec => []TypeOK
<1>1. Spec => []TypeInv
  BY TypeInit, TypeNext, PTL DEF Spec
<1>2. TypeInv => TypeOK
  BY DEF TypeInv
<1> QED
  BY <1>1, <1>2, PTL

-----------------------------------------------------------------------------
(* Row locks *)

\* The events a scheduler has locked have different names, none of which it
\* has still to match.
HeldNames ==
  \A s \in Schedulers : \A i \in held[s] :
    /\ events[i].name \notin names[s]
    /\ \A k \in held[s] : events[i].name = events[k].name => i = k

LockInv == LocksExclude /\ HeldNames

\* A step that leaves the locked rows alone and takes no lock.
NoLock ==
  /\ \A s \in Schedulers : run'[s] \in {run[s], NoRun} /\ held'[s] \subseteq held[s]
  /\ \A s \in Schedulers : run'[s] # NoRun => status'[run[s]] = status[run[s]]
  /\ \A s \in Schedulers : \A i \in held'[s] :
       events'[i] = events[i] /\ names'[s] \subseteq names[s]

LEMMA LockQuiet ==
  ASSUME TypeInv, TypeInv', LockInv, NoLock
  PROVE  LockInv'
BY NoRunAssumption DEF TypeInv, TypeOK, LocalsMatchPc, LockInv, LocksExclude, HeldNames, NoLock

LEMMA LockStep ==
  ASSUME TypeInv, TypeInv', LockInv,
         NEW s \in Schedulers, SchedulerStep(s) \/ SchedulerFault(s)
  PROVE  LockInv'
<1> USE NoRunAssumption DEF TypeInv, TypeOK, LocalsMatchPc, tableVars, enqueueVars, passVars
<1>1. CASE CommitEnqueue(s)
  <2>1. item[s] \in Runs /\ plan[s].status # "none"
    BY <1>1 DEF CommitEnqueue
  <2>2. \A r \in Runs : status[r] = "waiting" => status'[r] = status[r]
    BY <1>1, <2>1 DEF CommitEnqueue, InsertRun
  <2> QED
    BY <1>1, <2>2, LockQuiet DEF CommitEnqueue, NoLock, LockInv, LocksExclude
<1>2. CASE LockRun(s)
  <2>1. PICK r \in Oldest(cands[s]) : Lockable(s, r) /\ run' = [run EXCEPT ![s] = r]
    BY <1>2 DEF LockRun
  <2>2. r \in Runs /\ status[r] = "waiting" /\ \A p \in Schedulers \ {s} : run[p] # r
    BY <2>1 DEF Oldest, Lockable, LockedRuns
  <2>3. held[s] = {} /\ pc'[s] = "read" /\ \A p \in Schedulers \ {s} : pc'[p] = pc[p]
    BY <1>2 DEF LockRun, Goto
  <2> QED
    BY <1>2, <2>1, <2>2, <2>3 DEF LockRun, LockInv, LocksExclude, HeldNames
<1>3. CASE ReadNames(s)
  BY <1>3 DEF ReadNames, Goto, LockInv, LocksExclude, HeldNames
<1>4. CASE LockEvent(s)
  <2>1. PICK n \in Names, i \in DOMAIN events :
          /\ n \in names[s] /\ i \in Takeable(s, n)
          /\ held' = [held EXCEPT ![s] = @ \cup {i}]
          /\ names' = [names EXCEPT ![s] = @ \ {n}]
    BY <1>4 DEF LockEvent, Takeable, Unconsumed
  <2>2. /\ events[i].name = n /\ events[i].by = NoRun
        /\ \A p \in Schedulers \ {s} : i \notin held[p]
    BY <2>1 DEF Takeable, Unconsumed, LockedEvents
  <2>3. LocksExclude'
    BY <1>4, <2>1, <2>2 DEF LockEvent, LockInv, LocksExclude
  <2>4. HeldNames'
    BY <1>4, <2>1, <2>2 DEF LockEvent, LockInv, HeldNames
  <2> QED
    BY <2>3, <2>4 DEF LockInv
<1>5. CASE CommitPromote(s)
  <2>1. /\ run[s] \in Runs
        /\ run' = [run EXCEPT ![s] = NoRun]
        /\ held' = [held EXCEPT ![s] = {}]
        /\ names' = [names EXCEPT ![s] = {}]
        /\ status' = [status EXCEPT ![run[s]] = "queued"]
        /\ \A i \in DOMAIN events : i \notin held[s] => events'[i] = events[i]
    BY <1>5 DEF CommitPromote, EndPromote
  <2>2. \A p \in Schedulers : p # s => run[p] # run[s] \/ run[p] = NoRun
    BY DEF LockInv, LocksExclude
  <2>3. \A p \in Schedulers : p # s => held[p] \cap held[s] = {}
    BY DEF LockInv, LocksExclude
  <2> QED
    BY <2>1, <2>2, <2>3, LockQuiet DEF NoLock
<1>6. CASE Expire(s)
  <2>1. \A p \in Schedulers : run[p] # NoRun => ~Late(run[p])
    <3>1. run[s] = NoRun /\ \A r \in LockedRuns(s) : ~Late(r)
      BY <1>6 DEF Expire
    <3>2. \A p \in Schedulers : p # s /\ run[p] # NoRun => run[p] \in LockedRuns(s)
      BY DEF LockedRuns
    <3> QED
      BY <3>1, <3>2
  <2> QED
    BY <1>6, <2>1, LockQuiet DEF Expire, NoLock
<1>7. CASE ~(\/ CommitEnqueue(s) \/ LockRun(s) \/ ReadNames(s) \/ LockEvent(s)
             \/ CommitPromote(s) \/ Expire(s))
  <2>1. UNCHANGED <<status, events>>
    BY <1>7 DEF SchedulerStep, SchedulerFault, Start, BeginTick, PlanEnqueue, BeginPromote,
                SkipCandidate, Unmet, Exit, Halt, AbortEnqueue, AbortPromote,
                AbortExpire, Stop, Crash
  <2>2. \A p \in Schedulers : /\ run'[p] \in {run[p], NoRun}
                              /\ held'[p] \subseteq held[p]
                              /\ names'[p] \subseteq names[p]
    BY <1>7 DEF SchedulerStep, SchedulerFault, Start, BeginTick, PlanEnqueue, BeginPromote,
                SkipCandidate, Unmet, Exit, Halt, AbortEnqueue, AbortPromote,
                AbortExpire, Stop, Crash, EndPromote
  <2> QED
    BY <2>1, <2>2, LockQuiet DEF NoLock
<1> QED
  BY <1>1, <1>2, <1>3, <1>4, <1>5, <1>6, <1>7

\* A new event leaves the others where they are.
LEMMA EmitKeepsRows ==
  ASSUME TypeOK, NEW n \in Names, EmitEvent(n)
  PROVE  /\ \A i \in DOMAIN events : i \in DOMAIN events' /\ events'[i] = events[i]
         /\ \A i \in DOMAIN events' : i \in DOMAIN events \/ events'[i].by = NoRun
<1>1. events \in Seq(Events)
  BY DEF TypeOK
<1>2. events' = Append(events, [name |-> n, by |-> NoRun])
  BY DEF EmitEvent
<1> QED
  BY <1>1, <1>2

LEMMA LockCommand ==
  ASSUME TypeInv, TypeInv', LockInv, Command \/ Tick
  PROVE  LockInv'
<1> USE DEF tableVars, localVars, enqueueVars, passVars
<1>1. UNCHANGED <<status, run, held, names>>
  BY DEF Command, InsertJob, SetEnabled, AddJobCondition, RemoveJobCondition, EmitEvent, Tick
<1>2. \A i \in DOMAIN events : events'[i] = events[i]
  BY EmitKeepsRows DEF TypeInv, Command, InsertJob, SetEnabled, AddJobCondition,
                       RemoveJobCondition, Tick
<1> QED
  BY <1>1, <1>2, LockQuiet DEF NoLock, TypeInv, TypeOK

-----------------------------------------------------------------------------
(* No occurrence is lost and none is invented *)

\* Every occurrence of j before t has its row.
Covered(j, t) ==
  \A u \in Times : u \in Occurs[j] /\ since[j] < u /\ u < t => status[<<j, u>>] # "none"

Scheduled(j, t) ==
  since[j] # Null /\ t \in Occurs[j] /\ since[j] < t /\ Covered(j, t)

\* The occurrences a scheduler has in hand.
InHand(s) == due[s] \cup ({item[s]} \ {NoRun})

\* next_run_at, and every occurrence some scheduler still has in hand, has all
\* earlier occurrences behind it: a stale scheduler can move next_run_at back,
\* but only to a point that is covered.
CronInv ==
  /\ \A j \in Jobs : since[j] # Null => Scheduled(j, nextRun[j])
  /\ \A s \in Schedulers : \A d \in InHand(s) : Scheduled(d[1], d[2]) /\ d[2] <= now
  /\ RunsAreOccurrences

\* What no step undoes.
Grows ==
  /\ \A r \in Runs : status[r] # "none" => status'[r] # "none"
  /\ \A j \in Jobs : since[j] # Null => since'[j] = since[j]
  /\ now \in Times /\ now' \in Times /\ now <= now'

LEMMA ScheduledStays ==
  ASSUME Grows, NEW j \in Jobs, NEW t \in Nat, Scheduled(j, t)
  PROVE  Scheduled(j, t)'
BY DEF Grows, Scheduled, Covered, Runs

\* A step that inserts no job and no run and takes nothing in hand.
Quiet ==
  /\ \A r \in Runs : status'[r] # "none" => status[r] # "none"
  /\ UNCHANGED <<since, nextRun>>
  /\ \A s \in Schedulers : InHand(s)' \subseteq InHand(s)

LEMMA CronQuiet ==
  ASSUME TypeInv, CronInv, Grows, Quiet
  PROVE  CronInv'
<1>1. ASSUME NEW j \in Jobs, since'[j] # Null PROVE Scheduled(j, nextRun[j])'
  BY <1>1, ScheduledStays DEF CronInv, Quiet, Scheduled, TypeInv, TypeOK, Covered, Grows, Runs
<1>2. ASSUME NEW s \in Schedulers, NEW d \in InHand(s)'
      PROVE  Scheduled(d[1], d[2])' /\ d[2] <= now'
  <2>1. d \in InHand(s)
    BY DEF Quiet
  <2>2. d \in Runs
    BY <2>1 DEF InHand, TypeInv, TypeOK
  <2>3. d[1] \in Jobs /\ d[2] \in Times
    BY <2>2, RunIsPair
  <2> QED
    BY <2>1, <2>3, ScheduledStays, MaxTimeAssumption DEF CronInv, Grows, Times
<1>3. RunsAreOccurrences'
  BY RunIsPair, MaxTimeAssumption DEF CronInv, RunsAreOccurrences, Quiet, Grows, Times
<1> QED
  BY <1>1, <1>2, <1>3 DEF CronInv

LEMMA StepGrows ==
  ASSUME TypeInv, SchedulerNext
  PROVE  Grows
<1> USE DEF Grows, TypeInv, TypeOK, tableVars
<1>0. now \in Int
  BY MaxTimeAssumption DEF Times
<1>1. ASSUME NEW s \in Schedulers, SchedulerStep(s) \/ SchedulerFault(s) PROVE Grows
  <2>1. now' = now /\ since' = since
    BY <1>1 DEF SchedulerStep, SchedulerFault, Start, BeginTick, PlanEnqueue, CommitEnqueue,
                BeginPromote, LockRun, SkipCandidate, ReadNames, LockEvent, Unmet,
                CommitPromote, Expire, Exit, Halt, AbortEnqueue, AbortPromote, AbortExpire,
                Stop, Crash
  <2>2. \A r \in Runs : status[r] # "none" => status'[r] # "none"
    <3>1. CASE CommitEnqueue(s)
      BY <3>1 DEF CommitEnqueue, InsertRun
    <3>2. CASE CommitPromote(s)
      BY <3>2 DEF CommitPromote
    <3>3. CASE Expire(s)
      BY <3>3 DEF Expire
    <3>4. CASE UNCHANGED status
      BY <3>4
    <3> QED
      BY <1>1, <3>1, <3>2, <3>3, <3>4
         DEF SchedulerStep, SchedulerFault, Start, BeginTick, PlanEnqueue,
             BeginPromote, LockRun, SkipCandidate, ReadNames, LockEvent, Unmet,
             Exit, Halt, AbortEnqueue, AbortPromote, AbortExpire, Stop, Crash
  <2> QED
    BY <1>0, <2>1, <2>2
<1>2. CASE Command
  <2>1. UNCHANGED <<status, now>>
    BY <1>2 DEF Command, InsertJob, SetEnabled, AddJobCondition, RemoveJobCondition, EmitEvent
  <2>2. \A j \in Jobs : since[j] # Null => since'[j] = since[j]
    BY <1>2 DEF Command, InsertJob, SetEnabled, AddJobCondition, RemoveJobCondition, EmitEvent
  <2> QED
    BY <1>0, <2>1, <2>2
<1>3. CASE Tick
  BY <1>3, MaxTimeAssumption DEF Tick, Times
<1> QED
  BY <1>1, <1>2, <1>3 DEF SchedulerNext

LEMMA CronStep ==
  ASSUME TypeInv, CronInv, Grows,
         LocksExclude, NEW s \in Schedulers, SchedulerStep(s) \/ SchedulerFault(s)
  PROVE  CronInv'
<1> USE NoRunAssumption DEF TypeInv, TypeOK, Goto, tableVars, enqueueVars, passVars
<1>1. CASE BeginTick(s)
  <2>1. UNCHANGED <<status, since, nextRun, now>>
    BY <1>1 DEF BeginTick
  <2>2. \A p \in Schedulers : p # s => InHand(p)' = InHand(p)
    BY <1>1 DEF BeginTick, InHand
  <2>3. \A d \in InHand(s)' : d \in InHand(s) \/ d \in DueJobs
    BY <1>1 DEF BeginTick, InHand
  <2>4. \A d \in DueJobs : Scheduled(d[1], d[2]) /\ d[2] <= now
    BY DEF DueJobs, CronInv
  <2>5. ASSUME NEW p \in Schedulers, NEW d \in InHand(p)'
        PROVE  Scheduled(d[1], d[2]) /\ d[2] <= now
    BY <2>2, <2>3, <2>4 DEF CronInv
  <2>6. \A j \in Jobs, t \in Nat : Scheduled(j, t) => Scheduled(j, t)'
    BY ScheduledStays
  <2>7. \A p \in Schedulers : \A d \in InHand(p)' : d[1] \in Jobs /\ d[2] \in Nat
    <3>1. \A p \in Schedulers : InHand(p) \subseteq Runs
      BY DEF InHand
    <3>2. DueJobs \subseteq Runs
      BY MaxTimeAssumption DEF DueJobs, Runs, Times
    <3>3. \A r \in Runs : r[1] \in Jobs /\ r[2] \in Nat
      BY RunIsPair, MaxTimeAssumption DEF Times
    <3>4. \A p \in Schedulers : InHand(p)' \subseteq Runs
      BY <2>2, <2>3, <3>1, <3>2
    <3> QED
      BY <3>3, <3>4
  <2>8. \A j \in Jobs : since[j] # Null => nextRun[j] \in Nat
    BY SchedulerAssumption DEF CronInv, Scheduled
  <2> QED
    BY <2>1, <2>5, <2>6, <2>7, <2>8 DEF CronInv, RunsAreOccurrences
<1>2. CASE PlanEnqueue(s)
  <2>1. UNCHANGED <<status, since, nextRun, now>>
    BY <1>2 DEF PlanEnqueue
  <2>2. \A p \in Schedulers : InHand(p)' \subseteq InHand(p)
    BY <1>2 DEF PlanEnqueue, InHand
  <2> QED
    BY <2>1, <2>2, CronQuiet DEF Quiet
<1>3. CASE CommitEnqueue(s)
  <2>1. PICK j \in Jobs, t \in Times : item[s] = <<j, t>> /\ item[s] \in Runs
    BY <1>3, RunIsPair DEF CommitEnqueue, LocalsMatchPc
  <2>2. Scheduled(j, t) /\ t <= now
    <3>1. item[s] \in InHand(s)
      BY <2>1 DEF InHand
    <3>2. item[s][1] = j /\ item[s][2] = t
      BY <2>1
    <3> QED
      BY <3>1, <3>2 DEF CronInv
  <2>3. /\ UNCHANGED <<since, now>>
        /\ nextRun' = [nextRun EXCEPT ![j] = NextRun(j, t)]
        /\ status'[item[s]] # "none"
        /\ \A r \in Runs \ {item[s]} : status'[r] = status[r]
    BY <1>3, <2>1 DEF CommitEnqueue, InsertRun, AdvanceJob, LocalsMatchPc
  <2>4. Scheduled(j, NextRun(j, t))'
    <3>0. t \in Nat /\ Times \subseteq Int /\ Occurs[j] \subseteq Nat
      BY <2>1, MaxTimeAssumption, SchedulerAssumption DEF Times
    <3>1. ASSUME NEW u \in Times, u \in Occurs[j], u < NextRun(j, t) PROVE u <= t
      <4>1. u \in Int /\ NextRun(j, t) \in Int
        BY <3>0, NextRunIsFirst
      <4>2. u > t => NextRun(j, t) <= u
        BY <3>1, NextRunIsFirst
      <4> QED
        BY <3>0, <3>1, <4>1, <4>2
    <3>2. Covered(j, t)'
      BY <2>1, <2>2, <3>0, ScheduledStays DEF Scheduled
    <3>3. \A u \in Times : u <= t => u < t \/ u = t
      BY <3>0, MaxTimeAssumption DEF Times
    <3>4. Covered(j, NextRun(j, t))'
      BY <2>1, <2>3, <3>1, <3>2, <3>3 DEF Covered
    <3>5. NextRun(j, t) \in Occurs[j] /\ NextRun(j, t) > t /\ NextRun(j, t) \in Nat
      BY <2>1, NextRunIsFirst
    <3>6. since[j] < NextRun(j, t)
      BY <2>1, <2>2, <3>5, MaxTimeAssumption DEF Scheduled, Times, Null
    <3> QED
      BY <2>2, <2>3, <3>4, <3>5, <3>6 DEF Scheduled
  <2>5. ASSUME NEW k \in Jobs, since'[k] # Null PROVE Scheduled(k, nextRun[k])'
    <3>1. CASE k = j
      BY <2>3, <2>4, <3>1 DEF Scheduled, Covered
    <3>2. CASE k # j
      <4>1. nextRun'[k] = nextRun[k] /\ Scheduled(k, nextRun[k]) /\ nextRun[k] \in Nat
        BY <2>3, <2>5, <3>2, SchedulerAssumption DEF CronInv, Scheduled
      <4> QED
        BY <4>1, ScheduledStays
    <3> QED
      BY <3>1, <3>2
  <2>6. ASSUME NEW p \in Schedulers, NEW d \in InHand(p)'
        PROVE  Scheduled(d[1], d[2])' /\ d[2] <= now'
    <3>1. d \in InHand(p)
      BY <1>3 DEF CommitEnqueue, EndEnqueue, InHand
    <3>2. d \in Runs
      BY <3>1 DEF InHand
    <3>3. d[1] \in Jobs /\ d[2] \in Times
      BY <3>2, RunIsPair
    <3> QED
      BY <2>3, <3>1, <3>3, ScheduledStays, MaxTimeAssumption DEF CronInv, Times
  <2>7. RunsAreOccurrences'
    BY <2>1, <2>2, <2>3 DEF CronInv, RunsAreOccurrences, Scheduled
  <2> QED
    BY <2>5, <2>6, <2>7 DEF CronInv
<1>4. CASE ~(BeginTick(s) \/ PlanEnqueue(s) \/ CommitEnqueue(s))
  <2>1. \A r \in Runs : status'[r] # "none" => status[r] # "none"
    <3>1. CASE CommitPromote(s)
      BY <3>1 DEF CommitPromote, LocksExclude
    <3>2. CASE Expire(s)
      BY <3>2 DEF Expire, Late
    <3>3. CASE ~(CommitPromote(s) \/ Expire(s))
      BY <1>4, <3>3
         DEF SchedulerStep, SchedulerFault, Start, BeginPromote, LockRun, SkipCandidate,
             ReadNames, LockEvent, Unmet, Exit, Halt, AbortEnqueue, AbortPromote,
             AbortExpire, Stop, Crash
    <3> QED
      BY <3>1, <3>2, <3>3
  <2>2. UNCHANGED <<since, nextRun>>
    BY <1>4 DEF SchedulerStep, SchedulerFault, Start, BeginPromote, LockRun, SkipCandidate,
                ReadNames, LockEvent, Unmet, CommitPromote, Expire, Exit, Halt, AbortEnqueue,
                AbortPromote, AbortExpire, Stop, Crash
  <2>3. \A p \in Schedulers : InHand(p)' \subseteq InHand(p)
    BY <1>4 DEF SchedulerStep, SchedulerFault, Start, BeginPromote, LockRun, SkipCandidate,
                ReadNames, LockEvent, Unmet, CommitPromote, Expire, Exit, Halt, AbortEnqueue,
                EndEnqueue, AbortPromote, AbortExpire, Stop, Crash, InHand
  <2> QED
    BY <2>1, <2>2, <2>3, CronQuiet DEF Quiet
<1> QED
  BY <1>1, <1>2, <1>3, <1>4

LEMMA CronCommand ==
  ASSUME TypeInv, CronInv, Grows, Command \/ Tick
  PROVE  CronInv'
<1> USE DEF TypeInv, TypeOK, localVars, enqueueVars
<1>1. CASE \E j \in Jobs : InsertJob(j)
  <2>1. PICK j \in Jobs : InsertJob(j)
    BY <1>1
  <2>2. PICK t \in Times : /\ since' = [since EXCEPT ![j] = t]
                          /\ nextRun' = [nextRun EXCEPT ![j] = NextRun(j, t)]
    BY <2>1 DEF InsertJob, ClientReadings
  <2>3. since[j] = Null /\ UNCHANGED <<status, now, due, item>>
    BY <2>1 DEF InsertJob
  <2>4. Scheduled(j, NextRun(j, t))'
    <3>0. t \in Nat /\ Times \subseteq Int
      BY MaxTimeAssumption DEF Times
    <3>1. /\ NextRun(j, t) \in Occurs[j]
          /\ NextRun(j, t) > t
          /\ NextRun(j, t) \in Nat
          /\ \A v \in Occurs[j] : v > t => NextRun(j, t) <= v
      BY NextRunIsFirst
    <3>2. since'[j] = t /\ t # Null
      BY <2>2, <3>0 DEF Null
    <3>3. ASSUME NEW u \in Times, u \in Occurs[j], t < u, u < NextRun(j, t) PROVE FALSE
      <4>1. u \in Int /\ t \in Int /\ NextRun(j, t) \in Int
        BY <3>0, <3>1
      <4>2. NextRun(j, t) <= u
        BY <3>1, <3>3, <4>1
      <4> QED
        BY <3>3, <4>1, <4>2
    <3> QED
      BY <3>1, <3>2, <3>3 DEF Scheduled, Covered
  <2>5. ASSUME NEW k \in Jobs, since'[k] # Null PROVE Scheduled(k, nextRun[k])'
    <3>1. CASE k = j
      BY <2>2, <2>4, <3>1 DEF Scheduled, Covered
    <3>2. CASE k # j
      <4>1. nextRun'[k] = nextRun[k] /\ Scheduled(k, nextRun[k]) /\ nextRun[k] \in Nat
        BY <2>2, <2>5, <3>2, SchedulerAssumption DEF CronInv, Scheduled
      <4> QED
        BY <4>1, ScheduledStays
    <3> QED
      BY <3>1, <3>2
  <2>6. ASSUME NEW p \in Schedulers, NEW d \in InHand(p)'
        PROVE  Scheduled(d[1], d[2])' /\ d[2] <= now'
    <3>1. d \in InHand(p)
      BY <2>3 DEF InHand
    <3>2. d \in Runs
      BY <3>1 DEF InHand
    <3>3. d[1] \in Jobs /\ d[2] \in Times
      BY <3>2, RunIsPair
    <3> QED
      BY <2>3, <3>1, <3>3, ScheduledStays, MaxTimeAssumption DEF CronInv, Times
  <2>7. RunsAreOccurrences'
    BY <2>2, <2>3, RunIsPair DEF CronInv, RunsAreOccurrences
  <2> QED
    BY <2>5, <2>6, <2>7 DEF CronInv
<1>2. CASE (Command \/ Tick) /\ ~ \E j \in Jobs : InsertJob(j)
  <2>1. UNCHANGED <<status, since, nextRun, due, item>>
    BY <1>2 DEF Command, SetEnabled, AddJobCondition, RemoveJobCondition, EmitEvent, Tick,
                tableVars
  <2> QED
    BY <2>1, CronQuiet DEF Quiet, InHand
<1> QED
  BY <1>1, <1>2

-----------------------------------------------------------------------------
(* Consumed events *)

\* A step that consumes nothing and that moves only rows that were not there.
NoOutcome ==
  /\ \A i \in DOMAIN events' :
       \/ i \in DOMAIN events /\ events'[i].by = events[i].by
       \/ events'[i].by = NoRun
  /\ \A r \in Runs : status'[r] = status[r] \/ status[r] = "none"

LEMMA OutcomeQuiet ==
  ASSUME TypeInv, TypeInv', NoEventBurnt, NoOutcome
  PROVE  NoEventBurnt'
<1> SUFFICES ASSUME NEW i \in DOMAIN events', events'[i].by # NoRun
             PROVE  status'[events'[i].by] \notin {"none", "waiting", "skipped"}
  BY DEF NoEventBurnt
<1>1. i \in DOMAIN events /\ events'[i].by = events[i].by
  BY DEF NoOutcome
<1>2. events[i].by \in Runs
  BY <1>1, EventType DEF TypeInv
<1> QED
  BY <1>1, <1>2 DEF NoEventBurnt, NoOutcome

LEMMA OutcomeStep ==
  ASSUME TypeInv, TypeInv', LocksExclude, NoEventBurnt,
         NEW s \in Schedulers, SchedulerStep(s) \/ SchedulerFault(s)
  PROVE  NoEventBurnt'
<1> USE NoRunAssumption DEF TypeInv, TypeOK, LocalsMatchPc, tableVars, enqueueVars, passVars
<1>1. CASE CommitEnqueue(s)
  <2>1. item[s] \in Runs /\ plan[s].status \in {"waiting", "queued"}
    BY <1>1 DEF CommitEnqueue
  <2>2. \A r \in Runs : status'[r] = status[r] \/ status[r] = "none"
    BY <1>1, <2>1 DEF CommitEnqueue, InsertRun
  <2>3. UNCHANGED events
    BY <1>1 DEF CommitEnqueue
  <2> QED
    BY <2>2, <2>3, OutcomeQuiet DEF NoOutcome
<1>2. CASE CommitPromote(s)
  <2>1. run[s] \in Runs /\ status' = [status EXCEPT ![run[s]] = "queued"]
    BY <1>2 DEF CommitPromote
  <2>2. ASSUME NEW i \in DOMAIN events', events'[i].by # NoRun
        PROVE  status'[events'[i].by] \notin {"none", "waiting", "skipped"}
    <3>1. i \in DOMAIN events
      BY <1>2 DEF CommitPromote
    <3>2. CASE i \in held[s]
      <4>1. events'[i] = [events[i] EXCEPT !.by = run[s]] /\ events[i] \in Events
        BY <1>2, <3>1, <3>2 DEF CommitPromote
      <4>2. events'[i].by = run[s]
        BY <4>1 DEF Events
      <4> QED
        BY <2>1, <4>2
    <3>3. CASE i \notin held[s]
      <4>1. events'[i] = events[i] /\ events[i].by \in Runs
        BY <1>2, <2>2, <3>1, <3>3, EventType DEF CommitPromote
      <4> QED
        BY <2>1, <3>1, <4>1, <2>2 DEF NoEventBurnt
    <3> QED
      BY <3>2, <3>3
  <2> QED
    BY <2>2 DEF NoEventBurnt
<1>3. CASE Expire(s)
  <2>1. status' = [r \in Runs |-> IF Late(r) THEN "skipped" ELSE status[r]] /\ UNCHANGED events
    BY <1>3 DEF Expire
  <2> QED
    BY <2>1, EventType DEF NoEventBurnt, Late
<1>4. CASE ~(CommitEnqueue(s) \/ CommitPromote(s) \/ Expire(s))
  <2>1. UNCHANGED <<status, events>>
    BY <1>4 DEF SchedulerStep, SchedulerFault, Start, BeginTick, PlanEnqueue, BeginPromote,
                LockRun, SkipCandidate, ReadNames, LockEvent, Unmet, Exit, Halt,
                AbortEnqueue, AbortPromote, AbortExpire, Stop, Crash
  <2> QED
    BY <2>1, OutcomeQuiet DEF NoOutcome
<1> QED
  BY <1>1, <1>2, <1>3, <1>4

LEMMA OutcomeCommand ==
  ASSUME TypeInv, TypeInv', NoEventBurnt, Command \/ Tick
  PROVE  NoEventBurnt'
<1> USE DEF TypeInv, tableVars
<1>1. UNCHANGED status
  BY DEF Command, InsertJob, SetEnabled, AddJobCondition, RemoveJobCondition, EmitEvent, Tick
<1>2. \/ UNCHANGED events
      \/ \E n \in Names : EmitEvent(n)
  BY DEF Command, InsertJob, SetEnabled, AddJobCondition, RemoveJobCondition, Tick
<1>3. \A i \in DOMAIN events' :
        \/ i \in DOMAIN events /\ events'[i].by = events[i].by
        \/ events'[i].by = NoRun
  BY <1>2, EmitKeepsRows
<1> QED
  BY <1>1, <1>3, OutcomeQuiet DEF NoOutcome

-----------------------------------------------------------------------------
(* The inductive invariant and what follows from it *)

IInv == TypeInv /\ LockInv /\ CronInv /\ NoEventBurnt

LEMMA IInvInit == Init => IInv
<1> SUFFICES ASSUME Init PROVE IInv
  OBVIOUS
<1>1. TypeInv
  BY TypeInit
<1>2. LockInv /\ CronInv /\ NoEventBurnt
  BY DEF Init, SchedulerInit, NoRows, LockInv, LocksExclude, HeldNames, CronInv,
         RunsAreOccurrences, InHand, NoEventBurnt
<1> QED
  BY <1>1, <1>2 DEF IInv

LEMMA IInvNext == IInv /\ [SchedulerNext]_vars => IInv'
<1> SUFFICES ASSUME IInv, [SchedulerNext]_vars PROVE IInv'
  OBVIOUS
<1> USE DEF IInv
<1>1. TypeInv'
  BY TypeNext
<1>2. CASE SchedulerNext
  <2>1. Grows
    BY <1>2, StepGrows
  <2>2. CASE \E s \in Schedulers : SchedulerStep(s) \/ SchedulerFault(s)
    BY <1>1, <2>1, <2>2, LockStep, CronStep, OutcomeStep DEF LockInv
  <2>3. CASE Command \/ Tick
    BY <1>1, <2>1, <2>3, LockCommand, CronCommand, OutcomeCommand
  <2> QED
    BY <1>2, <2>2, <2>3 DEF SchedulerNext
<1>3. CASE UNCHANGED vars
  <2> USE <1>3 DEF vars, schedulerVars, tableVars, localVars, enqueueVars, passVars
  <2>1. LockInv'
    BY DEF LockInv, LocksExclude, HeldNames
  <2>2. CronInv'
    BY DEF CronInv, RunsAreOccurrences, Scheduled, Covered, InHand
  <2>3. NoEventBurnt'
    BY DEF NoEventBurnt
  <2> QED
    BY <1>1, <2>1, <2>2, <2>3
<1> QED
  BY <1>2, <1>3

THEOREM Invariance == Spec => []IInv
BY IInvInit, IInvNext, PTL DEF Spec

\* No occurrence between the client's present when it added a job and the job's
\* next_run_at is without its row, however far the client's clock is off, with any number of overlapping schedulers and any faults.
THEOREM NoOccurrenceIsLost == Spec => []NoLostOccurrence
<1>1. IInv => NoLostOccurrence
  BY DEF IInv, CronInv, NoLostOccurrence, Scheduled, Covered
<1> QED
  BY <1>1, Invariance, PTL

\* Every row is an occurrence of its job that is due and later than what the
\* client that added the job took for the present, however wrong its clock was.
THEOREM RowsAreOccurrences == Spec => []RunsAreOccurrences
<1>1. IInv => RunsAreOccurrences
  BY DEF IInv, CronInv
<1> QED
  BY <1>1, Invariance, PTL

\* The SKIP LOCKED discipline keeps concurrent schedulers apart.
THEOREM SchedulersExclude == Spec => []LocksExclude
<1>1. IInv => LocksExclude
  BY DEF IInv, LockInv
<1> QED
  BY <1>1, Invariance, PTL

\* No event is consumed by a run that does not get queued.
THEOREM EventsAreSpentOnQueuedRuns == Spec => []NoEventBurnt
<1>1. IInv => NoEventBurnt
  BY DEF IInv
<1> QED
  BY <1>1, Invariance, PTL

-----------------------------------------------------------------------------
(* Scheduler implements RunLedger *)

LEMMA LedgerInit == Init => Ledger!Init
BY DEF Init, SchedulerInit, NoRows, Ledger!Init

LEMMA LedgerNext == IInv /\ [SchedulerNext]_vars => [Ledger!Next]_Ledger!vars
<1> SUFFICES ASSUME IInv, [SchedulerNext]_vars PROVE [Ledger!Next]_Ledger!vars
  OBVIOUS
<1> USE NoRunAssumption DEF IInv, TypeInv, TypeOK, LocalsMatchPc, tableVars
<1>1. ASSUME NEW s \in Schedulers, CommitEnqueue(s) PROVE [Ledger!Next]_Ledger!vars
  <2>1. item[s] \in Runs /\ plan[s].status \in {"waiting", "queued"} /\ events' = events
    BY <1>1 DEF CommitEnqueue
  <2>2. CASE status[item[s]] = "none"
    <3>1. Ledger!Create(item[s])
      BY <1>1, <2>1, <2>2 DEF CommitEnqueue, InsertRun, Ledger!Create
    <3> QED
      BY <2>1, <3>1 DEF Ledger!Next
  <2>3. CASE status[item[s]] # "none"
    BY <1>1, <2>1, <2>3 DEF CommitEnqueue, InsertRun, Ledger!vars
  <2> QED
    BY <2>2, <2>3
<1>2. ASSUME NEW s \in Schedulers, CommitPromote(s) PROVE [Ledger!Next]_Ledger!vars
  <2>1. run[s] \in Runs /\ status[run[s]] = "waiting" /\ held[s] \in SUBSET DOMAIN events
    BY <1>2 DEF CommitPromote, LockInv, LocksExclude
  <2>2. Ledger!Promote(run[s], held[s])
    BY <1>2, <2>1 DEF CommitPromote, Ledger!Promote, LockInv, LocksExclude, HeldNames
  <2> QED
    BY <2>1, <2>2 DEF Ledger!Next
<1>3. ASSUME NEW s \in Schedulers, Expire(s) PROVE [Ledger!Next]_Ledger!vars
  <2> DEFINE late == {r \in Runs : Late(r)}
  <2>1. Ledger!Expire(late)
    BY <1>3 DEF Expire, Ledger!Expire, Late
  <2> QED
    BY <2>1 DEF Ledger!Next
<1>4. ASSUME NEW n \in Names, EmitEvent(n) PROVE [Ledger!Next]_Ledger!vars
  BY <1>4 DEF EmitEvent, Ledger!Next, Ledger!Emit
<1>5. CASE UNCHANGED <<status, events>>
  BY <1>5 DEF Ledger!vars
<1> QED
  BY <1>1, <1>2, <1>3, <1>4, <1>5
     DEF SchedulerNext, SchedulerStep, SchedulerFault, Command, Start, BeginTick, PlanEnqueue,
         BeginPromote, LockRun, SkipCandidate, ReadNames, LockEvent, Unmet, Exit, Halt,
         AbortEnqueue, AbortPromote, AbortExpire, Stop, Crash, InsertJob, SetEnabled,
         AddJobCondition, RemoveJobCondition, Tick, vars, schedulerVars

\* Whatever the schedulers do is a behaviour of the abstract ledger: rows are
\* inserted once, only move forward, and take each event at most once.
THEOREM SchedulerImplementsLedger == Spec => ImplementsLedger
BY LedgerInit, LedgerNext, Invariance, PTL DEF Spec, ImplementsLedger, Ledger!Spec

-----------------------------------------------------------------------------
(* A gate opens on one event per condition *)

\* The names promoteRun read: those it has still to match, and those of the
\* events it has locked.
Sought(s) == names[s] \cup {events[i].name : i \in held[s]}

\* The events that a step consumes.
Spent == {i \in DOMAIN events : events[i].by = NoRun /\ events'[i].by # NoRun}

\* s promotes r: of every name it sought one event, and nothing else, goes to r.
Opens(s, r) ==
  /\ pc[s] = "match" /\ run[s] = r
  /\ {events[i].name : i \in Spent} = Sought(s)
  /\ \A i \in Spent : events'[i].by = r
  /\ \A i, k \in Spent : events[i].name = events[k].name => i = k

\* docs/event_gating.md "one unconsumed event per condition", conditions.go:136:
\* a waiting run is queued for one event of each condition its job had when
\* promoteRun read them, whatever rivals lock, users add or remove and calls
\* fail meanwhile; and no event is consumed for less.
MatchesWhole ==
  /\ \A s \in Schedulers : pc'[s] = "match" =>
       /\ run'[s] = run[s]
       /\ Sought(s)' = IF pc[s] = "match" THEN Sought(s) ELSE Conditions(run[s][1])
  /\ \A r \in Runs : status[r] = "waiting" /\ status'[r] = "queued" =>
       \E s \in Schedulers : Opens(s, r)
  /\ \A i \in Spent : LET r == events'[i].by
                     IN  status[r] = "waiting" /\ status'[r] = "queued"

GatesAreMatched == [][MatchesWhole]_vars

\* A scheduler's step is its own: the locals of the others stay.
LEMMA StepIsLocal ==
  ASSUME TypeInv, NEW s \in Schedulers, SchedulerStep(s) \/ SchedulerFault(s),
         NEW p \in Schedulers \ {s}
  PROVE  /\ pc'[p] = pc[p] /\ cands'[p] = cands[p] /\ run'[p] = run[p]
         /\ names'[p] = names[p] /\ held'[p] = held[p]
BY DEF SchedulerStep, SchedulerFault, Start, BeginTick, PlanEnqueue, CommitEnqueue, EndEnqueue,
       BeginPromote, LockRun, SkipCandidate, ReadNames, LockEvent, Unmet, CommitPromote, Expire,
       Exit, Halt, AbortEnqueue, AbortPromote, AbortExpire, Stop, Crash, EndPromote, Goto,
       TypeInv, TypeOK, passVars

\* Rows of events keep their place and their name.
LEMMA NamesStay ==
  ASSUME TypeInv, SchedulerNext
  PROVE  \A i \in DOMAIN events : i \in DOMAIN events' /\ events'[i].name = events[i].name
<1>1. ASSUME NEW s \in Schedulers, CommitPromote(s)
      PROVE  \A i \in DOMAIN events : i \in DOMAIN events' /\ events'[i].name = events[i].name
  <2> SUFFICES ASSUME NEW i \in DOMAIN events
               PROVE  i \in DOMAIN events' /\ events'[i].name = events[i].name
    OBVIOUS
  <2>1. events[i] \in Events
    BY EventType DEF TypeInv
  <2>2. events'[i] = IF i \in held[s] THEN [events[i] EXCEPT !.by = run[s]] ELSE events[i]
    BY <1>1 DEF CommitPromote
  <2>3. [events[i] EXCEPT !.by = run[s]].name = events[i].name
    BY <2>1 DEF Events
  <2>4. DOMAIN events' = DOMAIN events
    BY <1>1 DEF CommitPromote
  <2> QED
    BY <2>2, <2>3, <2>4
<1>2. ASSUME NEW n \in Names, EmitEvent(n)
      PROVE  \A i \in DOMAIN events : i \in DOMAIN events' /\ events'[i].name = events[i].name
  BY <1>2, EmitKeepsRows DEF TypeInv
<1>3. CASE UNCHANGED events
  BY <1>3
<1> QED
  BY <1>1, <1>2, <1>3
     DEF SchedulerNext, SchedulerStep, SchedulerFault, Command, Start, BeginTick, PlanEnqueue,
         CommitEnqueue, BeginPromote, LockRun, SkipCandidate, ReadNames, LockEvent, Unmet, Expire,
         Exit, Halt, AbortEnqueue, AbortPromote, AbortExpire, Stop, Crash, InsertJob, SetEnabled,
         AddJobCondition, RemoveJobCondition, Tick, tableVars

\* A scheduler whose own locals stay seeks what it sought.
LEMMA SoughtStays ==
  ASSUME TypeInv, SchedulerNext, NEW s \in Schedulers, names'[s] = names[s], held'[s] = held[s]
  PROVE  Sought(s)' = Sought(s)
<1>1. held[s] \subseteq DOMAIN events
  BY DEF TypeInv, TypeOK
<1> QED
  BY <1>1, NamesStay DEF Sought

\* Between the reading of the names and the commit, a name leaves the names to
\* match only for the event of that name that is locked.
LEMMA SoughtOwnStep ==
  ASSUME TypeInv, SchedulerNext, NEW s \in Schedulers, SchedulerStep(s) \/ SchedulerFault(s),
         pc'[s] = "match"
  PROVE  /\ run'[s] = run[s]
         /\ Sought(s)' = IF pc[s] = "match" THEN Sought(s) ELSE Conditions(run[s][1])
<1> USE DEF TypeInv, TypeOK, LocalsMatchPc
<1>1. CASE ReadNames(s)
  <2>1. pc[s] = "read" /\ run' = run /\ held'[s] = {} /\ names'[s] = Conditions(run[s][1])
    BY <1>1 DEF ReadNames, Conditions
  <2> QED
    BY <2>1 DEF Sought
<1>2. CASE LockEvent(s)
  <2>1. PICK n \in names[s], i \in DOMAIN events :
          /\ i \in Takeable(s, n)
          /\ held'[s] = held[s] \cup {i} /\ names'[s] = names[s] \ {n}
    BY <1>2 DEF LockEvent, Takeable, Unconsumed
  <2>2. events[i].name = n /\ events' = events /\ run' = run /\ pc[s] = "match"
    BY <1>2, <2>1 DEF LockEvent, Takeable, Unconsumed, tableVars
  <2>3. Sought(s)' = Sought(s)
    BY <2>1, <2>2 DEF Sought
  <2> QED
    BY <2>2, <2>3
<1>3. CASE Stop(s)
  <2>1. UNCHANGED <<pc, run, names, held>>
    BY <1>3 DEF Stop, passVars
  <2> QED
    BY <2>1, SoughtStays
<1>4. ~ReadNames(s) /\ ~LockEvent(s) /\ ~Stop(s) => pc'[s] # "match"
  BY DEF SchedulerStep, SchedulerFault, Start, BeginTick, PlanEnqueue, CommitEnqueue, EndEnqueue,
         BeginPromote, LockRun, SkipCandidate, Unmet, CommitPromote, Expire, Exit, Halt,
         AbortEnqueue, AbortPromote, AbortExpire, Crash, Goto
<1> QED
  BY <1>1, <1>2, <1>3, <1>4

LEMMA SoughtNext ==
  ASSUME TypeInv, SchedulerNext, NEW s \in Schedulers, pc'[s] = "match"
  PROVE  /\ run'[s] = run[s]
         /\ Sought(s)' = IF pc[s] = "match" THEN Sought(s) ELSE Conditions(run[s][1])
<1>1. ASSUME NEW p \in Schedulers, SchedulerStep(p) \/ SchedulerFault(p), p # s
      PROVE  /\ run'[s] = run[s] /\ pc[s] = "match"
             /\ Sought(s)' = Sought(s)
  BY <1>1, StepIsLocal, SoughtStays
<1>2. CASE Command \/ Tick
  <2>1. UNCHANGED <<pc, run, names, held>>
    BY <1>2 DEF Command, InsertJob, SetEnabled, AddJobCondition, RemoveJobCondition, EmitEvent,
                Tick, localVars, passVars
  <2> QED
    BY <2>1, SoughtStays
<1> QED
  BY <1>1, <1>2, SoughtOwnStep DEF SchedulerNext

\* The commit of promoteRun is the only step that consumes or queues a waiting
\* run, and it does both.
LEMMA CommitOpens ==
  ASSUME IInv, NEW s \in Schedulers, CommitPromote(s)
  PROVE  /\ Spent = held[s] /\ Opens(s, run[s])
         /\ status[run[s]] = "waiting" /\ status'[run[s]] = "queued"
         /\ \A r \in Runs : r # run[s] => status'[r] = status[r]
<1> USE DEF IInv, TypeInv, TypeOK, LocalsMatchPc
<1>1. /\ pc[s] = "match" /\ names[s] = {} /\ run[s] \in Runs /\ held[s] \subseteq DOMAIN events
      /\ status' = [status EXCEPT ![run[s]] = "queued"]
  BY DEF CommitPromote
<1>2. status[run[s]] = "waiting" /\ \A i \in held[s] : events[i].by = NoRun
  BY <1>1 DEF LockInv, LocksExclude
<1>3. ASSUME NEW i \in DOMAIN events
      PROVE  /\ i \in held[s] => events'[i].by = run[s]
             /\ i \notin held[s] => events'[i] = events[i]
  <2>1. events[i] \in Events
    BY EventType
  <2>2. events'[i] = IF i \in held[s] THEN [events[i] EXCEPT !.by = run[s]] ELSE events[i]
    BY DEF CommitPromote
  <2>3. [events[i] EXCEPT !.by = run[s]].by = run[s]
    BY <2>1 DEF Events
  <2> QED
    BY <2>2, <2>3
<1>4. Spent = held[s]
  BY <1>1, <1>2, <1>3, NoRunAssumption DEF Spent
<1>5. Opens(s, run[s])
  BY <1>1, <1>3, <1>4 DEF Opens, Sought, LockInv, HeldNames
<1> QED
  BY <1>1, <1>2, <1>4, <1>5

\* Without the commit no run goes from waiting to queued and nothing is consumed.
LEMMA OnlyCommitOpens ==
  ASSUME IInv, SchedulerNext, \A s \in Schedulers : ~CommitPromote(s)
  PROVE  Spent = {} /\ \A r \in Runs : ~(status[r] = "waiting" /\ status'[r] = "queued")
<1> USE DEF IInv, TypeInv, TypeOK, LocalsMatchPc
<1> DEFINE Nothing == Spent = {} /\ \A r \in Runs : ~(status[r] = "waiting" /\ status'[r] = "queued")
<1>1. ASSUME NEW s \in Schedulers, CommitEnqueue(s) PROVE Nothing
  <2>1. UNCHANGED events /\ \A r \in Runs : status[r] = "waiting" => status'[r] = status[r]
    BY <1>1 DEF CommitEnqueue, InsertRun
  <2> QED
    BY <2>1 DEF Spent
<1>2. ASSUME NEW s \in Schedulers, Expire(s) PROVE Nothing
  BY <1>2 DEF Expire, tableVars, Spent
<1>3. ASSUME NEW n \in Names, EmitEvent(n) PROVE Nothing
  <2>1. UNCHANGED status /\ \A i \in DOMAIN events : events'[i] = events[i]
    BY <1>3, EmitKeepsRows DEF EmitEvent
  <2> QED
    BY <2>1 DEF Spent
<1>4. ASSUME UNCHANGED <<status, events>> PROVE Nothing
  BY <1>4 DEF Spent
<1> HIDE DEF Nothing
<1>5. ASSUME NEW s \in Schedulers, SchedulerStep(s) \/ SchedulerFault(s) PROVE Nothing
  BY <1>1, <1>2, <1>4, <1>5
     DEF SchedulerStep, SchedulerFault, Start, BeginTick, PlanEnqueue, BeginPromote, LockRun,
         SkipCandidate, ReadNames, LockEvent, Unmet, Exit, Halt, AbortEnqueue, AbortPromote,
         AbortExpire, Stop, Crash, tableVars
<1>6. ASSUME Command \/ Tick PROVE Nothing
  BY <1>3, <1>4, <1>6
     DEF Command, InsertJob, SetEnabled, AddJobCondition, RemoveJobCondition, Tick, tableVars
<1> QED
  BY <1>5, <1>6 DEF Nothing, SchedulerNext

LEMMA GateNext ==
  ASSUME IInv, SchedulerNext
  PROVE  MatchesWhole
<1>1. /\ \A r \in Runs : status[r] = "waiting" /\ status'[r] = "queued" =>
           \E s \in Schedulers : Opens(s, r)
      /\ \A i \in Spent : LET r == events'[i].by
                         IN  status[r] = "waiting" /\ status'[r] = "queued"
  <2>1. CASE \E s \in Schedulers : CommitPromote(s)
    <3>1. PICK s \in Schedulers : CommitPromote(s)
      BY <2>1
    <3> QED
      BY <3>1, CommitOpens DEF Opens
  <2> QED
    BY <2>1, OnlyCommitOpens
<1>2. ASSUME NEW s \in Schedulers, pc'[s] = "match"
      PROVE  /\ run'[s] = run[s]
             /\ Sought(s)' = IF pc[s] = "match" THEN Sought(s) ELSE Conditions(run[s][1])
  BY <1>2, SoughtNext DEF IInv
<1> QED
  BY <1>1, <1>2 DEF MatchesWhole

\* A promotion takes what the conditions ask for, all of it and nothing more,
\* with any number of schedulers and any faults.
THEOREM GatesOpenWhole == Spec => GatesAreMatched
<1>1. IInv /\ [SchedulerNext]_vars => [MatchesWhole]_vars
  BY GateNext
<1> QED
  BY <1>1, Invariance, PTL DEF Spec, GatesAreMatched

-----------------------------------------------------------------------------
(* Oldest event first *)

\* What is older than an event in hand, of its name, is spent or was in a rival's
\* hand when this one was taken.
OldestInHand ==
  \A s \in Schedulers : \A i \in held[s] : \A k \in DOMAIN events :
    k < i /\ events[k].name = events[i].name => events[k].by # NoRun \/ k \in overtaken

OrderInv == OldestEventFirst /\ OldestInHand

LEMMA OrderStep ==
  ASSUME TypeInv, OrderInv, Overtakes,
         NEW s \in Schedulers, SchedulerStep(s) \/ SchedulerFault(s)
  PROVE  OrderInv'
<1> USE DEF TypeInv, TypeOK, tableVars, passVars
<1>0. overtaken \subseteq overtaken' /\ \A p \in Schedulers : Overtaken(p) \subseteq overtaken'
  BY DEF Overtakes
<1>1. CASE LockEvent(s)
  <2>1. PICK n \in Names, i \in DOMAIN events :
          /\ i \in Takeable(s, n) /\ \A k \in Takeable(s, n) : i <= k
          /\ held' = [held EXCEPT ![s] = @ \cup {i}]
    BY <1>1 DEF LockEvent, Takeable, Unconsumed
  <2>2. events[i].name = n /\ i \in Nat /\ DOMAIN events \subseteq Nat
    BY <2>1 DEF Takeable, Unconsumed
  <2>3. events' = events
    BY <1>1 DEF LockEvent
  <2>4. i \notin held[s] => \A k \in DOMAIN events :
          k < i /\ events[k].name = n => events[k].by # NoRun \/ k \in overtaken'
    <3> SUFFICES ASSUME i \notin held[s], NEW k \in DOMAIN events,
                        k < i, events[k].name = n, events[k].by = NoRun
                 PROVE  k \in overtaken'
      OBVIOUS
    <3>1. k \notin Takeable(s, n)
      BY <2>1, <2>2
    <3>2. k \in LockedEvents(s)
      BY <3>1 DEF Takeable, Unconsumed
    <3>3. i \in held'[s] \ held[s]
      BY <2>1
    <3> QED
      BY <1>0, <2>2, <3>2, <3>3 DEF Overtaken
  <2>5. OldestInHand'
    BY <1>0, <2>1, <2>2, <2>3, <2>4 DEF OrderInv, OldestInHand
  <2> QED
    BY <1>0, <2>3, <2>5 DEF OrderInv, OldestEventFirst
<1>2. CASE CommitPromote(s)
  <2>1. run[s] \in Runs /\ run[s] # NoRun /\ held[s] \in SUBSET DOMAIN events
    BY <1>2, NoRunAssumption DEF CommitPromote, LocalsMatchPc
  <2>2. /\ DOMAIN events' = DOMAIN events
        /\ \A i \in DOMAIN events :
             events'[i] = IF i \in held[s] THEN [events[i] EXCEPT !.by = run[s]] ELSE events[i]
    BY <1>2, <2>1, ConsumeKeepsRows DEF CommitPromote
  <2>3. \A i \in DOMAIN events :
          /\ events'[i].name = events[i].name
          /\ events'[i].by = IF i \in held[s] THEN run[s] ELSE events[i].by
    BY <2>2, EventType DEF Events
  <2>4. \A p \in Schedulers : held'[p] \subseteq held[p]
    BY <1>2 DEF CommitPromote, EndPromote
  <2>5. OldestEventFirst'
    BY <1>0, <2>1, <2>2, <2>3 DEF OrderInv, OldestEventFirst, OldestInHand
  <2>6. OldestInHand'
    BY <1>0, <2>1, <2>2, <2>3, <2>4 DEF OrderInv, OldestInHand
  <2> QED
    BY <2>5, <2>6 DEF OrderInv
<1>3. CASE ~(LockEvent(s) \/ CommitPromote(s))
  <2>1. events' = events /\ \A p \in Schedulers : held'[p] \in {held[p], {}}
    BY <1>3 DEF SchedulerStep, SchedulerFault, Start, BeginTick, PlanEnqueue, CommitEnqueue,
                InsertRun, BeginPromote, LockRun, SkipCandidate, ReadNames, Unmet, Expire, Exit,
                Halt, AbortEnqueue, AbortPromote, AbortExpire, Stop, Crash, EndPromote
  <2> QED
    BY <1>0, <2>1 DEF OrderInv, OldestEventFirst, OldestInHand
<1> QED
  BY <1>1, <1>2, <1>3

LEMMA OrderCommand ==
  ASSUME TypeInv, TypeInv', OrderInv, Overtakes, Command \/ Tick
  PROVE  OrderInv'
<1> USE DEF tableVars, localVars, passVars
<1>0. overtaken \subseteq overtaken'
  BY DEF Overtakes
<1>1. UNCHANGED held
  BY DEF Command, InsertJob, SetEnabled, AddJobCondition, RemoveJobCondition, EmitEvent, Tick
<1>2. CASE UNCHANGED events
  BY <1>0, <1>1, <1>2 DEF OrderInv, OldestEventFirst, OldestInHand
<1>3. CASE \E n \in Names : EmitEvent(n)
  <2>1. PICK n \in Names : EmitEvent(n)
    BY <1>3
  <2>2. /\ DOMAIN events = 1 .. Len(events) /\ Len(events) \in Nat
        /\ DOMAIN events' = 1 .. Len(events) + 1
        /\ \A i \in DOMAIN events : events'[i] = events[i]
        /\ events'[Len(events) + 1].by = NoRun
    BY <2>1 DEF EmitEvent, TypeInv, TypeOK
  <2>3. \A s \in Schedulers : held[s] \subseteq DOMAIN events
    BY DEF TypeInv, TypeOK
  <2>4. OldestEventFirst'
    BY <1>0, <2>2 DEF OrderInv, OldestEventFirst
  <2>5. OldestInHand'
    BY <1>0, <1>1, <2>2, <2>3 DEF OrderInv, OldestInHand
  <2> QED
    BY <2>4, <2>5 DEF OrderInv
<1> QED
  BY <1>2, <1>3 DEF Command, InsertJob, SetEnabled, AddJobCondition, RemoveJobCondition, Tick

LEMMA ReadyTypes == ReadySpec => []TypeInv
<1>1. ReadyInit => TypeInv
  BY TypeInit DEF ReadyInit
<1>2. TypeInv /\ [ReadyNext]_readyVars => TypeInv'
  BY TypeNext DEF ReadyNext, readyVars
<1> QED
  BY <1>1, <1>2, PTL DEF ReadySpec

\* However many schedulers run, fail, crash and start again, no event is consumed
\* before an older one of its name, unless a rival held the older one when the
\* newer one was taken.
THEOREM OldestFirst == ReadySpec => []OldestEventFirst
<1>1. ReadyInit => OrderInv
  BY DEF ReadyInit, Init, SchedulerInit, OrderInv, OldestEventFirst, OldestInHand
<1>2. TypeInv /\ TypeInv' /\ OrderInv /\ [ReadyNext]_readyVars => OrderInv'
  <2> SUFFICES ASSUME TypeInv, TypeInv', OrderInv, [ReadyNext]_readyVars PROVE OrderInv'
    OBVIOUS
  <2>1. CASE UNCHANGED readyVars
    BY <2>1 DEF OrderInv, OldestEventFirst, OldestInHand, readyVars, vars, schedulerVars, tableVars,
                localVars, passVars
  <2> QED
    BY <2>1, OrderStep, OrderCommand DEF ReadyNext, SchedulerNext
<1>3. OrderInv => OldestEventFirst
  BY DEF OrderInv
<1> QED
  BY <1>1, <1>2, <1>3, ReadyTypes, PTL DEF ReadySpec

\* A scheduler that is alone never overtakes.
OneScheduler == \A s, p \in Schedulers : s = p
NoneOvertaken == overtaken = {}

\* With one scheduler events are consumed oldest first, without exception.
THEOREM OldestFirstAlone == ASSUME OneScheduler PROVE ReadySpec => []NoneOvertaken
<1>1. ReadyInit => NoneOvertaken
  BY DEF ReadyInit, NoneOvertaken
<1>2. NoneOvertaken /\ [ReadyNext]_readyVars => NoneOvertaken'
  BY DEF OneScheduler, NoneOvertaken, ReadyNext, readyVars, Overtakes, Overtaken, LockedEvents
<1> QED
  BY <1>1, <1>2, PTL DEF ReadySpec

-----------------------------------------------------------------------------
(* Promotion beats expiry *)

InFlight == {"promote", "read", "match"}
Reach(s) == {r \in Runs : InReach(s, r)}

\* A run that has been in reach since the pass began is still a candidate, or in
\* hand.
ReadyInv ==
  \A s \in Schedulers :
    /\ ready[s] # {} => pc[s] \in InFlight
    /\ ready[s] \subseteq Reach(s)
    /\ ready[s] \subseteq cands[s] \cup {run[s]}

\* The ghost only shrinks, but for the moment the pass begins.
LEMMA ReadyShrinks ==
  ASSUME ReadyInv, StillReady, NEW s \in Schedulers
  PROVE  /\ ready'[s] # {} => pc'[s] \in InFlight /\ ~AbortPromote(s)
         /\ PassBegins(s) \/ ready'[s] \subseteq ready[s]
         /\ \A r \in ready'[s] : r \in Runs /\ InReach(s, r)'
         /\ ready'[s] \subseteq Reach(s)'
<1>1. ready'[s] = IF ~InPass(s) \/ AbortPromote(s) THEN {}
                  ELSE {r \in (IF PassBegins(s) THEN Runs ELSE ready[s]) : InReach(s, r)'}
  BY DEF StillReady
<1>2. ready[s] \subseteq Runs
  BY DEF ReadyInv, Reach
<1> HIDE DEF AbortPromote
<1>3. \A r \in ready'[s] : r \in Runs /\ InReach(s, r)'
  BY <1>1, <1>2
<1>4. ready'[s] \subseteq Reach(s)'
  BY <1>3 DEF Reach
<1> QED
  BY <1>1, <1>2, <1>3, <1>4 DEF InPass, InFlight

\* A step of a rival, of a user or of the clock changes nothing in the scheduler.
LEMMA ReadyElsewhere ==
  ASSUME ReadyInv, StillReady, NEW s \in Schedulers,
         pc'[s] = pc[s], cands'[s] = cands[s], run'[s] = run[s]
  PROVE  /\ ready'[s] # {} => pc'[s] \in InFlight
         /\ ready'[s] \subseteq Reach(s)'
         /\ ready'[s] \subseteq cands'[s] \cup {run'[s]}
<1>1. ~PassBegins(s)
  BY DEF PassBegins
<1>2. ready[s] \subseteq cands[s] \cup {run[s]}
  BY DEF ReadyInv
<1> QED
  BY <1>1, <1>2, ReadyShrinks

LEMMA ReadyOwnStep ==
  ASSUME TypeInv, ReadyInv, StillReady, NEW s \in Schedulers, SchedulerStep(s) \/ SchedulerFault(s)
  PROVE  ready'[s] \subseteq cands'[s] \cup {run'[s]}
<1> USE DEF TypeInv, TypeOK, InFlight, tableVars, enqueueVars, passVars
<1>1. /\ ready'[s] # {} => pc'[s] \in InFlight /\ ~AbortPromote(s)
      /\ PassBegins(s) \/ ready'[s] \subseteq ready[s]
      /\ \A r \in ready'[s] : r \in Runs /\ InReach(s, r)'
  BY ReadyShrinks
<1>2. /\ ready[s] \subseteq cands[s] \cup {run[s]}
      /\ \A r \in ready[s] : InReach(s, r)
  BY DEF ReadyInv, Reach
<1>3. \A r \in ready'[s] : r # NoRun /\ status'[r] = "waiting"
  BY <1>1, NoRunAssumption DEF InReach, Lockable
<1>4. CASE BeginPromote(s)
  BY <1>1, <1>3, <1>4 DEF BeginPromote, Goto, RowsWith
<1>5. CASE LockRun(s)
  <2>1. ready'[s] \subseteq ready[s]
    BY <1>1, <1>5 DEF LockRun, PassBegins
  <2>2. run[s] = NoRun
    BY <1>5 DEF LockRun, LocalsMatchPc
  <2> QED
    BY <1>2, <1>3, <1>5, <2>1, <2>2 DEF LockRun, Goto
<1>6. CASE SkipCandidate(s)
  <2>1. ready'[s] \subseteq ready[s] /\ run' = run
    BY <1>1, <1>6 DEF SkipCandidate, PassBegins
  <2>2. PICK r \in Oldest(cands[s]) : ~Lockable(s, r) /\ cands' = [cands EXCEPT ![s] = @ \ {r}]
    BY <1>6 DEF SkipCandidate
  <2>3. r \notin ready[s]
    BY <1>2, <2>2 DEF InReach
  <2> QED
    BY <1>2, <2>1, <2>2, <2>3
<1>7. CASE Unmet(s)
  <2>1. ready'[s] \subseteq ready[s] /\ cands' = cands /\ pc[s] = "match"
    BY <1>1, <1>7 DEF Unmet, PassBegins, Goto
  <2>2. PICK n \in names[s] : Takeable(s, n) = {}
    BY <1>7 DEF Unmet
  <2>3. run[s] \notin ready[s]
    BY <1>2, <2>1, <2>2 DEF InReach, Wants
  <2> QED
    BY <1>2, <2>1, <2>3
<1>8. CASE CommitPromote(s)
  <2>1. ready'[s] \subseteq ready[s] /\ cands' = cands
    BY <1>1, <1>8 DEF CommitPromote, PassBegins, Goto
  <2>2. run[s] \in Runs /\ status'[run[s]] = "queued"
    BY <1>8 DEF CommitPromote, LocalsMatchPc
  <2> QED
    BY <1>2, <1>3, <2>1, <2>2
<1>9. CASE ReadNames(s) \/ LockEvent(s) \/ Stop(s)
  <2>1. cands' = cands /\ run' = run /\ ~PassBegins(s)
    BY <1>9 DEF ReadNames, LockEvent, Stop, PassBegins, Goto
  <2> QED
    BY <1>1, <1>2, <2>1
<1>10. CASE \/ Start(s) \/ BeginTick(s) \/ PlanEnqueue(s) \/ CommitEnqueue(s) \/ Expire(s) \/ Exit(s)
            \/ AbortEnqueue(s) \/ AbortExpire(s) \/ Crash(s)
  <2>1. pc'[s] \notin InFlight
    BY <1>10 DEF Start, BeginTick, PlanEnqueue, CommitEnqueue, EndEnqueue, Expire, Exit, Halt, Goto,
                 AbortEnqueue, AbortExpire, Crash
  <2> QED
    BY <1>1, <2>1
<1>11. CASE AbortPromote(s)
  BY <1>1, <1>11
<1> QED
  BY <1>4, <1>5, <1>6, <1>7, <1>8, <1>9, <1>10, <1>11 DEF SchedulerStep, SchedulerFault

LEMMA ReadyNextInv == TypeInv /\ ReadyInv /\ [ReadyNext]_readyVars => ReadyInv'
<1> SUFFICES ASSUME TypeInv, ReadyInv, [ReadyNext]_readyVars
             PROVE  ReadyInv'
  OBVIOUS
<1>1. CASE UNCHANGED readyVars
  <2>1. UNCHANGED <<status, events, conds, pc, cands, run, names, held, ready>>
    BY <1>1 DEF readyVars, vars, schedulerVars, tableVars, localVars, passVars
  <2>2. \A s \in Schedulers : Reach(s)' = Reach(s)
    BY <2>1 DEF Reach, InReach, Wants, Lockable, LockedRuns, LockedEvents, Takeable, Unconsumed,
                Conditions
  <2> QED
    BY <2>1, <2>2 DEF ReadyInv
<1>2. ASSUME StillReady, NEW s \in Schedulers, SchedulerStep(s) \/ SchedulerFault(s)
      PROVE  ReadyInv'
  <2>1. \A p \in Schedulers \ {s} :
          /\ ready'[p] # {} => pc'[p] \in InFlight
          /\ ready'[p] \subseteq Reach(p)'
          /\ ready'[p] \subseteq cands'[p] \cup {run'[p]}
    BY <1>2, StepIsLocal, ReadyElsewhere
  <2>2. /\ ready'[s] # {} => pc'[s] \in InFlight
        /\ ready'[s] \subseteq Reach(s)'
        /\ ready'[s] \subseteq cands'[s] \cup {run'[s]}
    BY <1>2, ReadyShrinks, ReadyOwnStep
  <2> QED
    BY <2>1, <2>2 DEF ReadyInv
<1>3. ASSUME StillReady, Command \/ Tick
      PROVE  ReadyInv'
  <2>1. UNCHANGED <<pc, cands, run>>
    BY <1>3 DEF Command, InsertJob, SetEnabled, AddJobCondition, RemoveJobCondition, EmitEvent, Tick,
                localVars, passVars
  <2> QED
    BY <1>3, <2>1, ReadyElsewhere DEF ReadyInv
<1> QED
  BY <1>1, <1>2, <1>3 DEF ReadyNext, SchedulerNext

\* Only the scheduler's own expiry, done or failed, ends its pass.
LEMMA ExpiresAtEnd ==
  ASSUME TypeInv, SchedulerNext, NEW s \in Schedulers, Expires(s)
  PROVE  Expire(s) \/ AbortExpire(s)
<1>1. pc[s] = "promote" /\ pc'[s] = "idle"
  BY DEF Expires
<1>2. ~(Command \/ Tick)
  BY <1>1 DEF Command, InsertJob, SetEnabled, AddJobCondition, RemoveJobCondition, EmitEvent,
              Tick, localVars
<1>3. SchedulerStep(s) \/ SchedulerFault(s)
  BY <1>1, <1>2, StepIsLocal DEF SchedulerNext
<1> QED
  BY <1>1, <1>3 DEF TypeInv, TypeOK, SchedulerStep, SchedulerFault, Start, BeginTick,
       PlanEnqueue, CommitEnqueue, EndEnqueue, BeginPromote, LockRun, SkipCandidate, ReadNames,
       LockEvent, Unmet, CommitPromote, Exit, Halt, AbortEnqueue, AbortPromote, Stop, Crash, Goto

\* docs/event_gating.md "Promotion beats expiry", for any number of schedulers
\* and of failed calls: what a scheduler could promote since its pass began is
\* not skipped at the end of the pass.
THEOREM PromotionFirstAlways == ReadySpec => PromotionBeatsExpiry
<1>1. ReadyInit => ReadyInv
  BY DEF ReadyInit, ReadyInv
<1>2. TypeInv /\ ReadyInv /\ [ReadyNext]_readyVars
        => [\A s \in Schedulers : Expires(s) =>
              \A r \in ready[s] : status'[r] # "skipped"]_readyVars
  <2> SUFFICES ASSUME TypeInv, ReadyInv, ReadyNext, NEW s \in Schedulers, Expires(s)
               PROVE  ready[s] = {}
    OBVIOUS
  <2>1. Expire(s) \/ AbortExpire(s)
    BY ExpiresAtEnd DEF ReadyNext
  <2>2. cands[s] = {} /\ run[s] = NoRun
    BY <2>1 DEF Expire, AbortExpire, TypeInv, LocalsMatchPc
  <2> QED
    BY <2>2, NoRunAssumption DEF ReadyInv, Reach
<1> QED
  BY <1>1, <1>2, ReadyNextInv, ReadyTypes, PTL DEF ReadySpec, PromotionBeatsExpiry

-----------------------------------------------------------------------------
(* The waits of the conditions are kept *)

\* The plan in hand is waitPlan's for the waits that were read.
PlansAreRead ==
  \A s \in Schedulers : pc[s] = "commit" =>
    seen[s] \in SUBSET Waits /\ plan[s] = WaitPlan(item[s][2], seen[s])

\* A row has the deadline of the waits that its inserting transaction read.
RowsAsPlanned ==
  \A r \in Runs : status[r] # "none" =>
    gates[r] \in SUBSET Waits /\ deadline[r] = WaitPlan(r[2], gates[r]).deadline

WaitsInv == PlansAreRead /\ RowsAsPlanned /\ WaitsAreKept

\* What waitPlan's deadline says of the windows it was computed from.
LEMMA DeadlineIsLongest ==
  ASSUME NEW t \in Times, NEW ws \in SUBSET Waits, WaitPlan(t, ws).deadline # Null
  PROVE  /\ ws # {} /\ 0 \notin ws
         /\ \A w \in ws : t + w <= WaitPlan(t, ws).deadline
<1>1. ws # {} /\ 0 \notin ws
  BY DEF WaitPlan
<1> DEFINE longest == CHOOSE w \in ws : \A v \in ws : v <= w
<1>2. longest \in ws /\ \A v \in ws : v <= longest
  BY <1>1, WaitsAssumption
<1>3. WaitPlan(t, ws).deadline = t + longest
  BY <1>1 DEF WaitPlan
<1> HIDE DEF longest
<1>4. ws \subseteq Int /\ t \in Int
  BY SchedulerAssumption, MaxTimeAssumption DEF Times
<1> QED
  BY <1>1, <1>2, <1>3, <1>4

\* A transaction that stays open keeps what it has read.
LEMMA PlanElsewhere ==
  ASSUME PlansAreRead, SeesWaits, NEW s \in Schedulers,
         pc'[s] = pc[s], item'[s] = item[s], plan'[s] = plan[s], pc'[s] = "commit"
  PROVE  seen'[s] \in SUBSET Waits /\ plan'[s] = WaitPlan(item'[s][2], seen'[s])
<1>1. seen'[s] = seen[s]
  BY DEF SeesWaits, ReadsWaits
<1> QED
  BY <1>1 DEF PlansAreRead

LEMMA PlansStep ==
  ASSUME TypeInv, PlansAreRead, SeesWaits,
         NEW s \in Schedulers, SchedulerStep(s) \/ SchedulerFault(s)
  PROVE  PlansAreRead'
<1> USE DEF TypeInv, TypeOK, Goto, tableVars, enqueueVars
<1>1. \A p \in Schedulers \ {s} : pc'[p] = pc[p] /\ item'[p] = item[p] /\ plan'[p] = plan[p]
  BY DEF SchedulerStep, SchedulerFault, Start, BeginTick, PlanEnqueue, CommitEnqueue, EndEnqueue,
         BeginPromote, LockRun, SkipCandidate, ReadNames, LockEvent, Unmet, CommitPromote, Expire,
         Exit, Halt, AbortEnqueue, AbortPromote, AbortExpire, Stop, Crash
<1>2. CASE PlanEnqueue(s)
  <2>1. PICK d \in due[s] :
          /\ item' = [item EXCEPT ![s] = d]
          /\ plan' = [plan EXCEPT ![s] = WaitPlan(d[2], WaitsOf(d[1]))]
    BY <1>2 DEF PlanEnqueue
  <2>2. d \in Runs /\ d[1] \in Jobs
    BY RunIsPair
  <2>3. ReadsWaits(s) /\ item'[s] = d
    BY <1>2, <2>1 DEF PlanEnqueue, ReadsWaits
  <2>4. seen'[s] = WaitsOf(d[1]) /\ seen'[s] \in SUBSET Waits
    BY <2>2, <2>3, WaitsOfType DEF SeesWaits
  <2>5. plan'[s] = WaitPlan(item'[s][2], seen'[s])
    BY <2>1, <2>3, <2>4
  <2> QED
    BY <1>1, <2>4, <2>5, PlanElsewhere DEF PlansAreRead
<1>3. CASE Stop(s)
  <2>1. UNCHANGED <<pc, item, plan>>
    BY <1>3 DEF Stop
  <2> QED
    BY <2>1, PlanElsewhere DEF PlansAreRead
<1>4. ~PlanEnqueue(s) /\ ~Stop(s) => pc'[s] # "commit"
  BY DEF SchedulerStep, SchedulerFault, Start, BeginTick, CommitEnqueue, EndEnqueue, BeginPromote,
         LockRun, SkipCandidate, ReadNames, LockEvent, Unmet, CommitPromote, Expire, Exit, Halt,
         AbortEnqueue, AbortPromote, AbortExpire, Crash
<1> QED
  BY <1>1, <1>2, <1>3, <1>4, PlanElsewhere DEF PlansAreRead

\* A step that inserts no row and changes no deadline: what is skipped by it was
\* late.
NoInsert ==
  /\ \A r \in Runs : status'[r] # "none" => status[r] # "none"
  /\ UNCHANGED deadline
  /\ \A r \in Runs : status'[r] = "skipped" => status[r] = "skipped" \/ Late(r)
  /\ now \in Nat /\ now' \in Nat /\ now <= now'

LEMMA RowsKept ==
  ASSUME RowsAsPlanned, WaitsAreKept, Gates, NoInsert
  PROVE  RowsAsPlanned' /\ WaitsAreKept'
<1>1. \A r \in Runs : status[r] # "none" => gates'[r] = gates[r]
  BY DEF Gates
<1>2. RowsAsPlanned'
  BY <1>1 DEF RowsAsPlanned, NoInsert
<1>3. ASSUME NEW r \in Runs, status'[r] = "skipped"
      PROVE  /\ gates'[r] # {} /\ 0 \notin gates'[r]
             /\ \A w \in gates'[r] : r[2] + w <= now'
  <2>0. status[r] # "none"
    BY <1>3 DEF NoInsert
  <2>1. gates'[r] = gates[r] /\ gates[r] \subseteq Int
    <3>1. gates[r] \in SUBSET Waits
      BY <2>0 DEF RowsAsPlanned
    <3>2. Waits \subseteq Int
      BY SchedulerAssumption
    <3> QED
      BY <1>1, <2>0, <3>1, <3>2
  <2>2. r[2] \in Times /\ r[2] \in Int
    BY RunIsPair, MaxTimeAssumption DEF Times
  <2>3. /\ gates[r] # {} /\ 0 \notin gates[r]
        /\ \A w \in gates[r] : r[2] + w <= now
    <3>1. CASE status[r] = "skipped"
      BY <3>1 DEF WaitsAreKept
    <3>2. CASE Late(r)
      <4>1. deadline[r] = WaitPlan(r[2], gates[r]).deadline /\ gates[r] \in SUBSET Waits
        BY <2>0 DEF RowsAsPlanned
      <4>2. deadline[r] # Null /\ deadline[r] <= now
        BY <3>2 DEF Late
      <4>3. /\ gates[r] # {} /\ 0 \notin gates[r]
            /\ \A w \in gates[r] : r[2] + w <= deadline[r]
        BY <2>2, <4>1, <4>2, DeadlineIsLongest
      <4>4. deadline[r] \in Int
        BY <2>2, <4>1, <4>2, WaitPlanType DEF Null
      <4> QED
        BY <2>1, <2>2, <4>2, <4>3, <4>4 DEF NoInsert
    <3> QED
      BY <1>3, <3>1, <3>2 DEF NoInsert
  <2> QED
    BY <2>1, <2>2, <2>3 DEF NoInsert
<1> QED
  BY <1>2, <1>3 DEF WaitsAreKept

\* CommitEnqueue inserts the run its scheduler planned, if it is not there.
LEMMA RowsInserted ==
  ASSUME TypeInv, PlansAreRead, RowsAsPlanned, WaitsAreKept, Gates,
         NEW s \in Schedulers, CommitEnqueue(s)
  PROVE  RowsAsPlanned' /\ WaitsAreKept'
<1> USE NoRunAssumption DEF TypeInv, TypeOK, LocalsMatchPc
<1>1. /\ item[s] \in Runs /\ plan[s].status \in {"waiting", "queued"} /\ pc[s] = "commit"
      /\ pc' = [pc EXCEPT ![s] = "enqueue"] /\ now' = now
  BY DEF CommitEnqueue, EndEnqueue, Goto
<1>2. CASE status[item[s]] # "none"
  <2>1. UNCHANGED <<status, deadline>> /\ now \in Nat /\ now <= now
    BY <1>2, MaxTimeAssumption DEF CommitEnqueue, InsertRun, Times
  <2> QED
    BY <1>1, <2>1, RowsKept DEF NoInsert
<1>3. CASE status[item[s]] = "none"
  <2>1. /\ status' = [status EXCEPT ![item[s]] = plan[s].status]
        /\ deadline' = [deadline EXCEPT ![item[s]] = plan[s].deadline]
    BY <1>3 DEF CommitEnqueue, InsertRun
  <2>2. {p \in Schedulers : Inserts(p, item[s])} = {s}
    BY <1>1 DEF Inserts
  <2>3. gates'[item[s]] = seen[s]
    <3>1. gates'[item[s]] = UNION {seen[p] : p \in {q \in Schedulers : Inserts(q, item[s])}}
      BY <1>1, <1>3, <2>1 DEF Gates
    <3> DEFINE inserting == {q \in Schedulers : Inserts(q, item[s])}
    <3>2. inserting = {s}
      BY <2>2
    <3> HIDE DEF inserting
    <3>3. UNION {seen[p] : p \in inserting} = seen[s]
      BY <3>2
    <3> QED
      BY <3>1, <3>3 DEF inserting
  <2>4. \A r \in Runs \ {item[s]} :
          status'[r] = status[r] /\ deadline'[r] = deadline[r] /\ gates'[r] = gates[r]
    BY <2>1 DEF Gates
  <2>5. RowsAsPlanned'
    <3>1. seen[s] \in SUBSET Waits /\ plan[s] = WaitPlan(item[s][2], seen[s])
      BY <1>1 DEF PlansAreRead
    <3>2. deadline'[item[s]] = WaitPlan(item[s][2], gates'[item[s]]).deadline
      BY <1>1, <2>1, <2>3, <3>1
    <3> QED
      BY <2>3, <2>4, <3>1, <3>2 DEF RowsAsPlanned
  <2>6. WaitsAreKept'
    <3>1. status'[item[s]] # "skipped"
      BY <1>1, <2>1
    <3>2. ASSUME NEW r \in Runs, status'[r] = "skipped"
          PROVE  /\ gates'[r] # {} /\ 0 \notin gates'[r]
                 /\ \A w \in gates'[r] : r[2] + w <= now'
      <4>1. r \in Runs \ {item[s]}
        BY <3>1, <3>2
      <4>2. status[r] = "skipped" /\ gates'[r] = gates[r]
        BY <2>4, <3>2, <4>1
      <4>3. now' = now
        BY <1>1
      <4> HIDE DEF TypeInv, TypeOK, LocalsMatchPc
      <4> QED
        BY <4>2, <4>3 DEF WaitsAreKept
    <3> QED
      BY <3>2 DEF WaitsAreKept
  <2> QED
    BY <2>5, <2>6
<1> QED
  BY <1>2, <1>3

LEMMA WaitsNext ==
  ASSUME IInv, WaitsInv, ReadyNext
  PROVE  WaitsInv'
<1> USE DEF IInv, WaitsInv, ReadyNext
<1>0. now \in Nat /\ now <= now
  BY MaxTimeAssumption DEF TypeInv, TypeOK, Times
<1>1. ASSUME NEW s \in Schedulers, SchedulerStep(s) \/ SchedulerFault(s), ~CommitEnqueue(s)
      PROVE  NoInsert
  <2>1. CASE CommitPromote(s)
    BY <1>0, <2>1, NoRunAssumption
       DEF CommitPromote, NoInsert, LockInv, LocksExclude, TypeInv, TypeOK, LocalsMatchPc
  <2>2. CASE Expire(s)
    BY <1>0, <2>2 DEF Expire, NoInsert, Late, tableVars
  <2>3. CASE UNCHANGED <<status, deadline, now>>
    BY <1>0, <2>3 DEF NoInsert
  <2> QED
    BY <1>1, <2>1, <2>2, <2>3
       DEF SchedulerStep, SchedulerFault, Start, BeginTick, PlanEnqueue, BeginPromote, LockRun,
           SkipCandidate, ReadNames, LockEvent, Unmet, Exit, Halt, AbortEnqueue, AbortPromote,
           AbortExpire, Stop, Crash, tableVars
<1>2. CASE \E s \in Schedulers : SchedulerStep(s) \/ SchedulerFault(s)
  BY <1>1, <1>2, PlansStep, RowsKept, RowsInserted
<1>3. CASE Command \/ Tick
  <2>1. UNCHANGED <<status, deadline, pc, item, plan>>
    BY <1>3 DEF Command, InsertJob, SetEnabled, AddJobCondition, RemoveJobCondition, EmitEvent, Tick,
                tableVars, localVars, enqueueVars
  <2>2. now' \in Nat /\ now <= now'
    BY StepGrows, MaxTimeAssumption DEF Grows, Times
  <2>3. PlansAreRead'
    BY <2>1, PlanElsewhere DEF PlansAreRead
  <2> QED
    BY <1>0, <2>1, <2>2, <2>3, RowsKept DEF NoInsert
<1> QED
  BY <1>2, <1>3 DEF SchedulerNext

\* However conditions change between two statements and schedulers insert the
\* same run, a run is not skipped before the waits under which it was inserted are
\* over, and not at all if one of them is for ever.
THEOREM WaitsKept == ReadySpec => []WaitsAreKept
<1>1. ReadyInit => WaitsInv
  BY DEF ReadyInit, Init, SchedulerInit, NoRows, WaitsInv, PlansAreRead, RowsAsPlanned, WaitsAreKept
<1>2. ReadyInit => IInv
  BY IInvInit DEF ReadyInit
<1>3. IInv /\ [ReadyNext]_readyVars => IInv'
  BY IInvNext DEF ReadyNext, readyVars
<1>4. IInv /\ WaitsInv /\ [ReadyNext]_readyVars => WaitsInv'
  <2> SUFFICES ASSUME IInv, WaitsInv, UNCHANGED readyVars PROVE WaitsInv'
    BY WaitsNext
  <2> QED
    BY DEF WaitsInv, PlansAreRead, RowsAsPlanned, WaitsAreKept, readyVars, vars, schedulerVars,
           tableVars, localVars, enqueueVars
<1>5. WaitsInv => WaitsAreKept
  BY DEF WaitsInv
<1> QED
  BY <1>1, <1>2, <1>3, <1>4, <1>5, PTL DEF ReadySpec
=============================================================================
