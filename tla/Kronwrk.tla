------------------------------ MODULE Kronwrk ------------------------------
(***************************************************************************)
(* The whole control plane: any number of schedulers and workers that share *)
(* nothing but the tables.  The two components meet in job_runs.status.     *)
(***************************************************************************)
EXTENDS Scheduler, Worker

kronwrkVars == <<status, schedulerVars, workerVars>>

KronwrkInit == Init /\ WorkerInit

KronwrkNext ==
  \/ SchedulerNext /\ UNCHANGED workerVars
  \/ WorkerNext /\ UNCHANGED schedulerVars

KronwrkSpec == KronwrkInit /\ [][KronwrkNext]_kronwrkVars

\* A running scheduler keeps executing its loop to its end, and one that went
\* down is started again; workers as in FairWorkerSpec.
FairKronwrkSpec ==
  /\ KronwrkSpec
  /\ \A s \in Schedulers :
       WF_kronwrkVars((SchedulerStep(s) \/ Cancelled(s)) /\ UNCHANGED workerVars)
  /\ \A l \in Loops : WF_kronwrkVars(LoopStep(l) /\ UNCHANGED schedulerVars)
  /\ \A w \in Workers :
       WF_kronwrkVars((StartWorker(w) \/ ExitWorker(w)) /\ UNCHANGED schedulerVars)

-----------------------------------------------------------------------------
(* Properties *)

\* README.md: Kronwrk "survives restarts without double-running jobs".  The
\* shared tables, with schedulers inserting and promoting while workers claim
\* and finish, obey the abstract specification.
KronwrkLedger == INSTANCE RunLedger
KronwrkImplementsLedger == KronwrkLedger!Spec

\* An event is spent on a run that executes or may still: the run that consumed
\* it is on its way to a worker, in its hands, or ended by it.
SpentEventsReachWorkers ==
  \A i \in DOMAIN events :
    events[i].by # NoRun =>
      status[events[i].by] \in {"queued", "running"} \cup Outcomes

\* An occurrence of an enabled job, later than the present of the client that
\* added the job, is executed to its end once its time has come, unless its run
\* is gated (Scheduler.tick, Worker.loop).
DueOccurrencesEnd ==
  \A r \in Runs :
    (since[r[1]] # Null /\ since[r[1]] < r[2] /\ r[2] \in Occurs[r[1]] /\ r[2] <= now)
      ~> (status[r] \in Terminal \cup {"waiting"} \/ ~enabled[r[1]])
=============================================================================
