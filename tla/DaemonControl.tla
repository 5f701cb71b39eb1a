--------------------------- MODULE DaemonControl ---------------------------
(***************************************************************************)
(* `daemon start` and `daemon stop` (cmd/kronwrk/daemon.go): the shells of   *)
(* one machine look daemons up with pgrep, spawn and signal processes and    *)
(* write the *_requested rows of service_events, while the daemons come up,  *)
(* shut down, die and write their own rows.  A shell looks, acts and records *)
(* in separate steps, and nothing keeps two shells apart.                    *)
(***************************************************************************)
EXTENDS Naturals, FiniteSets

CONSTANTS
  Shells,     \* shell processes
  Services,   \* "scheduler" and "worker"
  Pids,       \* process ids, not reused
  Users,      \* the logins a session or a daemon connects as
  ByHand,     \* who starts a daemon directly, systemd or a person
  None,       \* no pid, service or login
  MaxRows     \* bound: rows of service_events that are not lost

ASSUME ControlAssumption ==
  ByHand \notin Shells /\ None \notin Pids \cup Users /\ MaxRows \in Nat

VARIABLES
  proc,       \* per pid: [at, svc, login, by, blind]
  term,       \* the pids that were sent a SIGTERM or SIGINT
  audit,      \* service_events: [pid, event, login]
  login,      \* of a shell's session
  pc,         \* where a shell is: "prompt", "spawn", "kill", "record"
  task        \* of a shell: [event, svc, pid, todo, blind], the command it is running

daemonVars == <<proc, term>>
shellVars == <<login, pc, task>>
controlVars == <<proc, term, audit, login, pc, task>>

\* A daemon from exec until its loop starts, from there on, and ended.
Stages == {"free", "starting", "up", "dead"}

Events == {"start", "stop", "start_requested", "stop_requested"}

NoProc == [at |-> "free", svc |-> None, login |-> None, by |-> ByHand, blind |-> FALSE]
NoTask == [event |-> "start_requested", svc |-> None, pid |-> None, todo |-> {},
           blind |-> FALSE]

\* daemonPIDs: what pgrep finds, whoever started it.
DaemonPids(svc) == {p \in Pids : proc[p].at \in {"starting", "up"} /\ proc[p].svc = svc}

\* LogServiceEvent stamps the login of the connection; its failure is a warning.
LogServiceEvent(p, event, u) ==
  \/ /\ Cardinality(audit) < MaxRows
     /\ audit' = audit \cup {[pid |-> p, event |-> event, login |-> u]}
  \/ UNCHANGED audit

-----------------------------------------------------------------------------
(* The shells *)

\* Mutant of StartLooks: the look-up that precedes a start is dropped.
StartLooksNowhere(s, svc) ==
  /\ pc[s] = "prompt"
  /\ pc' = [pc EXCEPT ![s] = "spawn"]
  /\ task' = [task EXCEPT ![s] = [@ EXCEPT !.event = "start_requested", !.svc = svc]]
  /\ UNCHANGED <<daemonVars, audit, login>>

\* daemonStartCmd goes on only if no daemon of the service runs.
StartLooks(s, svc) ==
  /\ pc[s] = "prompt" /\ DaemonPids(svc) = {}
  /\ task' = [task EXCEPT ![s] = [@ EXCEPT !.event = "start_requested", !.svc = svc]]
  /\ pc' = [pc EXCEPT ![s] = "spawn"]
  /\ UNCHANGED <<daemonVars, audit, login>>

\* pgrep fails, and daemonPIDs takes it to have found none: daemonStartCmd goes
\* on though a daemon runs.
StartBlind(s, svc) ==
  /\ pc[s] = "prompt" /\ DaemonPids(svc) # {}
  /\ task' = [task EXCEPT ![s] = [@ EXCEPT !.event = "start_requested", !.svc = svc,
                                           !.blind = TRUE]]
  /\ pc' = [pc EXCEPT ![s] = "spawn"]
  /\ UNCHANGED <<daemonVars, audit, login>>

\* Mutant of Spawn: the child keeps the DATABASE_URL of the environment.
SpawnInEnvironment(s, p) ==
  /\ pc[s] = "spawn" /\ proc[p].at = "free"
  /\ \E u \in Users :
       proc' = [proc EXCEPT ![p] = [at |-> "starting", svc |-> task[s].svc,
                                    login |-> u, by |-> s, blind |-> task[s].blind]]
  /\ pc' = [pc EXCEPT ![s] = "record"]
  /\ task' = [task EXCEPT ![s].pid = p]
  /\ UNCHANGED <<term, audit, login>>

\* child.Start() with the session's DATABASE_URL.
Spawn(s, p) ==
  /\ pc[s] = "spawn" /\ proc[p].at = "free"
  /\ proc' = [proc EXCEPT ![p] = [at |-> "starting", svc |-> task[s].svc,
                                  login |-> login[s], by |-> s, blind |-> task[s].blind]]
  /\ pc' = [pc EXCEPT ![s] = "record"]
  /\ task' = [task EXCEPT ![s].pid = p]
  /\ UNCHANGED <<term, audit, login>>

\* The log file cannot be opened, or the child cannot be started.
SpawnFails(s) ==
  /\ pc[s] = "spawn"
  /\ pc' = [pc EXCEPT ![s] = "prompt"]
  /\ task' = [task EXCEPT ![s] = NoTask]
  /\ UNCHANGED <<daemonVars, audit, login>>

\* daemonStopCmd keeps the pids that pgrep finds now; if pgrep fails it ends
\* like a stop that finds nothing to do.
StopLooks(s, svc) ==
  /\ pc[s] = "prompt" /\ DaemonPids(svc) # {}
  /\ pc' = [pc EXCEPT ![s] = "kill"]
  /\ task' = [task EXCEPT ![s] = [@ EXCEPT !.event = "stop_requested", !.svc = svc,
                                           !.todo = DaemonPids(svc)]]
  /\ UNCHANGED <<daemonVars, audit, login>>

\* A SIGTERM to the next of those pids, which may be a zombie by now.
Kill(s, p) ==
  /\ pc[s] = "kill" /\ p \in task[s].todo
  /\ term' = term \cup {p}
  /\ pc' = [pc EXCEPT ![s] = "record"]
  /\ task' = [task EXCEPT ![s].pid = p, ![s].todo = @ \ {p}]
  /\ UNCHANGED <<proc, audit, login>>

\* kill may return ESRCH for a process that has been reaped, and EPERM for one
\* of another OS user: any that shell s did not start itself.
Unkillable(s, p) == proc[p].at = "dead" \/ proc[p].by # s

\* Mutant of KillFails: the error of kill is ignored and the request recorded.
KillFailsSilently(s, p) ==
  /\ pc[s] = "kill" /\ p \in task[s].todo /\ Unkillable(s, p)
  /\ pc' = [pc EXCEPT ![s] = "record"]
  /\ task' = [task EXCEPT ![s].pid = p, ![s].todo = @ \ {p}]
  /\ UNCHANGED <<daemonVars, audit, login>>

\* The command fails at the next of those pids, and leaves the rest of them as
\* they are.
KillFails(s, p) ==
  /\ pc[s] = "kill" /\ p \in task[s].todo /\ Unkillable(s, p)
  /\ pc' = [pc EXCEPT ![s] = "prompt"]
  /\ task' = [task EXCEPT ![s] = NoTask]
  /\ UNCHANGED <<daemonVars, audit, login>>

\* logRequested, after the spawn or each kill; what is left of the command only
\* waits and reports.
Record(s) ==
  /\ pc[s] = "record"
  /\ LogServiceEvent(task[s].pid, task[s].event, login[s])
  /\ \/ /\ task[s].todo # {}
        /\ pc' = [pc EXCEPT ![s] = "kill"]
        /\ UNCHANGED task
     \/ /\ task[s].todo = {}
        /\ pc' = [pc EXCEPT ![s] = "prompt"]
        /\ task' = [task EXCEPT ![s] = NoTask]
  /\ UNCHANGED <<daemonVars, login>>

\* logout and a new login.
LogInAs(s, u) ==
  /\ pc[s] = "prompt"
  /\ login' = [login EXCEPT ![s] = u]
  /\ UNCHANGED <<daemonVars, audit, pc, task>>

\* The shell ends in the middle of a command; the user opens another.
ShellDies(s) ==
  /\ pc[s] # "prompt"
  /\ pc' = [pc EXCEPT ![s] = "prompt"]
  /\ task' = [task EXCEPT ![s] = NoTask]
  /\ UNCHANGED <<daemonVars, audit, login>>

-----------------------------------------------------------------------------
(* The daemons *)

\* `kronwrk scheduler|worker start` with the DATABASE_URL of its environment.
StartByHand(p, svc, u) ==
  /\ proc[p].at = "free"
  /\ proc' = [proc EXCEPT ![p] = [at |-> "starting", svc |-> svc, login |-> u, by |-> ByHand,
                                  blind |-> FALSE]]
  /\ UNCHANGED <<term, audit, shellVars>>

\* A SIGTERM or SIGINT from systemd or a person.
SignalByHand(p) ==
  /\ proc[p].at \in {"starting", "up"}
  /\ term' = term \cup {p}
  /\ UNCHANGED <<proc, audit, shellVars>>

\* The preflight passed: Run logs its start and loops.  A signal that came late
\* in the preflight is found by the loop.
ComesUp(p) ==
  /\ proc[p].at = "starting"
  /\ proc' = [proc EXCEPT ![p].at = "up"]
  /\ LogServiceEvent(p, "start", proc[p].login)
  /\ UNCHANGED <<term, shellVars>>

\* Bad configuration, a failed connection or probe, or a signal: ended before
\* Run, without a row.
NeverComesUp(p) ==
  /\ proc[p].at = "starting"
  /\ proc' = [proc EXCEPT ![p].at = "dead"]
  /\ UNCHANGED <<term, audit, shellVars>>

\* Run returns once its context is cancelled and its loops have ended.
Returns(p) ==
  /\ proc[p].at = "up" /\ p \in term
  /\ proc' = [proc EXCEPT ![p].at = "dead"]
  /\ LogServiceEvent(p, "stop", proc[p].login)
  /\ UNCHANGED <<term, shellVars>>

\* A crash or a SIGKILL.
Dies(p) ==
  /\ proc[p].at = "up"
  /\ proc' = [proc EXCEPT ![p].at = "dead"]
  /\ UNCHANGED <<term, audit, shellVars>>

-----------------------------------------------------------------------------
(* The specification *)

ControlInit ==
  /\ proc = [p \in Pids |-> NoProc]
  /\ term = {} /\ audit = {}
  /\ login \in [Shells -> Users]
  /\ pc = [s \in Shells |-> "prompt"]
  /\ task = [s \in Shells |-> NoTask]

ShellStep(s) ==
  \/ \E svc \in Services : StartLooks(s, svc) \/ StartBlind(s, svc) \/ StopLooks(s, svc)
  \/ \E p \in Pids : Spawn(s, p) \/ Kill(s, p) \/ KillFails(s, p)
  \/ SpawnFails(s) \/ Record(s) \/ ShellDies(s)
  \/ \E u \in Users : LogInAs(s, u)

DaemonStep(p) == ComesUp(p) \/ NeverComesUp(p) \/ Returns(p)

ControlNext ==
  \/ \E s \in Shells : ShellStep(s)
  \/ \E p \in Pids :
       \/ DaemonStep(p) \/ Dies(p) \/ SignalByHand(p)
       \/ \E svc \in Services, u \in Users : StartByHand(p, svc, u)

ControlSpec == ControlInit /\ [][ControlNext]_controlVars

-----------------------------------------------------------------------------
(* Properties *)

Procs == [at : Stages, svc : Services \cup {None}, login : Users \cup {None},
          by : Shells \cup {ByHand}, blind : BOOLEAN]
Rows == [pid : Pids, event : Events, login : Users]
Tasks == [event : {"start_requested", "stop_requested"}, svc : Services \cup {None},
          pid : Pids \cup {None}, todo : SUBSET Pids, blind : BOOLEAN]

\* The type of every variable; the kill loop always has a pid left to signal.
ControlTypeOK ==
  /\ proc \in [Pids -> Procs]
  /\ \A p \in Pids : proc[p].at # "free" => proc[p].login # None
  /\ term \subseteq Pids
  /\ audit \subseteq Rows
  /\ login \in [Shells -> Users]
  /\ pc \in [Shells -> {"prompt", "spawn", "kill", "record"}]
  /\ task \in [Shells -> Tasks]
  /\ \A s \in Shells : /\ pc[s] = "kill" => task[s].todo # {}
                       /\ pc[s] = "record" => task[s].pid # None

\* Looking and spawning are separate steps, so two shells may start a daemon
\* each; but of two daemons of one service that a shell has running, one was
\* spawned while pgrep failed, whoever else starts and stops them
\* (daemonStartCmd, "is already running").
OneDaemonPerShell ==
  \A p, q \in Pids :
    /\ proc[p].at \in {"starting", "up"} /\ proc[q].at \in {"starting", "up"}
    /\ proc[p].svc = proc[q].svc /\ proc[p].by = proc[q].by /\ proc[p].by # ByHand
    => p = q \/ proc[p].blind \/ proc[q].blind

\* The daemon's own rows carry the login of the person who asked for it, in
\* whatever order the two write (README: "the daemon connects as the person's
\* own login, so service_events records who started" it).
RunsAsRequester ==
  \A r, q \in audit :
    r.event = "start_requested" /\ q.event \in {"start", "stop"} /\ q.pid = r.pid
      => q.login = r.login

\* A row tells of something that happened: a requested start was spawned by a
\* shell, and a requested stop, like a daemon's own, follows a signal
\* (logRequested: "the action already happened").
RowsAreTrue ==
  \A r \in audit :
    /\ r.event = "start_requested" => proc[r.pid].by \in Shells /\ proc[r.pid].at # "free"
    /\ r.event \in {"stop", "stop_requested"} => r.pid \in term

=============================================================================
