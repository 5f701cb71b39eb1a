------------------------ MODULE DaemonControlProofs ------------------------
(***************************************************************************)
(* The invariants of DaemonControl, for any number of shells, processes,     *)
(* services and logins.                                                      *)
(***************************************************************************)
EXTENDS DaemonControl, TLAPS

Live(p) == proc[p].at \in {"starting", "up"}

\* What a shell knows at each point of a command: between a look-up that pgrep
\* answered and its spawn none of its own daemons can appear, and what it is about to record has
\* been done by then.
TaskInv ==
  \A s \in Shells :
    /\ pc[s] = "prompt" => task[s] = NoTask
    /\ task[s].event = "start_requested" => task[s].todo = {}
    /\ pc[s] = "spawn" => /\ task[s].event = "start_requested" /\ task[s].svc \in Services
                          /\ task[s].blind \/ \A p \in Pids :
                               Live(p) /\ proc[p].by = s => proc[p].svc # task[s].svc
    /\ pc[s] = "kill" => task[s].event = "stop_requested"
    /\ pc[s] = "record" /\ task[s].event = "start_requested"
         => LET p == task[s].pid
            IN proc[p].by = s /\ proc[p].at # "free" /\ proc[p].login = login[s]
    /\ pc[s] = "record" /\ task[s].event = "stop_requested" => task[s].pid \in term

\* Every row but a requested stop carries the login its daemon runs as.
AuditInv ==
  \A r \in audit :
    /\ r.event # "stop_requested"
         => proc[r.pid].at # "free" /\ r.login = proc[r.pid].login
    /\ r.event = "start_requested" => proc[r.pid].by \in Shells

CInv == ControlTypeOK /\ TaskInv /\ OneDaemonPerShell /\ AuditInv /\ RowsAreTrue

-----------------------------------------------------------------------------

LEMMA CInit == ControlInit => CInv
BY DEF ControlInit, CInv, ControlTypeOK, Procs, Tasks, TaskInv, OneDaemonPerShell, AuditInv,
       RowsAreTrue, NoTask, NoProc, Stages, Live

\* A step that only grows the set of signalled pids leaves what is said of
\* processes and rows as it is.
LEMMA Undisturbed ==
  ASSUME CInv, UNCHANGED <<proc, audit>>, term \subseteq term'
  PROVE  OneDaemonPerShell' /\ AuditInv' /\ RowsAreTrue'
BY DEF CInv, OneDaemonPerShell, AuditInv, RowsAreTrue

LEMMA CShell ==
  ASSUME CInv, NEW s \in Shells, ShellStep(s)
  PROVE  CInv'
<1>1. ASSUME NEW svc \in Services, StartLooks(s, svc) PROVE CInv'
  <2>1. ControlTypeOK'
    <3>1. task' \in [Shells -> Tasks]
      BY <1>1 DEF StartLooks, CInv, ControlTypeOK, Tasks, NoTask, DaemonPids
    <3>2. QED
      BY <1>1, <3>1, ControlAssumption
      DEF StartLooks, CInv, ControlTypeOK, Procs, Tasks, NoTask, DaemonPids, daemonVars
  <2>2. TaskInv'
    BY <1>1, ControlAssumption
    DEF StartLooks, CInv, ControlTypeOK, Procs, Tasks, Rows, TaskInv, NoTask, Live,
        DaemonPids, daemonVars
  <2>3. OneDaemonPerShell' /\ AuditInv' /\ RowsAreTrue'
    BY <1>1, Undisturbed DEF StartLooks, daemonVars
  <2>4. QED  BY <2>1, <2>2, <2>3 DEF CInv
<1>11. ASSUME NEW svc \in Services, StartBlind(s, svc) PROVE CInv'
  <2>1. ControlTypeOK'
    <3>1. task' \in [Shells -> Tasks]
      BY <1>11 DEF StartBlind, CInv, ControlTypeOK, Tasks, NoTask, DaemonPids
    <3>2. QED
      BY <1>11, <3>1, ControlAssumption
      DEF StartBlind, CInv, ControlTypeOK, Procs, Tasks, NoTask, DaemonPids, daemonVars
  <2>2. TaskInv'
    BY <1>11, ControlAssumption
    DEF StartBlind, CInv, ControlTypeOK, Procs, Tasks, Rows, TaskInv, NoTask, Live,
        DaemonPids, daemonVars
  <2>3. OneDaemonPerShell' /\ AuditInv' /\ RowsAreTrue'
    BY <1>11, Undisturbed DEF StartBlind, daemonVars
  <2>4. QED  BY <2>1, <2>2, <2>3 DEF CInv
<1>2. ASSUME NEW svc \in Services, StopLooks(s, svc) PROVE CInv'
  <2>1. ControlTypeOK'
    <3>1. task' \in [Shells -> Tasks]
      BY <1>2 DEF StopLooks, CInv, ControlTypeOK, Tasks, NoTask, DaemonPids
    <3>2. QED
      BY <1>2, <3>1, ControlAssumption
      DEF StopLooks, CInv, ControlTypeOK, Procs, Tasks, NoTask, DaemonPids, daemonVars
  <2>2. TaskInv'
    BY <1>2, ControlAssumption
    DEF StopLooks, CInv, ControlTypeOK, Procs, Tasks, Rows, TaskInv, NoTask, Live,
        DaemonPids, daemonVars
  <2>3. OneDaemonPerShell' /\ AuditInv' /\ RowsAreTrue'
    BY <1>2, Undisturbed DEF StopLooks, daemonVars
  <2>4. QED  BY <2>1, <2>2, <2>3 DEF CInv
<1>3. ASSUME NEW p \in Pids, Spawn(s, p) PROVE CInv'
  <2>1. ControlTypeOK'
    <3>1. task' \in [Shells -> Tasks]
      BY <1>3 DEF Spawn, CInv, ControlTypeOK, Tasks, NoTask
    <3>2. proc' \in [Pids -> Procs]
      BY <1>3 DEF Spawn, CInv, ControlTypeOK, Procs, Tasks, Stages
    <3>3. QED
      BY <1>3, <3>1, <3>2, ControlAssumption
      DEF Spawn, CInv, ControlTypeOK, Procs, Tasks, NoTask
  <2>2. TaskInv'
    BY <1>3, ControlAssumption
    DEF Spawn, CInv, ControlTypeOK, Procs, Tasks, Rows, TaskInv, NoTask, Live
  <2>3. OneDaemonPerShell'
    BY <1>3, ControlAssumption
    DEF Spawn, CInv, ControlTypeOK, Procs, Tasks, Rows, TaskInv, OneDaemonPerShell, Live
  <2>4. AuditInv'
    BY <1>3, ControlAssumption
    DEF Spawn, CInv, ControlTypeOK, Procs, Tasks, Rows, TaskInv, AuditInv, NoTask
  <2>5. RowsAreTrue'
    BY <1>3, ControlAssumption
    DEF Spawn, CInv, ControlTypeOK, Procs, Tasks, Rows, TaskInv, RowsAreTrue, AuditInv,
        NoTask
  <2>6. QED  BY <2>1, <2>2, <2>3, <2>4, <2>5 DEF CInv
<1>4. ASSUME NEW p \in Pids, Kill(s, p) PROVE CInv'
  <2>1. ControlTypeOK'
    <3>1. task' \in [Shells -> Tasks]
      <4>1. task' = [task EXCEPT ![s].pid = p, ![s].todo = @ \ {p}]
        BY <1>4 DEF Kill
      <4>2. task \in [Shells -> Tasks] /\ p \in Pids /\ task[s] \in Tasks
        BY DEF CInv, ControlTypeOK
      <4>3. [[task[s] EXCEPT !.pid = p] EXCEPT !.todo = @ \ {p}] \in Tasks
        BY <4>2 DEF Tasks
      <4>4. task' = [task EXCEPT ![s] = [[task[s] EXCEPT !.pid = p] EXCEPT !.todo = @ \ {p}]]
        BY <4>1, <4>2 DEF Tasks
      <4>5. QED
        BY <4>2, <4>3, <4>4
    <3>2. QED
      BY <1>4, <3>1, ControlAssumption
      DEF Kill, CInv, ControlTypeOK, Procs, Tasks, NoTask
  <2>2. TaskInv'
    BY <1>4, ControlAssumption
    DEF Kill, CInv, ControlTypeOK, Procs, Tasks, Rows, TaskInv, NoTask, Live
  <2>3. OneDaemonPerShell' /\ AuditInv' /\ RowsAreTrue'
    BY <1>4, Undisturbed DEF Kill
  <2>4. QED  BY <2>1, <2>2, <2>3 DEF CInv
<1>5. ASSUME NEW p \in Pids, KillFails(s, p) PROVE CInv'
  <2>1. ControlTypeOK'
    <3>1. task' \in [Shells -> Tasks]
      BY <1>5 DEF KillFails, CInv, ControlTypeOK, Tasks, NoTask
    <3>2. QED
      BY <1>5, <3>1, ControlAssumption
      DEF KillFails, CInv, ControlTypeOK, Procs, Tasks, NoTask, daemonVars
  <2>2. TaskInv'
    BY <1>5, ControlAssumption
    DEF KillFails, CInv, ControlTypeOK, Procs, Tasks, Rows, TaskInv, NoTask, Live,
        daemonVars
  <2>3. OneDaemonPerShell' /\ AuditInv' /\ RowsAreTrue'
    BY <1>5, Undisturbed DEF KillFails, daemonVars
  <2>4. QED  BY <2>1, <2>2, <2>3 DEF CInv
<1>6. ASSUME SpawnFails(s) PROVE CInv'
  <2>1. ControlTypeOK'
    <3>1. task' \in [Shells -> Tasks]
      BY <1>6 DEF SpawnFails, CInv, ControlTypeOK, Tasks, NoTask
    <3>2. QED
      BY <1>6, <3>1, ControlAssumption
      DEF SpawnFails, CInv, ControlTypeOK, Procs, Tasks, NoTask, daemonVars
  <2>2. TaskInv'
    BY <1>6, ControlAssumption
    DEF SpawnFails, CInv, ControlTypeOK, Procs, Tasks, Rows, TaskInv, NoTask, Live,
        daemonVars
  <2>3. OneDaemonPerShell' /\ AuditInv' /\ RowsAreTrue'
    BY <1>6, Undisturbed DEF SpawnFails, daemonVars
  <2>4. QED  BY <2>1, <2>2, <2>3 DEF CInv
<1>7. ASSUME Record(s) PROVE CInv'
  <2>1. ControlTypeOK'
    <3>0. NoTask \in Tasks
      BY DEF Tasks, NoTask
    <3>1. task' \in [Shells -> Tasks]
      BY <1>7, <3>0 DEF Record, CInv, ControlTypeOK
    <3>2. audit' \subseteq Rows
      BY <1>7 DEF Record, CInv, ControlTypeOK, Tasks, Rows, Events, LogServiceEvent
    <3>3. QED
      BY <1>7, <3>1, <3>2, ControlAssumption
      DEF Record, CInv, ControlTypeOK, Procs, Tasks, NoTask, daemonVars
  <2>2. TaskInv'
    <3>1. CASE task[s].todo # {}
      <4>1. task' = task /\ pc' = [pc EXCEPT ![s] = "kill"] /\ UNCHANGED <<proc, term, login>>
        BY <1>7, <3>1 DEF Record, daemonVars
      <4>2. task[s].event = "stop_requested"
        BY <3>1 DEF CInv, TaskInv, ControlTypeOK, Tasks
      <4>3. QED
        BY <4>1, <4>2 DEF CInv, ControlTypeOK, TaskInv, Live
    <3>2. CASE task[s].todo = {}
      <4>1. /\ task' = [task EXCEPT ![s] = NoTask]
            /\ pc' = [pc EXCEPT ![s] = "prompt"]
            /\ UNCHANGED <<proc, term, login>>
        BY <1>7, <3>2 DEF Record, daemonVars
      <4>2. QED
        BY <4>1 DEF CInv, ControlTypeOK, TaskInv, Live, NoTask
    <3>3. QED  BY <3>1, <3>2
  <2>3. OneDaemonPerShell'
    BY <1>7, ControlAssumption
    DEF Record, CInv, ControlTypeOK, Procs, Tasks, Rows, TaskInv, OneDaemonPerShell, Live,
        LogServiceEvent, daemonVars
  <2>4. AuditInv'
    BY <1>7, ControlAssumption
    DEF Record, CInv, ControlTypeOK, Procs, Tasks, Rows, TaskInv, AuditInv,
        LogServiceEvent, Events, NoTask, daemonVars
  <2>5. RowsAreTrue'
    BY <1>7, ControlAssumption
    DEF Record, CInv, ControlTypeOK, Procs, Tasks, Rows, TaskInv, RowsAreTrue, AuditInv,
        LogServiceEvent, Events, NoTask, daemonVars
  <2>6. QED  BY <2>1, <2>2, <2>3, <2>4, <2>5 DEF CInv
<1>8. ASSUME ShellDies(s) PROVE CInv'
  <2>1. ControlTypeOK'
    <3>1. task' \in [Shells -> Tasks]
      BY <1>8 DEF ShellDies, CInv, ControlTypeOK, Tasks, NoTask
    <3>2. QED
      BY <1>8, <3>1, ControlAssumption
      DEF ShellDies, CInv, ControlTypeOK, Procs, Tasks, NoTask, daemonVars
  <2>2. TaskInv'
    BY <1>8, ControlAssumption
    DEF ShellDies, CInv, ControlTypeOK, Procs, Tasks, Rows, TaskInv, NoTask, Live,
        daemonVars
  <2>3. OneDaemonPerShell' /\ AuditInv' /\ RowsAreTrue'
    BY <1>8, Undisturbed DEF ShellDies, daemonVars
  <2>4. QED  BY <2>1, <2>2, <2>3 DEF CInv
<1>9. ASSUME NEW u \in Users, LogInAs(s, u) PROVE CInv'
  <2>1. ControlTypeOK'
    <3>1. task' \in [Shells -> Tasks]
      BY <1>9 DEF LogInAs, CInv, ControlTypeOK, Tasks, NoTask
    <3>2. QED
      BY <1>9, <3>1, ControlAssumption
      DEF LogInAs, CInv, ControlTypeOK, Procs, Tasks, NoTask, daemonVars
  <2>2. TaskInv'
    BY <1>9, ControlAssumption
    DEF LogInAs, CInv, ControlTypeOK, Procs, Tasks, Rows, TaskInv, NoTask, Live,
        daemonVars
  <2>3. OneDaemonPerShell' /\ AuditInv' /\ RowsAreTrue'
    BY <1>9, Undisturbed DEF LogInAs, daemonVars
  <2>4. QED  BY <2>1, <2>2, <2>3 DEF CInv
<1>10. QED  BY <1>1, <1>11, <1>2, <1>3, <1>4, <1>5, <1>6, <1>7, <1>8, <1>9 DEF ShellStep

LEMMA CDaemon ==
  ASSUME CInv, NEW p \in Pids,
         \/ DaemonStep(p) \/ Dies(p) \/ SignalByHand(p)
         \/ \E svc \in Services, u \in Users : StartByHand(p, svc, u)
  PROVE  CInv'
<1>1. ASSUME ComesUp(p) PROVE CInv'
  <2>1. ControlTypeOK'
    <3>1. proc' \in [Pids -> Procs]
      BY <1>1 DEF ComesUp, CInv, ControlTypeOK, Procs, Stages, shellVars
    <3>2. audit' \subseteq Rows
      BY <1>1 DEF ComesUp, CInv, ControlTypeOK, Procs, Rows, Events, LogServiceEvent
    <3>3. QED
      BY <1>1, <3>1, <3>2, ControlAssumption
      DEF ComesUp, CInv, ControlTypeOK, Procs, Tasks, NoTask, shellVars
  <2>2. TaskInv'
    BY <1>1, ControlAssumption
    DEF ComesUp, CInv, ControlTypeOK, Procs, Tasks, Rows, TaskInv, NoTask, Live,
        LogServiceEvent, shellVars
  <2>3. OneDaemonPerShell'
    BY <1>1, ControlAssumption
    DEF ComesUp, CInv, ControlTypeOK, Procs, Tasks, Rows, TaskInv, OneDaemonPerShell,
        Live, LogServiceEvent, shellVars
  <2>4. AuditInv'
    BY <1>1, ControlAssumption
    DEF ComesUp, CInv, ControlTypeOK, Procs, Tasks, Rows, TaskInv, AuditInv,
        LogServiceEvent, Events, NoTask, shellVars
  <2>5. RowsAreTrue'
    BY <1>1, ControlAssumption
    DEF ComesUp, CInv, ControlTypeOK, Procs, Tasks, Rows, TaskInv, RowsAreTrue, AuditInv,
        LogServiceEvent, Events, NoTask, shellVars
  <2>6. QED  BY <2>1, <2>2, <2>3, <2>4, <2>5 DEF CInv
<1>2. ASSUME NeverComesUp(p) PROVE CInv'
  <2>1. ControlTypeOK'
    <3>1. proc' \in [Pids -> Procs]
      BY <1>2 DEF NeverComesUp, CInv, ControlTypeOK, Procs, Stages, shellVars
    <3>2. audit' \subseteq Rows
      BY <1>2 DEF NeverComesUp, CInv, ControlTypeOK, Procs, Rows, Events
    <3>3. QED
      BY <1>2, <3>1, <3>2, ControlAssumption
      DEF NeverComesUp, CInv, ControlTypeOK, Procs, Tasks, NoTask, shellVars
  <2>2. TaskInv'
    BY <1>2, ControlAssumption
    DEF NeverComesUp, CInv, ControlTypeOK, Procs, Tasks, Rows, TaskInv, NoTask, Live,
        shellVars
  <2>3. OneDaemonPerShell'
    BY <1>2, ControlAssumption
    DEF NeverComesUp, CInv, ControlTypeOK, Procs, Tasks, Rows, TaskInv, OneDaemonPerShell,
        Live, shellVars
  <2>4. AuditInv'
    BY <1>2, ControlAssumption
    DEF NeverComesUp, CInv, ControlTypeOK, Procs, Tasks, Rows, TaskInv, AuditInv, NoTask,
        shellVars
  <2>5. RowsAreTrue'
    BY <1>2, ControlAssumption
    DEF NeverComesUp, CInv, ControlTypeOK, Procs, Tasks, Rows, TaskInv, RowsAreTrue,
        AuditInv, NoTask, shellVars
  <2>6. QED  BY <2>1, <2>2, <2>3, <2>4, <2>5 DEF CInv
<1>3. ASSUME Returns(p) PROVE CInv'
  <2>1. ControlTypeOK'
    <3>1. proc' \in [Pids -> Procs]
      BY <1>3 DEF Returns, CInv, ControlTypeOK, Procs, Stages, shellVars
    <3>2. audit' \subseteq Rows
      BY <1>3 DEF Returns, CInv, ControlTypeOK, Procs, Rows, Events, LogServiceEvent
    <3>3. QED
      BY <1>3, <3>1, <3>2, ControlAssumption
      DEF Returns, CInv, ControlTypeOK, Procs, Tasks, NoTask, shellVars
  <2>2. TaskInv'
    BY <1>3, ControlAssumption
    DEF Returns, CInv, ControlTypeOK, Procs, Tasks, Rows, TaskInv, NoTask, Live,
        LogServiceEvent, shellVars
  <2>3. OneDaemonPerShell'
    BY <1>3, ControlAssumption
    DEF Returns, CInv, ControlTypeOK, Procs, Tasks, Rows, TaskInv, OneDaemonPerShell,
        Live, LogServiceEvent, shellVars
  <2>4. AuditInv'
    BY <1>3, ControlAssumption
    DEF Returns, CInv, ControlTypeOK, Procs, Tasks, Rows, TaskInv, AuditInv,
        LogServiceEvent, Events, NoTask, shellVars
  <2>5. RowsAreTrue'
    BY <1>3, ControlAssumption
    DEF Returns, CInv, ControlTypeOK, Procs, Tasks, Rows, TaskInv, RowsAreTrue, AuditInv,
        LogServiceEvent, Events, NoTask, shellVars
  <2>6. QED  BY <2>1, <2>2, <2>3, <2>4, <2>5 DEF CInv
<1>4. ASSUME Dies(p) PROVE CInv'
  <2>1. ControlTypeOK'
    <3>1. proc' \in [Pids -> Procs]
      BY <1>4 DEF Dies, CInv, ControlTypeOK, Procs, Stages, shellVars
    <3>2. audit' \subseteq Rows
      BY <1>4 DEF Dies, CInv, ControlTypeOK, Procs, Rows, Events
    <3>3. QED
      BY <1>4, <3>1, <3>2, ControlAssumption
      DEF Dies, CInv, ControlTypeOK, Procs, Tasks, NoTask, shellVars
  <2>2. TaskInv'
    BY <1>4, ControlAssumption
    DEF Dies, CInv, ControlTypeOK, Procs, Tasks, Rows, TaskInv, NoTask, Live, shellVars
  <2>3. OneDaemonPerShell'
    BY <1>4, ControlAssumption
    DEF Dies, CInv, ControlTypeOK, Procs, Tasks, Rows, TaskInv, OneDaemonPerShell, Live,
        shellVars
  <2>4. AuditInv'
    BY <1>4, ControlAssumption
    DEF Dies, CInv, ControlTypeOK, Procs, Tasks, Rows, TaskInv, AuditInv, NoTask,
        shellVars
  <2>5. RowsAreTrue'
    BY <1>4, ControlAssumption
    DEF Dies, CInv, ControlTypeOK, Procs, Tasks, Rows, TaskInv, RowsAreTrue, AuditInv,
        NoTask, shellVars
  <2>6. QED  BY <2>1, <2>2, <2>3, <2>4, <2>5 DEF CInv
<1>5. ASSUME SignalByHand(p) PROVE CInv'
  <2>1. ControlTypeOK'
    <3>1. proc' \in [Pids -> Procs]
      BY <1>5 DEF SignalByHand, CInv, ControlTypeOK, Procs, Stages, shellVars
    <3>2. audit' \subseteq Rows
      BY <1>5 DEF SignalByHand, CInv, ControlTypeOK, Procs, Rows, Events
    <3>3. QED
      BY <1>5, <3>1, <3>2, ControlAssumption
      DEF SignalByHand, CInv, ControlTypeOK, Procs, Tasks, NoTask, shellVars
  <2>2. TaskInv'
    BY <1>5, ControlAssumption
    DEF SignalByHand, CInv, ControlTypeOK, Procs, Tasks, Rows, TaskInv, NoTask, Live,
        shellVars
  <2>3. OneDaemonPerShell' /\ AuditInv' /\ RowsAreTrue'
    BY <1>5, Undisturbed DEF SignalByHand
  <2>4. QED  BY <2>1, <2>2, <2>3 DEF CInv
<1>6. ASSUME NEW svc \in Services, NEW u \in Users, StartByHand(p, svc, u) PROVE CInv'
  <2>1. ControlTypeOK'
    <3>1. proc' \in [Pids -> Procs]
      BY <1>6 DEF StartByHand, CInv, ControlTypeOK, Procs, Stages, shellVars
    <3>2. audit' \subseteq Rows
      BY <1>6 DEF StartByHand, CInv, ControlTypeOK, Procs, Rows, Events
    <3>3. QED
      BY <1>6, <3>1, <3>2, ControlAssumption
      DEF StartByHand, CInv, ControlTypeOK, Procs, Tasks, NoTask, shellVars
  <2>2. TaskInv'
    BY <1>6, ControlAssumption
    DEF StartByHand, CInv, ControlTypeOK, Procs, Tasks, Rows, TaskInv, NoTask, Live,
        shellVars
  <2>3. OneDaemonPerShell'
    BY <1>6, ControlAssumption
    DEF StartByHand, CInv, ControlTypeOK, Procs, Tasks, Rows, TaskInv, OneDaemonPerShell,
        Live, shellVars
  <2>4. AuditInv'
    BY <1>6, ControlAssumption
    DEF StartByHand, CInv, ControlTypeOK, Procs, Tasks, Rows, TaskInv, AuditInv, NoTask,
        shellVars
  <2>5. RowsAreTrue'
    BY <1>6, ControlAssumption
    DEF StartByHand, CInv, ControlTypeOK, Procs, Tasks, Rows, TaskInv, RowsAreTrue,
        AuditInv, NoTask, shellVars
  <2>6. QED  BY <2>1, <2>2, <2>3, <2>4, <2>5 DEF CInv
<1>7. QED  BY <1>1, <1>2, <1>3, <1>4, <1>5, <1>6 DEF DaemonStep

-----------------------------------------------------------------------------
(* The theorems *)

\* CInv is an invariant of the shells and daemons of one machine.
THEOREM CInvariance == ControlSpec => []CInv
<1>1. ControlInit => CInv
  BY CInit
<1>2. CInv /\ [ControlNext]_controlVars => CInv'
  <2>1. ASSUME CInv, ControlNext PROVE CInv'
    <3>1. CASE \E s \in Shells : ShellStep(s)
      BY <2>1, <3>1, CShell
    <3>2. CASE \E p \in Pids :
                 \/ DaemonStep(p) \/ Dies(p) \/ SignalByHand(p)
                 \/ \E svc \in Services, u \in Users : StartByHand(p, svc, u)
      BY <2>1, <3>2, CDaemon
    <3>3. QED  BY <2>1, <3>1, <3>2 DEF ControlNext
  <2>2. ASSUME CInv, UNCHANGED controlVars PROVE CInv'
    BY <2>2
    DEF CInv, ControlTypeOK, TaskInv, OneDaemonPerShell, AuditInv, RowsAreTrue, Live,
        controlVars
  <2>3. QED  BY <2>1, <2>2
<1>3. QED  BY <1>1, <1>2, PTL DEF ControlSpec

\* However look-ups, spawns, stops and deaths interleave, no shell has two
\* daemons of one service running, unless pgrep failed it (daemonStartCmd).
THEOREM OneDaemonEach == ControlSpec => []OneDaemonPerShell
<1>1. CInv => OneDaemonPerShell
  BY DEF CInv
<1>2. QED  BY <1>1, CInvariance, PTL

\* The rows of a daemon started by a shell carry the login of its requester
\* (LogServiceEvent, logRequested).
THEOREM RequestersAreTrue == ControlSpec => []RunsAsRequester
<1>1. CInv => RunsAsRequester
  BY DEF CInv, AuditInv, RunsAsRequester
<1>2. QED  BY <1>1, CInvariance, PTL

\* A row of the audit log tells of something that happened, though it is
\* written later, over another connection (LogServiceEvent, logRequested).
THEOREM AuditIsTrue == ControlSpec => []RowsAreTrue
<1>1. CInv => RowsAreTrue
  BY DEF CInv
<1>2. QED  BY <1>1, CInvariance, PTL

\* The shells and daemons keep their types, and a running daemon has a login.
THEOREM ControlTypes == ControlSpec => []ControlTypeOK
<1>1. CInv => ControlTypeOK
  BY DEF CInv
<1>2. QED  BY <1>1, CInvariance, PTL
============================================================================
