------------------------------- MODULE Access -------------------------------
(***************************************************************************)
(* Who may do what: the grants that the migrations of internal/db/migrations *)
(* build up, the logins of internal/db/users.go, the startup preflights of   *)
(* the daemons and the identity and menu of a shell session.  Migrations,    *)
(* role changes, preflights and sessions interleave: a binary of this commit *)
(* may meet a database at any earlier schema version.                        *)
(* A privilege is <<verb, table, columns>>; Postgres enforces it on each     *)
(* statement.                                                                *)
(***************************************************************************)
EXTENDS Integers, FiniteSets

CONSTANTS
  Logins,       \* login roles, as Postgres knows them: by OID, never reused
  Sessions,     \* shell processes
  Daemons,      \* processes that run `kronwrk scheduler|worker start`
  Admins,       \* who administers users, as Postgres records the grantor: the
                \* bootstrap superuser for every superuser, else the login itself
  NoLogin       \* nobody

ASSUME AccessAssumption == NoLogin \notin Logins

VARIABLES
  version,      \* schema_migrations.version
  life,         \* of a login role: "absent", "present" or "dropped"
  granted,      \* its memberships in the kronwrk_* groups: <<group, grantor>>
  session,      \* the login a shell is connected as
  user,         \* sessionUser: [login, roles], the cached WhoAmI
  daemon,       \* [svc, login, todo]: todo is the probes its preflight has left
  at,           \* where a daemon is: "none", "preflight", "up"
  steady        \* ghost: the daemon's login has kept its role since it started

loginVars == <<life, granted>>
sessionVars == <<session, user>>
daemonVars == <<daemon, at, steady>>
accessVars == <<version, loginVars, sessionVars, daemonVars>>

Latest == 15

\* The groups a login inherits from: a membership counts whoever granted it.
member == [u \in Logins |-> {m[1] : m \in granted[u]}]

-----------------------------------------------------------------------------
(* The grants, one operator per migration *)

Verbs == {"select", "insert", "update", "delete"}
P(verbs, tables, cols) == verbs \X tables \X {cols}

\* 0003: the human roles.
Grants0003 == [
  admin     |-> P(Verbs, {"jobs", "job_runs"}, "all"),
  user      |-> P({"select"}, {"jobs", "job_runs"}, "all"),
  support   |-> P({"select"}, {"jobs", "job_runs"}, "all")
                \cup P({"update"}, {"jobs"}, "enabled, updated_at")]

\* 0005: service_events; its owner is admin.
Grants0005 == [
  admin     |-> P(Verbs, {"service_events"}, "all"),
  user      |-> P({"select"}, {"service_events"}, "all"),
  support   |-> P({"select"}, {"service_events"}, "all")]

\* 0006: the daemons' own roles.
Grants0006 == [
  scheduler |-> P({"select", "update"}, {"jobs"}, "all")
                \cup P({"insert"}, {"job_runs", "service_events"}, "all"),
  worker    |-> P({"select"}, {"jobs", "job_runs"}, "all")
                \cup P({"update"}, {"job_runs"}, "all")
                \cup P({"insert"}, {"service_events"}, "all")]

\* 0008: what ON CONFLICT (job_id, scheduled_for) reads.
Grants0008 == [scheduler |-> P({"select"}, {"job_runs"}, "job_id, scheduled_for")]

\* 0013: the operator.
Grants0013 == [
  operator  |-> P({"select", "update"}, {"jobs", "job_runs"}, "all")
                \cup P({"insert"}, {"job_runs"}, "all")
                \cup P({"select", "insert"}, {"service_events"}, "all")]

\* 0014: event gating; the owner of the two tables is admin.
Grants0014 == [
  admin     |-> P(Verbs, {"events", "job_conditions"}, "all"),
  user      |-> P({"select"}, {"events", "job_conditions"}, "all"),
  support   |-> P({"select"}, {"events", "job_conditions"}, "all"),
  operator  |-> P({"select"}, {"events", "job_conditions"}, "all")
                \cup P({"insert", "update"}, {"events"}, "all"),
  scheduler |-> P({"select"}, {"job_conditions", "events"}, "all")
                \cup P({"update"}, {"events", "job_runs"}, "all")
                \cup P({"select"}, {"job_runs"}, "id, status, wait_deadline")]

Grants == {<<3, Grants0003>>, <<5, Grants0005>>, <<6, Grants0006>>, <<8, Grants0008>>,
           <<13, Grants0013>>, <<14, Grants0014>>}

\* The group roles that exist, by the name GroupRoles knows them by: 0004 gave
\* the first three their present names.
Groups == {"admin", "user", "support", "scheduler", "worker", "operator"}
GroupsAt(v) ==
  (IF v >= 4 THEN {"admin", "user", "support"} ELSE {})
    \cup (IF v >= 6 THEN {"scheduler", "worker"} ELSE {})
    \cup (IF v >= 13 THEN {"operator"} ELSE {})

\* From 0007 until 0012 support was a member of the daemons' groups.
Inherited(g) ==
  {g} \cup (IF g = "support" /\ version \in 7 .. 11 THEN {"scheduler", "worker"} ELSE {})

Privileges(u) ==
  IF life[u] # "present" THEN {}
  ELSE UNION {UNION {IF g \in DOMAIN m[2] THEN m[2][g] ELSE {} :
                       m \in {k \in Grants : k[1] <= version}} :
                g \in UNION {Inherited(h) : h \in member[u]}}

\* Postgres lets u run a statement that needs these privileges; "any" is what
\* FOR UPDATE asks for.
May(u, needs) ==
  \A n \in needs : \E p \in Privileges(u) :
    p[1] = n[1] /\ p[2] = n[2] /\ (p[3] \in {"all", n[3]} \/ n[3] = "any")

-----------------------------------------------------------------------------
(* What the code's statements need *)

\* The audit row of a daemon command; a daemon goes on without its own.
LogServiceEvent == P({"insert"}, {"service_events"}, "all")

\* DueJobs, EnqueueRun, PromoteWaitingRuns, ExpireWaitingRuns
SchedulerLoop ==
  P({"select", "update"}, {"jobs"}, "all")
    \cup P({"select"}, {"job_conditions", "events"}, "all")
    \cup P({"update"}, {"events", "job_runs"}, "all")
    \cup P({"insert"}, {"job_runs"}, "all")
    \cup P({"select"}, {"job_runs"}, "job_id, scheduled_for")
    \cup P({"select"}, {"job_runs"}, "id, status, wait_deadline")

\* ClaimRun (RETURNING every column), GetJob, Heartbeat, FinalizeRun
WorkerLoop == P({"select", "update"}, {"job_runs"}, "all") \cup P({"select"}, {"jobs"}, "all")

Loop(svc) == IF svc = "scheduler" THEN SchedulerLoop ELSE WorkerLoop

\* Mutant of SchedulerProbes: as it was before event gating.
SchedulerProbesUngated ==
  {P({"select"}, {"jobs"}, "all") \cup P({"update"}, {"jobs"}, "any"),
   P({"insert"}, {"job_runs"}, "all") \cup P({"select"}, {"job_runs"}, "job_id, scheduled_for")}

\* PreflightScheduler: each probe is a statement of its own.
SchedulerProbes ==
  {P({"select"}, {"jobs"}, "all") \cup P({"update"}, {"jobs"}, "any"),
   P({"insert"}, {"job_runs"}, "all") \cup P({"select"}, {"job_runs"}, "job_id, scheduled_for"),
   P({"select"}, {"job_conditions"}, "all"),
   P({"select"}, {"events"}, "all") \cup P({"update"}, {"events"}, "any"),
   P({"update"}, {"events"}, "all"),
   P({"select"}, {"job_runs"}, "id, status, wait_deadline")
     \cup P({"update"}, {"job_runs"}, "any"),
   P({"update"}, {"job_runs"}, "all")}

\* Mutant of WorkerProbes: the row is read and not locked.
WorkerProbesUnlocked == {P({"select"}, {"job_runs"}, "id, status, wait_deadline")}

\* PreflightWorker
WorkerProbes ==
  {P({"select"}, {"job_runs"}, "id, status, wait_deadline")
     \cup P({"update"}, {"job_runs"}, "any")}

Probes(svc) == IF svc = "scheduler" THEN SchedulerProbes ELSE WorkerProbes

\* Mutant of DaemonRoles: support still controls daemons, as before 0012.
DaemonRolesSupport == {"admin", "operator", "support"}

\* cmdPerms: who controls daemons since 0012 and 0013.
DaemonRoles == {"admin", "operator"}

\* cmdPerms: the roles a shell command is offered to.
Menu ==
  [jobAdd             |-> {"admin"},
   jobList            |-> Groups,
   jobEnable          |-> {"admin", "support", "scheduler", "operator"},
   jobConditionAdd    |-> {"admin"},
   jobConditionRemove |-> {"admin"},
   jobConditionList   |-> Groups \ {"worker"},
   runStatus          |-> Groups \ {"scheduler"},
   monitor            |-> Groups \ {"scheduler"},
   eventEmit          |-> {"admin", "operator"},
   eventList          |-> {"admin", "user", "support", "operator"},
   daemonStart        |-> DaemonRoles,
   daemonStop         |-> DaemonRoles]

\* What the statements of a command need; `daemon start` hands the session's
\* login to the daemon, which must pass its preflight.
Needs(path) ==
  CASE path = "jobAdd" -> P({"select", "insert"}, {"jobs"}, "all")
    [] path = "jobList" -> P({"select"}, {"jobs"}, "all")
    [] path = "jobEnable" -> P({"select"}, {"jobs"}, "all")
                               \cup P({"update"}, {"jobs"}, "enabled, updated_at")
    [] path = "jobConditionAdd" -> P({"insert"}, {"job_conditions"}, "all")
    [] path = "jobConditionRemove" -> P({"select", "delete"}, {"job_conditions"}, "all")
    [] path = "jobConditionList" -> P({"select"}, {"job_conditions"}, "all")
    [] path = "runStatus" -> P({"select"}, {"job_runs"}, "all")
    [] path = "monitor" -> P({"select"}, {"jobs", "job_runs"}, "all")
    [] path = "eventEmit" -> P({"select", "insert"}, {"events"}, "all")
    [] path = "eventList" -> P({"select"}, {"events"}, "all")
    [] path = "daemonStart" -> LogServiceEvent \cup UNION (SchedulerProbes \cup WorkerProbes)
    [] path = "daemonStop" -> LogServiceEvent

-----------------------------------------------------------------------------
(* Migrations and user administration *)

\* 0012 takes the daemons' groups from support, which unsettles its daemons.
Migrate ==
  /\ version < Latest
  /\ version' = version + 1
  /\ steady' = [d \in Daemons |->
                  steady[d] /\ ~(version = 11 /\ "support" \in member[daemon[d].login])]
  /\ UNCHANGED <<loginVars, sessionVars, daemon, at>>

\* CreateUser: CREATE ROLE and GRANT in one transaction.
CreateUser(by, u, g) ==
  /\ life[u] = "absent" /\ g \in GroupsAt(version)
  /\ life' = [life EXCEPT ![u] = "present"]
  /\ granted' = [granted EXCEPT ![u] = {<<g, by>>}]
  /\ UNCHANGED <<version, sessionVars, daemonVars>>

\* Mutant of RevokedGroups: the list was not extended for 0013.
RevokedGroupsNoOperator == Groups \ {"operator"}

\* groupRoleList: REVOKE names every group, and fails if one does not exist.
RevokedGroups == Groups

\* The daemons that run as u do so under another role from now on.
Unsettle(u) == steady' = [d \in Daemons |-> steady[d] /\ daemon[d].login # u]

\* SetUserRole: REVOKE and GRANT in one transaction.  Without GRANTED BY a
\* REVOKE removes the memberships that its own grantor granted and warns of the
\* others.
SetUserRole(by, u, g) ==
  /\ life[u] = "present" /\ RevokedGroups \cup {g} \subseteq GroupsAt(version)
  /\ granted' = [granted EXCEPT ![u] = (@ \ (RevokedGroups \X {by})) \cup {<<g, by>>}]
  /\ Unsettle(u)
  /\ UNCHANGED <<version, life, sessionVars, daemon, at>>

\* DropUser: DROP ROLE takes every membership, whoever granted it; connected
\* sessions and daemons stay connected, without privileges.
DropUser(u) ==
  /\ life[u] = "present" /\ RevokedGroups \subseteq GroupsAt(version)
  /\ life' = [life EXCEPT ![u] = "dropped"]
  /\ granted' = [granted EXCEPT ![u] = {}]
  /\ Unsettle(u)
  /\ UNCHANGED <<version, sessionVars, daemon, at>>

-----------------------------------------------------------------------------
(* A shell session *)

NoUser == [login |-> NoLogin, roles |-> {}]

\* authenticate: the pool is opened as u, and refuseSuperuser asks currentUser,
\* which keeps an identity it has.
Authenticate(s, u) ==
  /\ session[s] = NoLogin /\ life[u] = "present"
  /\ session' = [session EXCEPT ![s] = u]
  /\ user' = [user EXCEPT ![s] = IF @ # NoUser THEN @ ELSE [login |-> u, roles |-> member[u]]]
  /\ UNCHANGED <<version, loginVars, daemonVars>>

\* logout: closeSession.
Logout(s) ==
  /\ session[s] # NoLogin
  /\ session' = [session EXCEPT ![s] = NoLogin]
  /\ user' = [user EXCEPT ![s] = NoUser]
  /\ UNCHANGED <<version, loginVars, daemonVars>>

\* allowedFor, on the cached identity.
Allowed(s, path) == user[s].roles \cap Menu[path] # {}

-----------------------------------------------------------------------------
(* A daemon *)

NoDaemon == [svc |-> "worker", login |-> NoLogin, todo |-> {}]

\* `kronwrk scheduler|worker start`, by hand or by `daemon start`.
StartDaemon(d, svc, u) ==
  /\ at[d] = "none" /\ life[u] = "present"
  /\ daemon' = [daemon EXCEPT ![d] = [svc |-> svc, login |-> u, todo |-> Probes(svc)]]
  /\ at' = [at EXCEPT ![d] = "preflight"]
  /\ steady' = [steady EXCEPT ![d] = TRUE]
  /\ UNCHANGED <<version, loginVars, sessionVars>>

\* The next probe of the preflight passes; after the last the loop runs.
ProbePasses(d) ==
  /\ at[d] = "preflight"
  /\ \E probe \in daemon[d].todo :
       /\ May(daemon[d].login, probe)
       /\ daemon' = [daemon EXCEPT ![d].todo = @ \ {probe}]
       /\ at' = [at EXCEPT ![d] = IF daemon[d].todo = {probe} THEN "up" ELSE @]
  /\ UNCHANGED <<version, loginVars, sessionVars, steady>>

\* The process ends: a probe was refused, or the daemon was stopped or died.
DaemonEnds(d) ==
  /\ at[d] # "none"
  /\ at' = [at EXCEPT ![d] = "none"]
  /\ daemon' = [daemon EXCEPT ![d] = NoDaemon]
  /\ steady' = [steady EXCEPT ![d] = FALSE]
  /\ UNCHANGED <<version, loginVars, sessionVars>>

-----------------------------------------------------------------------------
(* The specification *)

AccessInit ==
  /\ version = 0
  /\ life = [u \in Logins |-> "absent"]
  /\ granted = [u \in Logins |-> {}]
  /\ session = [s \in Sessions |-> NoLogin]
  /\ user = [s \in Sessions |-> NoUser]
  /\ daemon = [d \in Daemons |-> NoDaemon]
  /\ at = [d \in Daemons |-> "none"]
  /\ steady = [d \in Daemons |-> FALSE]

AccessNext ==
  \/ Migrate
  \/ \E by \in Admins, u \in Logins, g \in Groups :
       CreateUser(by, u, g) \/ SetUserRole(by, u, g)
  \/ \E u \in Logins : DropUser(u)
  \/ \E s \in Sessions, u \in Logins : Authenticate(s, u)
  \/ \E s \in Sessions : Logout(s)
  \/ \E d \in Daemons, svc \in {"scheduler", "worker"}, u \in Logins : StartDaemon(d, svc, u)
  \/ \E d \in Daemons : ProbePasses(d) \/ DaemonEnds(d)

AccessSpec == AccessInit /\ [][AccessNext]_accessVars

-----------------------------------------------------------------------------
(* Properties *)

Identities == [login : Logins \cup {NoLogin}, roles : SUBSET Groups]

\* The type of every variable.
AccessTypeOK ==
  /\ version \in 0 .. Latest
  /\ life \in [Logins -> {"absent", "present", "dropped"}]
  /\ granted \in [Logins -> SUBSET (Groups \X Admins)]
  /\ session \in [Sessions -> Logins \cup {NoLogin}]
  /\ user \in [Sessions -> Identities]
  /\ daemon \in [Daemons -> [svc : {"scheduler", "worker"}, login : Logins \cup {NoLogin},
                            todo : SUBSET (SchedulerProbes \cup WorkerProbes)]]
  /\ at \in [Daemons -> {"none", "preflight", "up"}]
  /\ steady \in [Daemons -> BOOLEAN]

\* SetUserRole "enforces one-role-per-user", for each administrator: no sequence
\* of user commands, at any schema version, leaves a login with two groups from
\* one grantor, with no group at all, or with a group once it is dropped.
OneRolePerUser ==
  \A u \in Logins :
    IF life[u] = "present"
    THEN granted[u] # {} /\ \A m, n \in granted[u] : m[2] = n[2] => m[1] = n[1]
    ELSE granted[u] = {}

\* A scheduler whose preflight passed can run every statement of its loop, at
\* whatever version the database was, as long as its login keeps its role
\* (PreflightScheduler: "a role lacking access fails here, at startup").
SchedulerPreflightSuffices ==
  \A d \in Daemons :
    at[d] = "up" /\ daemon[d].svc = "scheduler" /\ steady[d]
      => May(daemon[d].login, Loop("scheduler"))

\* A command the shell offers is one the database lets the login run, once the
\* schema is the one cmdPerms mirrors and unless the login's role changed after
\* the session cached it (permissions.go, cmdPerms).
MenuIsHonest ==
  \A s \in Sessions :
    session[s] # NoLogin /\ version >= 14 /\ user[s].roles = member[session[s]]
      => \A path \in DOMAIN Menu : Allowed(s, path) => May(session[s], Needs(path))

\* The identity a session shows and authorizes with is that of the login it is
\* connected as, over any sequence of logouts and logins (currentUser).
IdentityIsOwn == \A s \in Sessions : session[s] # NoLogin => user[s].login = session[s]

\* queries.go:172: PreflightWorker "verifies the connection can claim and
\* update runs".  It does for every login but one with the scheduler's role alone,
\* whose columns of 0014 let the probe pass and not the RETURNING of ClaimRun.
WorkerPreflightSuffices ==
  \A d \in Daemons :
    at[d] = "up" /\ daemon[d].svc = "worker" /\ steady[d]
      => member[daemon[d].login] = {"scheduler"} \/ May(daemon[d].login, Loop("worker"))
=============================================================================
