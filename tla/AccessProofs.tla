--------------------------- MODULE AccessProofs ----------------------------
(***************************************************************************)
(* Safety of Access for any number of logins, shells and daemons.            *)
(***************************************************************************)
EXTENDS Access, TLAPS

\* A present login has a role, and one from each administrator at most; any
\* other login has none.
OneRole == OneRolePerUser

\* The cached identity is set exactly while the shell is connected.
Cached ==
  \A s \in Sessions :
    IF session[s] = NoLogin THEN user[s] = NoUser ELSE user[s].login = session[s]

\* The probe that only the groups with the scheduler's grants of 0014 pass.
ConsumeProbe == P({"update"}, {"events"}, "all")
Consumers == {"admin", "operator", "scheduler"}

\* A daemon that has passed it under a role its login kept has those grants.
Vetted ==
  \A d \in Daemons :
    /\ at[d] = "up" => daemon[d].todo = {}
    /\ at[d] # "none" => daemon[d].login \in Logins
    /\ at[d] # "none" /\ daemon[d].svc = "scheduler" /\ steady[d]
         /\ ConsumeProbe \notin daemon[d].todo
       => /\ version >= 14
          /\ life[daemon[d].login] = "present"
          /\ member[daemon[d].login] \cap Consumers # {}

\* Who may run the worker's loop.
Able == {u \in Logins : May(u, WorkerLoop)}

\* A worker that is up under a role its login kept may run its loop, or is a
\* scheduler's.
VettedWorkers ==
  \A d \in Daemons :
    at[d] # "none" /\ daemon[d].svc = "worker" =>
      /\ daemon[d].todo \subseteq WorkerProbes
      /\ at[d] = "up" /\ steady[d] =>
           /\ life[daemon[d].login] = "present"
           /\ member[daemon[d].login] = {"scheduler"} \/ daemon[d].login \in Able

AInv == AccessTypeOK /\ OneRole /\ Cached /\ Vetted /\ VettedWorkers

\* The groups of a login are those of its memberships.
LEMMA MemberType ==
  ASSUME AccessTypeOK
  PROVE  member \in [Logins -> SUBSET Groups]
BY DEF AccessTypeOK, member

\* A login's groups follow its memberships.
LEMMA SameMember ==
  ASSUME NEW u \in Logins, granted'[u] = granted[u]
  PROVE  member'[u] = member[u]
BY DEF member

\* A privilege set is made of its verbs and tables.
LEMMA Privilege ==
  ASSUME NEW verbs, NEW tables, NEW cols
  PROVE  /\ \A p \in P(verbs, tables, cols) : p[1] \in verbs /\ p[2] \in tables /\ p[3] = cols
         /\ \A v \in verbs, t \in tables : <<v, t, cols>> \in P(verbs, tables, cols)
BY DEF P

\* Before 0014 no grant is about events.
LEMMA NoEventsBefore0014 ==
  /\ \A g \in DOMAIN Grants0003 : \A p \in Grants0003[g] : p[2] # "events"
  /\ \A g \in DOMAIN Grants0005 : \A p \in Grants0005[g] : p[2] # "events"
  /\ \A g \in DOMAIN Grants0006 : \A p \in Grants0006[g] : p[2] # "events"
  /\ \A g \in DOMAIN Grants0008 : \A p \in Grants0008[g] : p[2] # "events"
  /\ \A g \in DOMAIN Grants0013 : \A p \in Grants0013[g] : p[2] # "events"
<1>1. \A g \in DOMAIN Grants0003 : \A p \in Grants0003[g] : p[2] # "events"
  <2>1. \A p \in Grants0003["admin"] : p \in P(Verbs, {"jobs", "job_runs"}, "all")
    BY DEF Grants0003
  <2>2. \A p \in Grants0003["user"] : p \in P({"select"}, {"jobs", "job_runs"}, "all")
    BY DEF Grants0003
  <2>3. \A p \in Grants0003["support"] :
          \/ p \in P({"select"}, {"jobs", "job_runs"}, "all")
          \/ p \in P({"update"}, {"jobs"}, "enabled, updated_at")
    BY DEF Grants0003
  <2>4. \A g \in {"admin", "user", "support"} : \A p \in Grants0003[g] : p[2] # "events"
    BY <2>1, <2>2, <2>3, Privilege
  <2> QED
    BY <2>4 DEF Grants0003
<1>2. \A g \in DOMAIN Grants0005 : \A p \in Grants0005[g] : p[2] # "events"
  BY Privilege DEF Grants0005
<1>3. \A g \in DOMAIN Grants0006 : \A p \in Grants0006[g] : p[2] # "events"
  <2>1. \A p \in Grants0006["scheduler"] :
          \/ p \in P({"select", "update"}, {"jobs"}, "all")
          \/ p \in P({"insert"}, {"job_runs", "service_events"}, "all")
    BY DEF Grants0006
  <2>2. \A p \in Grants0006["worker"] :
          \/ p \in P({"select"}, {"jobs", "job_runs"}, "all")
          \/ p \in P({"update"}, {"job_runs"}, "all")
          \/ p \in P({"insert"}, {"service_events"}, "all")
    BY DEF Grants0006
  <2>3. \A p \in Grants0006["scheduler"] \cup Grants0006["worker"] : p[2] # "events"
    BY <2>1, <2>2, Privilege
  <2> QED
    BY <2>3 DEF Grants0006
<1>4. \A g \in DOMAIN Grants0008 : \A p \in Grants0008[g] : p[2] # "events"
  <2>1. Grants0008["scheduler"] = P({"select"}, {"job_runs"}, "job_id, scheduled_for")
    BY DEF Grants0008
  <2>2. \A p \in P({"select"}, {"job_runs"}, "job_id, scheduled_for") : p[2] # "events"
    BY Privilege
  <2>3. \A p \in Grants0008["scheduler"] : p[2] # "events"
    BY <2>1, <2>2
  <2> QED
    BY <2>3 DEF Grants0008
<1>5. \A g \in DOMAIN Grants0013 : \A p \in Grants0013[g] : p[2] # "events"
  <2>1. \A p \in Grants0013["operator"] :
          \/ p \in P({"select", "update"}, {"jobs", "job_runs"}, "all")
          \/ p \in P({"insert"}, {"job_runs"}, "all")
          \/ p \in P({"select", "insert"}, {"service_events"}, "all")
    BY DEF Grants0013
  <2>2. \A p \in Grants0013["operator"] : p[2] # "events"
    BY <2>1, Privilege
  <2> QED
    BY <2>2 DEF Grants0013
<1> QED
  BY <1>1, <1>2, <1>3, <1>4, <1>5

\* 0014 lets three groups update events.
LEMMA Updaters0014 ==
  ASSUME NEW g \in DOMAIN Grants0014, NEW p \in Grants0014[g], p[1] = "update", p[2] = "events"
  PROVE  g \in Consumers
<1> DEFINE readers == P({"select"}, {"events", "job_conditions"}, "all")
<1>1. Grants0014["user"] = readers /\ Grants0014["support"] = readers
  BY DEF Grants0014
<1>2. \A q \in readers : q[1] = "select"
  BY Privilege
<1> QED
  BY <1>1, <1>2 DEF Grants0014, Consumers

\* Only the consumers' groups may update events, and only since 0014.
LEMMA OnlyConsumersConsume ==
  ASSUME AccessTypeOK, NEW u \in Logins, May(u, ConsumeProbe)
  PROVE  version >= 14 /\ life[u] = "present" /\ member[u] \cap Consumers # {}
<1>1. <<"update", "events", "all">> \in ConsumeProbe
  BY Privilege DEF ConsumeProbe
<1>2. PICK p \in Privileges(u) : p[1] = "update" /\ p[2] = "events"
  BY <1>1 DEF May
<1>3. life[u] = "present"
  BY <1>2 DEF Privileges
<1>4. PICK g \in UNION {Inherited(h) : h \in member[u]}, m \in Grants :
        m[1] <= version /\ g \in DOMAIN m[2] /\ p \in m[2][g]
  BY <1>2, <1>3 DEF Privileges
<1>5. m = <<14, Grants0014>>
  BY <1>2, <1>4, NoEventsBefore0014 DEF Grants
<1>6. version >= 14 /\ version \in Int
  BY <1>4, <1>5 DEF AccessTypeOK, Latest
<1>7. g \in member[u]
  BY <1>4, <1>6 DEF Inherited
<1>8. g \in Consumers
  BY <1>2, <1>4, <1>5, Updaters0014
<1> QED
  BY <1>3, <1>6, <1>7, <1>8

\* A present login has what its group was granted.
LEMMA GrantGives ==
  ASSUME NEW u \in Logins, life[u] = "present", NEW g \in member[u],
         NEW m \in Grants, m[1] <= version, g \in DOMAIN m[2], NEW p \in m[2][g]
  PROVE  p \in Privileges(u)
<1>1. g \in Inherited(g)
  BY DEF Inherited
<1>2. p \in UNION {IF g \in DOMAIN k[2] THEN k[2][g] ELSE {} : k \in {k \in Grants : k[1] <= version}}
  OBVIOUS
<1> QED
  BY <1>1, <1>2 DEF Privileges

\* The statements of the loop, one by one.
LEMMA LoopNeeds ==
  ASSUME NEW n \in SchedulerLoop
  PROVE  \/ n[1] \in {"select", "update"} /\ n[2] = "jobs" /\ n[3] = "all"
         \/ n[1] = "select" /\ n[2] \in {"job_conditions", "events"} /\ n[3] = "all"
         \/ n[1] = "update" /\ n[2] \in {"events", "job_runs"} /\ n[3] = "all"
         \/ n[1] = "insert" /\ n[2] = "job_runs" /\ n[3] = "all"
         \/ /\ n[1] = "select" /\ n[2] = "job_runs"
            /\ n[3] \in {"job_id, scheduled_for", "id, status, wait_deadline"}
<1>1. \/ n \in P({"select", "update"}, {"jobs"}, "all")
      \/ n \in P({"select"}, {"job_conditions", "events"}, "all")
      \/ n \in P({"update"}, {"events", "job_runs"}, "all")
      \/ n \in P({"insert"}, {"job_runs"}, "all")
      \/ n \in P({"select"}, {"job_runs"}, "job_id, scheduled_for")
      \/ n \in P({"select"}, {"job_runs"}, "id, status, wait_deadline")
  BY DEF SchedulerLoop
<1> QED
  BY <1>1 DEF P

\* Since 0014 each of the consumers' groups can run the scheduler's loop.
LEMMA ConsumersRun ==
  ASSUME AccessTypeOK, NEW u \in Logins, version >= 14, life[u] = "present",
         member[u] \cap Consumers # {}
  PROVE  May(u, SchedulerLoop)
<1> DEFINE Has(v, t, c) == <<v, t, c>> \in Privileges(u)
<1>1. /\ \A g \in DOMAIN Grants0003 \cap member[u] : Grants0003[g] \subseteq Privileges(u)
      /\ \A g \in DOMAIN Grants0006 \cap member[u] : Grants0006[g] \subseteq Privileges(u)
      /\ \A g \in DOMAIN Grants0008 \cap member[u] : Grants0008[g] \subseteq Privileges(u)
      /\ \A g \in DOMAIN Grants0013 \cap member[u] : Grants0013[g] \subseteq Privileges(u)
      /\ \A g \in DOMAIN Grants0014 \cap member[u] : Grants0014[g] \subseteq Privileges(u)
  <2>1. \A m \in Grants : m[1] <= version
    BY DEF AccessTypeOK, Latest, Grants
  <2>2. \A m \in Grants : \A g \in DOMAIN m[2] \cap member[u] : m[2][g] \subseteq Privileges(u)
    BY <2>1, GrantGives
  <2> QED
    BY <2>2 DEF Grants
<1>2. CASE "admin" \in member[u]
  <2>1. /\ Grants0003["admin"] = P(Verbs, {"jobs", "job_runs"}, "all")
        /\ Grants0014["admin"] = P(Verbs, {"events", "job_conditions"}, "all")
        /\ "admin" \in DOMAIN Grants0003 /\ "admin" \in DOMAIN Grants0014
    BY DEF Grants0003, Grants0014
  <2>2. \A v \in Verbs, t \in {"jobs", "job_runs", "events", "job_conditions"} : Has(v, t, "all")
    BY <1>1, <1>2, <2>1, Privilege
  <2>3. \A n \in SchedulerLoop : Has(n[1], n[2], "all")
    BY <2>2, LoopNeeds DEF Verbs
  <2> QED
    BY <2>3 DEF May
<1>3. CASE "operator" \in member[u]
  <2>1. /\ P({"select", "update"}, {"jobs", "job_runs"}, "all") \subseteq Grants0013["operator"]
        /\ P({"insert"}, {"job_runs"}, "all") \subseteq Grants0013["operator"]
        /\ P({"select"}, {"events", "job_conditions"}, "all") \subseteq Grants0014["operator"]
        /\ P({"insert", "update"}, {"events"}, "all") \subseteq Grants0014["operator"]
        /\ "operator" \in DOMAIN Grants0013 /\ "operator" \in DOMAIN Grants0014
    BY DEF Grants0013, Grants0014
  <2>2. /\ P({"select", "update"}, {"jobs", "job_runs"}, "all") \subseteq Privileges(u)
        /\ P({"insert"}, {"job_runs"}, "all") \subseteq Privileges(u)
        /\ P({"select"}, {"events", "job_conditions"}, "all") \subseteq Privileges(u)
        /\ P({"insert", "update"}, {"events"}, "all") \subseteq Privileges(u)
    BY <1>1, <1>3, <2>1
  <2>3. /\ \A v \in {"select", "update"}, t \in {"jobs", "job_runs"} : Has(v, t, "all")
        /\ Has("insert", "job_runs", "all")
        /\ \A t \in {"events", "job_conditions"} : Has("select", t, "all")
        /\ Has("update", "events", "all")
    BY <2>2, Privilege
  <2>4. \A n \in SchedulerLoop : Has(n[1], n[2], "all")
    BY <2>3, LoopNeeds
  <2> QED
    BY <2>4 DEF May
<1>4. CASE "scheduler" \in member[u]
  <2>1. /\ P({"select", "update"}, {"jobs"}, "all") \subseteq Grants0006["scheduler"]
        /\ P({"insert"}, {"job_runs", "service_events"}, "all") \subseteq Grants0006["scheduler"]
        /\ P({"select"}, {"job_runs"}, "job_id, scheduled_for") \subseteq Grants0008["scheduler"]
        /\ P({"select"}, {"job_conditions", "events"}, "all") \subseteq Grants0014["scheduler"]
        /\ P({"update"}, {"events", "job_runs"}, "all") \subseteq Grants0014["scheduler"]
        /\ P({"select"}, {"job_runs"}, "id, status, wait_deadline") \subseteq Grants0014["scheduler"]
        /\ "scheduler" \in DOMAIN Grants0006 /\ "scheduler" \in DOMAIN Grants0008
        /\ "scheduler" \in DOMAIN Grants0014
    BY DEF Grants0006, Grants0008, Grants0014
  <2>2. SchedulerLoop \subseteq Privileges(u)
    <3>1. P({"insert"}, {"job_runs"}, "all") \subseteq P({"insert"}, {"job_runs", "service_events"}, "all")
      BY DEF P
    <3> QED
      BY <1>1, <1>4, <2>1, <3>1 DEF SchedulerLoop
  <2> QED
    BY <2>2, LoopNeeds DEF May
<1> QED
  BY <1>2, <1>3, <1>4 DEF Consumers

-----------------------------------------------------------------------------
(* What the groups are worth *)

Tables == {"jobs", "job_runs", "service_events", "events", "job_conditions"}

\* u has the privilege on whole rows of the table.
Has(u, verb, table) == <<verb, table, "all">> \in Privileges(u)

\* What the groups are worth since 0014.
LEMMA RightsSince0014 ==
  ASSUME AccessTypeOK, NEW u \in Logins, version >= 14, life[u] = "present"
  PROVE  /\ "admin" \in member[u] => \A v \in Verbs, t \in Tables : Has(u, v, t)
         /\ "user" \in member[u] => \A t \in Tables : Has(u, "select", t)
         /\ "support" \in member[u] => /\ \A t \in Tables : Has(u, "select", t)
                                       /\ <<"update", "jobs", "enabled, updated_at">> \in Privileges(u)
         /\ "operator" \in member[u] => /\ \A v \in {"select", "update"}, t \in {"jobs", "job_runs"} : Has(u, v, t)
                                        /\ \A t \in {"job_runs", "service_events"} : Has(u, "insert", t)
                                        /\ \A t \in {"events", "job_conditions"} : Has(u, "select", t)
                                        /\ \A v \in {"insert", "update"} : Has(u, v, "events")
         /\ "scheduler" \in member[u] => /\ \A v \in {"select", "update"} : Has(u, v, "jobs")
                                         /\ \A t \in {"events", "job_conditions"} : Has(u, "select", t)
         /\ "worker" \in member[u] => \A t \in {"jobs", "job_runs"} : Has(u, "select", t)
<1>1. /\ \A g \in DOMAIN Grants0003 \cap member[u] : Grants0003[g] \subseteq Privileges(u)
      /\ \A g \in DOMAIN Grants0005 \cap member[u] : Grants0005[g] \subseteq Privileges(u)
      /\ \A g \in DOMAIN Grants0006 \cap member[u] : Grants0006[g] \subseteq Privileges(u)
      /\ \A g \in DOMAIN Grants0013 \cap member[u] : Grants0013[g] \subseteq Privileges(u)
      /\ \A g \in DOMAIN Grants0014 \cap member[u] : Grants0014[g] \subseteq Privileges(u)
  <2>1. \A m \in Grants : m[1] <= version
    BY DEF AccessTypeOK, Latest, Grants
  <2>2. \A m \in Grants : \A g \in DOMAIN m[2] \cap member[u] : m[2][g] \subseteq Privileges(u)
    BY <2>1, GrantGives
  <2> QED
    BY <2>2 DEF Grants
<1>2. ASSUME "admin" \in member[u] PROVE \A v \in Verbs, t \in Tables : Has(u, v, t)
  <2>1. /\ P(Verbs, {"jobs", "job_runs"}, "all") \subseteq Privileges(u)
        /\ P(Verbs, {"service_events"}, "all") \subseteq Privileges(u)
        /\ P(Verbs, {"events", "job_conditions"}, "all") \subseteq Privileges(u)
    <3>1. /\ "admin" \in DOMAIN Grants0003 /\ Grants0003["admin"] = P(Verbs, {"jobs", "job_runs"}, "all")
          /\ "admin" \in DOMAIN Grants0005 /\ Grants0005["admin"] = P(Verbs, {"service_events"}, "all")
          /\ "admin" \in DOMAIN Grants0014 /\ Grants0014["admin"] = P(Verbs, {"events", "job_conditions"}, "all")
      BY DEF Grants0003, Grants0005, Grants0014
    <3> QED
      BY <1>1, <1>2, <3>1
  <2> QED
    BY <2>1, Privilege DEF Has, Tables
<1>3. ASSUME "user" \in member[u] PROVE \A t \in Tables : Has(u, "select", t)
  <2>1. /\ P({"select"}, {"jobs", "job_runs"}, "all") \subseteq Privileges(u)
        /\ P({"select"}, {"service_events"}, "all") \subseteq Privileges(u)
        /\ P({"select"}, {"events", "job_conditions"}, "all") \subseteq Privileges(u)
    <3>1. /\ "user" \in DOMAIN Grants0003 /\ Grants0003["user"] = P({"select"}, {"jobs", "job_runs"}, "all")
          /\ "user" \in DOMAIN Grants0005 /\ Grants0005["user"] = P({"select"}, {"service_events"}, "all")
          /\ "user" \in DOMAIN Grants0014 /\ Grants0014["user"] = P({"select"}, {"events", "job_conditions"}, "all")
      BY DEF Grants0003, Grants0005, Grants0014
    <3> QED
      BY <1>1, <1>3, <3>1
  <2> QED
    BY <2>1, Privilege DEF Has, Tables
<1>4. ASSUME "support" \in member[u]
      PROVE  /\ \A t \in Tables : Has(u, "select", t)
             /\ <<"update", "jobs", "enabled, updated_at">> \in Privileges(u)
  <2>1. /\ P({"select"}, {"jobs", "job_runs"}, "all") \subseteq Privileges(u)
        /\ P({"update"}, {"jobs"}, "enabled, updated_at") \subseteq Privileges(u)
        /\ P({"select"}, {"service_events"}, "all") \subseteq Privileges(u)
        /\ P({"select"}, {"events", "job_conditions"}, "all") \subseteq Privileges(u)
    <3>1. /\ "support" \in DOMAIN Grants0003 \cap DOMAIN Grants0005 \cap DOMAIN Grants0014
          /\ Grants0003["support"] = P({"select"}, {"jobs", "job_runs"}, "all")
                                       \cup P({"update"}, {"jobs"}, "enabled, updated_at")
          /\ Grants0005["support"] = P({"select"}, {"service_events"}, "all")
          /\ Grants0014["support"] = P({"select"}, {"events", "job_conditions"}, "all")
      BY DEF Grants0003, Grants0005, Grants0014
    <3> QED
      BY <1>1, <1>4, <3>1
  <2>2. <<"update", "jobs", "enabled, updated_at">> \in P({"update"}, {"jobs"}, "enabled, updated_at")
    BY Privilege
  <2>3. \A t \in Tables : Has(u, "select", t)
    <3>1. /\ \A t \in {"jobs", "job_runs"} :
               <<"select", t, "all">> \in P({"select"}, {"jobs", "job_runs"}, "all")
          /\ \A t \in {"service_events"} :
               <<"select", t, "all">> \in P({"select"}, {"service_events"}, "all")
          /\ \A t \in {"events", "job_conditions"} :
               <<"select", t, "all">> \in P({"select"}, {"events", "job_conditions"}, "all")
      BY Privilege
    <3> QED
      BY <2>1, <3>1 DEF Has, Tables
  <2> QED
    BY <2>1, <2>2, <2>3
<1>5. ASSUME "operator" \in member[u]
      PROVE  /\ \A v \in {"select", "update"}, t \in {"jobs", "job_runs"} : Has(u, v, t)
             /\ \A t \in {"job_runs", "service_events"} : Has(u, "insert", t)
             /\ \A t \in {"events", "job_conditions"} : Has(u, "select", t)
             /\ \A v \in {"insert", "update"} : Has(u, v, "events")
  <2>1. /\ P({"select", "update"}, {"jobs", "job_runs"}, "all") \subseteq Privileges(u)
        /\ P({"insert"}, {"job_runs"}, "all") \subseteq Privileges(u)
        /\ P({"select", "insert"}, {"service_events"}, "all") \subseteq Privileges(u)
        /\ P({"select"}, {"events", "job_conditions"}, "all") \subseteq Privileges(u)
        /\ P({"insert", "update"}, {"events"}, "all") \subseteq Privileges(u)
    <3>1. /\ "operator" \in DOMAIN Grants0013 \cap DOMAIN Grants0014
          /\ Grants0013["operator"] = P({"select", "update"}, {"jobs", "job_runs"}, "all")
                                        \cup P({"insert"}, {"job_runs"}, "all")
                                        \cup P({"select", "insert"}, {"service_events"}, "all")
          /\ Grants0014["operator"] = P({"select"}, {"events", "job_conditions"}, "all")
                                        \cup P({"insert", "update"}, {"events"}, "all")
      BY DEF Grants0013, Grants0014
    <3> QED
      BY <1>1, <1>5, <3>1
  <2> QED
    BY <2>1, Privilege DEF Has
<1>6. ASSUME "scheduler" \in member[u]
      PROVE  /\ \A v \in {"select", "update"} : Has(u, v, "jobs")
             /\ \A t \in {"events", "job_conditions"} : Has(u, "select", t)
  <2>1. /\ P({"select", "update"}, {"jobs"}, "all") \subseteq Privileges(u)
        /\ P({"select"}, {"job_conditions", "events"}, "all") \subseteq Privileges(u)
    <3>1. /\ "scheduler" \in DOMAIN Grants0006 \cap DOMAIN Grants0014
          /\ P({"select", "update"}, {"jobs"}, "all") \subseteq Grants0006["scheduler"]
          /\ P({"select"}, {"job_conditions", "events"}, "all") \subseteq Grants0014["scheduler"]
      BY DEF Grants0006, Grants0014
    <3> QED
      BY <1>1, <1>6, <3>1
  <2> QED
    BY <2>1, Privilege DEF Has
<1>7. ASSUME "worker" \in member[u] PROVE \A t \in {"jobs", "job_runs"} : Has(u, "select", t)
  <2>1. P({"select"}, {"jobs", "job_runs"}, "all") \subseteq Privileges(u)
    BY <1>1, <1>7 DEF Grants0006
  <2> QED
    BY <2>1, Privilege DEF Has
<1> QED
  BY <1>2, <1>3, <1>4, <1>5, <1>6, <1>7

-----------------------------------------------------------------------------
(* The worker's preflight *)

\* Whoever may lock a run has the grants of one of four groups.
LEMMA Lockers ==
  ASSUME NEW m \in Grants, NEW g \in DOMAIN m[2], NEW p \in m[2][g],
         p[1] = "update", p[2] = "job_runs"
  PROVE  \/ m = <<3, Grants0003>> /\ g = "admin"
         \/ m = <<6, Grants0006>> /\ g = "worker"
         \/ m = <<13, Grants0013>> /\ g = "operator"
         \/ m = <<14, Grants0014>> /\ g = "scheduler"
<1>1. CASE m = <<3, Grants0003>>
  <2>1. \A q \in Grants0003["user"] : q[1] # "update"
    BY Privilege DEF Grants0003
  <2>2. Grants0003["support"] = P({"select"}, {"jobs", "job_runs"}, "all")
                                  \cup P({"update"}, {"jobs"}, "enabled, updated_at")
    BY DEF Grants0003
  <2>3. \A q \in Grants0003["support"] : q[1] # "update" \/ q[2] = "jobs"
    BY <2>2 DEF P
  <2>4. g \in {"admin", "user", "support"}
    BY <1>1 DEF Grants0003
  <2> QED
    BY <1>1, <2>1, <2>3, <2>4
<1>2. CASE m = <<5, Grants0005>>
  <2>1. \A h \in DOMAIN Grants0005 : \A q \in Grants0005[h] : q[2] = "service_events"
    BY Privilege DEF Grants0005
  <2> QED
    BY <1>2, <2>1
<1>3. CASE m = <<6, Grants0006>>
  <2>1. \A q \in Grants0006["scheduler"] :
          \/ q \in P({"select", "update"}, {"jobs"}, "all")
          \/ q \in P({"insert"}, {"job_runs", "service_events"}, "all")
    BY DEF Grants0006
  <2>2. \A q \in Grants0006["scheduler"] : q[1] = "insert" \/ q[2] = "jobs"
    BY <2>1, Privilege
  <2>3. g \in {"scheduler", "worker"}
    BY <1>3 DEF Grants0006
  <2> QED
    BY <1>3, <2>2, <2>3
<1>4. CASE m = <<8, Grants0008>>
  <2>1. DOMAIN Grants0008 = {"scheduler"}
        /\ Grants0008["scheduler"] = P({"select"}, {"job_runs"}, "job_id, scheduled_for")
    BY DEF Grants0008
  <2>2. \A q \in P({"select"}, {"job_runs"}, "job_id, scheduled_for") : q[1] = "select"
    BY DEF P
  <2> QED
    BY <1>4, <2>1, <2>2
<1>5. CASE m = <<13, Grants0013>>
  BY <1>5 DEF Grants0013
<1>6. CASE m = <<14, Grants0014>>
  <2>1. /\ \A q \in P(Verbs, {"events", "job_conditions"}, "all") : q[2] # "job_runs"
        /\ \A q \in P({"select"}, {"events", "job_conditions"}, "all") : q[2] # "job_runs"
        /\ \A q \in P({"insert", "update"}, {"events"}, "all") : q[2] # "job_runs"
    BY DEF P
  <2>2. \A h \in {"admin", "user", "support", "operator"} : \A q \in Grants0014[h] :
          \/ q \in P(Verbs, {"events", "job_conditions"}, "all")
          \/ q \in P({"select"}, {"events", "job_conditions"}, "all")
          \/ q \in P({"insert", "update"}, {"events"}, "all")
    <3>1. Grants0014["admin"] = P(Verbs, {"events", "job_conditions"}, "all")
      BY DEF Grants0014
    <3>2. Grants0014["user"] = P({"select"}, {"events", "job_conditions"}, "all")
      BY DEF Grants0014
    <3>3. Grants0014["support"] = P({"select"}, {"events", "job_conditions"}, "all")
      BY DEF Grants0014
    <3>4. Grants0014["operator"] = P({"select"}, {"events", "job_conditions"}, "all")
                                     \cup P({"insert", "update"}, {"events"}, "all")
      BY DEF Grants0014
    <3> QED
      BY <3>1, <3>2, <3>3, <3>4
  <2>3. g \in {"admin", "user", "support", "operator", "scheduler"}
    BY <1>6 DEF Grants0014
  <2> QED
    BY <1>6, <2>1, <2>2, <2>3
<1> QED
  BY <1>1, <1>2, <1>3, <1>4, <1>5, <1>6 DEF Grants

\* The statements of the loop, one by one.
LEMMA WorkerNeeds ==
  ASSUME NEW n \in WorkerLoop
  PROVE  \/ n[1] \in {"select", "update"} /\ n[2] = "job_runs" /\ n[3] = "all"
         \/ n[1] = "select" /\ n[2] = "jobs" /\ n[3] = "all"
<1>1. n \in P({"select", "update"}, {"job_runs"}, "all") \/ n \in P({"select"}, {"jobs"}, "all")
  BY DEF WorkerLoop
<1> QED
  BY <1>1 DEF P

\* A login that may lock a run is a scheduler's or can run the worker's loop.
LEMMA LockersRun ==
  ASSUME AccessTypeOK, OneRole, NEW u \in Logins,
         May(u, P({"update"}, {"job_runs"}, "any"))
  PROVE  member[u] = {"scheduler"} \/ May(u, WorkerLoop)
<1>1. <<"update", "job_runs", "any">> \in P({"update"}, {"job_runs"}, "any")
  BY Privilege
<1>2. PICK p \in Privileges(u) : p[1] = "update" /\ p[2] = "job_runs"
  BY <1>1 DEF May
<1>3. life[u] = "present"
  BY <1>2 DEF Privileges
<1>4. PICK h \in member[u] : \E g \in Inherited(h), m \in Grants :
        m[1] <= version /\ g \in DOMAIN m[2] /\ p \in m[2][g]
  BY <1>2, <1>3 DEF Privileges
<1>5. PICK g \in Inherited(h), m \in Grants : m[1] <= version /\ g \in DOMAIN m[2] /\ p \in m[2][g]
  BY <1>4
<1>6. m[2][g] \subseteq Privileges(u)
  BY <1>3, <1>4, <1>5 DEF Privileges
<1>7. \/ m = <<3, Grants0003>> /\ g = "admin"
      \/ m = <<6, Grants0006>> /\ g = "worker"
      \/ m = <<13, Grants0013>> /\ g = "operator"
      \/ m = <<14, Grants0014>> /\ g = "scheduler"
  BY <1>2, <1>5, Lockers
<1>8. ASSUME Has(u, "select", "job_runs"), Has(u, "update", "job_runs"),
             Has(u, "select", "jobs")
      PROVE  May(u, WorkerLoop)
  <2>1. \A n \in WorkerLoop : <<n[1], n[2], "all">> \in Privileges(u)
    BY <1>8, WorkerNeeds DEF Has
  <2> QED
    BY <2>1 DEF May
<1>9. CASE m = <<14, Grants0014>> /\ g = "scheduler"
  <2>1. version >= 14 /\ version \in Int
    BY <1>5, <1>9 DEF AccessTypeOK, Latest
  <2>2. h = "scheduler"
    BY <1>5, <1>9, <2>1 DEF Inherited
  <2>3. Has(u, "select", "jobs") /\ Has(u, "update", "job_runs")
    <3>1. P({"update"}, {"events", "job_runs"}, "all") \subseteq Privileges(u)
      BY <1>6, <1>9 DEF Grants0014
    <3> QED
      BY <1>3, <1>4, <2>1, <2>2, <3>1, RightsSince0014, Privilege DEF Has
  <2>4. ASSUME member[u] # {"scheduler"} PROVE Has(u, "select", "job_runs")
    <3>1. PICK k \in member[u] : k # "scheduler"
      BY <1>4, <2>2, <2>4
    <3>2. k \in {"admin", "user", "support", "worker", "operator"}
      BY <3>1, MemberType DEF Groups
    <3> QED
      BY <1>3, <2>1, <3>1, <3>2, RightsSince0014 DEF Verbs, Tables
  <2> QED
    BY <1>8, <2>3, <2>4
<1>10. CASE m = <<3, Grants0003>> /\ g = "admin"
  <2>1. P(Verbs, {"jobs", "job_runs"}, "all") \subseteq Privileges(u)
    BY <1>6, <1>10 DEF Grants0003
  <2> QED
    BY <2>1, <1>8, Privilege DEF Has, Verbs
<1>11. CASE m = <<6, Grants0006>> /\ g = "worker"
  <2>1. /\ P({"select"}, {"jobs", "job_runs"}, "all") \subseteq Privileges(u)
        /\ P({"update"}, {"job_runs"}, "all") \subseteq Privileges(u)
    BY <1>6, <1>11 DEF Grants0006
  <2> QED
    BY <2>1, <1>8, Privilege DEF Has
<1>12. CASE m = <<13, Grants0013>> /\ g = "operator"
  <2>1. P({"select", "update"}, {"jobs", "job_runs"}, "all") \subseteq Privileges(u)
    BY <1>6, <1>12 DEF Grants0013
  <2> QED
    BY <2>1, <1>8, Privilege DEF Has
<1> QED
  BY <1>7, <1>9, <1>10, <1>11, <1>12

\* A migration takes nothing from a login, but for 0012 from support.
LEMMA MigrateKeeps ==
  ASSUME AccessTypeOK, Migrate, NEW u \in Logins, ~(version = 11 /\ "support" \in member[u])
  PROVE  Privileges(u) \subseteq Privileges(u)'
<1>1. version \in Int /\ version' = version + 1 /\ life' = life /\ member' = member
  BY DEF AccessTypeOK, Latest, Migrate, loginVars, member
<1> SUFFICES ASSUME NEW p \in Privileges(u) PROVE p \in Privileges(u)'
  OBVIOUS
<1>2. life[u] = "present"
  BY DEF Privileges
<1>3. PICK h \in member[u], m \in Grants : \E g \in Inherited(h) :
        m[1] <= version /\ g \in DOMAIN m[2] /\ p \in m[2][g]
  BY <1>2 DEF Privileges
<1>4. Inherited(h) \subseteq Inherited(h)'
  BY <1>1, <1>3 DEF Inherited
<1>5. m[1] \in Int
  BY <1>3 DEF Grants
<1>6. m[1] <= version'
  BY <1>1, <1>3, <1>5
<1> QED
  BY <1>1, <1>2, <1>3, <1>4, <1>6 DEF Privileges

\* A login's rights are a function of the version, its life and its groups.
LEMMA SameRights ==
  ASSUME NEW u, NEW needs, version' = version, life'[u] = life[u], member'[u] = member[u]
  PROVE  May(u, needs)' <=> May(u, needs)
<1>1. Privileges(u)' = Privileges(u)
  BY DEF Privileges, Inherited
<1> QED
  BY <1>1 DEF May

-----------------------------------------------------------------------------
(* The inductive invariant *)

LEMMA AInit == AccessInit => AInv
BY AccessAssumption
   DEF AccessInit, AInv, AccessTypeOK, OneRole, OneRolePerUser, Cached, Vetted, VettedWorkers, Latest, NoUser,
       NoDaemon, Identities

LEMMA AMigrate ==
  ASSUME AInv, Migrate
  PROVE  AInv'
<1> USE DEF AInv, AccessTypeOK, Migrate, loginVars, sessionVars
<1>1. version' \in 0 .. Latest /\ version' >= version /\ version \in Int
  BY DEF Latest
<1>2. AccessTypeOK'
  BY <1>1
<1>3. OneRole' /\ Cached'
  BY DEF OneRole, OneRolePerUser, Cached
<1>4. Vetted'
  <2>1. \A d \in Daemons : steady'[d] => steady[d]
    OBVIOUS
  <2>2. member' = member
    BY DEF member
  <2> QED
    BY <1>1, <2>1, <2>2 DEF Vetted
<1>5. VettedWorkers'
  <2> SUFFICES ASSUME NEW d \in Daemons, at[d] = "up", daemon[d].svc = "worker", steady'[d],
                      member[daemon[d].login] # {"scheduler"}
               PROVE  daemon[d].login \in Able'
    BY DEF VettedWorkers, member
  <2>1. steady[d] /\ ~(version = 11 /\ "support" \in member[daemon[d].login])
    OBVIOUS
  <2>2. daemon[d].login \in Able
    BY <2>1 DEF VettedWorkers
  <2>3. \A u \in Able : ~(version = 11 /\ "support" \in member[u]) => u \in Able'
    BY MigrateKeeps DEF Able, May
  <2> QED
    BY <2>1, <2>2, <2>3
<1> QED
  BY <1>2, <1>3, <1>4, <1>5

LEMMA AUser ==
  ASSUME AInv, NEW u \in Logins,
         \/ \E by \in Admins, g \in Groups : CreateUser(by, u, g) \/ SetUserRole(by, u, g)
         \/ DropUser(u)
  PROVE  AInv'
<1> USE AccessAssumption
    DEF AInv, AccessTypeOK, sessionVars, daemonVars, CreateUser, SetUserRole, DropUser, Unsettle
<1>1. AccessTypeOK'
  <2>1. life' \in [Logins -> {"absent", "present", "dropped"}]
    OBVIOUS
  <2>2. granted' \in [Logins -> SUBSET (Groups \X Admins)]
    OBVIOUS
  <2>3. steady' \in [Daemons -> BOOLEAN]
    OBVIOUS
  <2> QED
    BY <2>1, <2>2, <2>3
<1>2. OneRole'
  <2> SUFFICES ASSUME NEW v \in Logins
               PROVE  IF life'[v] = "present"
                      THEN /\ granted'[v] # {}
                           /\ \A m, n \in granted'[v] : m[2] = n[2] => m[1] = n[1]
                      ELSE granted'[v] = {}
    BY DEF OneRole, OneRolePerUser
  <2>1. CASE v # u
    <3>1. life'[v] = life[v] /\ granted'[v] = granted[v]
      BY <2>1
    <3> QED
      BY <3>1 DEF OneRole, OneRolePerUser
  <2>2. ASSUME v = u, NEW by \in Admins, NEW g \in Groups, CreateUser(by, u, g)
        PROVE  life'[u] = "present" /\ granted'[u] = {<<g, by>>}
    BY <2>2
  <2>3. ASSUME v = u, NEW by \in Admins, NEW g \in Groups, SetUserRole(by, u, g)
        PROVE  /\ life'[u] = "present" /\ granted'[u] # {}
               /\ \A m, n \in granted'[u] : m[2] = n[2] => m[1] = n[1]
    <3>1. life'[u] = "present"
      BY <2>3
    <3>2. granted'[u] = (granted[u] \ (RevokedGroups \X {by})) \cup {<<g, by>>}
      BY <2>3
    <3>3. \A m \in granted'[u] \ {<<g, by>>} : m \in granted[u] /\ m[2] # by
      <4>1. \A m \in granted[u] : m[2] = by => m \in RevokedGroups \X {by}
        BY DEF RevokedGroups
      <4> QED
        BY <3>2, <4>1
    <3>4. \A m, n \in granted[u] : m[2] = n[2] => m[1] = n[1]
      BY <2>3 DEF OneRole, OneRolePerUser
    <3>5. ASSUME NEW m \in granted'[u], NEW n \in granted'[u], m[2] = n[2]
          PROVE  m[1] = n[1]
      <4>1. CASE m = <<g, by>> /\ n = <<g, by>>
        BY <4>1
      <4>2. CASE m # <<g, by>> /\ n # <<g, by>>
        BY <3>3, <3>4, <3>5, <4>2
      <4>3. <<g, by>>[2] = by
        OBVIOUS
      <4> QED
        BY <3>3, <3>5, <4>1, <4>2, <4>3
    <3>6. <<g, by>> \in granted'[u]
      BY <3>2
    <3> QED
      BY <3>1, <3>5, <3>6
  <2>4. ASSUME v = u, DropUser(u) PROVE life'[u] = "dropped" /\ granted'[u] = {}
    BY <2>4
  <2>5. CASE v = u /\ \E by \in Admins, g \in Groups : CreateUser(by, u, g)
    <3>1. PICK by, g : life'[u] = "present" /\ granted'[u] = {<<g, by>>}
      BY <2>2, <2>5
    <3> QED
      BY <2>5, <3>1
  <2>6. CASE v = u /\ \E by \in Admins, g \in Groups : SetUserRole(by, u, g)
    BY <2>3, <2>6
  <2>7. CASE v = u /\ DropUser(u)
    BY <2>4, <2>7
  <2> QED
    BY <2>1, <2>5, <2>6, <2>7
<1>3. Cached'
  BY DEF Cached
<1>4. Vetted'
  <2>1. /\ UNCHANGED <<version, daemon, at>>
        /\ \A d \in Daemons : steady'[d] /\ daemon[d].login \in Logins /\ life[daemon[d].login] = "present"
             => /\ steady[d]
                /\ life'[daemon[d].login] = life[daemon[d].login]
                /\ granted'[daemon[d].login] = granted[daemon[d].login]
        /\ \A d \in Daemons : steady'[d] => steady[d]
    OBVIOUS
  <2> QED
    BY <2>1, SameMember DEF Vetted
<1>5. VettedWorkers'
  <2> SUFFICES ASSUME NEW d \in Daemons, at[d] = "up", daemon[d].svc = "worker", steady'[d]
               PROVE  /\ life'[daemon[d].login] = "present"
                      /\ \/ member'[daemon[d].login] = {"scheduler"}
                         \/ daemon[d].login \in Able'
    BY DEF VettedWorkers
  <2>1. /\ steady[d] /\ daemon[d].login \in Logins /\ life[daemon[d].login] = "present"
        /\ member[daemon[d].login] = {"scheduler"} \/ daemon[d].login \in Able
    BY DEF Vetted, VettedWorkers
  <2>2. /\ version' = version /\ daemon' = daemon
        /\ life'[daemon[d].login] = life[daemon[d].login]
        /\ granted'[daemon[d].login] = granted[daemon[d].login]
    BY <2>1
  <2>3. \A v \in Logins : life'[v] = life[v] /\ granted'[v] = granted[v] => (v \in Able => v \in Able')
    BY <2>2, SameMember, SameRights DEF Able
  <2> QED
    BY <2>1, <2>2, <2>3, SameMember
<1> QED
  BY <1>1, <1>2, <1>3, <1>4, <1>5

LEMMA ASession ==
  ASSUME AInv, NEW s \in Sessions, (\E u \in Logins : Authenticate(s, u)) \/ Logout(s)
  PROVE  AInv'
<1> USE AccessAssumption DEF AInv, AccessTypeOK, loginVars, daemonVars
<1>0. VettedWorkers' /\ member' = member
  <2>1. UNCHANGED <<version, loginVars, daemonVars>> /\ member' = member
    BY DEF Authenticate, Logout, member
  <2>2. Able' = Able
    BY <2>1, SameRights DEF Able
  <2> QED
    BY <2>1, <2>2 DEF VettedWorkers
<1>1. CASE Logout(s)
  <2>1. NoUser \in Identities
    BY DEF NoUser, Identities
  <2> QED
    BY <1>0, <1>1, <2>1 DEF Logout, OneRole, OneRolePerUser, Cached, Vetted
<1>2. ASSUME NEW u \in Logins, Authenticate(s, u)
      PROVE  AInv'
  <2>1. user[s] = NoUser
    BY <1>2 DEF Authenticate, Cached
  <2>2. user' = [user EXCEPT ![s] = [login |-> u, roles |-> member[u]]]
    BY <1>2, <2>1 DEF Authenticate
  <2>3. [login |-> u, roles |-> member[u]] \in Identities
    BY MemberType DEF Identities
  <2> QED
    BY <1>0, <1>2, <2>2, <2>3 DEF Authenticate, OneRole, OneRolePerUser, Cached, Vetted
<1> QED
  BY <1>1, <1>2

LEMMA ADaemon ==
  ASSUME AInv, NEW d \in Daemons,
         \/ \E svc \in {"scheduler", "worker"}, u \in Logins : StartDaemon(d, svc, u)
         \/ ProbePasses(d) \/ DaemonEnds(d)
  PROVE  AInv'
<1> USE AccessAssumption DEF AInv, AccessTypeOK, loginVars, sessionVars, OneRole, OneRolePerUser, Cached
<1>0. VettedWorkers' /\ member' = member
  <2>1. UNCHANGED <<version, life, granted, member>>
        /\ \A e \in Daemons \ {d} : daemon'[e] = daemon[e] /\ at'[e] = at[e] /\ steady'[e] = steady[e]
    BY DEF StartDaemon, ProbePasses, DaemonEnds, member
  <2>2. Able' = Able
    BY <2>1, SameRights DEF Able
  <2>4. ASSUME NEW e \in Daemons \ {d}, at'[e] # "none", daemon'[e].svc = "worker"
        PROVE  /\ daemon'[e].todo \subseteq WorkerProbes
               /\ at'[e] = "up" /\ steady'[e] =>
                    /\ life'[daemon'[e].login] = "present"
                    /\ \/ member'[daemon'[e].login] = {"scheduler"}
                       \/ daemon'[e].login \in Able
    BY <2>1, <2>4 DEF VettedWorkers
  <2>5. ASSUME at'[d] # "none", daemon'[d].svc = "worker"
        PROVE  /\ daemon'[d].todo \subseteq WorkerProbes
               /\ at'[d] = "up" /\ steady'[d] =>
                    /\ life'[daemon'[d].login] = "present"
                    /\ \/ member'[daemon'[d].login] = {"scheduler"}
                       \/ daemon'[d].login \in Able
    <3>1. CASE \E svc \in {"scheduler", "worker"}, u \in Logins : StartDaemon(d, svc, u)
      BY <2>5, <3>1 DEF StartDaemon, Probes
    <3>2. CASE ProbePasses(d)
      <4>1. PICK probe \in daemon[d].todo :
              /\ May(daemon[d].login, probe)
              /\ daemon' = [daemon EXCEPT ![d].todo = @ \ {probe}]
        BY <3>2 DEF ProbePasses
      <4>2. /\ daemon'[d].login = daemon[d].login /\ daemon'[d].svc = daemon[d].svc
            /\ daemon'[d].todo \subseteq daemon[d].todo
            /\ at[d] = "preflight"
        BY <3>2, <4>1 DEF ProbePasses
      <4>3. daemon[d].todo \subseteq WorkerProbes /\ daemon[d].login \in Logins
        BY <2>5, <4>2 DEF VettedWorkers, Vetted
      <4>4. May(daemon[d].login, P({"update"}, {"job_runs"}, "any"))
        <5>1. P({"update"}, {"job_runs"}, "any") \subseteq probe
          <6>1. probe = P({"select"}, {"job_runs"}, "id, status, wait_deadline")
                          \cup P({"update"}, {"job_runs"}, "any")
            BY <4>1, <4>3 DEF WorkerProbes
          <6> QED
            BY <6>1
        <5> QED
          BY <4>1, <5>1 DEF May
      <4>5. member[daemon[d].login] = {"scheduler"} \/ daemon[d].login \in Able
        BY <4>3, <4>4, LockersRun DEF Able
      <4>6. life[daemon[d].login] = "present"
        <5>1. <<"update", "job_runs", "any">> \in P({"update"}, {"job_runs"}, "any")
          BY Privilege
        <5> QED
          BY <4>4, <5>1 DEF May, Privileges
      <4> QED
        BY <2>1, <4>2, <4>3, <4>5, <4>6
    <3>3. CASE DaemonEnds(d)
      BY <2>5, <3>3 DEF DaemonEnds
    <3> QED
      BY <3>1, <3>2, <3>3
  <2> QED
    BY <2>1, <2>2, <2>4, <2>5 DEF VettedWorkers
<1>1. ASSUME NEW svc \in {"scheduler", "worker"}, NEW u \in Logins, StartDaemon(d, svc, u)
      PROVE  AInv'
  <2>1. svc = "scheduler" => Probes(svc) = SchedulerProbes
    BY DEF Probes
  <2>2. ConsumeProbe \in SchedulerProbes
    BY DEF SchedulerProbes, ConsumeProbe
  <2>3. Probes(svc) \subseteq SchedulerProbes \cup WorkerProbes
    BY DEF Probes
  <2> QED
    BY <1>0, <1>1, <2>1, <2>2, <2>3 DEF StartDaemon, Vetted
<1>2. CASE ProbePasses(d)
  <2>1. PICK probe \in daemon[d].todo :
          /\ May(daemon[d].login, probe)
          /\ daemon' = [daemon EXCEPT ![d].todo = @ \ {probe}]
          /\ at' = [at EXCEPT ![d] = IF daemon[d].todo = {probe} THEN "up" ELSE @]
    BY <1>2 DEF ProbePasses
  <2>2. daemon[d].login \in Logins
    BY <1>2 DEF ProbePasses, Vetted
  <2>3. probe = ConsumeProbe =>
          /\ version >= 14 /\ life[daemon[d].login] = "present"
          /\ member[daemon[d].login] \cap Consumers # {}
    BY <2>1, <2>2, OnlyConsumersConsume
  <2>4. daemon'[d] = [daemon[d] EXCEPT !.todo = @ \ {probe}]
    BY <2>1
  <2>5. AccessTypeOK'
    BY <1>2, <2>1 DEF ProbePasses
  <2>6. Vetted'
    <3>1. at[d] = "preflight" /\ at'[d] \in {"preflight", "up"}
      BY <1>2, <2>1 DEF ProbePasses
    <3>2. at'[d] = "up" => daemon'[d].todo = {}
      BY <2>1, <2>4, <3>1
    <3>3. /\ daemon'[d].login = daemon[d].login /\ daemon'[d].svc = daemon[d].svc
          /\ ConsumeProbe \notin daemon'[d].todo => ConsumeProbe \notin daemon[d].todo \/ probe = ConsumeProbe
      BY <2>4
    <3>4. \A e \in Daemons \ {d} : daemon'[e] = daemon[e] /\ at'[e] = at[e]
      BY <2>1
    <3> QED
      BY <1>0, <1>2, <2>2, <2>3, <3>1, <3>2, <3>3, <3>4 DEF ProbePasses, Vetted
  <2> QED
    BY <1>0, <1>2, <2>5, <2>6 DEF ProbePasses
<1>3. CASE DaemonEnds(d)
  <2>1. NoDaemon \in [svc : {"scheduler", "worker"}, login : Logins \cup {NoLogin},
                      todo : SUBSET (SchedulerProbes \cup WorkerProbes)]
    BY DEF NoDaemon
  <2> QED
    BY <1>0, <1>3, <2>1 DEF DaemonEnds, Vetted
<1> QED
  BY <1>1, <1>2, <1>3

LEMMA ANext == AInv /\ [AccessNext]_accessVars => AInv'
<1> SUFFICES ASSUME AInv, [AccessNext]_accessVars PROVE AInv'
  OBVIOUS
<1>1. CASE AccessNext
  BY <1>1, AMigrate, AUser, ASession, ADaemon DEF AccessNext
<1>2. CASE UNCHANGED accessVars
  <2>1. UNCHANGED <<version, life, granted, member, session, user, daemon, at, steady>>
    BY <1>2 DEF accessVars, loginVars, sessionVars, daemonVars, member
  <2>2. Able' = Able
    BY <2>1, SameRights DEF Able
  <2> QED
    BY <2>1, <2>2 DEF AInv, AccessTypeOK, OneRole, OneRolePerUser, Cached, Vetted,
                        VettedWorkers
<1> QED
  BY <1>1, <1>2

THEOREM AInvariance == AccessSpec => []AInv
BY AInit, ANext, PTL DEF AccessSpec

\* Logins, schema version, sessions and daemons keep their types.
THEOREM AccessTypes == AccessSpec => []AccessTypeOK
<1>1. AInv => AccessTypeOK
  BY DEF AInv
<1> QED
  BY <1>1, AInvariance, PTL

\* A login never has two roles from one administrator, nor none while it exists.
THEOREM OneRoleEach == AccessSpec => []OneRolePerUser
<1>1. AInv => OneRolePerUser
  BY DEF AInv, OneRole
<1> QED
  BY <1>1, AInvariance, PTL

\* A shell never authorizes with the identity of an earlier login.
THEOREM OwnIdentity == AccessSpec => []IdentityIsOwn
<1>1. AInv => IdentityIsOwn
  BY DEF AInv, Cached, IdentityIsOwn
<1> QED
  BY <1>1, AInvariance, PTL

\* The scheduler's preflight is enough: passing it at any version under a role
\* that is kept means the loop has every privilege it needs.
THEOREM SchedulerVetted == AccessSpec => []SchedulerPreflightSuffices
<1>1. AInv => SchedulerPreflightSuffices
  <2> SUFFICES ASSUME AInv, NEW d \in Daemons, at[d] = "up", daemon[d].svc = "scheduler", steady[d]
               PROVE  May(daemon[d].login, SchedulerLoop)
    BY DEF SchedulerPreflightSuffices, Loop
  <2>1. /\ daemon[d].login \in Logins /\ version >= 14 /\ life[daemon[d].login] = "present"
        /\ member[daemon[d].login] \cap Consumers # {}
    BY DEF AInv, Vetted
  <2> QED
    BY <2>1, ConsumersRun DEF AInv
<1> QED
  BY <1>1, AInvariance, PTL

\* The worker's preflight is enough for every login but a scheduler's: passing
\* it under a role that is kept means that the loop has its privileges.
THEOREM WorkerVetted == AccessSpec => []WorkerPreflightSuffices
<1>1. AInv => WorkerPreflightSuffices
  BY DEF AInv, VettedWorkers, Able, WorkerPreflightSuffices, Loop
<1> QED
  BY <1>1, AInvariance, PTL

-----------------------------------------------------------------------------
(* The menu *)

\* Privileges on whole rows allow the statement.
LEMMA Enough ==
  ASSUME NEW u, NEW needs, \A n \in needs : Has(u, n[1], n[2])
  PROVE  May(u, needs)
BY DEF Has, May

\* The commands' statements, one by one.
LEMMA CommandNeeds ==
  /\ \A n \in Needs("jobAdd") : n[1] \in {"select", "insert"} /\ n[2] = "jobs"
  /\ \A n \in Needs("jobList") : n[1] = "select" /\ n[2] = "jobs"
  /\ \A n \in Needs("jobEnable") :
       /\ n[1] \in {"select", "update"} /\ n[2] = "jobs"
       /\ n[1] = "update" => n[3] = "enabled, updated_at"
  /\ \A n \in Needs("jobConditionAdd") : n[1] = "insert" /\ n[2] = "job_conditions"
  /\ \A n \in Needs("jobConditionRemove") : n[1] \in {"select", "delete"} /\ n[2] = "job_conditions"
  /\ \A n \in Needs("jobConditionList") : n[1] = "select" /\ n[2] = "job_conditions"
  /\ \A n \in Needs("runStatus") : n[1] = "select" /\ n[2] = "job_runs"
  /\ \A n \in Needs("monitor") : n[1] = "select" /\ n[2] \in {"jobs", "job_runs"}
  /\ \A n \in Needs("eventEmit") : n[1] \in {"select", "insert"} /\ n[2] = "events"
  /\ \A n \in Needs("eventList") : n[1] = "select" /\ n[2] = "events"
  /\ \A n \in Needs("daemonStop") : n[1] = "insert" /\ n[2] = "service_events"
<1>1. \A n \in Needs("jobEnable") :
        /\ n[1] \in {"select", "update"} /\ n[2] = "jobs"
        /\ n[1] = "update" => n[3] = "enabled, updated_at"
  <2>1. \A n \in Needs("jobEnable") : \/ n \in P({"select"}, {"jobs"}, "all")
                                      \/ n \in P({"update"}, {"jobs"}, "enabled, updated_at")
    BY DEF Needs
  <2>2. /\ \A n \in P({"select"}, {"jobs"}, "all") : n[1] = "select" /\ n[2] = "jobs"
        /\ \A n \in P({"update"}, {"jobs"}, "enabled, updated_at") :
             n[1] = "update" /\ n[2] = "jobs" /\ n[3] = "enabled, updated_at"
    BY DEF P
  <2> QED
    BY <2>1, <2>2
<1>2. /\ Needs("jobAdd") = P({"select", "insert"}, {"jobs"}, "all")
      /\ Needs("jobList") = P({"select"}, {"jobs"}, "all")
      /\ Needs("jobConditionAdd") = P({"insert"}, {"job_conditions"}, "all")
      /\ Needs("jobConditionRemove") = P({"select", "delete"}, {"job_conditions"}, "all")
      /\ Needs("jobConditionList") = P({"select"}, {"job_conditions"}, "all")
      /\ Needs("runStatus") = P({"select"}, {"job_runs"}, "all")
      /\ Needs("monitor") = P({"select"}, {"jobs", "job_runs"}, "all")
      /\ Needs("eventEmit") = P({"select", "insert"}, {"events"}, "all")
      /\ Needs("eventList") = P({"select"}, {"events"}, "all")
      /\ Needs("daemonStop") = P({"insert"}, {"service_events"}, "all")
  BY DEF Needs, LogServiceEvent
<1> QED
  BY <1>1, <1>2 DEF P

\* `daemon start` needs both preflights and the audit row.
LEMMA DaemonStartNeeds ==
  ASSUME NEW n \in Needs("daemonStart")
  PROVE  \/ n[1] \in {"select", "update"} /\ n[2] \in {"jobs", "job_runs"}
         \/ n[1] = "insert" /\ n[2] \in {"job_runs", "service_events"}
         \/ n[1] = "select" /\ n[2] \in {"job_conditions", "events"}
         \/ n[1] = "update" /\ n[2] = "events"
<1>1. CASE n \in LogServiceEvent
  BY <1>1 DEF LogServiceEvent, P
<1>2. CASE n \in UNION (SchedulerProbes \cup WorkerProbes)
  <2>1. \/ n \in P({"select"}, {"jobs"}, "all")
        \/ n \in P({"update"}, {"jobs"}, "any")
        \/ n \in P({"insert"}, {"job_runs"}, "all")
        \/ n \in P({"select"}, {"job_runs"}, "job_id, scheduled_for")
        \/ n \in P({"select"}, {"job_conditions"}, "all")
        \/ n \in P({"select"}, {"events"}, "all")
        \/ n \in P({"update"}, {"events"}, "any")
        \/ n \in P({"update"}, {"events"}, "all")
        \/ n \in P({"select"}, {"job_runs"}, "id, status, wait_deadline")
        \/ n \in P({"update"}, {"job_runs"}, "any")
        \/ n \in P({"update"}, {"job_runs"}, "all")
    BY <1>2 DEF SchedulerProbes, WorkerProbes
  <2> QED
    BY <2>1 DEF P
<1>3. Needs("daemonStart") = LogServiceEvent \cup UNION (SchedulerProbes \cup WorkerProbes)
  BY DEF Needs
<1> QED
  BY <1>1, <1>2, <1>3

\* The menu copied by hand into cmdPerms offers no command that the grants of
\* the migrations refuse.
THEOREM HonestMenu == AccessSpec => []MenuIsHonest
<1>1. AInv => MenuIsHonest
  <2> SUFFICES ASSUME AInv, NEW s \in Sessions, session[s] # NoLogin, version >= 14,
                      user[s].roles = member[session[s]],
                      NEW path \in DOMAIN Menu, Allowed(s, path)
               PROVE  May(session[s], Needs(path))
    BY DEF MenuIsHonest
  <2> DEFINE u == session[s]
  <2>1. u \in Logins /\ AccessTypeOK
    BY DEF AInv, AccessTypeOK
  <2>2. PICK g \in Groups : g \in member[u] /\ g \in Menu[path]
    BY <2>1, MemberType DEF Allowed
  <2>3. life[u] = "present"
    BY <2>1, <2>2 DEF AInv, OneRole, OneRolePerUser, member
  <2> HIDE DEF u
  <2>4. CASE path = "jobEnable"
    <3>1. g \in {"admin", "support", "scheduler", "operator"}
      BY <2>2, <2>4 DEF Menu
    <3>2. Has(u, "select", "jobs")
      BY <2>1, <2>2, <2>3, <3>1, RightsSince0014 DEF Verbs, Tables
    <3>3. Has(u, "update", "jobs") \/ <<"update", "jobs", "enabled, updated_at">> \in Privileges(u)
      BY <2>1, <2>2, <2>3, <3>1, RightsSince0014 DEF Verbs, Tables
    <3>4. May(u, Needs("jobEnable"))
      BY <3>2, <3>3, CommandNeeds DEF Has, May
    <3> QED
      BY <2>4, <3>4 DEF u
  <2>5. CASE path = "daemonStart"
    <3>1. g \in {"admin", "operator"}
      BY <2>2, <2>5 DEF Menu, DaemonRoles
    <3>2. \A n \in Needs("daemonStart") : Has(u, n[1], n[2])
      BY <2>1, <2>2, <2>3, <3>1, RightsSince0014, DaemonStartNeeds DEF Verbs, Tables
    <3> QED
      BY <2>5, <3>2, Enough DEF u
  <2>6. CASE path \in {"jobAdd", "jobConditionAdd", "jobConditionRemove"}
    <3>1. g = "admin"
      BY <2>2, <2>6 DEF Menu
    <3>2. \A v \in Verbs, t \in Tables : Has(u, v, t)
      BY <2>1, <2>2, <2>3, <3>1, RightsSince0014
    <3>3. \A n \in Needs(path) : n[1] \in Verbs /\ n[2] \in Tables
      BY <2>6, CommandNeeds DEF Verbs, Tables
    <3>4. \A n \in Needs(path) : Has(u, n[1], n[2])
      BY <3>2, <3>3
    <3> QED
      BY <3>4, Enough DEF u
  <2>7. CASE path \in {"eventEmit", "daemonStop"}
    <3>1. g \in {"admin", "operator"}
      BY <2>2, <2>7 DEF Menu, DaemonRoles
    <3>2. \A n \in Needs(path) : Has(u, n[1], n[2])
      BY <2>1, <2>2, <2>3, <2>7, <3>1, RightsSince0014, CommandNeeds DEF Verbs, Tables
    <3> QED
      BY <3>2, Enough DEF u
  <2>8. CASE path \in {"jobList", "jobConditionList", "runStatus", "monitor", "eventList"}
    <3>1. /\ path = "jobConditionList" => g # "worker"
          /\ path \in {"runStatus", "monitor"} => g # "scheduler"
          /\ path = "eventList" => g \in {"admin", "user", "support", "operator"}
      BY <2>2, <2>8 DEF Menu
    <3>2. /\ path = "jobList" => Has(u, "select", "jobs")
          /\ path = "jobConditionList" => Has(u, "select", "job_conditions")
          /\ path = "runStatus" => Has(u, "select", "job_runs")
          /\ path = "monitor" => Has(u, "select", "jobs") /\ Has(u, "select", "job_runs")
          /\ path = "eventList" => Has(u, "select", "events")
      BY <2>1, <2>2, <2>3, <3>1, RightsSince0014 DEF Verbs, Tables, Groups
    <3>3. \A n \in Needs(path) : Has(u, n[1], n[2])
      <4>1. CASE path = "jobList"
        BY <3>2, <4>1, CommandNeeds
      <4>2. CASE path = "jobConditionList"
        BY <3>2, <4>2, CommandNeeds
      <4>3. CASE path = "runStatus"
        BY <3>2, <4>3, CommandNeeds
      <4>4. CASE path = "monitor"
        BY <3>2, <4>4, CommandNeeds
      <4>5. CASE path = "eventList"
        BY <3>2, <4>5, CommandNeeds
      <4> QED
        BY <2>8, <4>1, <4>2, <4>3, <4>4, <4>5
    <3> QED
      BY <3>3, Enough DEF u
  <2> QED
    BY <2>4, <2>5, <2>6, <2>7, <2>8 DEF Menu
<1> QED
  BY <1>1, AInvariance, PTL
=============================================================================
