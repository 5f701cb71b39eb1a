----------------------------- MODULE ShellProofs -----------------------------
(* Proofs about Shell, for any set of logins. *)
EXTENDS Shell, TLAPS

-----------------------------------------------------------------------------
(* The invariant *)

Outcomes == {"done", "error", "refused", "cancelled", "denied"}

\* Before the login, between two of them and at the end, nobody is connected.
NobodyBetween ==
  at \in {"boot", "offer", "username", "password", "connect", "again", "exit"} =>
    pool = NoLogin /\ user = NoUser

\* Postgres has accepted the login and has not been asked who it is.
VetIsNew == at = "vet" => pool \in Logins /\ url = pool /\ user = NoUser

Themselves(u) == [login |-> u, role |-> role[u], attr |-> attr[u]]

\* PromptIsTrue, and what the checks of a command rest on: the cached identity
\* is not a superuser, and is what Postgres says unless the login was changed.
SessionIsOne ==
  InSession => /\ pool \in Logins /\ url = pool
               /\ user.login = pool /\ prompt.login = pool /\ user.attr # "superuser"
               /\ altered \/ (user = Themselves(pool) /\ prompt.role = role[pool])

\* What authorizeShellCmd would say of the session's login.
Vetted(c) == Allowed(Themselves(pool), c)

\* A refusal of c is due, but for the case that allowedFor does not know of.
RefusalDue(c) == Granted(c) => c = "userSetRole" /\ attr[pool] = "delegate"

\* The cases in which Postgres denies what authorizeShellCmd lets pass.
Overlooked(c) ==
  \/ c \in UserCommands /\ attr[pool] = "createrole"
  \/ c = "userRemove" /\ attr[pool] = "useradmin"

\* A command is under way: it has sent nothing, and authorizeShellCmd let it
\* pass.
CommandIsVetted ==
  at \in {"run", "asking", "line"} =>
    /\ cmd \notin Exempt => ~reached
    /\ inShell /\ ~altered /\ step > 1 /\ cmd \notin Exempt => Vetted(cmd)

PlacesAgree ==
  /\ at = "prompt" => inShell
  /\ ended # "none" => at \in {"prompt", "exit"}
  /\ at = "asking" => Stage \in {"flags", "secret", "confirm"}
  /\ at = "line" => Stage = "secret"

SInv ==
  /\ ShellTypeOK /\ NobodyBetween /\ VetIsNew /\ SessionIsOne
  /\ CommandIsVetted /\ PlacesAgree /\ RefusalsAreDue /\ EarlyEndsReachNothing

-----------------------------------------------------------------------------
(* Lemmas *)

\* The order of the stages: the check comes first, the statement last, and a
\* form is between them.
LEMMA StageOrder ==
  ASSUME NEW c \in Commands, NEW i \in 1 .. Len(Stages[c])
  PROVE  /\ Len(Stages[c]) \in Nat
         /\ Stages[c][i] = "authorize" => i = 1
         /\ i = 1 /\ c \notin Exempt => Stages[c][i] = "authorize"
         /\ Stages[c][i] \in {"authorize", "flags", "secret", "confirm", "parse"} => c \notin Exempt
         /\ Stages[c][i] \in {"read", "write"} => i = Len(Stages[c]) /\ c \notin Exempt /\ i > 1
         /\ Stages[c][i] = "store" => i < Len(Stages[c])
         /\ Stages[c][i] \in {"own", "preflight", "loop"} => c \in Exempt
<1>1. CASE c = "jobAdd"
  BY <1>1 DEF Stages, JobAdd, Exempt
<1>2. CASE c = "jobList"
  BY <1>2 DEF Stages, JobList, Exempt
<1>3. CASE c = "jobEnable"
  BY <1>3 DEF Stages, JobEnable, Exempt
<1>4. CASE c = "jobConditionAdd"
  BY <1>4 DEF Stages, JobConditionAdd, Exempt
<1>5. CASE c = "eventEmit"
  BY <1>5 DEF Stages, EventEmit, Exempt
<1>6. CASE c = "eventList"
  BY <1>6 DEF Stages, EventList, Exempt
<1>7. CASE c = "runStatus"
  BY <1>7 DEF Stages, RunStatus, Exempt
<1>8. CASE c = "userAdd"
  BY <1>8 DEF Stages, UserAdd, Exempt
<1>9. CASE c = "userRemove"
  BY <1>9 DEF Stages, UserRemove, Exempt
<1>10. CASE c = "userSetRole"
  BY <1>10 DEF Stages, UserSetRole, Exempt
<1>11. CASE c = "whoami"
  BY <1>11 DEF Stages, WhoAmI, Exempt
<1>12. CASE c = "migrate"
  BY <1>12 DEF Stages, MigrateStages, Exempt
<1>13. CASE c = "start"
  BY <1>13 DEF Stages, StartStages, Exempt
<1> QED
  BY <1>1, <1>2, <1>3, <1>4, <1>5, <1>6, <1>7, <1>8, <1>9, <1>10, <1>11, <1>12, <1>13 DEF Commands, Stages

LEMMA CommandNames ==
  Commands = {"jobAdd", "jobList", "jobEnable", "jobConditionAdd", "eventEmit", "eventList",
              "runStatus", "userAdd", "userRemove", "userSetRole", "whoami", "migrate", "start"}
BY DEF Commands, Stages

\* Every command has a stage.
LEMMA FirstStage == \A c \in Commands : 1 \in 1 .. Len(Stages[c])
<1> SUFFICES ASSUME NEW c \in Commands PROVE Len(Stages[c]) \in Nat \ {0}
  OBVIOUS
<1>1. CASE c = "jobAdd"
  BY <1>1 DEF Stages, JobAdd
<1>2. CASE c = "jobList"
  BY <1>2 DEF Stages, JobList
<1>3. CASE c = "jobEnable"
  BY <1>3 DEF Stages, JobEnable
<1>4. CASE c = "jobConditionAdd"
  BY <1>4 DEF Stages, JobConditionAdd
<1>5. CASE c = "eventEmit"
  BY <1>5 DEF Stages, EventEmit
<1>6. CASE c = "eventList"
  BY <1>6 DEF Stages, EventList
<1>7. CASE c = "runStatus"
  BY <1>7 DEF Stages, RunStatus
<1>8. CASE c = "userAdd"
  BY <1>8 DEF Stages, UserAdd
<1>9. CASE c = "userRemove"
  BY <1>9 DEF Stages, UserRemove
<1>10. CASE c = "userSetRole"
  BY <1>10 DEF Stages, UserSetRole
<1>11. CASE c = "whoami"
  BY <1>11 DEF Stages, WhoAmI
<1>12. CASE c = "migrate"
  BY <1>12 DEF Stages, MigrateStages
<1>13. CASE c = "start"
  BY <1>13 DEF Stages, StartStages
<1> QED
  BY <1>1, <1>2, <1>3, <1>4, <1>5, <1>6, <1>7, <1>8, <1>9, <1>10, <1>11, <1>12, <1>13, CommandNames

\* allowedFor says of the session's login what Postgres says of it, but for the
\* logins that have one of CREATEROLE and ADMIN OPTION, and the target of a
\* removal.
LEMMA ChecksAgree ==
  ASSUME NEW c \in Commands \ Exempt, pool \in Logins, ShellTypeOK
  PROVE  /\ ~Vetted(c) => RefusalDue(c)
         /\ Vetted(c) /\ ~Granted(c) => Overlooked(c)
         /\ Vetted(c) /\ c = "userRemove" /\ attr[pool] # "superuser" => Overlooked(c)
<1>1. role[pool] \in Roles /\ attr[pool] \in Attrs
  BY DEF ShellTypeOK
<1>2. Themselves(pool).role = role[pool] /\ Themselves(pool).attr = attr[pool]
  BY DEF Themselves
<1>3. c \in {"jobAdd", "jobList", "jobEnable", "jobConditionAdd", "eventEmit", "eventList",
             "runStatus", "userAdd", "userRemove", "userSetRole", "whoami"}
  BY CommandNames DEF Exempt
<1>4. /\ Perms["jobAdd"] = {"admin"} /\ Perms["jobEnable"] = {"admin"}
      /\ Perms["jobConditionAdd"] = {"admin"} /\ Perms["eventEmit"] = {"admin"}
      /\ Perms["jobList"] = {"admin", "user"} /\ Perms["eventList"] = {"admin", "user"}
      /\ Perms["runStatus"] = {"admin", "user"} /\ Perms["whoami"] = {}
  BY DEF Perms
<1>5. CASE c \in UserCommands
  <2>1. Vetted(c) <=> attr[pool] \in {"createrole", "useradmin", "superuser"}
    BY <1>2, <1>5 DEF Vetted, Allowed
  <2>2. c \in {"userAdd", "userRemove", "userSetRole"}
    BY <1>5 DEF UserCommands
  <2>3. /\ c \in {"userAdd", "userRemove"} =>
             (Granted(c) <=> attr[pool] \in {"useradmin", "superuser"})
        /\ c = "userSetRole" =>
             (Granted(c) <=> attr[pool] \in {"delegate", "useradmin", "superuser"})
    BY DEF Granted
  <2> QED
    BY <1>1, <1>5, <2>1, <2>2, <2>3 DEF RefusalDue, Overlooked, Attrs
<1>6. CASE c \in {"jobAdd", "jobEnable", "jobConditionAdd", "eventEmit"}
  BY <1>2, <1>4, <1>6 DEF Vetted, RefusalDue, Allowed, Granted, UserCommands
<1>7. CASE c \in {"jobList", "eventList", "runStatus"}
  BY <1>2, <1>4, <1>7 DEF Vetted, RefusalDue, Allowed, Granted, UserCommands
<1>8. CASE c = "whoami"
  BY <1>2, <1>4, <1>8 DEF Vetted, RefusalDue, Allowed, Granted, UserCommands
<1> QED
  BY <1>3, <1>5, <1>6, <1>7, <1>8 DEF UserCommands

\* Both answer alike while the login is the same and unchanged.
LEMMA AnswersFrame ==
  ASSUME NEW c, pool' = pool, role'[pool] = role[pool], attr'[pool] = attr[pool]
  PROVE  /\ Vetted(c)' <=> Vetted(c)
         /\ RefusalDue(c)' <=> RefusalDue(c)
         /\ Overlooked(c)' <=> Overlooked(c)
<1>1. Themselves(pool)' = Themselves(pool)
  BY DEF Themselves
<1> QED
  BY <1>1 DEF Vetted, RefusalDue, Overlooked, Granted, Allowed, UserCommands

\* The end of the process.
LEMMA LeaveInv ==
  ASSUME SInv, Leave, UNCHANGED <<tty, typed, cmd>>, step' \in 1 .. Len(Stages[cmd]),
         role' \in [Logins -> Roles], attr' \in [Logins -> Attrs],
         ended' \in {"none"} \cup Outcomes, reached' \in BOOLEAN, altered' \in BOOLEAN,
         ended' \in {"refused", "cancelled"} => ~reached'
  PROVE  SInv'
<1> USE DEF Leave
<1>1. ShellTypeOK'
  BY DEF SInv, ShellTypeOK, InSession, Outcomes, Asked
<1>2. NobodyBetween' /\ VetIsNew' /\ SessionIsOne' /\ CommandIsVetted' /\ PlacesAgree'
  BY DEF NobodyBetween, VetIsNew, SessionIsOne, CommandIsVetted, PlacesAgree, InSession
<1>3. RefusalsAreDue' /\ EarlyEndsReachNothing'
  BY DEF RefusalsAreDue, EarlyEndsReachNothing
<1> QED
  BY <1>1, <1>2, <1>3 DEF SInv

\* The end of a command.  What it did to the session's own login is on record.
LEMMA EndInv ==
  ASSUME SInv, at \in {"run", "asking", "line"}, NEW o \in Outcomes, End(o), UNCHANGED <<tty, cmd>>,
         role' \in [Logins -> Roles], attr' \in [Logins -> Attrs], reached' \in BOOLEAN,
         altered' \in BOOLEAN, altered => altered',
         ~altered' /\ pool \in Logins => role'[pool] = role[pool] /\ attr'[pool] = attr[pool],
         o \in {"refused", "cancelled"} => ~reached',
         inShell /\ ~altered' /\ cmd \notin Exempt => 
           (o = "refused" => RefusalDue(cmd)) /\ (o = "denied" => Overlooked(cmd))
  PROVE  SInv'
<1>1. CASE ~inShell
  <2>1. Leave /\ UNCHANGED typed /\ step' = 1 /\ ended' = o
    BY <1>1 DEF End
  <2>2. step' \in 1 .. Len(Stages[cmd])
    BY <2>1, FirstStage DEF SInv, ShellTypeOK
  <2> QED
    BY <2>1, <2>2, LeaveInv
<1>2. CASE inShell
  <2>1. at' = "prompt" /\ UNCHANGED sessionVars /\ ended' = o
        /\ step' \in 1 .. Len(Stages[cmd])
    BY <1>2, FirstStage DEF End, SInv, ShellTypeOK
  <2>2. InSession /\ InSession'
    BY <1>2, <2>1 DEF InSession, sessionVars
  <2>3. ShellTypeOK'
    BY <2>1, <2>2 DEF SInv, ShellTypeOK, sessionVars, Outcomes
  <2>4. NobodyBetween' /\ VetIsNew' /\ CommandIsVetted' /\ PlacesAgree'
    BY <1>2, <2>1 DEF NobodyBetween, VetIsNew, CommandIsVetted, PlacesAgree, sessionVars
  <2>5. pool \in Logins /\ pool' = pool
    BY <2>1, <2>2 DEF SInv, SessionIsOne, sessionVars
  <2>6. SessionIsOne'
    BY <2>1, <2>2, <2>5 DEF SInv, SessionIsOne, sessionVars, Themselves
  <2>7. RefusalsAreDue'
    <3>1. cmd' = cmd /\ inShell
      BY <1>2
    <3>2. ~altered' => /\ RefusalDue(cmd)' <=> RefusalDue(cmd)
                       /\ Overlooked(cmd)' <=> Overlooked(cmd)
      BY <2>5, <3>1, AnswersFrame
    <3>3. SUFFICES ASSUME ~altered', cmd \notin Exempt
                   PROVE  /\ o = "refused" => RefusalDue(cmd)'
                          /\ o = "denied" => Overlooked(cmd)'
      BY <2>1, <3>1 DEF RefusalsAreDue, RefusalDue, Overlooked
    <3> QED
      BY <3>1, <3>2, <3>3
  <2>8. EarlyEndsReachNothing'
    BY <2>1 DEF EarlyEndsReachNothing
  <2> QED
    BY <2>3, <2>4, <2>6, <2>7, <2>8 DEF SInv
<1> QED
  BY <1>1, <1>2

\* The next stage of a command that has been let pass.
LEMMA NextInv ==
  ASSUME SInv, at \in {"run", "asking", "line"}, step < Len(Stages[cmd]),
         at' = "run", step' = step + 1, UNCHANGED <<dbVars, tty, sessionVars, ended, cmd, altered>>,
         reached' \in BOOLEAN, cmd \notin Exempt => ~reached',
         inShell /\ ~altered /\ cmd \notin Exempt => Vetted(cmd)
  PROVE  SInv'
<1> USE DEF dbVars, sessionVars
<1>1. step \in 1 .. Len(Stages[cmd]) /\ cmd \in Commands
  BY DEF SInv, ShellTypeOK
<1>2. step' \in 1 .. Len(Stages[cmd])
  BY <1>1, StageOrder
<1>3. ShellTypeOK'
  BY <1>2 DEF SInv, ShellTypeOK, InSession
<1>4. NobodyBetween' /\ VetIsNew' /\ PlacesAgree'
  BY DEF SInv, NobodyBetween, VetIsNew, PlacesAgree
<1>5. SessionIsOne'
  BY DEF SInv, SessionIsOne, InSession, Themselves
<1>6. Vetted(cmd)' <=> Vetted(cmd)
  BY AnswersFrame
<1>7. CommandIsVetted'
  BY <1>6 DEF CommandIsVetted
<1>8. ended' = "none"
  BY DEF SInv, PlacesAgree
<1>9. RefusalsAreDue' /\ EarlyEndsReachNothing'
  BY <1>8 DEF RefusalsAreDue, EarlyEndsReachNothing
<1> QED
  BY <1>3, <1>4, <1>5, <1>7, <1>9 DEF SInv

LEMMA ProceedInv ==
  ASSUME SInv, at \in {"run", "asking", "line"}, Proceed, UNCHANGED <<dbVars, tty, cmd, altered>>,
         reached' \in BOOLEAN, cmd \notin Exempt => ~reached',
         inShell /\ ~altered /\ cmd \notin Exempt => Vetted(cmd)
  PROVE  SInv'
<1>1. CASE step = Len(Stages[cmd])
  <2>1. End("done")
    BY <1>1 DEF Proceed
  <2>2. /\ role' \in [Logins -> Roles] /\ attr' \in [Logins -> Attrs]
        /\ altered' \in BOOLEAN /\ role' = role /\ attr' = attr
    BY DEF SInv, ShellTypeOK, dbVars
  <2> QED
    BY <2>1, <2>2, EndInv DEF Outcomes
<1>2. CASE step # Len(Stages[cmd])
  <2>1. at' = "run" /\ step' = step + 1 /\ UNCHANGED <<sessionVars, ended>>
    BY <1>2 DEF Proceed
  <2>2. step < Len(Stages[cmd])
    BY <1>2, StageOrder DEF SInv, ShellTypeOK
  <2> QED
    BY <2>1, <2>2, NextInv
<1> QED
  BY <1>1, <1>2

-----------------------------------------------------------------------------
(* Every step keeps the invariant *)

LEMMA SInit == ShellInit => SInv
<1> SUFFICES ASSUME ShellInit PROVE SInv
  OBVIOUS
<1> USE DEF ShellInit
<1>1. ShellTypeOK
  BY FirstStage DEF ShellTypeOK, InSession, Asked, Roles
<1>2. NobodyBetween /\ VetIsNew /\ PlacesAgree
  BY DEF NobodyBetween, VetIsNew, PlacesAgree
<1>3. SessionIsOne /\ CommandIsVetted
  BY DEF SessionIsOne, CommandIsVetted, InSession
<1>4. RefusalsAreDue /\ EarlyEndsReachNothing
  BY DEF RefusalsAreDue, EarlyEndsReachNothing
<1> QED
  BY <1>1, <1>2, <1>3, <1>4 DEF SInv

\* From a form of the login to the next one, or to authenticate.
LEMMA LoginFormInv ==
  ASSUME SInv, at \in {"boot", "offer", "username", "password", "again"},
         at' \in {"offer", "username", "password", "connect"},
         typed' \in Logins \cup {NoLogin}, url' \in Logins \cup {NoLogin},
         UNCHANGED <<dbVars, tty, inShell, pool, user, prompt, commandVars, altered>>
  PROVE  SInv'
<1> USE DEF dbVars, commandVars
<1>1. ShellTypeOK'
  BY DEF SInv, ShellTypeOK, InSession, Asked
<1>2. NobodyBetween' /\ VetIsNew' /\ SessionIsOne' /\ CommandIsVetted' /\ PlacesAgree'
  BY DEF SInv, NobodyBetween, VetIsNew, SessionIsOne, CommandIsVetted, PlacesAgree, InSession
<1>3. RefusalsAreDue' /\ EarlyEndsReachNothing'
  BY DEF SInv, RefusalsAreDue, EarlyEndsReachNothing, NobodyBetween
<1> QED
  BY <1>1, <1>2, <1>3 DEF SInv

\* What LeaveInv needs of a step that touches neither logins nor command.
LEMMA QuietLeaveInv ==
  ASSUME SInv, Leave, UNCHANGED <<dbVars, tty, typed, commandVars>>, altered' \in BOOLEAN
  PROVE  SInv'
<1>1. /\ role' \in [Logins -> Roles] /\ attr' \in [Logins -> Attrs]
      /\ ended' \in {"none"} \cup Outcomes /\ reached' \in BOOLEAN
  BY DEF SInv, ShellTypeOK, dbVars, commandVars, Outcomes
<1>2. ended' \in {"refused", "cancelled"} => ~reached'
  BY DEF SInv, EarlyEndsReachNothing, commandVars
<1>3. step' \in 1 .. Len(Stages[cmd])
  BY DEF SInv, ShellTypeOK, commandVars
<1> QED
  BY <1>1, <1>2, <1>3, LeaveInv DEF commandVars

LEMMA LoginInv ==
  ASSUME SInv, Boot \/ OfferAnswered \/ EnterUsername \/ EnterPassword \/ AgainAnswered \/ ExitShell
  PROVE  SInv'
<1>1. typed \in Logins \cup {NoLogin} /\ url \in Logins \cup {NoLogin} /\ altered \in BOOLEAN
  BY DEF SInv, ShellTypeOK
<1>2. UNCHANGED <<dbVars, tty, commandVars, altered>>
  BY DEF Boot, OfferAnswered, EnterUsername, EnterPassword, AgainAnswered, ExitShell
<1>3. CASE Leave /\ UNCHANGED typed
  BY <1>1, <1>2, <1>3, QuietLeaveInv
<1>4. CASE ~(Leave /\ UNCHANGED typed)
  <2>1. /\ at \in {"boot", "offer", "username", "password", "again"}
        /\ at' \in {"offer", "username", "password", "connect"}
        /\ UNCHANGED <<inShell, pool, user, prompt>>
        /\ typed' \in Logins \cup {NoLogin} /\ url' \in Logins \cup {NoLogin}
    BY <1>1, <1>4 DEF Boot, OfferAnswered, EnterUsername, EnterPassword, AgainAnswered, ExitShell,
                      sessionVars
  <2> QED
    BY <1>2, <2>1, LoginFormInv
<1> QED
  BY <1>3, <1>4

LEMMA ConnectInv == ASSUME SInv, Connect PROVE SInv'
<1>1. altered \in BOOLEAN /\ UNCHANGED <<dbVars, tty, commandVars, altered>>
  BY DEF SInv, ShellTypeOK, Connect
<1>2. CASE Leave /\ UNCHANGED typed
  BY <1>1, <1>2, QuietLeaveInv
<1>3. CASE CanOpen /\ OpenPool /\ at' = "vet" /\ UNCHANGED <<inShell, url, typed, user, prompt>>
  <2>1. at = "connect" /\ pool = NoLogin /\ user = NoUser /\ ended = "none"
    BY DEF Connect, SInv, NobodyBetween, PlacesAgree
  <2>2. url \in Logins /\ pool' = url
    BY <1>3, <2>1 DEF CanOpen, OpenPool
  <2>3. ShellTypeOK'
    BY <1>1, <1>3, <2>1, <2>2 DEF SInv, ShellTypeOK, dbVars, commandVars, InSession
  <2>4. NobodyBetween' /\ VetIsNew' /\ SessionIsOne' /\ CommandIsVetted' /\ PlacesAgree'
    BY <1>1, <1>3, <2>1, <2>2
       DEF NobodyBetween, VetIsNew, SessionIsOne, CommandIsVetted, PlacesAgree, InSession, commandVars
  <2>5. RefusalsAreDue' /\ EarlyEndsReachNothing'
    BY <1>1, <2>1 DEF RefusalsAreDue, EarlyEndsReachNothing, commandVars
  <2> QED
    BY <2>3, <2>4, <2>5 DEF SInv
<1> QED
  BY <1>2, <1>3 DEF Connect

LEMMA VetInv == ASSUME SInv, Vet PROVE SInv'
<1>1. altered' \in BOOLEAN /\ UNCHANGED <<dbVars, tty, typed, commandVars>>
  BY DEF SInv, ShellTypeOK, Vet
<1>2. CASE Leave
  BY <1>1, <1>2, QuietLeaveInv
<1>3. CASE /\ CurrentUser.attr # "superuser"
           /\ user' = CurrentUser
           /\ prompt' = [login |-> user'.login, role |-> user'.role]
           /\ inShell' = TRUE /\ at' = "prompt"
           /\ UNCHANGED <<url, pool>>
  <2>1. /\ at = "vet" /\ pool \in Logins /\ url = pool /\ user = NoUser /\ ended = "none"
        /\ ~altered'
    BY DEF Vet, SInv, VetIsNew, PlacesAgree
  <2>2. user' = Themselves(pool)
    BY <1>3, <2>1 DEF CurrentUser, Themselves
  <2>3. role[pool] \in Roles /\ attr[pool] \in Attrs
    BY <2>1 DEF SInv, ShellTypeOK
  <2>4. /\ user'.login = pool /\ user'.role = role[pool] /\ user'.attr = attr[pool]
        /\ user' \in Users
    BY <2>1, <2>2, <2>3 DEF Themselves, Users
  <2>5. user'.attr # "superuser"
    BY <1>3
  <2>6. prompt' = [login |-> pool, role |-> role[pool]]
    BY <1>3, <2>4
  <2>7. prompt' \in [login : Logins \cup {NoLogin}, role : Roles]
    BY <2>1, <2>3, <2>6
  <2>8. ShellTypeOK'
    BY <1>1, <1>3, <2>4, <2>7 DEF SInv, ShellTypeOK, dbVars, commandVars, InSession
  <2>9. Themselves(pool)' = Themselves(pool)
    BY <1>1, <1>3 DEF Themselves, dbVars
  <2>10. SessionIsOne'
    BY <1>1, <1>3, <2>1, <2>2, <2>4, <2>5, <2>6, <2>9 DEF SessionIsOne, dbVars
  <2>11. NobodyBetween' /\ VetIsNew' /\ CommandIsVetted' /\ PlacesAgree'
    BY <1>1, <1>3, <2>1 DEF NobodyBetween, VetIsNew, CommandIsVetted, PlacesAgree, commandVars
  <2>12. RefusalsAreDue' /\ EarlyEndsReachNothing'
    BY <1>1, <2>1 DEF RefusalsAreDue, EarlyEndsReachNothing, commandVars
  <2> QED
    BY <2>8, <2>10, <2>11, <2>12 DEF SInv
<1> QED
  BY <1>2, <1>3 DEF Vet

LEMMA LogoutInv == ASSUME SInv, Logout PROVE SInv'
<1>1. /\ at' = "again" /\ ended' = "none" /\ pool' = NoLogin /\ user' = NoUser /\ url' = NoLogin
      /\ UNCHANGED <<role, attr, tty, inShell, typed, prompt, cmd, step, reached, altered>>
  BY DEF Logout, dbVars
<1>2. ShellTypeOK'
  BY <1>1 DEF SInv, ShellTypeOK, InSession, Asked
<1>3. NobodyBetween' /\ VetIsNew' /\ SessionIsOne' /\ CommandIsVetted' /\ PlacesAgree'
  BY <1>1 DEF NobodyBetween, VetIsNew, SessionIsOne, CommandIsVetted, PlacesAgree, InSession
<1>4. RefusalsAreDue' /\ EarlyEndsReachNothing'
  BY <1>1 DEF RefusalsAreDue, EarlyEndsReachNothing
<1> QED
  BY <1>2, <1>3, <1>4 DEF SInv

LEMMA LineInv == ASSUME SInv, BadLine \/ Dispatch PROVE SInv'
<1>1. /\ at = "prompt" /\ at' \in {"prompt", "run"} /\ ended' \in {"none", "error"} /\ reached' = FALSE
      /\ at' = "run" => step' = 1
      /\ ended' # "none" => at' = "prompt"
      /\ UNCHANGED <<role, attr, tty, inShell, url, typed, pool, user, prompt, altered>>
  BY DEF BadLine, Dispatch, dbVars, sessionVars
<1>2. cmd' \in Commands /\ step' \in 1 .. Len(Stages[cmd'])
  <2>1. CASE BadLine
    BY <2>1 DEF BadLine, SInv, ShellTypeOK
  <2>2. CASE Dispatch
    BY <2>2, FirstStage DEF Dispatch
  <2> QED
    BY <2>1, <2>2
<1>3. InSession /\ InSession'
  BY <1>1 DEF SInv, PlacesAgree, InSession
<1>4. ShellTypeOK'
  BY <1>1, <1>2, <1>3 DEF SInv, ShellTypeOK
<1>5. SessionIsOne'
  BY <1>1, <1>3 DEF SInv, SessionIsOne, Themselves
<1>6. NobodyBetween' /\ VetIsNew' /\ CommandIsVetted' /\ PlacesAgree'
  BY <1>1 DEF SInv, NobodyBetween, VetIsNew, CommandIsVetted, PlacesAgree
<1>7. RefusalsAreDue' /\ EarlyEndsReachNothing'
  BY <1>1 DEF RefusalsAreDue, EarlyEndsReachNothing
<1> QED
  BY <1>4, <1>5, <1>6, <1>7 DEF SInv

\* What every command under way may count on.
LEMMA AtStageFacts ==
  ASSUME SInv, at \in {"run", "asking", "line"}
  PROVE  /\ cmd \in Commands /\ step \in 1 .. Len(Stages[cmd]) /\ Len(Stages[cmd]) \in Nat
         /\ Stage = "authorize" => step = 1
         /\ step = 1 /\ cmd \notin Exempt => Stage = "authorize"
         /\ Stage \in {"authorize", "flags", "secret", "confirm", "parse"} => cmd \notin Exempt
         /\ Stage \in {"read", "write"} => step = Len(Stages[cmd]) /\ cmd \notin Exempt /\ step > 1
         /\ Stage = "store" => step < Len(Stages[cmd])
         /\ Stage \in {"own", "preflight", "loop"} => cmd \in Exempt
         /\ cmd \notin Exempt => ~reached
         /\ inShell /\ ~altered /\ cmd \notin Exempt /\ Stage # "authorize" => Vetted(cmd)
         /\ role \in [Logins -> Roles] /\ attr \in [Logins -> Attrs]
         /\ reached \in BOOLEAN /\ altered \in BOOLEAN /\ ended = "none"
<1>1. cmd \in Commands /\ step \in 1 .. Len(Stages[cmd])
  BY DEF SInv, ShellTypeOK
<1>2. /\ Len(Stages[cmd]) \in Nat
      /\ Stage = "authorize" => step = 1
      /\ step = 1 /\ cmd \notin Exempt => Stage = "authorize"
      /\ Stage \in {"authorize", "flags", "secret", "confirm", "parse"} => cmd \notin Exempt
      /\ Stage \in {"read", "write"} => step = Len(Stages[cmd]) /\ cmd \notin Exempt /\ step > 1
      /\ Stage = "store" => step < Len(Stages[cmd])
      /\ Stage \in {"own", "preflight", "loop"} => cmd \in Exempt
  BY <1>1, StageOrder DEF Stage
<1>3. /\ role \in [Logins -> Roles] /\ attr \in [Logins -> Attrs]
      /\ reached \in BOOLEAN /\ altered \in BOOLEAN /\ ended = "none"
  BY DEF SInv, ShellTypeOK, PlacesAgree
<1>4. step = 1 \/ step > 1
  BY <1>1
<1>5. /\ cmd \notin Exempt => ~reached
      /\ inShell /\ ~altered /\ step > 1 /\ cmd \notin Exempt => Vetted(cmd)
  BY DEF SInv, CommandIsVetted
<1> QED
  BY <1>1, <1>2, <1>3, <1>4, <1>5

\* Any end of a command that leaves the logins alone and is not a refusal.
LEMMA PlainEndInv ==
  ASSUME SInv, at \in {"run", "asking", "line"}, NEW o \in {"done", "error", "cancelled"}, End(o),
         UNCHANGED <<dbVars, tty, cmd, altered>>, reached' \in BOOLEAN,
         o = "cancelled" => ~reached'
  PROVE  SInv'
<1>1. role' = role /\ attr' = attr /\ altered' = altered
  BY DEF dbVars
<1>2. role' \in [Logins -> Roles] /\ attr' \in [Logins -> Attrs] /\ altered' \in BOOLEAN
  BY <1>1, AtStageFacts
<1> QED
  BY <1>1, <1>2, EndInv DEF Outcomes

LEMMA AuthorizeInv == ASSUME SInv, Authorize PROVE SInv'
<1>1. /\ at = "run" /\ Stage = "authorize" /\ reached' = reached
      /\ UNCHANGED <<dbVars, tty, cmd, altered>>
      /\ cmd \notin Exempt /\ cmd \in Commands /\ ~reached' /\ reached' \in BOOLEAN
  BY AtStageFacts DEF Authorize, AtStage
<1>2. inShell /\ ~altered =>
        /\ Allowed(CurrentUser, cmd) <=> Vetted(cmd)
        /\ ~Vetted(cmd) => RefusalDue(cmd)
  <2>1. SUFFICES ASSUME inShell, ~altered
                 PROVE  /\ Allowed(CurrentUser, cmd) <=> Vetted(cmd)
                        /\ ~Vetted(cmd) => RefusalDue(cmd)
    OBVIOUS
  <2>2. pool \in Logins /\ user = Themselves(pool) /\ user \in Users
    BY <1>1, <2>1 DEF SInv, SessionIsOne, ShellTypeOK, InSession
  <2>3. user # NoUser
    BY <2>2, ShellAssumption DEF Users, NoUser
  <2>4. CurrentUser = Themselves(pool)
    BY <2>2, <2>3 DEF CurrentUser
  <2> QED
    BY <1>1, <2>2, <2>4, ChecksAgree DEF SInv, Vetted
<1>3. CASE inShell /\ Allowed(CurrentUser, cmd)
  <2>1. Proceed
    BY <1>3 DEF Authorize
  <2> QED
    BY <1>1, <1>2, <1>3, <2>1, ProceedInv
<1>4. CASE ~(inShell /\ Allowed(CurrentUser, cmd))
  <2>1. End("refused")
    BY <1>4 DEF Authorize
  <2>2. role' = role /\ attr' = attr /\ altered' = altered
    BY <1>1 DEF dbVars
  <2>3. role' \in [Logins -> Roles] /\ attr' \in [Logins -> Attrs] /\ altered' \in BOOLEAN
    BY <1>1, <2>2, AtStageFacts
  <2>4. inShell /\ ~altered' => RefusalDue(cmd)
    BY <1>2, <1>4, <2>2
  <2> QED
    BY <1>1, <2>1, <2>2, <2>3, <2>4, EndInv DEF Outcomes
<1> QED
  BY <1>3, <1>4

\* A form comes up, or the command waits for a line.
LEMMA AskingInv ==
  ASSUME SInv, at = "run", Stage \in {"flags", "secret", "confirm"},
         at' = "asking" \/ (at' = "line" /\ Stage = "secret"),
         UNCHANGED <<sessionVars, step, ended, dbVars, tty, cmd, reached, altered>>
  PROVE  SInv'
<1> USE DEF sessionVars, dbVars
<1>1. ShellTypeOK'
  BY DEF SInv, ShellTypeOK, InSession, Asked
<1>2. NobodyBetween' /\ VetIsNew' /\ SessionIsOne'
  BY DEF SInv, NobodyBetween, VetIsNew, SessionIsOne, InSession, Themselves
<1>3. Vetted(cmd)' <=> Vetted(cmd)
  BY AnswersFrame
<1>4. CommandIsVetted'
  BY <1>3 DEF SInv, CommandIsVetted
<1>5. ended' = "none" /\ PlacesAgree'
  BY DEF SInv, PlacesAgree, Stage
<1>6. RefusalsAreDue' /\ EarlyEndsReachNothing'
  BY <1>5 DEF RefusalsAreDue, EarlyEndsReachNothing
<1> QED
  BY <1>1, <1>2, <1>4, <1>5, <1>6 DEF SInv

LEMMA FormInv ==
  ASSUME SInv, Flags \/ Secret \/ Confirm \/ FormAnswered \/ LineRead \/ Parse
  PROVE  SInv'
<1>1. at \in {"run", "asking", "line"} /\ Stage \in {"flags", "secret", "confirm", "parse"}
  BY DEF Flags, Secret, Confirm, FormAnswered, LineRead, Parse, AtStage, SInv, PlacesAgree
<1>2. reached' = reached /\ UNCHANGED <<dbVars, tty, cmd, altered>>
  BY DEF Flags, Secret, Confirm, FormAnswered, LineRead, Parse
<1>3. /\ cmd \notin Exempt /\ ~reached' /\ reached' \in BOOLEAN
      /\ inShell /\ ~altered => Vetted(cmd)
  BY <1>1, <1>2, AtStageFacts
<1>4. CASE Proceed
  BY <1>1, <1>2, <1>3, <1>4, ProceedInv
<1>5. CASE End("error") \/ End("cancelled")
  BY <1>1, <1>2, <1>3, <1>5, PlainEndInv
<1>6. CASE /\ at = "run" /\ Stage \in {"flags", "secret", "confirm"}
           /\ at' = "asking" \/ (at' = "line" /\ Stage = "secret")
           /\ UNCHANGED <<sessionVars, step, ended>>
  BY <1>2, <1>6, AskingInv
<1> QED
  BY <1>4, <1>5, <1>6 DEF Flags, Secret, Confirm, FormAnswered, LineRead, Parse, AtStage

LEMMA GetStoreInv == ASSUME SInv, GetStore PROVE SInv'
<1>1. /\ at = "run" /\ Stage = "store" /\ reached' = reached
      /\ UNCHANGED <<dbVars, tty, cmd, altered>>
  BY DEF GetStore, AtStage
<1>2. /\ cmd \notin Exempt => ~reached'
      /\ reached' \in BOOLEAN /\ step < Len(Stages[cmd])
      /\ inShell /\ ~altered /\ cmd \notin Exempt => Vetted(cmd)
  BY <1>1, AtStageFacts
<1>3. CASE pool = NoLogin /\ End("error")
  BY <1>1, <1>2, <1>3, PlainEndInv
<1>4. CASE /\ CanOpen /\ OpenPool
           /\ at' = "run" /\ step' = step + 1 /\ UNCHANGED <<inShell, url, typed, user, prompt, ended>>
  <2>1. CASE pool # NoLogin
    <3>1. pool' = pool
      BY <1>4, <2>1 DEF OpenPool
    <3> QED
      BY <1>1, <1>2, <1>4, <3>1, NextInv DEF sessionVars
  <2>2. CASE pool = NoLogin
    <3>1. ~inShell
      BY <1>1, <2>2, ShellAssumption DEF SInv, SessionIsOne, InSession
    <3>2. pool' \in Logins
      BY <1>4, <2>2 DEF CanOpen, OpenPool
    <3>3. step' \in 1 .. Len(Stages[cmd])
      BY <1>1, <1>2, <1>4, AtStageFacts
    <3>4. ShellTypeOK'
      BY <1>1, <1>2, <1>4, <3>1, <3>2, <3>3 DEF SInv, ShellTypeOK, InSession, dbVars
    <3>5. NobodyBetween' /\ VetIsNew' /\ SessionIsOne' /\ PlacesAgree'
      BY <1>1, <1>4, <3>1 DEF SInv, NobodyBetween, VetIsNew, SessionIsOne, InSession, PlacesAgree
    <3>6. CommandIsVetted'
      BY <1>1, <1>2, <1>4, <3>1 DEF CommandIsVetted
    <3>7. RefusalsAreDue' /\ EarlyEndsReachNothing'
      BY <1>1, <1>4, <3>1 DEF SInv, RefusalsAreDue, EarlyEndsReachNothing
    <3> QED
      BY <3>4, <3>5, <3>6, <3>7 DEF SInv
  <2> QED
    BY <2>1, <2>2
<1> QED
  BY <1>3, <1>4 DEF GetStore

\* What a statement does to the logins; the session's own is on record.
LEMMA CommitKeeps ==
  ASSUME SInv, cmd \in Commands, Commit
  PROVE  /\ role' \in [Logins -> Roles] /\ attr' \in [Logins -> Attrs] /\ altered' \in BOOLEAN
         /\ altered => altered'
         /\ ~altered' /\ pool \in Logins => role'[pool] = role[pool] /\ attr'[pool] = attr[pool]
<1>1. role \in [Logins -> Roles] /\ attr \in [Logins -> Attrs] /\ altered \in BOOLEAN
  BY DEF SInv, ShellTypeOK
<1>2. {"admin", "user"} \subseteq Roles /\ "absent" \in Roles /\ "plain" \in Attrs
  BY DEF Roles, Attrs
<1>3. CASE cmd = "userAdd"
  <2>1. PICK u \in Logins, r \in {"admin", "user"} :
          /\ role' = [role EXCEPT ![u] = r] /\ attr' = [attr EXCEPT ![u] = "plain"]
          /\ altered' = (altered \/ u = pool)
    BY <1>3 DEF Commit
  <2> QED
    BY <1>1, <1>2, <2>1
<1>4. CASE cmd = "userRemove"
  <2>1. PICK u \in Logins \ {pool} :
          /\ role' = [role EXCEPT ![u] = "absent"] /\ attr' = [attr EXCEPT ![u] = "plain"]
          /\ UNCHANGED altered
    BY <1>4 DEF Commit
  <2> QED
    BY <1>1, <1>2, <2>1
<1>5. CASE cmd = "userSetRole"
  <2>1. PICK u \in Logins, r \in {"admin", "user"} :
          /\ role' = [role EXCEPT ![u] = r] /\ UNCHANGED attr
          /\ altered' = (altered \/ u = pool)
    BY <1>5 DEF Commit
  <2> QED
    BY <1>1, <1>2, <2>1
<1>6. CASE cmd \notin {"userAdd", "userRemove", "userSetRole"}
  <2>1. UNCHANGED <<role, attr, altered>>
    BY <1>6 DEF Commit, dbVars
  <2> QED
    BY <1>1, <2>1
<1> QED
  BY <1>3, <1>4, <1>5, <1>6

LEMMA StatementInv == ASSUME SInv, Statement PROVE SInv'
<1>1. at = "run" /\ Stage \in {"read", "write"} /\ reached' = TRUE /\ UNCHANGED <<tty, cmd>>
  BY DEF Statement, AtStage
<1>2. /\ cmd \in Commands /\ cmd \notin Exempt /\ step = Len(Stages[cmd])
      /\ inShell /\ ~altered => Vetted(cmd)
  BY <1>1, AtStageFacts
<1>3. CASE Granted(cmd) /\ Commit /\ Proceed
  <2>1. End("done")
    BY <1>2, <1>3 DEF Proceed
  <2>2. /\ role' \in [Logins -> Roles] /\ attr' \in [Logins -> Attrs] /\ altered' \in BOOLEAN
        /\ altered => altered'
        /\ ~altered' /\ pool \in Logins => role'[pool] = role[pool] /\ attr'[pool] = attr[pool]
    BY <1>2, <1>3, CommitKeeps
  <2> QED
    BY <1>1, <2>1, <2>2, EndInv DEF Outcomes
<1>4. CASE End("error") /\ UNCHANGED <<dbVars, altered>>
  BY <1>1, <1>4, PlainEndInv
<1>5. CASE (~Granted(cmd) \/ TargetDenied) /\ End("denied") /\ UNCHANGED <<dbVars, altered>>
  <2>1. End("denied") /\ role' = role /\ attr' = attr /\ altered' = altered
    BY <1>5 DEF dbVars
  <2>2. role' \in [Logins -> Roles] /\ attr' \in [Logins -> Attrs] /\ altered' \in BOOLEAN
    BY <1>1, <2>1, AtStageFacts
  <2>3. inShell => pool \in Logins /\ ShellTypeOK
    BY <1>1 DEF SInv, SessionIsOne, InSession
  <2>4. inShell /\ ~altered' => Overlooked(cmd)
    BY <1>2, <1>5, <2>1, <2>3, ChecksAgree DEF TargetDenied
  <2> QED
    BY <1>1, <2>1, <2>2, <2>4, EndInv DEF Outcomes
<1> QED
  BY <1>3, <1>4, <1>5 DEF Statement

LEMMA DaemonInv ==
  ASSUME SInv, Migrate \/ Preflight \/ Signalled
  PROVE  SInv'
<1>1. /\ at = "run" /\ Stage \in {"own", "preflight", "loop"} /\ UNCHANGED <<dbVars, tty, cmd, altered>>
  BY DEF Migrate, Preflight, Signalled, AtStage
<1>2. cmd \in Exempt /\ reached' \in BOOLEAN
  <2>1. cmd \in Exempt /\ reached \in BOOLEAN
    BY <1>1, AtStageFacts
  <2> QED
    BY <2>1 DEF Migrate, Preflight, Signalled
<1>3. CASE Proceed
  BY <1>1, <1>2, <1>3, ProceedInv
<1>4. CASE End("done") \/ End("error")
  BY <1>1, <1>2, <1>4, PlainEndInv
<1>5. CASE End("denied")
  <2>1. role' = role /\ attr' = attr /\ altered' = altered
    BY <1>1 DEF dbVars
  <2>2. role' \in [Logins -> Roles] /\ attr' \in [Logins -> Attrs] /\ altered' \in BOOLEAN
    BY <1>1, <2>1, AtStageFacts
  <2> QED
    BY <1>1, <1>2, <1>5, <2>1, <2>2, EndInv DEF Outcomes
<1> QED
  BY <1>3, <1>4, <1>5 DEF Migrate, Preflight, Signalled

LEMMA AlterInv == ASSUME SInv, Alter PROVE SInv'
<1>1. PICK u \in Logins, r \in Roles, a \in Attrs :
        /\ role' = [role EXCEPT ![u] = r] /\ attr' = [attr EXCEPT ![u] = a]
        /\ altered' = (altered \/ u = pool)
  BY DEF Alter
<1>2. UNCHANGED <<tty, inShell, url, typed, pool, user, prompt, at, cmd, step, ended, reached>>
  BY DEF Alter, sessionVars, commandVars
<1>3. ShellTypeOK'
  BY <1>1, <1>2 DEF SInv, ShellTypeOK, InSession
<1>4. NobodyBetween' /\ VetIsNew' /\ PlacesAgree'
  BY <1>2 DEF SInv, NobodyBetween, VetIsNew, PlacesAgree, Stage
<1>5. altered' \in BOOLEAN /\ (altered => altered') /\ (~altered' => u # pool)
  BY <1>1 DEF SInv, ShellTypeOK
<1>6. ~altered' /\ pool \in Logins =>
        /\ role'[pool] = role[pool] /\ attr'[pool] = attr[pool]
        /\ Vetted(cmd)' <=> Vetted(cmd)
        /\ RefusalDue(cmd)' <=> RefusalDue(cmd)
        /\ Overlooked(cmd)' <=> Overlooked(cmd)
  <2>1. role'[pool] = role[pool] /\ attr'[pool] = attr[pool] =>
          /\ Vetted(cmd)' <=> Vetted(cmd)
          /\ RefusalDue(cmd)' <=> RefusalDue(cmd)
          /\ Overlooked(cmd)' <=> Overlooked(cmd)
    <3>1. PICK c : c = cmd
      OBVIOUS
    <3>2. c = cmd' /\ pool' = pool
      BY <1>2, <3>1
    <3> QED
      BY <3>1, <3>2, AnswersFrame
  <2> QED
    BY <1>1, <1>5, <2>1 DEF SInv, ShellTypeOK
<1>7. SessionIsOne'
  BY <1>2, <1>5, <1>6 DEF SInv, SessionIsOne, InSession, Themselves
<1>8. inShell /\ at \in {"run", "asking", "line"} => pool \in Logins
  BY DEF SInv, SessionIsOne, InSession
<1>9. CommandIsVetted'
  BY <1>2, <1>5, <1>6, <1>8 DEF SInv, CommandIsVetted
<1>10. RefusalsAreDue'
  <2>1. pool # NoLogin => pool \in Logins
    BY DEF SInv, ShellTypeOK
  <2> QED
    BY <1>2, <1>5, <1>6, <2>1 DEF SInv, RefusalsAreDue, RefusalDue, Overlooked
<1>11. EarlyEndsReachNothing'
  BY <1>2 DEF SInv, EarlyEndsReachNothing
<1> QED
  BY <1>3, <1>4, <1>7, <1>9, <1>10, <1>11 DEF SInv

LEMMA SNext == SInv /\ [ShellNext]_shellVars => SInv'
<1>1. ASSUME SInv, ShellNext
      PROVE  SInv'
  BY <1>1, LoginInv, ConnectInv, VetInv, LogoutInv, LineInv, AuthorizeInv, FormInv, GetStoreInv,
     StatementInv, DaemonInv, AlterInv
     DEF ShellNext, LoginStep, CommandStep, HumanStep
<1>2. ASSUME SInv, UNCHANGED shellVars
      PROVE  SInv'
  <2> USE <1>2 DEF shellVars, dbVars, sessionVars, commandVars
  <2>1. ShellTypeOK'
    BY DEF SInv, ShellTypeOK, InSession
  <2>2. NobodyBetween' /\ VetIsNew' /\ PlacesAgree' /\ SessionIsOne'
    BY DEF SInv, NobodyBetween, VetIsNew, PlacesAgree, Stage, SessionIsOne, InSession, Themselves
  <2>3. CommandIsVetted'
    BY DEF SInv, CommandIsVetted, Vetted, Allowed, Themselves
  <2>4. RefusalsAreDue' /\ EarlyEndsReachNothing'
    BY DEF SInv, RefusalsAreDue, Granted, EarlyEndsReachNothing
  <2> QED
    BY <2>1, <2>2, <2>3, <2>4 DEF SInv
<1> QED
  BY <1>1, <1>2

LEMMA ShellInvariant == ShellSpec => []SInv
BY SInit, SNext, PTL DEF ShellSpec

-----------------------------------------------------------------------------
(* Theorems *)

\* Every variable keeps its type, and a session has an identity.
THEOREM ShellTypes == ShellSpec => []ShellTypeOK
<1>1. SInv => ShellTypeOK
  BY DEF SInv
<1> QED
  BY <1>1, ShellInvariant, PTL

\* refuseSuperuser: for any logins, no session is a superuser's that was one
\* when it logged in.
THEOREM SuperusersStayOut == ShellSpec => []NoSuperuserInShell
<1>1. SInv => NoSuperuserInShell
  BY DEF SInv, SessionIsOne, NoSuperuserInShell, Themselves
<1> QED
  BY <1>1, ShellInvariant, PTL

\* README.md: the prompt, the pool, the cached identity and the URL of a
\* session are one login, in its role, however often users log out and in.
THEOREM PromptsAreTrue == ShellSpec => []PromptIsTrue
<1>1. SInv => PromptIsTrue
  BY DEF SInv, SessionIsOne, PromptIsTrue, Themselves
<1> QED
  BY <1>1, ShellInvariant, PTL

\* permissions.go: for any logins, and while the session's own is left alone,
\* authorizeShellCmd refuses nothing that Postgres allows and passes nothing
\* that it denies, but for set-role by a login with ADMIN OPTION alone, for the
\* user commands of one with CREATEROLE alone, and for the removal of a login
\* that another administrator created.
THEOREM RefusalsAgree == ShellSpec => []RefusalsAreDue
<1>1. SInv => RefusalsAreDue
  BY DEF SInv
<1> QED
  BY <1>1, ShellInvariant, PTL

\* A refused or cancelled command has sent no statement.
THEOREM EarlyEndsAreClean == ShellSpec => []EarlyEndsReachNothing
<1>1. SInv => EarlyEndsReachNothing
  BY DEF SInv
<1> QED
  BY <1>1, ShellInvariant, PTL
=============================================================================
