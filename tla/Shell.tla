------------------------------- MODULE Shell -------------------------------
(***************************************************************************)
(* One kronwrk process of cmd/kronwrk: the login of the interactive shell,   *)
(* its session (pool, cached identity, prompt), and every command as the      *)
(* sequence of its stages: authorization, flags or wizard, statement.         *)
(* Meanwhile other administrators change the logins.  Cobra, huh and readline *)
(* are libraries; Postgres authenticates, and checks every statement.         *)
(***************************************************************************)
EXTENDS Integers, Sequences

CONSTANTS
  Logins,       \* login roles, present or not
  NoLogin       \* nobody, a URL without a user

ASSUME ShellAssumption == NoLogin \notin Logins

Roles == {"absent", "admin", "user"}
\* What a login has beyond its role: the CREATEROLE attribute, ADMIN OPTION on
\* the kronwrk_* groups ("delegate"), both ("useradmin"), or everything.
Attrs == {"plain", "createrole", "delegate", "useradmin", "superuser"}

VARIABLES
  role, attr,   \* of each login, as Postgres has them
  tty,          \* stdin is a terminal
  inShell,      \* runShell is in its loop
  url,          \* login in sessionCfg.DatabaseURL
  typed,        \* login entered at the prompt
  pool,         \* login sessionPool is connected as
  user,         \* sessionUser
  prompt,       \* what readline shows
  at,           \* where the process is
  cmd, step,    \* the command, and which of its stages
  ended,        \* how the last command ended
  reached,      \* a statement of it has been sent
  altered       \* history: the session's login was changed since WhoAmI

dbVars == <<role, attr>>
sessionVars == <<inShell, url, typed, pool, user, prompt>>
commandVars == <<cmd, step, ended, reached>>
shellVars == <<dbVars, tty, sessionVars, at, commandVars, altered>>

NoUser == [login |-> NoLogin, role |-> "absent", attr |-> "plain"]
Asked == {"offer", "username", "password", "again", "asking", "line"}

-----------------------------------------------------------------------------
(* The commands *)

\* The stages of each command.  "flags" is a value that a wizard asks for when
\* it is missing, "secret" the password, "own" a connection of the command's own.
JobAdd == <<"authorize", "flags", "store", "write">>
JobList == <<"authorize", "store", "read">>
JobEnable == <<"authorize", "parse", "store", "write">>
JobConditionAdd == <<"authorize", "parse", "store", "write">>
EventEmit == <<"authorize", "parse", "store", "write">>
EventList == <<"authorize", "store", "read">>
RunStatus == <<"authorize", "parse", "store", "read">>
UserAdd == <<"authorize", "flags", "parse", "flags", "parse", "secret", "store", "write">>
UserSetRole == <<"authorize", "flags", "store", "write">>
WhoAmI == <<"authorize", "store", "read">>
MigrateStages == <<"own">>
StartStages == <<"store", "preflight", "loop">>

\* Mutant of UserRemove: the confirmation comes after the statement.
UserRemoveConfirmLast == <<"authorize", "store", "write", "confirm">>

UserRemove == <<"authorize", "confirm", "store", "write">>

\* jobEnable stands for disable, jobConditionAdd for remove, whoami for user
\* list, start for the two daemons.
Stages == [
  jobAdd |-> JobAdd, jobList |-> JobList, jobEnable |-> JobEnable,
  jobConditionAdd |-> JobConditionAdd, eventEmit |-> EventEmit, eventList |-> EventList,
  runStatus |-> RunStatus, userAdd |-> UserAdd, userRemove |-> UserRemove,
  userSetRole |-> UserSetRole, whoami |-> WhoAmI, migrate |-> MigrateStages, start |-> StartStages]

Commands == DOMAIN Stages
Stage == Stages[cmd][step]

\* shellExempt.
Exempt == {"migrate", "start"}
UserCommands == {"userAdd", "userRemove", "userSetRole"}

\* cmdPerms, of the two group roles modelled.
Perms == [jobAdd |-> {"admin"}, jobList |-> {"admin", "user"}, jobEnable |-> {"admin"},
          jobConditionAdd |-> {"admin"}, eventEmit |-> {"admin"}, eventList |-> {"admin", "user"},
          runStatus |-> {"admin", "user"}, whoami |-> {},
          userAdd |-> {}, userRemove |-> {}, userSetRole |-> {}]

\* Mutant of Allowed: the user commands have no role, so they are open.
AllowedOpen(u, c) == u.attr = "superuser" \/ Perms[c] = {} \/ u.role \in Perms[c]

\* allowedFor.
Allowed(u, c) ==
  \/ u.attr = "superuser"
  \/ c \in UserCommands /\ u.attr \in {"createrole", "useradmin"}
  \/ c \notin UserCommands /\ (Perms[c] = {} \/ u.role \in Perms[c])

\* Postgres lets the session's login run the statements of c: CREATE ROLE and
\* DROP ROLE ask for CREATEROLE, and GRANT and REVOKE for ADMIN OPTION on the
\* groups (CreateUser's comment).
Granted(c) ==
  \/ c = "whoami" \/ attr[pool] = "superuser"
  \/ c \in {"userAdd", "userRemove"} /\ attr[pool] = "useradmin"
  \/ c = "userSetRole" /\ attr[pool] \in {"delegate", "useradmin"}
  \/ c \in {"jobList", "eventList", "runStatus"} /\ role[pool] \in {"admin", "user"}
  \/ c \in {"jobAdd", "jobEnable", "jobConditionAdd", "eventEmit", "start"} /\ role[pool] = "admin"

-----------------------------------------------------------------------------
(* The session *)

\* closeSession, and the end of the process.
Leave ==
  /\ at' = "exit" /\ inShell' = FALSE
  /\ pool' = NoLogin /\ user' = NoUser
  /\ UNCHANGED <<url, prompt>>

\* runShell: with a terminal, ensurePostgresRunning comes before the login.
Boot ==
  /\ at = "boot"
  /\ \/ at' \in (IF tty THEN {"offer", "username"} ELSE {"connect"}) /\ UNCHANGED sessionVars
     \/ tty /\ Leave /\ UNCHANGED typed
  /\ UNCHANGED <<dbVars, tty, commandVars, altered>>

\* "Start it now?": Postgres comes up in ten seconds or does not.
OfferAnswered ==
  /\ at = "offer"
  /\ \/ at' = "username" /\ UNCHANGED sessionVars
     \/ Leave /\ UNCHANGED typed
  /\ UNCHANGED <<dbVars, tty, commandVars, altered>>

\* loginPrompt, its two forms; escape leaves.
EnterUsername ==
  /\ at = "username"
  /\ \/ \E u \in Logins : typed' = u /\ at' = "password" /\ UNCHANGED <<inShell, url, pool, user, prompt>>
     \/ Leave /\ UNCHANGED typed
  /\ UNCHANGED <<dbVars, tty, commandVars, altered>>

EnterPassword ==
  /\ at = "password"
  /\ \/ url' = typed /\ at' = "connect" /\ UNCHANGED <<inShell, typed, pool, user, prompt>>
     \/ Leave /\ UNCHANGED typed
  /\ UNCHANGED <<dbVars, tty, commandVars, altered>>

\* getStore.
OpenPool == pool' = IF pool # NoLogin THEN pool ELSE url
CanOpen == pool # NoLogin \/ (url \in Logins /\ role[url] # "absent")

\* authenticate opens the pool; a wrong password ends the shell.
Connect ==
  /\ at = "connect"
  /\ \/ CanOpen /\ OpenPool /\ at' = "vet" /\ UNCHANGED <<inShell, url, typed, user, prompt>>
     \/ Leave /\ UNCHANGED typed
  /\ UNCHANGED <<dbVars, tty, commandVars, altered>>

\* currentUser: WhoAmI, unless it is cached.
CurrentUser == IF user # NoUser THEN user ELSE [login |-> pool, role |-> role[pool], attr |-> attr[pool]]

\* Mutant of Vet: the prompt is built once.
VetOldPrompt ==
  /\ at = "vet"
  /\ \/ /\ CurrentUser.attr # "superuser"
        /\ user' = CurrentUser
        /\ prompt' = IF prompt.login = NoLogin THEN [login |-> user'.login, role |-> user'.role] ELSE prompt
        /\ inShell' = TRUE /\ at' = "prompt"
        /\ UNCHANGED <<url, pool>>
     \/ Leave
  /\ altered' = (altered /\ user # NoUser)
  /\ UNCHANGED <<dbVars, tty, typed, commandVars>>

\* refuseSuperuser, then shellPrompt and the loop; WhoAmI may fail.
Vet ==
  /\ at = "vet"
  /\ \/ /\ CurrentUser.attr # "superuser"
        /\ user' = CurrentUser
        /\ prompt' = [login |-> user'.login, role |-> user'.role]
        /\ inShell' = TRUE /\ at' = "prompt"
        /\ UNCHANGED <<url, pool>>
     \/ Leave
  /\ altered' = (altered /\ user # NoUser)
  /\ UNCHANGED <<dbVars, tty, typed, commandVars>>

\* Mutant of Logout: the cached identity stays.
LogoutKeepsUser ==
  /\ at = "prompt" /\ tty
  /\ pool' = NoLogin /\ url' = NoLogin
  /\ at' = "again" /\ ended' = "none"
  /\ UNCHANGED <<dbVars, tty, inShell, typed, user, prompt, cmd, step, reached, altered>>

\* logout: closeSession, clearSessionCredentials.
Logout ==
  /\ at = "prompt" /\ tty
  /\ pool' = NoLogin /\ user' = NoUser /\ url' = NoLogin
  /\ at' = "again" /\ ended' = "none"
  /\ UNCHANGED <<dbVars, tty, inShell, typed, prompt, cmd, step, reached, altered>>

\* "Log in again?"
AgainAnswered ==
  /\ at = "again"
  /\ \/ at' = "username" /\ UNCHANGED sessionVars
     \/ Leave /\ UNCHANGED typed
  /\ UNCHANGED <<dbVars, tty, commandVars, altered>>

\* exit, quit, end of input.
ExitShell ==
  /\ at = "prompt"
  /\ Leave
  /\ UNCHANGED <<dbVars, tty, typed, commandVars, altered>>

-----------------------------------------------------------------------------
(* Commands *)

\* A line that is no command: unclosed quote, wrong arguments, shell in the
\* shell, logout without a terminal.
BadLine ==
  /\ at = "prompt"
  /\ ended' = "error" /\ reached' = FALSE
  /\ UNCHANGED <<dbVars, tty, sessionVars, at, cmd, step, altered>>

\* A fresh command tree is given the line.
Dispatch ==
  /\ at = "prompt"
  /\ cmd' \in Commands /\ step' = 1
  /\ at' = "run" /\ ended' = "none" /\ reached' = FALSE
  /\ UNCHANGED <<dbVars, tty, sessionVars, altered>>

AtStage(s) == at = "run" /\ Stage \in s
\* The command returns: to the loop, or to main.
End(outcome) ==
  /\ ended' = outcome
  /\ IF inShell THEN at' = "prompt" /\ UNCHANGED sessionVars ELSE Leave /\ UNCHANGED typed
  /\ step' = 1

\* The next stage; after the last one the command has done its work.
Proceed ==
  IF step = Len(Stages[cmd]) THEN End("done")
  ELSE at' = "run" /\ step' = step + 1 /\ UNCHANGED <<sessionVars, ended>>

\* PersistentPreRunE: requiresShell and authorizeShellCmd.
Authorize ==
  /\ AtStage({"authorize"})
  /\ IF inShell /\ Allowed(CurrentUser, cmd) THEN Proceed ELSE End("refused")
  /\ UNCHANGED <<dbVars, tty, cmd, reached, altered>>

\* A value is given as a flag; if not a wizard asks, or, when piped, it is an
\* error.
Flags ==
  /\ AtStage({"flags"})
  /\ \/ Proceed
     \/ tty /\ at' = "asking" /\ UNCHANGED <<sessionVars, step, ended>>
     \/ ~tty /\ End("error")
  /\ UNCHANGED <<dbVars, tty, cmd, reached, altered>>

\* --password, or promptNewPassword: a form, or, when piped, a line of stdin.
Secret ==
  /\ AtStage({"secret"})
  /\ \/ Proceed
     \/ /\ at' = IF tty THEN "asking" ELSE "line"
        /\ UNCHANGED <<sessionVars, step, ended>>
  /\ UNCHANGED <<dbVars, tty, cmd, reached, altered>>

\* readPasswordLine: whoever holds the other end of stdin sends the line, or an
\* empty one, or closes it; until then the command is blocked.
LineRead ==
  /\ at = "line"
  /\ Proceed \/ End("error")
  /\ UNCHANGED <<dbVars, tty, cmd, reached, altered>>

\* Mutant of Confirm: it asks whoever is there.
ConfirmAlways ==
  /\ AtStage({"confirm"})
  /\ at' = "asking" /\ UNCHANGED <<sessionVars, step, ended>>
  /\ UNCHANGED <<dbVars, tty, cmd, reached, altered>>

\* confirmWizard of user remove.
Confirm ==
  /\ AtStage({"confirm"})
  /\ IF tty THEN at' = "asking" /\ UNCHANGED <<sessionVars, step, ended>> ELSE Proceed
  /\ UNCHANGED <<dbVars, tty, cmd, reached, altered>>

\* The form is filled in, or the user backs out (ErrUserAborted, or Cancel).
FormAnswered ==
  /\ at = "asking"
  /\ Proceed \/ End("cancelled")
  /\ UNCHANGED <<dbVars, tty, cmd, reached, altered>>

\* ParseInt, ValidateUsername, parseWaitFlag, json.Valid, GroupRoles.
Parse ==
  /\ AtStage({"parse"})
  /\ Proceed \/ End("error")
  /\ UNCHANGED <<dbVars, tty, cmd, reached, altered>>

\* getStore.
GetStore ==
  /\ AtStage({"store"})
  /\ \/ /\ CanOpen /\ OpenPool
        /\ at' = "run" /\ step' = step + 1 /\ UNCHANGED <<inShell, url, typed, user, prompt, ended>>
     \/ pool = NoLogin /\ End("error")
  /\ UNCHANGED <<dbVars, tty, cmd, reached, altered>>

\* The statement changes the logins (CreateUser, DropUser, SetUserRole); r is
\* the role that the login inherits from afterwards.  Nobody drops themselves.
Commit ==
  CASE cmd = "userAdd" -> \E u \in Logins, r \in {"admin", "user"} :
         /\ role[u] = "absent"
         /\ role' = [role EXCEPT ![u] = r] /\ attr' = [attr EXCEPT ![u] = "plain"]
         /\ altered' = (altered \/ u = pool)
    [] cmd = "userRemove" -> \E u \in Logins \ {pool} :
         /\ role[u] # "absent" /\ (attr[pool] = "superuser" \/ attr[u] # "superuser")
         /\ role' = [role EXCEPT ![u] = "absent"] /\ attr' = [attr EXCEPT ![u] = "plain"]
         /\ UNCHANGED altered
    [] cmd = "userSetRole" -> \E u \in Logins, r \in {"admin", "user"} :
         /\ role[u] # "absent"
         /\ role' = [role EXCEPT ![u] = r] /\ UNCHANGED attr
         /\ altered' = (altered \/ u = pool)
    [] OTHER -> UNCHANGED <<dbVars, altered>>

\* DROP ROLE also asks for ADMIN OPTION on the role that it drops, which the
\* login has on those that it created itself, and for a superuser if it drops
\* one.
TargetDenied ==
  /\ cmd = "userRemove" /\ attr[pool] # "superuser"
  /\ \E u \in Logins \ {pool} : role[u] # "absent"

\* The statement of a command: done, denied (42501, permissionErr) or failed.
Statement ==
  /\ AtStage({"read", "write"})
  /\ reached' = TRUE
  /\ \/ Granted(cmd) /\ Commit /\ Proceed
     \/ /\ \/ End("error")
           \/ (~Granted(cmd) \/ TargetDenied) /\ End("denied")
        /\ UNCHANGED <<dbVars, altered>>
  /\ UNCHANGED <<tty, cmd>>

\* migrate, over a connection of its own as url.
Migrate ==
  /\ AtStage({"own"})
  /\ reached' = TRUE
  /\ End("done") \/ End("error")
  /\ UNCHANGED <<dbVars, tty, cmd, altered>>

\* scheduler start and worker start: the preflight, then the loop.
Preflight ==
  /\ AtStage({"preflight"})
  /\ reached' = TRUE
  /\ (IF Granted(cmd) THEN Proceed ELSE End("denied")) \/ End("error")
  /\ UNCHANGED <<dbVars, tty, cmd, altered>>

\* A signal ends the loop.
Signalled ==
  /\ AtStage({"loop"})
  /\ End("done")
  /\ UNCHANGED <<dbVars, tty, cmd, reached, altered>>

-----------------------------------------------------------------------------
(* The specification *)

\* A statement of another administrator, or of psql.
Alter ==
  /\ \E u \in Logins, r \in Roles, a \in Attrs :
       /\ <<r, a>> # <<role[u], attr[u]>>
       /\ IF r = "absent" THEN a = "plain" ELSE r = role[u] \/ a = attr[u]
       /\ role' = [role EXCEPT ![u] = r] /\ attr' = [attr EXCEPT ![u] = a]
       /\ altered' = (altered \/ u = pool)
  /\ UNCHANGED <<tty, sessionVars, at, commandVars>>

\* kronwrk shell, or kronwrk with a command.
ShellInit ==
  /\ role \in [Logins -> Roles] /\ attr \in [Logins -> Attrs]
  /\ \A u \in Logins : role[u] = "absent" => attr[u] = "plain"
  /\ tty \in BOOLEAN /\ inShell = FALSE
  /\ url \in Logins \cup {NoLogin} /\ typed = NoLogin
  /\ pool = NoLogin /\ user = NoUser /\ prompt = [login |-> NoLogin, role |-> "absent"]
  /\ at \in {"boot", "run"} /\ cmd \in Commands /\ step = 1
  /\ ended = "none" /\ reached = FALSE /\ altered = FALSE

LoginStep == Boot \/ Connect \/ Vet
CommandStep ==
  \/ Authorize \/ Flags \/ Secret \/ Confirm \/ Parse \/ GetStore
  \/ Statement \/ Migrate \/ Preflight
HumanStep ==
  \/ OfferAnswered \/ EnterUsername \/ EnterPassword \/ AgainAnswered \/ FormAnswered
  \/ LineRead \/ Logout \/ ExitShell \/ BadLine \/ Dispatch \/ Signalled

ShellNext == LoginStep \/ CommandStep \/ HumanStep \/ Alter

ShellSpec == ShellInit /\ [][ShellNext]_shellVars

\* What waits for nobody goes on; Postgres answers.
FairShellSpec == ShellSpec /\ WF_shellVars(LoginStep \/ CommandStep)

-----------------------------------------------------------------------------
(* Properties *)

Users == [login : Logins, role : Roles, attr : Attrs]

InSession == inShell /\ at \in {"prompt", "run", "asking", "line"}

\* Types, and that a session has an identity.
ShellTypeOK ==
  /\ role \in [Logins -> Roles] /\ attr \in [Logins -> Attrs]
  /\ tty \in BOOLEAN /\ inShell \in BOOLEAN
  /\ url \in Logins \cup {NoLogin} /\ typed \in Logins \cup {NoLogin}
  /\ pool \in Logins \cup {NoLogin} /\ user \in Users \cup {NoUser}
  /\ prompt \in [login : Logins \cup {NoLogin}, role : Roles]
  /\ at \in {"boot", "connect", "vet", "prompt", "run", "exit"} \cup Asked
  /\ cmd \in Commands /\ step \in 1 .. Len(Stages[cmd])
  /\ ended \in {"none", "done", "error", "refused", "cancelled", "denied"}
  /\ reached \in BOOLEAN /\ altered \in BOOLEAN
  /\ InSession => user \in Users

\* refuseSuperuser: "blocks the interactive shell from operating as a Postgres
\* superuser", however often the user logs out and in, unless the login was
\* made one since.
NoSuperuserInShell == InSession => altered \/ attr[pool] # "superuser"

\* README.md: "The prompt shows who you are connected as and your role": the
\* prompt, the pool, the cached identity and the URL that migrate and daemons
\* are given name the same login, in the role it had when it logged in.
PromptIsTrue ==
  InSession => /\ pool \in Logins
               /\ user.login = pool /\ prompt.login = pool /\ url = pool
               /\ altered \/ (prompt.role = role[pool] /\ user.attr = attr[pool])

\* permissions.go, cmdPerms: unless the login was changed under the session,
\*   - the shell refuses nothing that Postgres would allow, but set-role to a
\*     login that has ADMIN OPTION on the groups and no CREATEROLE;
\*   - it lets nothing pass that Postgres denies, but the user commands, which
\*     need more than the CREATEROLE that it looks at: ADMIN OPTION on the
\*     groups and, for user remove, on the login to be removed.
RefusalsAreDue ==
  inShell /\ pool # NoLogin /\ ~altered /\ cmd \notin Exempt =>
    /\ ended = "refused" /\ Granted(cmd) => cmd = "userSetRole" /\ attr[pool] = "delegate"
    /\ ended = "denied" => \/ cmd \in UserCommands /\ attr[pool] = "createrole"
                           \/ cmd = "userRemove" /\ attr[pool] = "useradmin"

\* README.md: a wizard can be cancelled and "nothing is committed"; the shell
\* refuses commands "before they ever reach the database".
EarlyEndsReachNothing == ended \in {"refused", "cancelled"} => ~reached

\* README.md, piped stdin: "nothing ever blocks on a prompt".  A script comes
\* back for its next line, unless it has started a daemon, or `user add` without
\* --password reads the password from its stdin, which blocks as long as nobody
\* writes or closes it.
PipedNeverBlocks ==
  []<>(\/ tty \/ at \in {"prompt", "exit"}
       \/ at = "run" /\ Stage = "loop"
       \/ at = "line" /\ cmd = "userAdd")
=============================================================================
