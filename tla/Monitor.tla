------------------------------ MODULE Monitor ------------------------------
(***************************************************************************)
(* The interactive monitor (cmd/kronwrk/monitor.go): the update loop of its  *)
(* two screens.  A refresh is a goroutine that queries the database and sends *)
(* its reply back as a message, so replies arrive in any order and after the *)
(* screen they were asked for was left.  Event loop and table widget are    *)
(* libraries (bubbletea, bubbles/table).                                     *)
(***************************************************************************)
EXTENDS Integers, Sequences, FiniteSets

CONSTANTS
  Slots,        \* refreshes in flight at once, numbered (bound)
  MaxJobs,      \* bound on the jobs table
  MaxRev,       \* bound on changes of the database
  MaxFaults,    \* bound on queries that fail
  Terminals,    \* widths a terminal may have
  Content       \* natural widths of the columns of each kind of view, per rev

ASSUME MonitorAssumption ==
  /\ Slots \subseteq Nat
  /\ MaxJobs \in Nat /\ MaxRev \in Nat /\ MaxFaults \in Nat /\ Terminals \subseteq Nat \ {0}
  /\ \A kind \in {"jobs", "runs"}, at \in 0 .. MaxRev :
       Content[kind][at] \in Seq(Nat) /\ Len(Content[kind][at]) >= 2

NoJob == 0
JobIds == 1 .. MaxJobs

\* Views: what a query returned, and the rev it returned it for.
Overviews == [rows : 0 .. MaxJobs, at : 0 .. MaxRev]
Histories == [job : JobIds, at : 0 .. MaxRev]

\* naturalWidths: the widest cell or title of each column.
NaturalWidths(kind, v) == Content[kind][v.at]

\* A refresh: not running, asked for, or answered with a view or an error.
Idle == [kind |-> "idle"]
Failure == [failed |-> TRUE]

VARIABLES
  jobs,         \* rows of the jobs table; their ids are 1 .. jobs
  rev,          \* how often the database has changed
  running,      \* the program has not quit
  mode,         \* "jobs" or "runs" (jobsMode, runsMode)
  sel,          \* selJobID, with its name and time zone
  view, tbl,    \* the overview, and the table widget that shows it
  runsView, runsTbl, runsReady,
  width,        \* terminal width; 0 before the first WindowSizeMsg
  err,          \* an error is shown
  refreshes,    \* what is in flight
  faults,       \* queries that failed (bound)
  alone,        \* history: refreshes no other of their kind overlapped
  settled,      \* history: the last view of a kind came from such a refresh
  askedAt       \* history: rev at the last key press that asked for a kind

dbVars == <<jobs, rev>>
screenVars == <<mode, sel, view, tbl, runsView, runsTbl, runsReady, width, err>>
refreshVars == <<refreshes, faults>>
historyVars == <<alone, settled, askedAt>>
monitorVars == <<dbVars, running, screenVars, refreshVars, historyVars>>

-----------------------------------------------------------------------------
(* Column widths *)

CellPadding == 2
MinColWidth == 4
StretchColumn == 2      \* NAME of the overview, STATUS of the run history

AtMost(a, b) == IF a <= b THEN a ELSE b
AtLeast(a, b) == IF a >= b THEN a ELSE b
Clamp(n, lo, hi) == AtLeast(lo, AtMost(n, hi))

\* monitorColumns: the provisional layout.
Provisional(nat) == [i \in DOMAIN nat |-> Clamp(nat[i], 2, 34)]

\* The columns that give up space next: the first of the widest, if it is
\* wider than the minimum.
Widest(ws) ==
  {i \in DOMAIN ws : /\ ws[i] > MinColWidth
                     /\ \A k \in DOMAIN ws : ws[k] < ws[i] \/ (ws[k] = ws[i] /\ i <= k)}

\* Mutant of Narrow: the first column that is wide enough, whatever the others.
NarrowFirst(ws) ==
  [i \in DOMAIN ws |->
     IF ws[i] > MinColWidth /\ \A k \in 1 .. i - 1 : ws[k] <= MinColWidth THEN ws[i] - 1 ELSE ws[i]]

Narrow(ws) == [i \in DOMAIN ws |-> IF i \in Widest(ws) THEN ws[i] - 1 ELSE ws[i]]

\* The width vectors that the two views can have.
Measures == {Content[kind][at] : kind \in {"jobs", "runs"}, at \in 0 .. MaxRev}

\* The sum of the widths, added up from the first column to the last.
Total(ws) ==
  LET sum[n \in 0 .. Len(ws)] == IF n = 0 THEN 0 ELSE sum[n - 1] + ws[n]
  IN  sum[Len(ws)]

\* n characters are taken, one at a time (CHOOSE has TLC evaluate each step once).
Shrunk(nat, n) ==
  LET shrunk[k \in 0 .. n] ==
        IF k = 0 THEN nat ELSE CHOOSE ws \in {Narrow(prev) : prev \in {shrunk[k - 1]}} : TRUE
  IN  shrunk[n]

\* fitColumns: the surplus goes to the second column, a deficit is taken from
\* the widest ones.
FitColumns(nat, term) ==
  LET budget == term - CellPadding * Len(nat)
      total == Total(nat)
  IN  IF budget > total /\ StretchColumn \in DOMAIN nat
        THEN [nat EXCEPT ![StretchColumn] = @ + budget - total]
        ELSE Shrunk(nat, AtLeast(total - budget, 0))

\* A function, so that TLC computes each layout once.
Layouts == [nat \in Measures |-> [term \in Terminals |-> FitColumns(nat, term)]]

Fitted(nat, term) == Layouts[nat][term]

-----------------------------------------------------------------------------
(* The screen *)

\* Mutant of Relayout: the history is laid out when its data arrives only.
RelayoutJobs(w, v, t, hv, ht, ready) ==
  /\ tbl' = IF w = 0 THEN t ELSE [t EXCEPT !.cols = Fitted(NaturalWidths("jobs", v), w)]
  /\ runsTbl' = ht

\* relayout: both tables are fitted to the terminal; t and ht are the widgets
\* with their rows already set.
Relayout(w, v, t, hv, ht, ready) ==
  /\ tbl' = IF w = 0 THEN t ELSE [t EXCEPT !.cols = Fitted(NaturalWidths("jobs", v), w)]
  /\ runsTbl' = IF w = 0 \/ ~ready THEN ht ELSE [ht EXCEPT !.cols = Fitted(NaturalWidths("runs", hv), w)]

\* tea.WindowSizeMsg.
Resize(w) ==
  /\ running
  /\ width' = w
  /\ Relayout(w, view, tbl, runsView, runsTbl, runsReady)
  /\ UNCHANGED <<dbVars, running, mode, sel, view, runsView, runsReady, err, refreshVars, historyVars>>

\* A refresh is started, in the first free slot (they have no identity); of the
\* others of its kind, and of it, none is alone.
Ask(s, kind, job) ==
  LET rivals == {q \in Slots : refreshes[q].kind = kind}
  IN  /\ refreshes[s] = Idle /\ \A q \in Slots : q < s => refreshes[q] # Idle
      /\ refreshes' = [refreshes EXCEPT ![s] = [kind |-> kind, job |-> job]]
      /\ alone' = [q \in Slots |-> IF q = s THEN rivals = {} ELSE alone[q] /\ q \notin rivals]
      /\ askedAt' = [askedAt EXCEPT ![kind] = rev]
      /\ UNCHANGED <<faults, settled>>

\* q and ctrl+c, and esc on the overview; replies still to come find nobody.
Quit ==
  /\ running
  /\ running' = FALSE
  /\ refreshes' = [s \in Slots |-> Idle]
  /\ alone' = [s \in Slots |-> TRUE]
  /\ UNCHANGED <<dbVars, screenVars, faults, settled, askedAt>>

\* esc and backspace on the run history.
Back ==
  /\ running /\ mode = "runs"
  /\ mode' = "jobs" /\ err' = FALSE
  /\ UNCHANGED <<dbVars, running, sel, view, tbl, runsView, runsTbl, runsReady, width, refreshVars,
                 historyVars>>

\* f5 and r.
F5(s) ==
  /\ running
  /\ IF mode = "runs" THEN Ask(s, "runs", sel) ELSE Ask(s, "jobs", NoJob)
  /\ UNCHANGED <<dbVars, running, screenVars>>

\* The job under the cursor: SelectedRow of rows ordered by id.
Highlighted == IF tbl.cursor \in 0 .. tbl.shows.rows - 1 THEN tbl.cursor + 1 ELSE NoJob

\* Mutant of Enter: in the run history it asks again, for the row that the hidden
\* overview has under its cursor.
EnterAnywhere(s) ==
  /\ running /\ Highlighted # NoJob
  /\ sel' = Highlighted
  /\ Ask(s, "runs", Highlighted)
  /\ UNCHANGED <<dbVars, running, mode, view, tbl, runsView, runsTbl, runsReady, width, err>>

\* enter on a row of the overview.
Enter(s) ==
  /\ running /\ mode = "jobs" /\ Highlighted # NoJob
  /\ sel' = Highlighted
  /\ Ask(s, "runs", Highlighted)
  /\ UNCHANGED <<dbVars, running, mode, view, tbl, runsView, runsTbl, runsReady, width, err>>

\* Up and down on the overview, by the table widget.
MoveCursor ==
  /\ running /\ mode = "jobs"
  /\ \E c \in {tbl.cursor - 1, tbl.cursor + 1} :
       tbl' = [tbl EXCEPT !.cursor = AtMost(AtLeast(c, 0), tbl.shows.rows - 1)]
  /\ UNCHANGED <<dbVars, running, mode, sel, view, runsView, runsTbl, runsReady, width, err,
                 refreshVars, historyVars>>

-----------------------------------------------------------------------------
(* Refreshes *)

Asked(s) == refreshes[s] # Idle /\ "reply" \notin DOMAIN refreshes[s]
Answered(s) == refreshes[s] # Idle /\ "reply" \in DOMAIN refreshes[s]

\* What ListJobOverviews and ListRunsForJob return, shaped for display.
Result(s) ==
  IF refreshes[s].kind = "jobs" THEN [rows |-> jobs, at |-> rev]
  ELSE [job |-> refreshes[s].job, at |-> rev]

\* The goroutine has queried the database.
Query(s) ==
  /\ running /\ Asked(s)
  /\ refreshes' = [refreshes EXCEPT ![s] = [kind |-> refreshes[s].kind, job |-> refreshes[s].job,
                                            reply |-> Result(s)]]
  /\ UNCHANGED <<dbVars, running, screenVars, faults, historyVars>>

QueryFails(s) ==
  /\ running /\ Asked(s)
  /\ faults < MaxFaults /\ faults' = faults + 1
  /\ refreshes' = [refreshes EXCEPT ![s] = [kind |-> refreshes[s].kind, job |-> refreshes[s].job,
                                            reply |-> Failure]]
  /\ UNCHANGED <<dbVars, running, screenVars, historyVars>>

\* The view that s brought has been taken.
Taken(s, kind) ==
  /\ refreshes' = [refreshes EXCEPT ![s] = Idle]
  /\ settled' = [settled EXCEPT ![kind] = alone[s]]
  /\ alone' = [alone EXCEPT ![s] = TRUE]
  /\ UNCHANGED <<faults, askedAt>>

\* An error of either kind, handled by Update.
TakeError(s) ==
  /\ running /\ Answered(s) /\ refreshes[s].reply = Failure
  /\ err' = TRUE
  /\ refreshes' = [refreshes EXCEPT ![s] = Idle]
  /\ alone' = [alone EXCEPT ![s] = TRUE]
  /\ UNCHANGED <<dbVars, running, mode, sel, view, tbl, runsView, runsTbl, runsReady, width, faults,
                 settled, askedAt>>

\* SetRows of the widget; some versions pull the cursor back into the rows.
Cursors(t, rows) == {t.cursor, AtMost(t.cursor, rows - 1)}

\* Mutant of TakeOverview: a reply that comes while the other screen is up is
\* dropped.
TakeOverviewIfShown(s) ==
  /\ running /\ Answered(s) /\ refreshes[s].kind = "jobs" /\ refreshes[s].reply # Failure
  /\ err' = FALSE
  /\ IF mode = "runs" THEN UNCHANGED <<view, tbl, runsTbl>>
     ELSE /\ view' = refreshes[s].reply
          /\ \E c \in Cursors(tbl, refreshes[s].reply.rows) :
               Relayout(width, refreshes[s].reply,
                        [tbl EXCEPT !.shows = refreshes[s].reply, !.cursor = c],
                        runsView, runsTbl, runsReady)
  /\ Taken(s, "jobs")
  /\ UNCHANGED <<dbVars, running, mode, sel, runsView, runsReady, width>>

\* monitorDataMsg.
TakeOverview(s) ==
  LET v == refreshes[s].reply
  IN  /\ running /\ Answered(s) /\ refreshes[s].kind = "jobs" /\ v # Failure
      /\ err' = FALSE
      /\ view' = v
      /\ \E c \in Cursors(tbl, v.rows) :
           Relayout(width, v, [tbl EXCEPT !.shows = v, !.cursor = c], runsView, runsTbl, runsReady)
      /\ Taken(s, "jobs")
      /\ UNCHANGED <<dbVars, running, mode, sel, runsView, runsReady, width>>

\* Mutant of TakeHistory: the message does not bring its screen up.
TakeHistoryUnseen(s) ==
  LET v == refreshes[s].reply
  IN  /\ running /\ Answered(s) /\ refreshes[s].kind = "runs" /\ v # Failure
      /\ err' = FALSE
      /\ runsView' = v /\ runsReady' = TRUE
      /\ Relayout(width, view, tbl, v,
                  [shows |-> v, cols |-> IF runsReady THEN runsTbl.cols ELSE Provisional(NaturalWidths("runs", v))], TRUE)
      /\ Taken(s, "runs")
      /\ UNCHANGED <<dbVars, running, mode, sel, view, width>>

\* runsDataMsg: it brings the run history up, whatever was on the screen.
TakeHistory(s) ==
  LET v == refreshes[s].reply
  IN  /\ running /\ Answered(s) /\ refreshes[s].kind = "runs" /\ v # Failure
      /\ err' = FALSE
      /\ runsView' = v /\ runsReady' = TRUE /\ mode' = "runs"
      /\ Relayout(width, view, tbl, v,
                  [shows |-> v, cols |-> IF runsReady THEN runsTbl.cols ELSE Provisional(NaturalWidths("runs", v))], TRUE)
      /\ Taken(s, "runs")
      /\ UNCHANGED <<dbVars, running, sel, view, width>>

-----------------------------------------------------------------------------
(* The specification *)

\* Jobs are added, never removed; runs and schedules change.
Change ==
  /\ rev < MaxRev /\ rev' = rev + 1
  /\ jobs' \in {jobs, AtMost(jobs + 1, MaxJobs)}
  /\ UNCHANGED <<running, screenVars, refreshVars, historyVars>>

\* monitorCmd has listed the overviews and started the program.
MonitorInit ==
  /\ jobs \in 0 .. AtMost(2, MaxJobs) /\ rev = 0 /\ running = TRUE
  /\ mode = "jobs" /\ sel = NoJob /\ width = 0 /\ err = FALSE
  /\ view = [rows |-> jobs, at |-> 0]
  /\ tbl = [shows |-> view, cols |-> Provisional(NaturalWidths("jobs", view)), cursor |-> 0]
  /\ runsView = [job |-> NoJob, at |-> 0]
  /\ runsTbl = [shows |-> runsView, cols |-> <<>>]
  /\ runsReady = FALSE
  /\ refreshes = [s \in Slots |-> Idle] /\ faults = 0
  /\ alone = [s \in Slots |-> TRUE]
  /\ settled = [kind \in {"jobs", "runs"} |-> TRUE]
  /\ askedAt = [kind \in {"jobs", "runs"} |-> 0]

\* Update.
Take(s) == TakeError(s) \/ TakeOverview(s) \/ TakeHistory(s)

MonitorNext ==
  \/ Change
  \/ \E w \in Terminals : Resize(w)
  \/ Quit \/ Back \/ MoveCursor
  \/ \E s \in Slots : F5(s) \/ Enter(s) \/ Query(s) \/ QueryFails(s) \/ Take(s)

MonitorSpec == MonitorInit /\ [][MonitorNext]_monitorVars

\* Queries return and the event loop takes its messages.
FairMonitorSpec ==
  /\ MonitorSpec
  /\ \A s \in Slots : WF_monitorVars(Query(s)) /\ WF_monitorVars(Take(s))

-----------------------------------------------------------------------------
(* Properties *)

Requests ==
  [kind : {"jobs"}, job : {NoJob}] \cup [kind : {"runs"}, job : JobIds]
Replies ==
  [kind : {"jobs"}, job : {NoJob}, reply : Overviews \cup {Failure}]
    \cup [kind : {"runs"}, job : JobIds, reply : Histories \cup {Failure}]

\* The type of every variable; the widths of the columns are in FitIsSound.
MonitorTypeOK ==
  /\ jobs \in 0 .. MaxJobs /\ rev \in 0 .. MaxRev
  /\ running \in BOOLEAN /\ mode \in {"jobs", "runs"} /\ sel \in JobIds \cup {NoJob}
  /\ view \in Overviews /\ runsReady \in BOOLEAN
  /\ runsReady => runsView \in Histories
  /\ mode = "runs" => runsReady /\ sel \in JobIds
  /\ width \in Terminals \cup {0} /\ err \in BOOLEAN
  /\ refreshes \in [Slots -> Requests \cup Replies \cup {Idle}]
  /\ faults \in 0 .. MaxFaults
  /\ alone \in [Slots -> BOOLEAN]
  /\ settled \in [{"jobs", "runs"} -> BOOLEAN]
  /\ askedAt \in [{"jobs", "runs"} -> 0 .. MaxRev]

\* monitor.go:167: the widgets show the rows of their views, in columns fitted
\* to these rows and to the terminal as it is now, both of them, whichever is
\* on the screen when the terminal or the data change.
TablesMatchViews ==
  /\ tbl.shows = view
  /\ runsReady => runsTbl.shows = runsView
  /\ width # 0 => /\ tbl.cols = Fitted(NaturalWidths("jobs", view), width)
                  /\ runsReady => runsTbl.cols = Fitted(NaturalWidths("runs", runsView), width)

\* The heading of the run history names the job whose runs are listed below it,
\* unless refreshes of two histories were in flight together (View reads
\* selJobID, the rows come from the last runsDataMsg).
HeadingIsTrue == mode = "runs" /\ settled["runs"] => runsView.job = sel

InFlight(kind) == {s \in Slots : refreshes[s].kind = kind}

\* Once the replies are in and none has failed, a screen is no older than the
\* last key press that asked for it, unless refreshes overlapped.
QuietScreenIsCurrent ==
  running /\ faults = 0 =>
    /\ InFlight("jobs") = {} /\ settled["jobs"] => view.at >= askedAt["jobs"]
    /\ InFlight("runs") = {} /\ settled["runs"] => runsView.at >= askedAt["runs"]

\* monitor.go:360: the columns fill the terminal if they fit; otherwise they
\* are cut to fit exactly, or all to the minimum, and the widest give up first:
\* no column is cut below one that stayed more than a character wider.
FitsWell(fit, nat, term) ==
  LET budget == term - CellPadding * Len(nat)
      floor == [i \in DOMAIN nat |-> AtMost(nat[i], MinColWidth)]
  IN  IF Total(nat) <= budget
        THEN /\ Total(fit) = budget
             /\ \A i \in DOMAIN nat \ {StretchColumn} : fit[i] = nat[i]
        ELSE /\ Total(fit) = AtLeast(budget, Total(floor))
             /\ \A i \in DOMAIN nat : floor[i] <= fit[i] /\ fit[i] <= nat[i]
             /\ \A i, k \in DOMAIN nat : fit[i] < nat[i] => fit[k] <= fit[i] + 1

\* Every layout on the screen is such a one.
FitIsSound ==
  width # 0 => /\ FitsWell(tbl.cols, NaturalWidths("jobs", view), width)
               /\ runsReady => FitsWell(runsTbl.cols, NaturalWidths("runs", runsView), width)

\* A run history that was asked for comes up, or an error does, or the user
\* leaves (no request is dropped).
EnterIsAnswered ==
  \A s \in Slots : refreshes[s].kind = "runs" ~> mode = "runs" \/ err \/ ~running
=============================================================================
