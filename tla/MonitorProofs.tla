--------------------------- MODULE MonitorProofs ---------------------------
(***************************************************************************)
(* Safety of Monitor for any number of refreshes in flight, jobs, changes,  *)
(* terminals and contents.                                                  *)
(***************************************************************************)
EXTENDS Monitor, WellFoundedInduction, TLAPS

Kinds == {"jobs", "runs"}

\* The fields of the two widgets.
WidgetShapes ==
  /\ tbl = [shows |-> tbl.shows, cols |-> tbl.cols, cursor |-> tbl.cursor]
  /\ runsTbl = [shows |-> runsTbl.shows, cols |-> runsTbl.cols]

\* An answer is for the job that was asked for, errors are counted, and what is
\* alone was asked for by the last key press of its kind: for the job in the
\* heading, at the rev on record.
RefreshesAreFresh ==
  /\ \A k \in Kinds : askedAt[k] <= rev
  /\ \A s \in Slots :
       /\ Answered(s) /\ refreshes[s].reply = Failure => faults > 0
       /\ Answered(s) /\ refreshes[s].reply # Failure /\ refreshes[s].kind = "runs" =>
            refreshes[s].reply.job = refreshes[s].job
       /\ refreshes[s].kind = "runs" => sel \in JobIds
       /\ alone[s] /\ refreshes[s].kind = "runs" => refreshes[s].job = sel
       /\ alone[s] /\ Answered(s) /\ refreshes[s].reply # Failure =>
            refreshes[s].reply.at >= askedAt[refreshes[s].kind]

MInv ==
  /\ MonitorTypeOK /\ WidgetShapes /\ TablesMatchViews
  /\ RefreshesAreFresh /\ HeadingIsTrue /\ QuietScreenIsCurrent

-----------------------------------------------------------------------------
(* What is in a slot *)

LEMMA SlotCases ==
  ASSUME MonitorTypeOK, NEW s \in Slots
  PROVE  /\ refreshes[s].kind \in Kinds \cup {"idle"}
         /\ refreshes[s].kind = "idle" <=> refreshes[s] = Idle
         /\ Asked(s) => /\ refreshes[s] \in Requests
                        /\ refreshes[s].kind = "jobs" => refreshes[s].job = NoJob
                        /\ refreshes[s].kind = "runs" => refreshes[s].job \in JobIds
         /\ Answered(s) =>
              /\ refreshes[s] \in Replies
              /\ refreshes[s].kind = "jobs" => refreshes[s].reply \in Overviews \cup {Failure}
              /\ refreshes[s].kind = "runs" => refreshes[s].reply \in Histories \cup {Failure}
<1> DEFINE r == refreshes[s]
<1>1. r \in Requests \cup Replies \cup {Idle}
  BY DEF MonitorTypeOK
<1>2. CASE r \in Requests
  <2>1. r.kind \in Kinds /\ DOMAIN r = {"kind", "job"}
    BY <1>2 DEF Requests, Kinds
  <2>2. r # Idle /\ "reply" \notin DOMAIN r
    BY <2>1 DEF Idle
  <2>3. /\ r.kind = "jobs" => r.job = NoJob
        /\ r.kind = "runs" => r.job \in JobIds
    BY <1>2 DEF Requests
  <2> QED
    BY <1>2, <2>1, <2>2, <2>3 DEF Asked, Answered, Kinds
<1>3. CASE r \in Replies
  <2>1. r.kind \in Kinds /\ DOMAIN r = {"kind", "job", "reply"}
    BY <1>3 DEF Replies, Kinds
  <2>2. r # Idle /\ "reply" \in DOMAIN r
    BY <2>1 DEF Idle
  <2>3. /\ r.kind = "jobs" => r.reply \in Overviews \cup {Failure}
        /\ r.kind = "runs" => r.reply \in Histories \cup {Failure}
    BY <1>3 DEF Replies
  <2> QED
    BY <1>3, <2>1, <2>2, <2>3 DEF Asked, Answered, Kinds
<1>4. CASE r = Idle
  BY <1>4 DEF Idle, Asked, Answered, Kinds
<1> QED
  BY <1>1, <1>2, <1>3, <1>4

-----------------------------------------------------------------------------
(* The invariant *)

\* What Ask does to the slots: its own is the last of its kind.
LEMMA AskInv ==
  ASSUME MonitorTypeOK, RefreshesAreFresh, NEW s \in Slots, NEW kind \in Kinds, NEW job,
         kind = "jobs" => job = NoJob, kind = "runs" => job \in JobIds,
         kind = "runs" => sel' = job, kind = "jobs" => sel' = sel,
         Ask(s, kind, job), UNCHANGED rev
  PROVE  /\ refreshes' \in [Slots -> Requests \cup Replies \cup {Idle}]
         /\ alone' \in [Slots -> BOOLEAN]
         /\ askedAt' \in [{"jobs", "runs"} -> 0 .. MaxRev]
         /\ RefreshesAreFresh'
         /\ InFlight(kind)' # {}
         /\ \A k \in Kinds \ {kind} : InFlight(k)' = InFlight(k) /\ askedAt'[k] = askedAt[k]
<1> DEFINE r == [kind |-> kind, job |-> job]
<1>1. refreshes' = [refreshes EXCEPT ![s] = r] /\ refreshes[s] = Idle
  BY DEF Ask
<1>2. r \in Requests /\ r # Idle /\ "reply" \notin DOMAIN r /\ r.kind = kind /\ r.job = job
  BY DEF Requests, Kinds, Idle
<1>3. refreshes' \in [Slots -> Requests \cup Replies \cup {Idle}] /\ refreshes'[s] = r
  BY <1>1, <1>2 DEF MonitorTypeOK
<1>4. /\ alone' \in [Slots -> BOOLEAN]
      /\ \A q \in Slots \ {s} : alone'[q] => alone[q] /\ refreshes[q].kind # kind
  BY DEF Ask, MonitorTypeOK
<1>5. askedAt' \in [{"jobs", "runs"} -> 0 .. MaxRev] /\ askedAt'[kind] = rev
  BY DEF Ask, MonitorTypeOK, Kinds
<1>6. \A k \in Kinds \ {kind} : askedAt'[k] = askedAt[k]
  BY DEF Ask, MonitorTypeOK, Kinds
<1>7. \A q \in Slots \ {s} : refreshes'[q] = refreshes[q]
  BY <1>1 DEF MonitorTypeOK
<1>8. ~Answered(s)'
  BY <1>2, <1>3 DEF Answered
<1>9. faults' = faults
  BY DEF Ask
<1>10. RefreshesAreFresh'
  <2>1. \A k \in Kinds : askedAt'[k] <= rev'
    <3>1. rev \in Nat
      BY MonitorAssumption DEF MonitorTypeOK
    <3> QED
      BY <1>5, <1>6, <3>1 DEF RefreshesAreFresh
  <2>2. ASSUME NEW q \in Slots
        PROVE  /\ Answered(q)' /\ refreshes'[q].reply = Failure => faults' > 0
               /\ Answered(q)' /\ refreshes'[q].reply # Failure /\ refreshes'[q].kind = "runs" =>
                    refreshes'[q].reply.job = refreshes'[q].job
               /\ alone'[q] /\ refreshes'[q].kind = "runs" => refreshes'[q].job = sel'
               /\ alone'[q] /\ Answered(q)' /\ refreshes'[q].reply # Failure =>
                    refreshes'[q].reply.at >= askedAt'[refreshes'[q].kind]
    <3>1. CASE q = s
      BY <3>1, <1>2, <1>3, <1>8 DEF Kinds
    <3>2. CASE q # s
      <4>1. refreshes'[q] = refreshes[q] /\ (Answered(q)' <=> Answered(q))
        BY <3>2, <1>7 DEF Answered
      <4>2. alone'[q] => alone[q] /\ refreshes[q].kind # kind
        BY <3>2, <1>4
      <4>3. Answered(q) => refreshes[q].kind \in Kinds
        BY SlotCases DEF Answered
      <4>4. alone'[q] /\ refreshes[q].kind = "runs" => sel' = sel
        BY <4>2 DEF Kinds
      <4>5. alone'[q] /\ Answered(q) => askedAt'[refreshes[q].kind] = askedAt[refreshes[q].kind]
        BY <4>2, <4>3, <1>6
      <4> QED
        BY <4>1, <4>2, <4>4, <4>5, <1>9 DEF RefreshesAreFresh
    <3> QED
      BY <3>1, <3>2
  <2>3. \A q \in Slots : refreshes'[q].kind = "runs" => sel' \in JobIds
    <3>1. refreshes'[s].kind = kind
      BY <1>2, <1>3
    <3>2. kind = "runs" => sel' \in JobIds
      OBVIOUS
    <3>3. \A q \in Slots : refreshes[q].kind = "runs" => sel \in JobIds
      BY DEF RefreshesAreFresh
    <3> QED
      BY <1>7, <3>1, <3>2, <3>3 DEF Kinds
  <2> QED
    BY <2>1, <2>2, <2>3 DEF RefreshesAreFresh
<1>11. InFlight(kind)' # {}
  BY <1>2, <1>3 DEF InFlight
<1>12. \A k \in Kinds \ {kind} : InFlight(k)' = InFlight(k)
  BY <1>1, <1>2, <1>3, <1>7 DEF InFlight, Idle, Kinds
<1> QED
  BY <1>3, <1>4, <1>5, <1>6, <1>10, <1>11, <1>12

\* What a slot that is emptied does to the others.
LEMMA ClearInv ==
  ASSUME MonitorTypeOK, RefreshesAreFresh, NEW s \in Slots, refreshes[s].kind \in Kinds,
         refreshes' = [refreshes EXCEPT ![s] = Idle], alone' = [alone EXCEPT ![s] = TRUE],
         UNCHANGED <<rev, sel, askedAt, faults>>
  PROVE  /\ refreshes' \in [Slots -> Requests \cup Replies \cup {Idle}]
         /\ alone' \in [Slots -> BOOLEAN]
         /\ RefreshesAreFresh'
         /\ \A k \in Kinds \ {refreshes[s].kind} : InFlight(k)' = InFlight(k)
<1>1. /\ refreshes' \in [Slots -> Requests \cup Replies \cup {Idle}]
      /\ alone' \in [Slots -> BOOLEAN]
      /\ refreshes'[s] = Idle
      /\ \A q \in Slots \ {s} : refreshes'[q] = refreshes[q] /\ alone'[q] = alone[q]
  BY DEF MonitorTypeOK
<1>2. ~Answered(s)' /\ refreshes'[s].kind = "idle"
  BY <1>1 DEF Answered, Idle
<1>3. \A q \in Slots \ {s} : Answered(q)' <=> Answered(q)
  BY <1>1 DEF Answered
<1>4. RefreshesAreFresh'
  BY <1>1, <1>2, <1>3 DEF RefreshesAreFresh
<1>5. \A k \in Kinds \ {refreshes[s].kind} : InFlight(k)' = InFlight(k)
  BY <1>1, <1>2 DEF InFlight, Kinds
<1> QED
  BY <1>1, <1>4, <1>5

\* What an answer does: v is current, or there has been a failure.
LEMMA ReplyInv ==
  ASSUME MonitorTypeOK, RefreshesAreFresh, NEW s \in Slots, Asked(s), NEW v,
         refreshes' = [refreshes EXCEPT ![s] = [kind |-> refreshes[s].kind, job |-> refreshes[s].job,
                                                reply |-> v]],
         \/ v = Failure /\ faults' > 0
         \/ /\ v # Failure /\ v.at = rev
            /\ refreshes[s].kind = "jobs" => v \in Overviews
            /\ refreshes[s].kind = "runs" => v \in Histories /\ v.job = refreshes[s].job,
         faults > 0 => faults' > 0,
         UNCHANGED <<rev, sel, askedAt, alone>>
  PROVE  /\ refreshes' \in [Slots -> Requests \cup Replies \cup {Idle}]
         /\ RefreshesAreFresh'
         /\ \A k \in Kinds : InFlight(k)' = InFlight(k)
<1> DEFINE r == [kind |-> refreshes[s].kind, job |-> refreshes[s].job, reply |-> v]
<1>1. /\ refreshes[s].kind \in Kinds
      /\ refreshes[s].kind = "jobs" => refreshes[s].job = NoJob
      /\ refreshes[s].kind = "runs" => refreshes[s].job \in JobIds
  BY SlotCases DEF Asked
<1>2. r \in Replies
  BY <1>1 DEF Replies, Kinds
<1>3. /\ refreshes' \in [Slots -> Requests \cup Replies \cup {Idle}]
      /\ refreshes'[s] = r
      /\ \A q \in Slots \ {s} : refreshes'[q] = refreshes[q]
  BY <1>2 DEF MonitorTypeOK
<1>4. \A q \in Slots \ {s} : Answered(q)' <=> Answered(q)
  BY <1>3 DEF Answered
<1>5. refreshes'[s].kind = refreshes[s].kind /\ refreshes'[s].job = refreshes[s].job /\ refreshes'[s].reply = v
  BY <1>3
<1>6. \A k \in Kinds : askedAt[k] <= rev
  BY DEF RefreshesAreFresh
<1>7. /\ v # Failure => v.at >= askedAt[refreshes[s].kind]
      /\ v = Failure => faults' > 0
      /\ v # Failure /\ refreshes[s].kind = "runs" => v.job = refreshes[s].job
      /\ alone[s] /\ refreshes[s].kind = "runs" => refreshes[s].job = sel
  <2>1. rev \in Nat /\ askedAt[refreshes[s].kind] \in Nat
    BY <1>1, MonitorAssumption DEF MonitorTypeOK, Kinds
  <2> QED
    BY <1>1, <1>6, <2>1 DEF RefreshesAreFresh
<1>8. RefreshesAreFresh'
  <2>1. \A q \in Slots \ {s} :
          /\ Answered(q)' /\ refreshes'[q].reply = Failure => faults' > 0
          /\ Answered(q)' /\ refreshes'[q].reply # Failure /\ refreshes'[q].kind = "runs" =>
               refreshes'[q].reply.job = refreshes'[q].job
          /\ alone'[q] /\ refreshes'[q].kind = "runs" => refreshes'[q].job = sel'
          /\ alone'[q] /\ Answered(q)' /\ refreshes'[q].reply # Failure =>
               refreshes'[q].reply.at >= askedAt'[refreshes'[q].kind]
    BY <1>3, <1>4 DEF RefreshesAreFresh
  <2>2. /\ refreshes'[s].reply = Failure => faults' > 0
        /\ refreshes'[s].reply # Failure /\ refreshes'[s].kind = "runs" =>
             refreshes'[s].reply.job = refreshes'[s].job
        /\ alone'[s] /\ refreshes'[s].kind = "runs" => refreshes'[s].job = sel'
        /\ refreshes'[s].reply # Failure =>
             refreshes'[s].reply.at >= askedAt'[refreshes'[s].kind]
    BY <1>5, <1>7
  <2> QED
    BY <1>6, <2>1, <2>2 DEF RefreshesAreFresh
<1>9. \A k \in Kinds : InFlight(k)' = InFlight(k)
  BY <1>3, <1>5 DEF InFlight
<1> QED
  BY <1>3, <1>8, <1>9

\* Relayout shows what it is given and fits it, unless there is no terminal yet.
LEMMA RelayoutFits ==
  ASSUME NEW w, NEW v, NEW t, NEW hv, NEW ht, NEW ready \in BOOLEAN,
         Relayout(w, v, t, hv, ht, ready),
         t = [shows |-> v, cols |-> t.cols, cursor |-> t.cursor],
         ht = [shows |-> ht.shows, cols |-> ht.cols], ready => ht.shows = hv
  PROVE  /\ WidgetShapes'
         /\ tbl'.shows = v /\ (ready => runsTbl'.shows = hv)
         /\ w # 0 => /\ tbl'.cols = Fitted(NaturalWidths("jobs", v), w)
                     /\ ready => runsTbl'.cols = Fitted(NaturalWidths("runs", hv), w)
<1> DEFINE fit == Fitted(NaturalWidths("jobs", v), w)
           hfit == Fitted(NaturalWidths("runs", hv), w)
<1>1. tbl' = IF w = 0 THEN t ELSE [t EXCEPT !.cols = fit]
  BY DEF Relayout
<1>2. runsTbl' = IF w = 0 \/ ~ready THEN ht ELSE [ht EXCEPT !.cols = hfit]
  BY DEF Relayout
<1> HIDE DEF fit, hfit
<1>3. /\ tbl' = [shows |-> tbl'.shows, cols |-> tbl'.cols, cursor |-> tbl'.cursor]
      /\ tbl'.shows = v /\ (w # 0 => tbl'.cols = fit)
  BY <1>1
<1>4. /\ runsTbl' = [shows |-> runsTbl'.shows, cols |-> runsTbl'.cols]
      /\ runsTbl'.shows = ht.shows /\ (w # 0 /\ ready => runsTbl'.cols = hfit)
  BY <1>2
<1> QED
  BY <1>3, <1>4 DEF WidgetShapes, fit, hfit

LEMMA MInit == MonitorInit => MInv
<1> SUFFICES ASSUME MonitorInit
             PROVE  MInv
  OBVIOUS
<1>1. /\ jobs \in 0 .. MaxJobs /\ rev = 0 /\ 0 \in 0 .. MaxRev /\ 0 \in 0 .. MaxFaults
      /\ view \in Overviews
  BY MonitorAssumption DEF MonitorInit, AtMost, Overviews
<1>2. refreshes \in [Slots -> {Idle}] /\ \A s \in Slots : refreshes[s] = Idle
  BY DEF MonitorInit
<1>3. MonitorTypeOK
  <2>1. alone \in [Slots -> BOOLEAN]
    BY DEF MonitorInit
  <2>3. settled \in [{"jobs", "runs"} -> BOOLEAN]
    BY DEF MonitorInit
  <2>4. askedAt \in [{"jobs", "runs"} -> 0 .. MaxRev]
    BY <1>1 DEF MonitorInit
  <2>2. refreshes \in [Slots -> Requests \cup Replies \cup {Idle}]
    BY <1>2
  <2> QED
    BY <1>1, <2>1, <2>2, <2>3, <2>4 DEF MonitorInit, MonitorTypeOK
<1>4. WidgetShapes /\ TablesMatchViews /\ HeadingIsTrue
  BY DEF MonitorInit, WidgetShapes, TablesMatchViews, HeadingIsTrue
<1>5. RefreshesAreFresh
  BY <1>1, <1>2 DEF MonitorInit, RefreshesAreFresh, Answered, Idle, Kinds
<1>6. QuietScreenIsCurrent
  BY <1>1 DEF MonitorInit, QuietScreenIsCurrent
<1> QED
  BY <1>3, <1>4, <1>5, <1>6 DEF MInv

\* Everything but the slots, the view and what is on record stays.
LEMMA FrameInv ==
  ASSUME MInv, MonitorTypeOK', RefreshesAreFresh',
         UNCHANGED <<running, mode, sel, view, tbl, runsView, runsTbl, runsReady, width, settled>>,
         faults' = 0 => faults = 0,
         \A k \in Kinds : InFlight(k)' = {} => InFlight(k) = {} /\ askedAt'[k] = askedAt[k]
  PROVE  MInv'
<1>1. WidgetShapes' /\ TablesMatchViews' /\ HeadingIsTrue'
  BY DEF MInv, WidgetShapes, TablesMatchViews, HeadingIsTrue
<1>2. QuietScreenIsCurrent'
  BY DEF MInv, QuietScreenIsCurrent, Kinds
<1> QED
  BY <1>1, <1>2 DEF MInv

LEMMA ChangeInv == MInv /\ Change => MInv'
<1> SUFFICES ASSUME MInv, Change
             PROVE  MInv'
  OBVIOUS
<1> USE DEF Change, dbVars, screenVars, refreshVars, historyVars
<1>1. /\ jobs' \in 0 .. MaxJobs /\ rev' \in 0 .. MaxRev /\ rev' = rev + 1
      /\ \A k \in Kinds : askedAt[k] \in Nat /\ rev \in Nat
  BY MonitorAssumption DEF MInv, MonitorTypeOK, AtMost, Kinds
<1>2. MonitorTypeOK'
  BY <1>1 DEF MInv, MonitorTypeOK
<1>3. \A k \in Kinds : askedAt'[k] <= rev'
  BY <1>1 DEF MInv, RefreshesAreFresh
<1>4. RefreshesAreFresh'
  BY <1>3 DEF MInv, RefreshesAreFresh, Answered
<1>5. \A k \in Kinds : InFlight(k)' = InFlight(k)
  BY DEF InFlight
<1> QED
  BY <1>2, <1>4, <1>5, FrameInv

LEMMA ResizeInv == ASSUME MInv, NEW w \in Terminals, Resize(w) PROVE MInv'
<1> USE DEF dbVars, refreshVars, historyVars
<1>1. MonitorTypeOK' /\ RefreshesAreFresh'
  BY DEF MInv, MonitorTypeOK, RefreshesAreFresh, Resize, Answered
<1>2. runsReady \in BOOLEAN
  BY DEF MInv, MonitorTypeOK
<1>3. /\ tbl = [shows |-> view, cols |-> tbl.cols, cursor |-> tbl.cursor]
      /\ runsTbl = [shows |-> runsTbl.shows, cols |-> runsTbl.cols]
      /\ runsReady => runsTbl.shows = runsView
  BY DEF MInv, WidgetShapes, TablesMatchViews
<1>4. /\ WidgetShapes'
      /\ tbl'.shows = view /\ (runsReady => runsTbl'.shows = runsView)
      /\ w # 0 => /\ tbl'.cols = Fitted(NaturalWidths("jobs", view), w)
                  /\ runsReady => runsTbl'.cols = Fitted(NaturalWidths("runs", runsView), w)
  BY <1>2, <1>3, RelayoutFits DEF Resize
<1>5. TablesMatchViews'
  BY <1>4 DEF TablesMatchViews, Resize, NaturalWidths
<1>6. HeadingIsTrue' /\ QuietScreenIsCurrent'
  BY DEF MInv, HeadingIsTrue, QuietScreenIsCurrent, InFlight, Resize
<1> QED
  BY <1>1, <1>4, <1>5, <1>6 DEF MInv

LEMMA KeysInv == MInv /\ (Quit \/ Back \/ MoveCursor) => MInv'
<1> USE DEF dbVars, screenVars, refreshVars, historyVars
<1>1. ASSUME MInv, Quit
      PROVE  MInv'
  <2>1. refreshes' \in [Slots -> {Idle}] /\ \A s \in Slots : refreshes'[s] = Idle
    BY <1>1 DEF Quit
  <2>2. alone' \in [Slots -> BOOLEAN] /\ running' = FALSE
    BY <1>1 DEF Quit
  <2>3. MonitorTypeOK'
    BY <1>1, <2>1, <2>2 DEF MInv, MonitorTypeOK, Quit
  <2>4. RefreshesAreFresh'
    BY <1>1, <2>1 DEF MInv, RefreshesAreFresh, Quit, Answered, Idle
  <2>5. WidgetShapes' /\ TablesMatchViews' /\ HeadingIsTrue'
    BY <1>1 DEF MInv, WidgetShapes, TablesMatchViews, HeadingIsTrue, Quit
  <2>6. QuietScreenIsCurrent'
    BY <2>2 DEF QuietScreenIsCurrent
  <2> QED
    BY <2>3, <2>4, <2>5, <2>6 DEF MInv
<1>2. ASSUME MInv, Back
      PROVE  MInv'
  <2>1. MonitorTypeOK' /\ RefreshesAreFresh'
    BY <1>2 DEF MInv, MonitorTypeOK, RefreshesAreFresh, Back, Answered
  <2>2. WidgetShapes' /\ TablesMatchViews' /\ HeadingIsTrue' /\ QuietScreenIsCurrent'
    BY <1>2 DEF MInv, WidgetShapes, TablesMatchViews, HeadingIsTrue, QuietScreenIsCurrent, InFlight, Back
  <2> QED
    BY <2>1, <2>2 DEF MInv
<1>3. ASSUME MInv, MoveCursor
      PROVE  MInv'
  <2>1. MonitorTypeOK' /\ RefreshesAreFresh'
    BY <1>3 DEF MInv, MonitorTypeOK, RefreshesAreFresh, MoveCursor, Answered
  <2>2. HeadingIsTrue' /\ QuietScreenIsCurrent'
    BY <1>3 DEF MInv, HeadingIsTrue, QuietScreenIsCurrent, InFlight, MoveCursor
  <2>3. tbl' = [shows |-> tbl.shows, cols |-> tbl.cols, cursor |-> tbl'.cursor]
    <3>1. PICK c : tbl' = [tbl EXCEPT !.cursor = c]
      BY <1>3 DEF MoveCursor
    <3> QED
      BY <1>3, <3>1 DEF MInv, WidgetShapes
  <2>4. tbl'.shows = tbl.shows /\ tbl'.cols = tbl.cols
    BY <2>3
  <2>5. WidgetShapes'
    BY <1>3, <2>3, <2>4 DEF MInv, WidgetShapes, MoveCursor
  <2>6. TablesMatchViews'
    BY <1>3, <2>4 DEF MInv, TablesMatchViews, MoveCursor
  <2> QED
    BY <2>1, <2>2, <2>5, <2>6 DEF MInv
<1> QED
  BY <1>1, <1>2, <1>3

LEMMA F5Inv == ASSUME MInv, NEW s \in Slots, F5(s) PROVE MInv'
<1> USE DEF dbVars, screenVars
<1>0. PICK kind, job : kind = mode /\ job = (IF mode = "runs" THEN sel ELSE NoJob)
  OBVIOUS
<1>1. /\ kind \in Kinds /\ MonitorTypeOK /\ RefreshesAreFresh
      /\ kind = "jobs" => job = NoJob
      /\ kind = "runs" => job = sel /\ job \in JobIds
  BY <1>0 DEF MInv, MonitorTypeOK, Kinds
<1>2. Ask(s, kind, job) /\ UNCHANGED <<rev, sel>>
  BY <1>0, <1>1 DEF F5, Kinds
<1>3. /\ refreshes' \in [Slots -> Requests \cup Replies \cup {Idle}]
      /\ alone' \in [Slots -> BOOLEAN]
      /\ askedAt' \in [{"jobs", "runs"} -> 0 .. MaxRev]
      /\ RefreshesAreFresh'
      /\ InFlight(kind)' # {}
      /\ \A k \in Kinds \ {kind} : InFlight(k)' = InFlight(k) /\ askedAt'[k] = askedAt[k]
  <2>1. /\ kind = "runs" => sel' = job
        /\ kind = "jobs" => sel' = sel
    BY <1>1, <1>2
  <2> QED
    BY <1>1, <1>2, <2>1, AskInv
<1>4. UNCHANGED <<faults, settled>>
  BY <1>2 DEF Ask
<1>5. MonitorTypeOK'
  BY <1>3, <1>4 DEF MInv, MonitorTypeOK, F5
<1>6. \A k \in Kinds : InFlight(k)' = {} => InFlight(k) = {} /\ askedAt'[k] = askedAt[k]
  BY <1>3
<1> QED
  BY <1>3, <1>4, <1>5, <1>6, FrameInv DEF F5

\* The row under the cursor is a job.
LEMMA HighlightedIsJob ==
  ASSUME MInv, Highlighted # NoJob
  PROVE  Highlighted \in JobIds
<1>1. tbl.shows = view /\ view \in Overviews
  BY DEF MInv, MonitorTypeOK, TablesMatchViews
<1>2. view.rows \in 0 .. MaxJobs
  BY <1>1 DEF Overviews
<1>3. tbl.cursor \in 0 .. view.rows - 1 /\ Highlighted = tbl.cursor + 1
  BY <1>1 DEF Highlighted
<1> QED
  BY <1>2, <1>3, MonitorAssumption DEF JobIds

LEMMA EnterInv == ASSUME MInv, NEW s \in Slots, Enter(s) PROVE MInv'
<1> USE DEF dbVars
<1> DEFINE job == Highlighted
<1>1. job \in JobIds
  BY HighlightedIsJob DEF Enter
<1>2. Ask(s, "runs", job) /\ sel' = job /\ rev' = rev /\ mode = "jobs" /\ mode' = "jobs"
  BY DEF Enter
<1> HIDE DEF job
<1>3. MonitorTypeOK /\ RefreshesAreFresh /\ "runs" \in Kinds /\ "jobs" \in Kinds \ {"runs"}
  BY DEF MInv, Kinds
<1>4. /\ refreshes' \in [Slots -> Requests \cup Replies \cup {Idle}]
      /\ alone' \in [Slots -> BOOLEAN]
      /\ askedAt' \in [{"jobs", "runs"} -> 0 .. MaxRev]
      /\ RefreshesAreFresh'
      /\ InFlight("runs")' # {}
      /\ \A k \in Kinds \ {"runs"} : InFlight(k)' = InFlight(k) /\ askedAt'[k] = askedAt[k]
  BY <1>1, <1>2, <1>3, AskInv, "runs" # "jobs"
<1>5. UNCHANGED <<faults, settled, running, view, tbl, runsView, runsTbl, runsReady, width, err, jobs>>
  BY DEF Enter, Ask
<1>6. MonitorTypeOK'
  BY <1>1, <1>2, <1>4, <1>5 DEF MInv, MonitorTypeOK
<1>7. WidgetShapes' /\ TablesMatchViews'
  BY <1>5 DEF MInv, WidgetShapes, TablesMatchViews
<1>8. HeadingIsTrue'
  BY <1>2 DEF HeadingIsTrue
<1>9. QuietScreenIsCurrent'
  BY <1>3, <1>4, <1>5 DEF MInv, QuietScreenIsCurrent
<1> QED
  BY <1>4, <1>6, <1>7, <1>8, <1>9 DEF MInv

LEMMA QueryInv == ASSUME MInv, NEW s \in Slots, Query(s) \/ QueryFails(s) PROVE MInv'
<1> USE DEF dbVars, screenVars, historyVars
<1> DEFINE v == IF Query(s) THEN Result(s) ELSE Failure
<1>0. MonitorTypeOK /\ RefreshesAreFresh /\ Asked(s) /\ faults \in Nat
  BY MonitorAssumption DEF MInv, MonitorTypeOK, Query, QueryFails
<1>1. refreshes[s].kind \in Kinds /\ (refreshes[s].kind = "runs" => refreshes[s].job \in JobIds)
  BY <1>0, SlotCases DEF Asked
<1>2. /\ Result(s) # Failure /\ Result(s).at = rev
      /\ refreshes[s].kind = "jobs" => Result(s) \in Overviews
      /\ refreshes[s].kind = "runs" => Result(s) \in Histories /\ Result(s).job = refreshes[s].job
  <2>1. jobs \in 0 .. MaxJobs /\ rev \in 0 .. MaxRev
    BY <1>0 DEF MonitorTypeOK
  <2>2. CASE refreshes[s].kind = "jobs"
    <3>1. Result(s) = [rows |-> jobs, at |-> rev]
      BY <2>2 DEF Result
    <3>2. [rows |-> jobs, at |-> rev] # Failure
      <4>1. "rows" \in DOMAIN [rows |-> jobs, at |-> rev] /\ "rows" \notin DOMAIN Failure
        BY DEF Failure
      <4> QED
        BY <4>1
    <3> QED
      BY <2>1, <2>2, <3>1, <3>2 DEF Overviews
  <2>3. CASE refreshes[s].kind = "runs"
    <3>1. Result(s) = [job |-> refreshes[s].job, at |-> rev]
      BY <2>3 DEF Result
    <3>2. [job |-> refreshes[s].job, at |-> rev] # Failure
      <4>1. "at" \in DOMAIN [job |-> refreshes[s].job, at |-> rev] /\ "at" \notin DOMAIN Failure
        BY DEF Failure
      <4> QED
        BY <4>1
    <3> QED
      BY <1>1, <2>1, <2>3, <3>1, <3>2 DEF Histories
  <2> QED
    BY <1>1, <2>2, <2>3 DEF Kinds
<1>3. /\ refreshes' = [refreshes EXCEPT ![s] = [kind |-> refreshes[s].kind, job |-> refreshes[s].job,
                                               reply |-> v]]
      /\ faults' \in 0 .. MaxFaults /\ (v = Failure => faults' > 0) /\ (faults > 0 => faults' > 0)
  BY <1>0, <1>2, MonitorAssumption DEF Query, QueryFails, MInv, MonitorTypeOK
<1>4. \/ v = Failure /\ faults' > 0
      \/ /\ v # Failure /\ v.at = rev
         /\ refreshes[s].kind = "jobs" => v \in Overviews
         /\ refreshes[s].kind = "runs" => v \in Histories /\ v.job = refreshes[s].job
  BY <1>2, <1>3
<1>5. UNCHANGED <<jobs, rev, running, mode, sel, view, tbl, runsView, runsTbl, runsReady, width, err,
                  alone, settled, askedAt>>
  BY DEF Query, QueryFails
<1> HIDE DEF v
<1>6. /\ refreshes' \in [Slots -> Requests \cup Replies \cup {Idle}]
      /\ RefreshesAreFresh'
      /\ \A k \in Kinds : InFlight(k)' = InFlight(k)
  BY <1>0, <1>3, <1>4, <1>5, ReplyInv
<1>7. MonitorTypeOK'
  BY <1>3, <1>5, <1>6 DEF MInv, MonitorTypeOK
<1>8. faults' = 0 => faults = 0
  BY <1>0, <1>3
<1> QED
  BY <1>5, <1>6, <1>7, <1>8, FrameInv

LEMMA TakeErrorInv == ASSUME MInv, NEW s \in Slots, TakeError(s) PROVE MInv'
<1> USE DEF dbVars
<1>1. MonitorTypeOK /\ RefreshesAreFresh
  BY DEF MInv
<1>2. refreshes[s].kind \in Kinds /\ faults > 0
  BY <1>1, SlotCases DEF TakeError, Answered, RefreshesAreFresh
<1>3. /\ refreshes' = [refreshes EXCEPT ![s] = Idle] /\ alone' = [alone EXCEPT ![s] = TRUE]
      /\ err' = TRUE
      /\ UNCHANGED <<jobs, rev, running, mode, sel, view, tbl, runsView, runsTbl, runsReady, width,
                     faults, settled, askedAt>>
  BY DEF TakeError
<1>4. /\ refreshes' \in [Slots -> Requests \cup Replies \cup {Idle}]
      /\ alone' \in [Slots -> BOOLEAN]
      /\ RefreshesAreFresh'
  BY <1>1, <1>2, <1>3, ClearInv
<1>5. MonitorTypeOK'
  BY <1>3, <1>4 DEF MInv, MonitorTypeOK
<1>6. WidgetShapes' /\ TablesMatchViews' /\ HeadingIsTrue'
  BY <1>3 DEF MInv, WidgetShapes, TablesMatchViews, HeadingIsTrue
<1>7. QuietScreenIsCurrent'
  BY <1>2, <1>3 DEF QuietScreenIsCurrent
<1> QED
  BY <1>4, <1>5, <1>6, <1>7 DEF MInv

LEMMA TakeOverviewInv == ASSUME MInv, NEW s \in Slots, TakeOverview(s) PROVE MInv'
<1> USE DEF dbVars
<1>0. PICK v : v = refreshes[s].reply
  OBVIOUS
<1>1. MonitorTypeOK /\ RefreshesAreFresh /\ Answered(s) /\ refreshes[s].kind = "jobs" /\ v # Failure
  BY <1>0 DEF MInv, TakeOverview
<1>2. v \in Overviews
  BY <1>0, <1>1, SlotCases
<1>3. /\ refreshes' = [refreshes EXCEPT ![s] = Idle] /\ alone' = [alone EXCEPT ![s] = TRUE]
      /\ settled' = [settled EXCEPT !["jobs"] = alone[s]]
      /\ view' = v /\ err' = FALSE
      /\ UNCHANGED <<jobs, rev, running, mode, sel, runsView, runsReady, width, faults, askedAt>>
  BY <1>0 DEF TakeOverview, Taken
<1>4. /\ refreshes' \in [Slots -> Requests \cup Replies \cup {Idle}]
      /\ alone' \in [Slots -> BOOLEAN]
      /\ RefreshesAreFresh'
      /\ InFlight("runs")' = InFlight("runs")
  <2>1. /\ refreshes' \in [Slots -> Requests \cup Replies \cup {Idle}]
        /\ alone' \in [Slots -> BOOLEAN]
        /\ RefreshesAreFresh'
        /\ \A k \in Kinds \ {refreshes[s].kind} : InFlight(k)' = InFlight(k)
    BY <1>1, <1>3, ClearInv DEF Kinds
  <2> QED
    BY <1>1, <2>1 DEF Kinds
<1>5. settled' \in [{"jobs", "runs"} -> BOOLEAN] /\ settled'["runs"] = settled["runs"]
      /\ settled'["jobs"] = alone[s]
  BY <1>1, <1>3 DEF MonitorTypeOK
<1>6. MonitorTypeOK'
  BY <1>2, <1>3, <1>4, <1>5 DEF MInv, MonitorTypeOK
<1>7. PICK c : Relayout(width, v, [tbl EXCEPT !.shows = v, !.cursor = c], runsView, runsTbl, runsReady)
  BY <1>0 DEF TakeOverview
<1>8. PICK t : t = [tbl EXCEPT !.shows = v, !.cursor = c]
  OBVIOUS
<1>9. /\ t = [shows |-> v, cols |-> t.cols, cursor |-> t.cursor]
      /\ runsTbl = [shows |-> runsTbl.shows, cols |-> runsTbl.cols]
      /\ runsReady => runsTbl.shows = runsView
      /\ runsReady \in BOOLEAN
  <2>1. tbl = [shows |-> tbl.shows, cols |-> tbl.cols, cursor |-> tbl.cursor]
    BY DEF MInv, WidgetShapes
  <2>2. t = [shows |-> v, cols |-> t.cols, cursor |-> t.cursor]
    BY <1>8, <2>1
  <2> QED
    BY <2>2 DEF MInv, WidgetShapes, TablesMatchViews, MonitorTypeOK
<1>10. /\ WidgetShapes'
       /\ tbl'.shows = v /\ (runsReady => runsTbl'.shows = runsView)
       /\ width # 0 => /\ tbl'.cols = Fitted(NaturalWidths("jobs", v), width)
                       /\ runsReady => runsTbl'.cols = Fitted(NaturalWidths("runs", runsView), width)
  BY <1>7, <1>8, <1>9, RelayoutFits
<1>11. TablesMatchViews'
  BY <1>3, <1>10 DEF TablesMatchViews, NaturalWidths
<1>12. HeadingIsTrue'
  BY <1>3, <1>5 DEF MInv, HeadingIsTrue
<1>13. QuietScreenIsCurrent'
  <2>1. alone[s] => v.at >= askedAt["jobs"]
    BY <1>0, <1>1 DEF RefreshesAreFresh
  <2> QED
    BY <1>3, <1>4, <1>5, <2>1 DEF MInv, QuietScreenIsCurrent
<1> QED
  BY <1>4, <1>6, <1>10, <1>11, <1>12, <1>13 DEF MInv

LEMMA TakeHistoryInv == ASSUME MInv, NEW s \in Slots, TakeHistory(s) PROVE MInv'
<1> USE DEF dbVars
<1>0. PICK v : v = refreshes[s].reply
  OBVIOUS
<1>1. MonitorTypeOK /\ RefreshesAreFresh /\ Answered(s) /\ refreshes[s].kind = "runs" /\ v # Failure
  BY <1>0 DEF MInv, TakeHistory
<1>2. v \in Histories /\ v.job = refreshes[s].job /\ v.job \in JobIds
  BY <1>0, <1>1, SlotCases DEF RefreshesAreFresh, Histories
<1>3. /\ refreshes' = [refreshes EXCEPT ![s] = Idle] /\ alone' = [alone EXCEPT ![s] = TRUE]
      /\ settled' = [settled EXCEPT !["runs"] = alone[s]]
      /\ runsView' = v /\ runsReady' = TRUE /\ mode' = "runs" /\ err' = FALSE
      /\ UNCHANGED <<jobs, rev, running, sel, view, width, faults, askedAt>>
  BY <1>0 DEF TakeHistory, Taken
<1>4. /\ refreshes' \in [Slots -> Requests \cup Replies \cup {Idle}]
      /\ alone' \in [Slots -> BOOLEAN]
      /\ RefreshesAreFresh'
      /\ InFlight("jobs")' = InFlight("jobs")
  <2>1. /\ refreshes' \in [Slots -> Requests \cup Replies \cup {Idle}]
        /\ alone' \in [Slots -> BOOLEAN]
        /\ RefreshesAreFresh'
        /\ \A k \in Kinds \ {refreshes[s].kind} : InFlight(k)' = InFlight(k)
    BY <1>1, <1>3, ClearInv DEF Kinds
  <2> QED
    BY <1>1, <2>1 DEF Kinds
<1>5. settled' \in [{"jobs", "runs"} -> BOOLEAN] /\ settled'["jobs"] = settled["jobs"]
      /\ settled'["runs"] = alone[s]
  BY <1>1, <1>3 DEF MonitorTypeOK
<1>6. MonitorTypeOK'
  BY <1>1, <1>2, <1>3, <1>4, <1>5 DEF MInv, MonitorTypeOK, RefreshesAreFresh
<1>7. PICK ht : ht = [shows |-> v, cols |-> IF runsReady THEN runsTbl.cols
                                            ELSE Provisional(NaturalWidths("runs", v))]
  OBVIOUS
<1>8. Relayout(width, view, tbl, v, ht, TRUE)
  BY <1>0, <1>7 DEF TakeHistory
<1>9. /\ tbl = [shows |-> view, cols |-> tbl.cols, cursor |-> tbl.cursor]
      /\ ht = [shows |-> ht.shows, cols |-> ht.cols] /\ ht.shows = v
  <2>1. tbl = [shows |-> view, cols |-> tbl.cols, cursor |-> tbl.cursor]
    BY DEF MInv, WidgetShapes, TablesMatchViews
  <2> QED
    BY <1>7, <2>1
<1>10. /\ WidgetShapes'
       /\ tbl'.shows = view /\ runsTbl'.shows = v
       /\ width # 0 => /\ tbl'.cols = Fitted(NaturalWidths("jobs", view), width)
                       /\ runsTbl'.cols = Fitted(NaturalWidths("runs", v), width)
  BY <1>8, <1>9, RelayoutFits
<1>11. TablesMatchViews'
  BY <1>3, <1>10 DEF TablesMatchViews, NaturalWidths
<1>12. HeadingIsTrue'
  BY <1>1, <1>2, <1>3, <1>5 DEF HeadingIsTrue, RefreshesAreFresh
<1>13. QuietScreenIsCurrent'
  <2>1. alone[s] => v.at >= askedAt["runs"]
    BY <1>0, <1>1 DEF RefreshesAreFresh
  <2> QED
    BY <1>3, <1>4, <1>5, <2>1 DEF MInv, QuietScreenIsCurrent
<1> QED
  BY <1>4, <1>6, <1>10, <1>11, <1>12, <1>13 DEF MInv

LEMMA MNext == MInv /\ [MonitorNext]_monitorVars => MInv'
<1>1. ASSUME MInv, MonitorNext
      PROVE  MInv'
  BY <1>1, ChangeInv, ResizeInv, KeysInv, F5Inv, EnterInv, QueryInv, TakeErrorInv, TakeOverviewInv,
     TakeHistoryInv DEF MonitorNext, Take
<1>2. ASSUME MInv, UNCHANGED monitorVars
      PROVE  MInv'
  <2> USE DEF monitorVars, dbVars, screenVars, refreshVars, historyVars
  <2>1. MonitorTypeOK'
    BY <1>2 DEF MInv, MonitorTypeOK
  <2>2. RefreshesAreFresh'
    BY <1>2 DEF MInv, RefreshesAreFresh, Answered
  <2>3. \A k \in Kinds : InFlight(k)' = InFlight(k)
    BY <1>2 DEF InFlight
  <2> QED
    BY <1>2, <2>1, <2>2, <2>3, FrameInv
<1> QED
  BY <1>1, <1>2

LEMMA MInvariance == MonitorSpec => []MInv
BY MInit, MNext, PTL DEF MonitorSpec

-----------------------------------------------------------------------------
(* Column widths: fitColumns, its loops unrolled to recursive functions, about   *)
(* which the lemmas argue by a least counterexample.                          *)

\* The principle behind every induction below: what holds for no first number
\* fails for none.
LEMMA LeastNat ==
  ASSUME NEW T, T \subseteq Nat, T # {}
  PROVE  \E m \in T : \A k \in T : m <= k
<1>1. PICK m \in T : \A k \in T : ~(<<k, m>> \in OpToRel(<, Nat))
  BY NatLessThanWellFounded, WFMin
<1>2. ASSUME NEW k \in T PROVE m <= k
  <2>1. ~(k < m)
    BY <1>1 DEF OpToRel
  <2> QED BY <2>1
<1> QED BY <1>2

\* s holds the sums of the first n widths of ws, for n up to N.
Sums(ws, N, s) ==
  /\ s \in [0 .. N -> Int] /\ s[0] = 0
  /\ \A n \in 1 .. N : s[n] = s[n - 1] + ws[n]

\* The partial sums of any widths exist.
LEMMA SumsExist ==
  ASSUME NEW ws \in Seq(Int)
  PROVE  \E s : Sums(ws, Len(ws), s)
<1> DEFINE T == {n \in 0 .. Len(ws) : ~\E s : Sums(ws, n, s)}
<1>0. Len(ws) \in Nat /\ \A i \in 1 .. Len(ws) : ws[i] \in Int
  OBVIOUS
<1>1. ASSUME T # {}
      PROVE  FALSE
  <2>0. T \subseteq Nat
    BY <1>0
  <2>1. PICK m \in T : \A k \in T : m <= k
    <3> HIDE DEF T
    <3> QED
      BY <1>1, <2>0, LeastNat
  <2>2. CASE m = 0
    <3>1. Sums(ws, 0, [n \in 0 .. 0 |-> 0])
      BY DEF Sums
    <3> QED
      BY <2>2, <3>1
  <2>3. CASE m # 0
    <3>0. m \in 1 .. Len(ws) /\ m - 1 \in 0 .. Len(ws) /\ m - 1 \notin T
      BY <1>0, <2>1, <2>3
    <3>1. PICK s : Sums(ws, m - 1, s)
      BY <3>0
    <3> DEFINE t == [n \in 0 .. m |-> IF n = m THEN s[m - 1] + ws[m] ELSE s[n]]
    <3>2. t \in [0 .. m -> Int] /\ t[0] = 0
      BY <1>0, <3>0, <3>1 DEF Sums
    <3>3. ASSUME NEW n \in 1 .. m
          PROVE  t[n] = t[n - 1] + ws[n]
      BY <1>0, <3>0, <3>1 DEF Sums
    <3>4. Sums(ws, m, t)
      BY <3>2, <3>3 DEF Sums
    <3> QED
      BY <3>4
  <2> QED
    BY <2>2, <2>3
<1> QED
  BY <1>0, <1>1

\* What satisfies the recursion of Total is the partial sums.
LEMMA RecursionIsSums ==
  ASSUME NEW N \in Nat, NEW ws, \A i \in 1 .. N : ws[i] \in Int,
         NEW f, f = [n \in 0 .. N |-> IF n = 0 THEN 0 ELSE f[n - 1] + ws[n]]
  PROVE  Sums(ws, N, f)
<1>1. DOMAIN f = 0 .. N /\ f[0] = 0
  OBVIOUS
<1>2. \A n \in 1 .. N : f[n] = f[n - 1] + ws[n]
  OBVIOUS
<1> DEFINE T == {n \in 0 .. N : f[n] \notin Int}
<1>3. ASSUME T # {}
      PROVE  FALSE
  <2>0. T \subseteq Nat
    OBVIOUS
  <2>1. PICK m \in T : \A k \in T : m <= k
    <3> HIDE DEF T
    <3> QED
      BY <1>3, <2>0, LeastNat
  <2>2. m \in 1 .. N /\ m - 1 \in 0 .. N /\ m - 1 \notin T
    BY <1>1, <2>1
  <2> QED
    BY <1>2, <2>1, <2>2
<1> QED
  BY <1>1, <1>2, <1>3 DEF Sums

\* Total is the last of the partial sums.
LEMMA TotalIsSum ==
  ASSUME NEW ws \in Seq(Int)
  PROVE  \E s : Sums(ws, Len(ws), s) /\ Total(ws) = s[Len(ws)]
<1> DEFINE Rec(f) == f = [n \in 0 .. Len(ws) |-> IF n = 0 THEN 0 ELSE f[n - 1] + ws[n]]
           sum == CHOOSE f : Rec(f)
<1>0. Len(ws) \in Nat /\ \A i \in 1 .. Len(ws) : ws[i] \in Int
  OBVIOUS
<1>1. PICK s : Sums(ws, Len(ws), s)
  BY SumsExist
<1>2. Rec(s)
  BY <1>0, <1>1 DEF Sums
<1>3. Rec(sum)
  BY <1>2
<1>4. Total(ws) = sum[Len(ws)]
  BY DEF Total
<1> HIDE DEF sum
<1>5. Sums(ws, Len(ws), sum)
  BY <1>0, <1>3, RecursionIsSums
<1> QED
  BY <1>4, <1>5

\* The total of integers is one.
LEMMA TotalType == ASSUME NEW ws \in Seq(Int) PROVE Total(ws) \in Int
<1>1. PICK s : Sums(ws, Len(ws), s) /\ Total(ws) = s[Len(ws)]
  BY TotalIsSum
<1> QED
  BY <1>1 DEF Sums

\* Changing one width by d changes the total by d.
LEMMA TotalChange ==
  ASSUME NEW ws \in Seq(Int), NEW vs \in Seq(Int), Len(vs) = Len(ws),
         NEW i \in 1 .. Len(ws), NEW d \in Int, vs[i] = ws[i] + d,
         \A k \in 1 .. Len(ws) : k # i => vs[k] = ws[k]
  PROVE  Total(ws) \in Int /\ Total(vs) = Total(ws) + d
<1>0. Len(ws) \in Nat /\ \A k \in 1 .. Len(ws) : ws[k] \in Int /\ vs[k] \in Int
  OBVIOUS
<1>1. PICK s : Sums(ws, Len(ws), s) /\ Total(ws) = s[Len(ws)]
  BY TotalIsSum
<1>2. PICK t : Sums(vs, Len(ws), t) /\ Total(vs) = t[Len(ws)]
  BY TotalIsSum
<1> DEFINE T == {n \in 0 .. Len(ws) : t[n] # IF n < i THEN s[n] ELSE s[n] + d}
<1>3. ASSUME T # {}
      PROVE  FALSE
  <2>0. T \subseteq Nat
    BY <1>0
  <2>1. PICK m \in T : \A k \in T : m <= k
    <3> HIDE DEF T
    <3> QED
      BY <1>3, <2>0, LeastNat
  <2>2. m \in 1 .. Len(ws) /\ m - 1 \in 0 .. Len(ws) /\ m - 1 \notin T
    BY <1>0, <1>1, <1>2, <2>1 DEF Sums
  <2>3. /\ t[m - 1] = IF m - 1 < i THEN s[m - 1] ELSE s[m - 1] + d
        /\ t[m] = t[m - 1] + vs[m] /\ s[m] = s[m - 1] + ws[m]
        /\ s[m - 1] \in Int
    BY <1>1, <1>2, <2>2 DEF Sums
  <2>4. t[m] = IF m < i THEN s[m] ELSE s[m] + d
    <3>1. vs[m] = ws[m] \/ m = i
      BY <2>2
    <3>2. m \in Int /\ i \in Int /\ ws[m] \in Int /\ ws[i] \in Int
      BY <1>0, <2>2
    <3>3. CASE m < i
      BY <2>3, <3>1, <3>2, <3>3
    <3>4. CASE m = i
      BY <2>3, <3>2, <3>4
    <3>5. CASE m > i
      BY <2>3, <3>1, <3>2, <3>5
    <3> QED
      BY <3>2, <3>3, <3>4, <3>5
  <2> QED
    BY <2>1, <2>4
<1>4. Len(ws) \in 0 .. Len(ws) /\ Len(ws) \notin T /\ ~(Len(ws) < i)
  BY <1>0, <1>3
<1>5. t[Len(ws)] = s[Len(ws)] + d /\ s[Len(ws)] \in Int
  BY <1>1, <1>4 DEF Sums
<1> QED
  BY <1>1, <1>2, <1>5

\* Narrower columns have the smaller total.
LEMMA TotalMonotone ==
  ASSUME NEW ws \in Seq(Int), NEW vs \in Seq(Int), Len(vs) = Len(ws),
         \A k \in 1 .. Len(ws) : ws[k] <= vs[k]
  PROVE  Total(ws) \in Int /\ Total(vs) \in Int /\ Total(ws) <= Total(vs)
<1>0. Len(ws) \in Nat /\ \A k \in 1 .. Len(ws) : ws[k] \in Int /\ vs[k] \in Int
  OBVIOUS
<1>1. PICK s : Sums(ws, Len(ws), s) /\ Total(ws) = s[Len(ws)]
  BY TotalIsSum
<1>2. PICK t : Sums(vs, Len(ws), t) /\ Total(vs) = t[Len(ws)]
  BY TotalIsSum
<1> DEFINE T == {n \in 0 .. Len(ws) : ~(s[n] <= t[n])}
<1>3. ASSUME T # {}
      PROVE  FALSE
  <2>0. T \subseteq Nat
    BY <1>0
  <2>1. PICK m \in T : \A k \in T : m <= k
    <3> HIDE DEF T
    <3> QED
      BY <1>3, <2>0, LeastNat
  <2>2. m \in 1 .. Len(ws) /\ m - 1 \in 0 .. Len(ws) /\ m - 1 \notin T
    BY <1>0, <1>1, <1>2, <2>1 DEF Sums
  <2>3. /\ s[m - 1] <= t[m - 1] /\ s[m - 1] \in Int /\ t[m - 1] \in Int
        /\ t[m] = t[m - 1] + vs[m] /\ s[m] = s[m - 1] + ws[m]
    BY <1>1, <1>2, <2>2 DEF Sums
  <2> QED
    BY <1>0, <2>1, <2>2, <2>3
<1> QED
  BY <1>0, <1>1, <1>2, <1>3 DEF Sums

\* Column i is the first of the widest among the first n.
FirstWidest(ws, i, n) ==
  i \in 1 .. n /\ \A k \in 1 .. n : ws[k] < ws[i] \/ (ws[k] = ws[i] /\ i <= k)

\* The loop that looks for the widest column finds one.
LEMMA WidestExists ==
  ASSUME NEW ws \in Seq(Nat), Len(ws) # 0
  PROVE  \E i : FirstWidest(ws, i, Len(ws))
<1> DEFINE T == {n \in 1 .. Len(ws) : ~\E i : FirstWidest(ws, i, n)}
<1>0. Len(ws) \in Nat /\ \A k \in 1 .. Len(ws) : ws[k] \in Nat
  OBVIOUS
<1>1. ASSUME T # {}
      PROVE  FALSE
  <2>0. T \subseteq Nat
    BY <1>0
  <2>1. PICK m \in T : \A k \in T : m <= k
    <3> HIDE DEF T
    <3> QED
      BY <1>1, <2>0, LeastNat
  <2>2. m \in 1 .. Len(ws) /\ ws[m] \in Nat /\ m \in Nat
    BY <1>0, <2>1
  <2>3. m # 1
    <3>1. FirstWidest(ws, 1, 1)
      BY <1>0 DEF FirstWidest
    <3> QED
      BY <2>1, <3>1
  <2>4. m - 1 \in 1 .. Len(ws) /\ m - 1 \notin T
    <3>1. m - 1 \in 1 .. Len(ws)
      BY <1>0, <2>2, <2>3
    <3>2. ~(m <= m - 1)
      BY <2>2
    <3> HIDE DEF T
    <3> QED
      BY <2>1, <3>1, <3>2
  <2>5. PICK i : FirstWidest(ws, i, m - 1)
    BY <2>4
  <2>6. i \in 1 .. m - 1 /\ ws[i] \in Nat
    BY <1>0, <2>2, <2>5 DEF FirstWidest
  <2>7. \A k \in 1 .. m - 1 : ws[k] \in Nat /\ (ws[k] < ws[i] \/ (ws[k] = ws[i] /\ i <= k))
    BY <1>0, <2>2, <2>5 DEF FirstWidest
  <2>8. \A k \in 1 .. m : k \in 1 .. m - 1 \/ k = m
    BY <2>2
  <2>9. CASE ws[m] > ws[i]
    <3>1. \A k \in 1 .. m : ws[k] < ws[m] \/ (ws[k] = ws[m] /\ m <= k)
      <4> TAKE k \in 1 .. m
      <4>1. CASE k = m
        BY <2>2, <4>1
      <4>2. CASE k # m
        BY <2>2, <2>6, <2>7, <2>8, <2>9, <4>2
      <4> QED
        BY <4>1, <4>2
    <3>2. FirstWidest(ws, m, m)
      BY <2>2, <3>1 DEF FirstWidest
    <3> QED
      BY <2>1, <3>2
  <2>10. CASE ws[m] <= ws[i]
    <3>1. \A k \in 1 .. m : ws[k] < ws[i] \/ (ws[k] = ws[i] /\ i <= k)
      <4> TAKE k \in 1 .. m
      <4>1. CASE k = m
        BY <2>2, <2>6, <2>10, <4>1
      <4>2. CASE k # m
        BY <2>7, <2>8, <4>2
      <4> QED
        BY <4>1, <4>2
    <3>2. FirstWidest(ws, i, m)
      BY <2>2, <2>6, <3>1 DEF FirstWidest
    <3> QED
      BY <2>1, <3>2
  <2> QED
    BY <2>2, <2>6, <2>9, <2>10
<1> QED
  BY <1>0, <1>1

\* Narrow takes one from a widest column, or finds every one at the minimum.
LEMMA NarrowStep ==
  ASSUME NEW ws \in Seq(Nat)
  PROVE  \/ /\ Widest(ws) = {} /\ Narrow(ws) = ws
            /\ \A k \in 1 .. Len(ws) : ws[k] <= MinColWidth
         \/ \E i \in 1 .. Len(ws) :
              /\ ws[i] > MinColWidth /\ \A k \in 1 .. Len(ws) : ws[k] <= ws[i]
              /\ Narrow(ws) = [ws EXCEPT ![i] = ws[i] - 1]
<1>0. Len(ws) \in Nat /\ DOMAIN ws = 1 .. Len(ws) /\ \A k \in 1 .. Len(ws) : ws[k] \in Nat
  OBVIOUS
<1>1. CASE Widest(ws) = {}
  <2>1. Narrow(ws) = ws
    BY <1>0, <1>1 DEF Narrow
  <2>2. ASSUME NEW k \in 1 .. Len(ws), ~(ws[k] <= MinColWidth)
        PROVE  FALSE
    <3>0. Len(ws) # 0
      BY <1>0, <2>2
    <3>1. PICK i : FirstWidest(ws, i, Len(ws))
      BY <3>0, WidestExists
    <3>2. ws[i] > MinColWidth
      BY <1>0, <2>2, <3>1 DEF MinColWidth, FirstWidest
    <3> QED
      BY <1>0, <1>1, <3>1, <3>2 DEF Widest, FirstWidest
  <2> QED
    BY <1>1, <2>1, <2>2
<1>2. CASE Widest(ws) # {}
  <2>1. PICK i \in Widest(ws) : TRUE
    BY <1>2
  <2>2. /\ i \in 1 .. Len(ws) /\ ws[i] > MinColWidth
        /\ \A k \in 1 .. Len(ws) : ws[k] < ws[i] \/ (ws[k] = ws[i] /\ i <= k)
    BY <1>0, <2>1 DEF Widest
  <2>3. \A k \in Widest(ws) : k = i
    <3> TAKE k \in Widest(ws)
    <3>1. /\ k \in 1 .. Len(ws)
          /\ ws[i] < ws[k] \/ (ws[i] = ws[k] /\ k <= i)
      BY <1>0, <2>2 DEF Widest
    <3> QED
      BY <1>0, <2>2, <3>1
  <2>4. Narrow(ws) = [ws EXCEPT ![i] = ws[i] - 1]
    BY <1>0, <2>1, <2>2, <2>3 DEF Narrow
  <2>5. \A k \in 1 .. Len(ws) : ws[k] <= ws[i]
    BY <1>0, <2>2
  <2> QED
    BY <2>2, <2>4, <2>5
<1> QED
  BY <1>1, <1>2

\* f holds the widths after 0 .. N characters were taken from those in nat.
Steps(nat, N, f) ==
  /\ f \in [0 .. N -> Seq(Nat)] /\ f[0] = nat
  /\ \A n \in 1 .. N : f[n] = Narrow(f[n - 1])

\* Narrow keeps the number of columns.
LEMMA NarrowType ==
  ASSUME NEW ws \in Seq(Nat)
  PROVE  Narrow(ws) \in Seq(Nat) /\ Len(Narrow(ws)) = Len(ws)
<1>0. Len(ws) \in Nat /\ \A k \in 1 .. Len(ws) : ws[k] \in Nat
  OBVIOUS
<1>1. CASE Narrow(ws) = ws
  BY <1>1
<1>2. ASSUME NEW i \in 1 .. Len(ws), ws[i] > MinColWidth, Narrow(ws) = [ws EXCEPT ![i] = ws[i] - 1]
      PROVE  Narrow(ws) \in Seq(Nat) /\ Len(Narrow(ws)) = Len(ws)
  <2>1. ws[i] - 1 \in Nat
    BY <1>0, <1>2 DEF MinColWidth
  <2> QED
    BY <1>0, <1>2, <2>1
<1> QED
  BY <1>1, <1>2, NarrowStep

\* The loop of fitColumns has a result for any number of steps.
LEMMA StepsExist ==
  ASSUME NEW nat \in Seq(Nat), NEW N \in Nat
  PROVE  \E f : Steps(nat, N, f)
<1> DEFINE T == {n \in Nat : ~\E f : Steps(nat, n, f)}
<1>1. ASSUME T # {}
      PROVE  FALSE
  <2>0. T \subseteq Nat
    OBVIOUS
  <2>1. PICK m \in T : \A k \in T : m <= k
    <3> HIDE DEF T
    <3> QED
      BY <1>1, <2>0, LeastNat
  <2>2. m # 0
    <3>1. Steps(nat, 0, [n \in 0 .. 0 |-> nat])
      BY DEF Steps
    <3> QED
      BY <2>1, <3>1
  <2>3. m - 1 \in Nat /\ m - 1 \notin T
    <3>1. m - 1 \in Nat /\ ~(m <= m - 1)
      BY <2>1, <2>2
    <3> HIDE DEF T
    <3> QED
      BY <2>1, <3>1
  <2>4. PICK f : Steps(nat, m - 1, f)
    BY <2>3
  <2>5. f[m - 1] \in Seq(Nat) /\ Narrow(f[m - 1]) \in Seq(Nat)
    BY <2>3, <2>4, NarrowType DEF Steps
  <2> DEFINE g == [n \in 0 .. m |-> IF n = m THEN Narrow(f[m - 1]) ELSE f[n]]
  <2>6. g \in [0 .. m -> Seq(Nat)] /\ g[0] = nat
    BY <2>1, <2>3, <2>4, <2>5 DEF Steps
  <2>7. ASSUME NEW n \in 1 .. m
        PROVE  g[n] = Narrow(g[n - 1])
    <3>1. CASE n = m
      BY <2>3, <3>1
    <3>2. CASE n # m
      BY <2>3, <2>4, <3>2 DEF Steps
    <3> QED
      BY <3>1, <3>2
  <2>8. Steps(nat, m, g)
    BY <2>6, <2>7 DEF Steps
  <2> QED
    BY <2>1, <2>8
<1> QED
  BY <1>1

\* What satisfies the recursion of Shrunk is the loop.
LEMMA RecursionIsSteps ==
  ASSUME NEW nat \in Seq(Nat), NEW N \in Nat,
         NEW f, f = [k \in 0 .. N |-> IF k = 0 THEN nat
                                      ELSE CHOOSE ws \in {Narrow(prev) : prev \in {f[k - 1]}} : TRUE]
  PROVE  Steps(nat, N, f)
<1>1. DOMAIN f = 0 .. N /\ f[0] = nat
  OBVIOUS
<1>2. ASSUME NEW n \in 1 .. N
      PROVE  f[n] = Narrow(f[n - 1])
  <2>1. f[n] = CHOOSE ws \in {Narrow(prev) : prev \in {f[n - 1]}} : TRUE
    OBVIOUS
  <2>2. {Narrow(prev) : prev \in {f[n - 1]}} = {Narrow(f[n - 1])}
    OBVIOUS
  <2> QED
    BY <2>1, <2>2
<1> DEFINE T == {n \in 0 .. N : f[n] \notin Seq(Nat)}
<1>3. ASSUME T # {}
      PROVE  FALSE
  <2>0. T \subseteq Nat
    OBVIOUS
  <2>1. PICK m \in T : \A k \in T : m <= k
    <3> HIDE DEF T
    <3> QED
      BY <1>3, <2>0, LeastNat
  <2>2. m \in 1 .. N /\ m - 1 \in 0 .. N
    BY <1>1, <2>1
  <2>3. m - 1 \notin T
    <3>1. ~(m <= m - 1)
      BY <2>2
    <3> HIDE DEF T
    <3> QED
      BY <2>1, <3>1
  <2> QED
    BY <1>2, <2>1, <2>2, <2>3, NarrowType
<1>4. f \in [0 .. N -> Seq(Nat)]
  <2>1. \A n \in 0 .. N : f[n] \in Seq(Nat)
    BY <1>3
  <2>2. f = [n \in 0 .. N |-> f[n]]
    BY <1>1
  <2> QED
    BY <2>1, <2>2
<1> QED
  BY <1>1, <1>2, <1>4 DEF Steps

\* Shrunk is the last step of the loop.
LEMMA ShrunkIsStep ==
  ASSUME NEW nat \in Seq(Nat), NEW N \in Nat
  PROVE  \E f : Steps(nat, N, f) /\ Shrunk(nat, N) = f[N]
<1> DEFINE Rec(f) == f = [k \in 0 .. N |-> IF k = 0 THEN nat
                                           ELSE CHOOSE ws \in {Narrow(prev) : prev \in {f[k - 1]}} : TRUE]
           shrunk == CHOOSE f : Rec(f)
<1>1. PICK f : Steps(nat, N, f)
  BY StepsExist
<1>2. Rec(f)
  <2>1. f = [k \in 0 .. N |-> f[k]]
    BY <1>1 DEF Steps
  <2>2. \A k \in 0 .. N : f[k] = IF k = 0 THEN nat
                                 ELSE CHOOSE ws \in {Narrow(prev) : prev \in {f[k - 1]}} : TRUE
    <3> TAKE k \in 0 .. N
    <3>1. CASE k = 0
      BY <1>1, <3>1 DEF Steps
    <3>2. CASE k # 0
      <4>1. f[k] = Narrow(f[k - 1])
        BY <1>1, <3>2 DEF Steps
      <4>2. {Narrow(prev) : prev \in {f[k - 1]}} = {Narrow(f[k - 1])}
        OBVIOUS
      <4> QED
        BY <3>2, <4>1, <4>2
    <3> QED
      BY <3>1, <3>2
  <2> QED
    BY <2>1, <2>2
<1>3. Rec(shrunk)
  BY <1>2
<1>4. Shrunk(nat, N) = shrunk[N]
  BY DEF Shrunk
<1> HIDE DEF shrunk
<1>5. Steps(nat, N, shrunk)
  BY <1>3, RecursionIsSteps
<1> QED
  BY <1>4, <1>5

\* No column is cut below its floor, nor below one that is more than a character
\* wider than it.
CutEvenly(nat, ws) ==
  /\ ws \in Seq(Nat) /\ Len(ws) = Len(nat)
  /\ \A i \in 1 .. Len(nat) : AtMost(nat[i], MinColWidth) <= ws[i] /\ ws[i] <= nat[i]
  /\ \A i, k \in 1 .. Len(nat) : ws[i] < nat[i] => ws[k] <= ws[i] + 1

\* The n-th step took a character, or found every column at the minimum.
TookOrStuck(nat, ws, n) ==
  \/ Total(ws) = Total(nat) - n
  \/ Total(ws) >= Total(nat) - n /\ \A k \in 1 .. Len(nat) : ws[k] <= MinColWidth

\* The loop invariant of fitColumns, first half: the widest give up first.
LEMMA NarrowCutsEvenly ==
  ASSUME NEW nat \in Seq(Nat), NEW ws, CutEvenly(nat, ws)
  PROVE  CutEvenly(nat, Narrow(ws))
<1>0. /\ Len(nat) \in Nat /\ \A k \in 1 .. Len(nat) : nat[k] \in Nat /\ ws[k] \in Nat
      /\ ws \in Seq(Nat) /\ Len(ws) = Len(nat)
  BY DEF CutEvenly
<1>1. CASE Narrow(ws) = ws
  BY <1>1
<1>2. ASSUME NEW j \in 1 .. Len(nat), ws[j] > MinColWidth, \A k \in 1 .. Len(nat) : ws[k] <= ws[j],
             Narrow(ws) = [ws EXCEPT ![j] = ws[j] - 1]
      PROVE  CutEvenly(nat, Narrow(ws))
  <2> DEFINE vs == Narrow(ws)
  <2>1. vs \in Seq(Nat) /\ Len(vs) = Len(nat) /\ \A k \in 1 .. Len(nat) : vs[k] \in Nat
    <3>1. vs \in Seq(Nat) /\ Len(vs) = Len(nat)
      BY <1>0, NarrowType
    <3> HIDE DEF vs
    <3> QED
      BY <3>1
  <2>2. /\ vs[j] = ws[j] - 1
        /\ \A k \in 1 .. Len(nat) : k # j => vs[k] = ws[k]
    BY <1>0, <1>2
  <2>3. \A k \in 1 .. Len(nat) : vs[k] <= ws[k]
    BY <1>0, <2>2
  <2> HIDE DEF vs
  <2>4. ASSUME NEW i \in 1 .. Len(nat)
        PROVE  AtMost(nat[i], MinColWidth) <= vs[i] /\ vs[i] <= nat[i]
    <3>1. AtMost(nat[i], MinColWidth) <= ws[i] /\ ws[i] <= nat[i]
      BY DEF CutEvenly
    <3>2. CASE i = j
      BY <1>0, <1>2, <2>2, <3>1, <3>2 DEF AtMost, MinColWidth
    <3>3. CASE i # j
      BY <2>2, <3>1, <3>3
    <3> QED
      BY <3>2, <3>3
  <2>5. ASSUME NEW i \in 1 .. Len(nat), NEW k \in 1 .. Len(nat), vs[i] < nat[i]
        PROVE  vs[k] <= vs[i] + 1
    <3>1. vs[k] \in Nat /\ vs[i] \in Nat /\ vs[k] <= ws[k]
      BY <1>0, <2>1, <2>3
    <3>2. ws[k] \in Nat /\ ws[i] \in Nat /\ ws[j] \in Nat /\ ws[k] <= ws[j] /\ vs[j] = ws[j] - 1
      BY <1>0, <1>2, <2>2
    <3>3. CASE i = j
      <4>1. vs[i] = ws[j] - 1
        BY <3>2, <3>3
      <4> QED
        BY <3>1, <3>2, <4>1
    <3>4. CASE i # j
      <4>1. ws[k] <= ws[i] + 1
        BY <2>2, <2>5, <3>4 DEF CutEvenly
      <4>2. vs[i] = ws[i]
        BY <2>2, <3>4
      <4> QED
        BY <3>1, <3>2, <4>1, <4>2
    <3> QED
      BY <3>3, <3>4
  <2>6. CutEvenly(nat, vs)
    BY <2>1, <2>4, <2>5 DEF CutEvenly
  <2> QED
    BY <2>6 DEF vs
<1> QED
  BY <1>0, <1>1, <1>2, NarrowStep

\* The second half: a step takes one character, if a column has one to give.
LEMMA NarrowTakesOne ==
  ASSUME NEW nat \in Seq(Nat), NEW ws, CutEvenly(nat, ws), NEW n \in Nat, TookOrStuck(nat, ws, n)
  PROVE  TookOrStuck(nat, Narrow(ws), n + 1)
<1>0. /\ nat \in Seq(Int) /\ ws \in Seq(Nat) /\ ws \in Seq(Int) /\ Len(ws) = Len(nat) /\ Len(nat) \in Nat
      /\ \A k \in 1 .. Len(nat) : ws[k] \in Nat
  BY DEF CutEvenly
<1>1. Total(nat) \in Int /\ Total(ws) \in Int
  BY <1>0, TotalType
<1>2. CASE Narrow(ws) = ws /\ \A k \in 1 .. Len(ws) : ws[k] <= MinColWidth
  BY <1>0, <1>1, <1>2 DEF TookOrStuck
<1>3. ASSUME NEW j \in 1 .. Len(ws), ws[j] > MinColWidth, Narrow(ws) = [ws EXCEPT ![j] = ws[j] - 1]
      PROVE  TookOrStuck(nat, Narrow(ws), n + 1)
  <2>1. Total(ws) = Total(nat) - n
    BY <1>0, <1>3 DEF TookOrStuck, MinColWidth
  <2>2. Narrow(ws) \in Seq(Int) /\ Len(Narrow(ws)) = Len(ws)
    BY <1>0, NarrowType
  <2>3. /\ Narrow(ws)[j] = ws[j] + (-1)
        /\ \A k \in 1 .. Len(ws) : k # j => Narrow(ws)[k] = ws[k]
    BY <1>0, <1>3
  <2>4. Total(Narrow(ws)) = Total(ws) + (-1)
    BY <1>0, <2>2, <2>3, TotalChange
  <2> QED
    BY <1>1, <2>1, <2>4 DEF TookOrStuck
<1> QED
  BY <1>0, <1>2, <1>3, NarrowStep

\* The loop invariant holds after any number of steps.
LEMMA ShrunkIsCut ==
  ASSUME NEW nat \in Seq(Nat), NEW N \in Nat
  PROVE  CutEvenly(nat, Shrunk(nat, N)) /\ TookOrStuck(nat, Shrunk(nat, N), N)
<1>0. Len(nat) \in Nat /\ nat \in Seq(Int) /\ \A k \in 1 .. Len(nat) : nat[k] \in Nat
  OBVIOUS
<1>1. PICK f : Steps(nat, N, f) /\ Shrunk(nat, N) = f[N]
  BY ShrunkIsStep
<1> DEFINE Good(n) == CutEvenly(nat, f[n]) /\ TookOrStuck(nat, f[n], n)
           T == {n \in 0 .. N : ~Good(n)}
<1>2. Good(0)
  <2>1. CutEvenly(nat, nat)
    BY <1>0 DEF CutEvenly, AtMost, MinColWidth
  <2>2. TookOrStuck(nat, nat, 0)
    BY <1>0, TotalType DEF TookOrStuck
  <2> QED
    BY <1>1, <2>1, <2>2 DEF Steps
<1>3. ASSUME T # {}
      PROVE  FALSE
  <2>0. T \subseteq Nat
    OBVIOUS
  <2>1. PICK m \in T : \A k \in T : m <= k
    <3> HIDE DEF T
    <3> QED
      BY <1>3, <2>0, LeastNat
  <2>2. m # 0 /\ m \in 0 .. N
    <3> HIDE DEF Good
    <3> QED
      BY <1>2, <2>1
  <2>3. m \in 1 .. N /\ m - 1 \in 0 .. N /\ m - 1 \in Nat /\ (m - 1) + 1 = m
    BY <2>2
  <2>4. m - 1 \notin T
    <3>1. ~(m <= m - 1)
      BY <2>3
    <3> HIDE DEF T
    <3> QED
      BY <2>1, <3>1
  <2>5. CutEvenly(nat, f[m - 1]) /\ TookOrStuck(nat, f[m - 1], m - 1)
    BY <2>3, <2>4
  <2>6. f[m] = Narrow(f[m - 1])
    BY <1>1, <2>3 DEF Steps
  <2>7. CutEvenly(nat, f[m])
    BY <2>5, <2>6, NarrowCutsEvenly
  <2>8. TookOrStuck(nat, f[m], m)
    <3>1. TookOrStuck(nat, Narrow(f[m - 1]), (m - 1) + 1)
      BY <2>3, <2>5, NarrowTakesOne
    <3> QED
      BY <2>3, <2>6, <3>1
  <2> QED
    BY <2>1, <2>7, <2>8
<1>4. Good(N)
  <2> HIDE DEF Good
  <2> QED
    BY <1>3
<1> QED
  BY <1>1, <1>4

\* What fitColumns makes of any natural widths, in any terminal.
LEMMA FitColumnsFits ==
  ASSUME NEW nat \in Seq(Nat), Len(nat) >= 2, NEW term \in Nat
  PROVE  FitsWell(FitColumns(nat, term), nat, term)
<1> DEFINE N == Len(nat)
           budget == term - CellPadding * N
           total == Total(nat)
           fit == FitColumns(nat, term)
           floor == [i \in 1 .. N |-> AtMost(nat[i], MinColWidth)]
<1>0. /\ N \in Nat /\ DOMAIN nat = 1 .. N /\ nat \in Seq(Int) /\ \A i \in 1 .. N : nat[i] \in Nat
      /\ total \in Int /\ budget \in Int /\ StretchColumn \in 1 .. N
  <2>1. N \in Nat /\ DOMAIN nat = 1 .. N /\ nat \in Seq(Int) /\ \A i \in 1 .. N : nat[i] \in Nat
    OBVIOUS
  <2>2. budget \in Int /\ StretchColumn \in 1 .. N
    BY <2>1 DEF CellPadding, StretchColumn
  <2> QED
    BY <2>1, <2>2, TotalType
<1>1. fit = IF budget > total
              THEN [nat EXCEPT ![StretchColumn] = @ + budget - total]
              ELSE Shrunk(nat, AtLeast(total - budget, 0))
  BY <1>0 DEF FitColumns
<1>2. /\ floor \in Seq(Int) /\ Len(floor) = N
      /\ \A i \in 1 .. N : floor[i] = AtMost(nat[i], MinColWidth) /\ floor[i] \in Int
  <2>1. \A i \in 1 .. N : AtMost(nat[i], MinColWidth) \in Int
    BY <1>0 DEF AtMost, MinColWidth
  <2> QED
    BY <1>0, <2>1
<1>3. SUFFICES IF total <= budget
          THEN /\ Total(fit) = budget
               /\ \A i \in 1 .. N \ {StretchColumn} : fit[i] = nat[i]
          ELSE /\ Total(fit) = AtLeast(budget, Total(floor))
               /\ \A i \in 1 .. N : floor[i] <= fit[i] /\ fit[i] <= nat[i]
               /\ \A i, k \in 1 .. N : fit[i] < nat[i] => fit[k] <= fit[i] + 1
  BY <1>0 DEF FitsWell
<1>4. CASE budget > total
  <2>1. fit = [nat EXCEPT ![StretchColumn] = @ + budget - total]
    BY <1>1, <1>4
  <2>2. nat[StretchColumn] + budget - total \in Int /\ budget - total \in Int
    BY <1>0
  <2>3. /\ fit \in Seq(Int) /\ Len(fit) = N
        /\ fit[StretchColumn] = nat[StretchColumn] + (budget - total)
        /\ \A i \in 1 .. N : i # StretchColumn => fit[i] = nat[i]
    BY <1>0, <2>1, <2>2
  <2> HIDE DEF fit
  <2>4. Total(fit) = total + (budget - total)
    BY <1>0, <2>2, <2>3, TotalChange
  <2> QED
    BY <1>0, <1>4, <2>3, <2>4
<1>5. CASE budget <= total
  <2>1. PICK K \in Nat : K = total - budget
    BY <1>0, <1>5
  <2>2. fit = Shrunk(nat, K)
    BY <1>0, <1>1, <1>5, <2>1 DEF AtLeast
  <2>3. CutEvenly(nat, fit) /\ TookOrStuck(nat, fit, K)
    BY <2>1, <2>2, ShrunkIsCut
  <2> HIDE DEF fit
  <2>4. /\ fit \in Seq(Int) /\ Len(fit) = N /\ \A i \in 1 .. N : fit[i] \in Nat
        /\ \A i \in 1 .. N : floor[i] <= fit[i] /\ fit[i] <= nat[i]
        /\ \A i, k \in 1 .. N : fit[i] < nat[i] => fit[k] <= fit[i] + 1
    <3>1. fit \in Seq(Nat) /\ Len(fit) = N
      BY <2>3 DEF CutEvenly
    <3> QED
      BY <1>2, <2>3, <3>1 DEF CutEvenly
  <2>5. Total(fit) \in Int /\ Total(floor) \in Int /\ Total(floor) <= Total(fit)
    <3> HIDE DEF floor
    <3> QED
      BY <1>2, <2>4, TotalMonotone
  <2>6. Total(fit) = AtLeast(budget, Total(floor))
    <3>1. CASE Total(fit) = total - K
      BY <1>0, <2>1, <2>5, <3>1 DEF AtLeast
    <3>2. CASE Total(fit) >= total - K /\ \A k \in 1 .. N : fit[k] <= MinColWidth
      <4>1. \A i \in 1 .. N : fit[i] = floor[i]
        <5> TAKE i \in 1 .. N
        <5>1. /\ floor[i] = AtMost(nat[i], MinColWidth) /\ floor[i] <= fit[i] /\ fit[i] <= nat[i]
              /\ fit[i] <= MinColWidth /\ fit[i] \in Nat /\ nat[i] \in Nat
          BY <1>0, <1>2, <2>4, <3>2
        <5> QED
          BY <5>1 DEF AtMost, MinColWidth
      <4>2. fit = floor
        <5>1. fit = [i \in 1 .. N |-> fit[i]]
          BY <1>0, <2>4
        <5> QED
          BY <1>2, <4>1, <5>1
      <4> QED
        BY <1>0, <2>1, <2>5, <3>2, <4>2 DEF AtLeast
    <3> QED
      BY <2>3, <3>1, <3>2 DEF TookOrStuck
  <2>7. CASE budget = total
    <3>1. fit = nat
      <4>0. K = 0
        BY <1>0, <2>1, <2>7
      <4>1. PICK f : Steps(nat, 0, f) /\ Shrunk(nat, 0) = f[0]
        BY ShrunkIsStep
      <4> QED
        BY <2>2, <4>0, <4>1 DEF Steps
    <3> QED
      BY <1>0, <2>7, <3>1
  <2>8. CASE budget # total
    BY <1>0, <1>5, <2>4, <2>6, <2>8
  <2> QED
    BY <2>7, <2>8
<1>6. budget > total \/ budget <= total
  BY <1>0
<1> QED
  BY <1>4, <1>5, <1>6

\* Every layout that is asked for is one that fitColumns computes.
LEMMA FittedFits ==
  ASSUME NEW kind \in Kinds, NEW v, v.at \in 0 .. MaxRev, NEW w \in Terminals
  PROVE  FitsWell(Fitted(NaturalWidths(kind, v), w), NaturalWidths(kind, v), w)
<1> DEFINE nat == NaturalWidths(kind, v)
<1>1. nat = Content[kind][v.at]
  BY DEF NaturalWidths
<1>2. nat \in Seq(Nat) /\ Len(nat) >= 2 /\ w \in Nat
  BY <1>1, MonitorAssumption DEF Kinds
<1>3. nat \in Measures
  BY <1>1 DEF Measures, Kinds
<1> HIDE DEF nat
<1>4. Fitted(nat, w) = FitColumns(nat, w)
  BY <1>3 DEF Fitted, Layouts
<1>5. FitsWell(FitColumns(nat, w), nat, w)
  BY <1>2, FitColumnsFits
<1> QED
  BY <1>4, <1>5 DEF nat

LEMMA InvFits == MInv => FitIsSound
<1> SUFFICES ASSUME MInv, width # 0
             PROVE  /\ FitsWell(tbl.cols, NaturalWidths("jobs", view), width)
                    /\ runsReady => FitsWell(runsTbl.cols, NaturalWidths("runs", runsView), width)
  BY DEF FitIsSound
<1>1. width \in Terminals /\ view.at \in 0 .. MaxRev /\ (runsReady => runsView.at \in 0 .. MaxRev)
  BY DEF MInv, MonitorTypeOK, Overviews, Histories
<1>2. FitsWell(tbl.cols, NaturalWidths("jobs", view), width)
  BY <1>1, FittedFits DEF MInv, TablesMatchViews, Kinds
<1>3. runsReady => FitsWell(runsTbl.cols, NaturalWidths("runs", runsView), width)
  BY <1>1, FittedFits DEF MInv, TablesMatchViews, Kinds
<1> QED
  BY <1>2, <1>3

-----------------------------------------------------------------------------
(* The theorems *)

\* The types of the monitor's state, whatever the order of keys and replies.
THEOREM MonitorTypes == MonitorSpec => []MonitorTypeOK
<1>1. MInv => MonitorTypeOK
  BY DEF MInv
<1> QED
  BY <1>1, MInvariance, PTL

\* Both widgets always show the rows of their views, fitted to the terminal.
THEOREM TablesAreInStep == MonitorSpec => []TablesMatchViews
<1>1. MInv => TablesMatchViews
  BY DEF MInv
<1> QED
  BY <1>1, MInvariance, PTL

\* The heading names the job whose runs are listed, unless histories overlapped.
THEOREM HeadingsAreTrue == MonitorSpec => []HeadingIsTrue
<1>1. MInv => HeadingIsTrue
  BY DEF MInv
<1> QED
  BY <1>1, MInvariance, PTL

\* With no reply outstanding a screen is as new as the last key that asked for it.
THEOREM QuietScreensAreCurrent == MonitorSpec => []QuietScreenIsCurrent
<1>1. MInv => QuietScreenIsCurrent
  BY DEF MInv
<1> QED
  BY <1>1, MInvariance, PTL

\* Every layout on either screen, whatever the widths of the cells and of the
\* terminal, fills the terminal or is cut as little and as evenly as it can be.
THEOREM FitsAreSound == MonitorSpec => []FitIsSound
BY InvFits, MInvariance, PTL

-----------------------------------------------------------------------------
(* The highlighted job *)

\* monitor.go:226: a reply replaces the rows under the cursor.  The job that is
\* highlighted, and that enter would open, is another one only after an arrow
\* key, or after a reply with fewer rows than were shown.
HighlightMovesByKeys ==
  [][Highlighted # NoJob /\ Highlighted' # Highlighted =>
       MoveCursor \/ tbl'.shows.rows < tbl.shows.rows]_monitorVars

LEMMA RelayoutKeeps ==
  ASSUME NEW w, NEW v, NEW t, NEW hv, NEW ht, NEW ready, Relayout(w, v, t, hv, ht, ready),
         t = [shows |-> t.shows, cols |-> t.cols, cursor |-> t.cursor]
  PROVE  tbl'.shows = t.shows /\ tbl'.cursor = t.cursor
<1> DEFINE fit == Fitted(NaturalWidths("jobs", v), w)
<1>1. tbl' = IF w = 0 THEN t ELSE [t EXCEPT !.cols = fit]
  BY DEF Relayout
<1> HIDE DEF fit
<1> QED
  BY <1>1

LEMMA TakeKeepsHighlight ==
  ASSUME MInv, NEW s \in Slots, TakeOverview(s), Highlighted # NoJob
  PROVE  Highlighted' = Highlighted \/ tbl'.shows.rows < tbl.shows.rows
<1>0. PICK v : v = refreshes[s].reply
  OBVIOUS
<1>1. Answered(s) /\ refreshes[s].kind = "jobs" /\ v # Failure
  BY <1>0 DEF TakeOverview
<1>2. v \in Overviews /\ v.rows \in Nat
  BY <1>0, <1>1, SlotCases, MonitorAssumption DEF MInv, Overviews
<1>3. PICK c \in Cursors(tbl, v.rows) :
        Relayout(width, v, [tbl EXCEPT !.shows = v, !.cursor = c], runsView, runsTbl, runsReady)
  BY <1>0 DEF TakeOverview
<1> DEFINE t == [tbl EXCEPT !.shows = v, !.cursor = c]
<1>4. t = [shows |-> v, cols |-> tbl.cols, cursor |-> c]
  <2>1. tbl = [shows |-> tbl.shows, cols |-> tbl.cols, cursor |-> tbl.cursor]
    BY DEF MInv, WidgetShapes
  <2>2. DOMAIN tbl = {"shows", "cols", "cursor"}
    BY <2>1
  <2>3. t = [f \in DOMAIN tbl |-> IF f = "shows" THEN v ELSE IF f = "cursor" THEN c ELSE tbl[f]]
    OBVIOUS
  <2> QED
    BY <2>2, <2>3
<1>5. tbl'.shows = v /\ tbl'.cursor = c
  <2>1. t = [shows |-> t.shows, cols |-> t.cols, cursor |-> t.cursor] /\ t.shows = v /\ t.cursor = c
    BY <1>4
  <2>2. Relayout(width, v, t, runsView, runsTbl, runsReady)
    BY <1>3
  <2> HIDE DEF t
  <2> QED
    BY <2>1, <2>2, RelayoutKeeps
<1>6. tbl.shows.rows \in Nat /\ tbl.cursor \in 0 .. tbl.shows.rows - 1
  BY MonitorAssumption DEF Highlighted, MInv, TablesMatchViews, MonitorTypeOK, Overviews
<1>7. CASE v.rows >= tbl.shows.rows
  <2>1. c = tbl.cursor
    BY <1>2, <1>3, <1>6, <1>7 DEF Cursors, AtMost
  <2>2. tbl'.cursor \in 0 .. tbl'.shows.rows - 1 /\ tbl'.cursor = tbl.cursor
    BY <1>2, <1>5, <1>6, <1>7, <2>1
  <2> QED
    BY <1>6, <2>2 DEF Highlighted
<1> QED
  BY <1>2, <1>5, <1>6, <1>7

\* The highlight is the user's: no reply, resize or error moves it to another job
\* while the overview does not shrink.
THEOREM HighlightIsTheUsers == MonitorSpec => HighlightMovesByKeys
<1>1. ASSUME MInv, MonitorNext, Highlighted # NoJob, Highlighted' # Highlighted
      PROVE  MoveCursor \/ tbl'.shows.rows < tbl.shows.rows
  <2>1. ASSUME UNCHANGED <<tbl.shows, tbl.cursor>>
        PROVE  FALSE
    BY <1>1, <2>1 DEF Highlighted
  <2>2. tbl = [shows |-> tbl.shows, cols |-> tbl.cols, cursor |-> tbl.cursor]
    BY <1>1 DEF MInv, WidgetShapes
  <2>3. ASSUME NEW w \in Terminals, Resize(w)
        PROVE  FALSE
    BY <2>1, <2>2, <2>3, RelayoutKeeps DEF Resize
  <2>4. ASSUME NEW s \in Slots, TakeHistory(s)
        PROVE  FALSE
    BY <2>1, <2>2, <2>4, RelayoutKeeps DEF TakeHistory
  <2>5. ASSUME NEW s \in Slots, TakeOverview(s)
        PROVE  tbl'.shows.rows < tbl.shows.rows
    BY <1>1, <2>5, TakeKeepsHighlight
  <2>6. CASE Change \/ Quit \/ Back
    BY <2>1, <2>6 DEF Change, Quit, Back, screenVars
  <2>7. ASSUME NEW s \in Slots, F5(s) \/ Enter(s) \/ Query(s) \/ QueryFails(s) \/ TakeError(s)
        PROVE  FALSE
    BY <2>1, <2>7 DEF F5, Enter, Query, QueryFails, TakeError, screenVars
  <2> QED
    BY <1>1, <2>3, <2>4, <2>5, <2>6, <2>7 DEF MonitorNext, Take
<1>2. MInv /\ [MonitorNext]_monitorVars =>
        [Highlighted # NoJob /\ Highlighted' # Highlighted =>
           MoveCursor \/ tbl'.shows.rows < tbl.shows.rows]_monitorVars
  BY <1>1
<1> QED
  BY <1>2, MInvariance, PTL DEF MonitorSpec, HighlightMovesByKeys
=============================================================================
