---------------------------- MODULE AttendancePage ---------------------------
(***************************************************************************)
(* The attendance page, admin/(dashboard)/attendance/page.tsx: a list of   *)
(* the participants under a filter, with a button per row that checks the  *)
(* participant in or takes the check-in back, a form for a badge, and a    *)
(* bulk undo of the ticked rows.  The list is fetched again after every    *)
(* action and every change of the filter; nothing orders the answers.      *)
(***************************************************************************)
EXTENDS Hall

CONSTANT UsedFilters  \* bound: the filters the officer switches between

ASSUME AttendancePageAssumption == "ALL" \in UsedFilters /\ UsedFilters \subseteq Filters

VARIABLES list,    \* the state of AdminAttendancePage
          crossed  \* observation: the last answer was an error, or to a list that
                   \* was not the last asked for or asked for with an old filter

FreshList ==
    [filter |-> "ALL",
     loading |-> TRUE,      \* the table shows that it waits, not its rows
     rows |-> <<>>,         \* the rows fetched
     rowsFor |-> "nothing", \* observation: the filter they were asked with
     ticked |-> {},         \* selectedIds
     loadingId |-> None,    \* actionLoadingId
     submitting |-> FALSE]

Fetched == DOMAIN list.rows
Displayed == IF list.loading THEN {} ELSE Fetched
BadgeForm == ~list.submitting
BulkUndoButton == list.ticked # {} /\ ~list.submitting

\* The gauge: the percentage is rounded, halves up, before it is compared.
QuorumPercentage(present, total) ==
    IF total > 0 THEN (200 * present + total) \div (2 * total) ELSE 0
IsQuorumReached(present, total) == QuorumPercentage(present, total) >= 50

\* fetchAttendanceData of the render whose filter is f; the summary it asks
\* for first decides nothing.  Observed: the lists already out are overtaken,
\* and this one is from the start if the page has another filter by now.
FetchAttendance(n, f, now) ==
    Sent([s \in Slots |-> IF n[s].op = "list" THEN [n[s] EXCEPT !.overtaken = TRUE]
                          ELSE n[s]],
         [Ask("list", "list", {}, f) EXCEPT !.overtaken = f # now])

\* The page is mounted and has asked for its list.
ListInit ==
    /\ list = FreshList /\ crossed = FALSE
    /\ net = FetchAttendance(Quiet(Slots), "ALL", "ALL")

\* The refresh button and Enter in the search field.
PressRefresh ==
    /\ Press /\ CanSend(net, 1)
    /\ list' = [list EXCEPT !.loading = TRUE]
    /\ net' = FetchAttendance(net, list.filter, list.filter)
    /\ UNCHANGED <<attendance, crossed>>

\* Slip: the effect does not depend on the filter.
SetStatusFilterOnly(f) ==
    /\ Press /\ f # list.filter
    /\ list' = [list EXCEPT !.filter = f]
    /\ UNCHANGED <<attendance, net, crossed>>

SetStatusFilter(f) ==
    /\ Press /\ f # list.filter /\ CanSend(net, 1)
    /\ list' = [list EXCEPT !.filter = f, !.loading = TRUE]
    /\ net' = FetchAttendance(net, f, f)
    /\ UNCHANGED <<attendance, crossed>>

Filled(r) ==
    [list EXCEPT !.loading = FALSE, !.rows = r.rows, !.rowsFor = r.filter]

\* Slip: an error leaves the table waiting.
AfterListStuck(r) == IF r.answer = "ok" THEN Filled(r) ELSE list
AfterList(r) ==
    IF r.answer = "ok" THEN Filled(r) ELSE [list EXCEPT !.loading = FALSE]

ListAnswered(s) ==
    /\ Answered(net, s, "list")
    /\ list' = AfterList(net[s])
    /\ crossed' = (net[s].overtaken \/ net[s].answer # "ok")
    /\ net' = Done(net, s)
    /\ UNCHANGED <<attendance, presses>>

-----------------------------------------------------------------------------
(* Actions on rows.                                                        *)

RowEnabled(p) == p \in Displayed /\ list.loadingId # p

HandleQuickCheckIn(p) ==
    /\ Press /\ RowEnabled(p) /\ ~list.rows[p] /\ CanSend(net, 1)
    /\ list' = [list EXCEPT !.loadingId = p]
    /\ net' = Sent(net, Ask("row", "checkin", {p}, list.filter))
    /\ UNCHANGED <<attendance, crossed>>

HandleUndoCheckIn(p) ==
    /\ Press /\ RowEnabled(p) /\ list.rows[p] /\ CanSend(net, 1)
    /\ list' = [list EXCEPT !.loadingId = p]
    /\ net' = Sent(net, Ask("row", "undo", {p}, list.filter))
    /\ UNCHANGED <<attendance, crossed>>

HandleManualCheckIn(p) ==
    /\ Press /\ BadgeForm /\ CanSend(net, 1)
    /\ list' = [list EXCEPT !.submitting = TRUE]
    /\ net' = Sent(net, Ask("form", "checkin", {p}, list.filter))
    /\ UNCHANGED <<attendance, crossed>>

HandleBulkUndo ==
    /\ Press /\ BulkUndoButton /\ CanSend(net, 1)
    /\ list' = [list EXCEPT !.submitting = TRUE]
    /\ net' = Sent(net, Ask("bulk", "undo", list.ticked, list.filter))
    /\ UNCHANGED <<attendance, crossed>>

\* The list is asked for with the filter of the render that sent the action.
\* The one flag of the rows is cleared, whichever row it stands for by now.
ActionAnswered(s) ==
    /\ net[s].op \in {"checkin", "undo"} /\ net[s].page # "desk"
    /\ net[s].answer # "none"
    /\ list' = [list EXCEPT
                  !.loading = @ \/ net[s].answer # "failed",
                  !.loadingId = IF net[s].page = "row" THEN None ELSE @,
                  !.submitting = IF net[s].page = "row" THEN @ ELSE FALSE,
                  !.ticked = IF net[s].page = "bulk" /\ net[s].answer = "ok" THEN {} ELSE @]
    /\ net' = IF net[s].answer = "failed" THEN Done(net, s)
              ELSE FetchAttendance(Done(net, s), net[s].filter, list.filter)
    /\ UNCHANGED <<attendance, presses, crossed>>

\* Ticks outlive the rows they were made on: a changed filter keeps them.
ToggleSelect(p) ==
    /\ Press /\ p \in Displayed
    /\ list' = [list EXCEPT !.ticked = IF p \in @ THEN @ \ {p} ELSE @ \cup {p}]
    /\ UNCHANGED <<attendance, net, crossed>>

\* All and none are told apart by counting, ticks on rows not shown included.
ToggleSelectAll ==
    /\ Press /\ list' = [list EXCEPT !.ticked =
                  IF Cardinality(@) = Cardinality(Fetched) THEN {} ELSE Fetched]
    /\ UNCHANGED <<attendance, net, crossed>>

ListNext ==
    \/ PressRefresh \/ HandleBulkUndo \/ ToggleSelectAll
    \/ \E f \in UsedFilters : SetStatusFilter(f)
    \/ \E p \in People : HandleQuickCheckIn(p) \/ HandleUndoCheckIn(p)
                           \/ HandleManualCheckIn(p) \/ ToggleSelect(p)
    \/ \E s \in Slots : ListAnswered(s) \/ ActionAnswered(s)
=============================================================================
