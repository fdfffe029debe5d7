----------------------------- MODULE CheckInHall -----------------------------
(***************************************************************************)
(* The entrance of the meeting: one officer at the check-in page and one   *)
(* at the attendance page, over one register.                              *)
(***************************************************************************)
EXTENDS CheckInDesk, AttendancePage

vars == <<hallVars, desk, list, crossed>>

Init == HallInit /\ DeskInit /\ ListInit

Next ==
    \/ DeskNext /\ UNCHANGED <<list, crossed>>
    \/ ListNext /\ UNCHANGED desk
    \/ \E s \in Slots : Serve(s) /\ UNCHANGED <<desk, list, crossed>>

Spec == Init /\ [][Next]_vars

-----------------------------------------------------------------------------
(* Properties.                                                             *)

RowSets == (UNION {[S -> BOOLEAN] : S \in SUBSET People}) \cup {<<>>}
Request ==
    [page : {"desk", "list", "row", "form", "bulk"}, op : {"checkin", "undo", "list"},
     who : SUBSET People, filter : Filters, overtaken : BOOLEAN,
     rows : RowSets,
     answer : {"none", "new", "old", "ok", "failed"}]

\* Every part of both pages has a value of its kind, and a page that shows that
\* it waits has a request out to wait for.
TypeOK ==
    /\ attendance \in [People -> {"none", "active", "undone"}]
    /\ presses \in 0..MaxPresses
    /\ net \in [Slots -> Request \cup {Idle}]
    /\ desk \in [last : People \cup {None}, pending : BOOLEAN,
                 shown : {"nothing", "success", "duplicate", "error"},
                 of : People \cup {None}, scan : BOOLEAN]
    /\ list.filter \in Filters /\ list.rowsFor \in Filters \cup {"nothing"}
    /\ list.ticked \subseteq People /\ list.loadingId \in People \cup {None}
    /\ Fetched \subseteq People
    /\ list.loading => Pending(net, {"list"}) # {}
    /\ desk.pending => \E s \in Pending(net, {"checkin"}) :
                          net[s].page = "desk" /\ ~net[s].overtaken

\* The outcome on the check-in page is that of the badge sent last: an earlier
\* check-in answered late is not announced over it (the mutation reports only
\* its last call).
OutcomeIsOfLastBadge ==
    desk.shown # "nothing" => ~desk.pending /\ desk.of = desk.last

\* When nothing is out, the table shows the filter that is chosen, unless the
\* lists were answered out of order, the last one failed, or it was asked for by
\* an action that had been sent before the filter was changed.
TableMatchesFilter ==
    Pending(net, {"list"}) = {} => list.rowsFor = list.filter \/ crossed
=============================================================================
