----------------------------- MODULE CheckInDesk -----------------------------
(***************************************************************************)
(* The check-in page, admin/(dashboard)/checkin/page.tsx: an officer scans *)
(* or types a badge, the page checks its owner in and shows the outcome    *)
(* until the officer goes on.  The request is a mutation of react-query,   *)
(* which reports to the page only the last mutation it was given.          *)
(***************************************************************************)
EXTENDS Hall

VARIABLE desk  \* the state of CheckInContent

FreshDesk ==
    [last |-> None,      \* whose check-in the mutation last sent is
     pending |-> FALSE,  \* isPending of that mutation
     shown |-> "nothing",\* successData or errorData
     of |-> None,        \* whose outcome is shown
     scan |-> FALSE]     \* the camera runs

DeskInit == desk = FreshDesk

\* The panel with the camera and the form is there only between two badges.
ShowScannerPanel == desk.shown = "nothing" /\ ~desk.pending

OutcomeShown == desk.shown # "nothing" /\ ~desk.pending

\* Slip: every mutation reports to the page.
SupersededNone == net

\* The mutation given before is still carried out, but no longer reported.
Superseded ==
    [s \in Slots |-> IF net[s].op = "checkin" /\ net[s].page = "desk"
                     THEN [net[s] EXCEPT !.overtaken = TRUE] ELSE net[s]]

HandleCheckIn(p, scan) ==
    /\ CanSend(net, 1)
    /\ desk' = [last |-> p, pending |-> TRUE, shown |-> "nothing", of |-> None,
                scan |-> scan]
    /\ net' = Sent(Superseded, Ask("desk", "checkin", {p}, "ALL"))
    /\ UNCHANGED attendance

StartScanner ==
    /\ ShowScannerPanel /\ ~desk.scan
    /\ desk' = [desk EXCEPT !.scan = TRUE]
    /\ UNCHANGED hallVars

\* The browser may refuse the exact camera; the page then asks for any.
RetryWithBasicConstraint ==
    /\ ShowScannerPanel /\ desk.scan
    /\ \E ok \in BOOLEAN : desk' = [desk EXCEPT !.scan = ok]
    /\ UNCHANGED hallVars

\* The callback stops the camera, which takes a while: until then the camera
\* may report again, and the page then sends again.
Decode(p) == Press /\ desk.scan /\ HandleCheckIn(p, TRUE)

StopScanner ==
    /\ desk.scan
    /\ desk' = [desk EXCEPT !.scan = FALSE]
    /\ UNCHANGED hallVars

HandleManualSubmit(p) == Press /\ ShowScannerPanel /\ HandleCheckIn(p, FALSE)

\* The page is opened with ?scan= by a badge read outside it.
OpenedByBadge(p) == Press /\ desk = FreshDesk /\ HandleCheckIn(p, FALSE)

ResetScanner ==
    /\ OutcomeShown
    /\ desk' = [desk EXCEPT !.shown = "nothing", !.of = None]
    /\ UNCHANGED hallVars

\* The page is left: its effect's clean-up stops the camera, and no mutation
\* reports to it any more.
LeaveDesk ==
    /\ desk # FreshDesk
    /\ desk' = FreshDesk
    /\ net' = Superseded
    /\ UNCHANGED <<attendance, presses>>

Outcome(a) ==
    IF a = "new" THEN "success" ELSE IF a = "old" THEN "duplicate" ELSE "error"

CheckInReported(s) ==
    /\ Answered(net, s, "checkin") /\ net[s].page = "desk"
    /\ IF net[s].overtaken THEN UNCHANGED desk
       ELSE \E p \in net[s].who :
               desk' = [desk EXCEPT !.pending = FALSE, !.of = p,
                                    !.shown = Outcome(net[s].answer)]
    /\ net' = Done(net, s)
    /\ UNCHANGED <<attendance, presses>>

DeskNext ==
    \/ \E p \in People : HandleManualSubmit(p) \/ Decode(p) \/ OpenedByBadge(p)
    \/ StartScanner \/ RetryWithBasicConstraint \/ StopScanner
    \/ ResetScanner \/ LeaveDesk
    \/ \E s \in Slots : CheckInReported(s)
=============================================================================
