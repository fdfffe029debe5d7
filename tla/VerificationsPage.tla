-------------------------- MODULE VerificationsPage ---------------------------
(***************************************************************************)
(* The queue of applicants, admin/(dashboard)/verifications/page.tsx: each *)
(* row can be approved, or rejected with a reason, from the list or from a *)
(* window that shows the applicant's data.                                 *)
(***************************************************************************)
EXTENDS AdminTab

OnVerifications == page = "verifications"

FreshVerifications ==
    [loading |-> TRUE, rows |-> {},
     selected |-> None,     \* selectedItem: whom the window was opened for
     dataOf |-> None,       \* detailData: whose data it shows
     loadingDetail |-> FALSE,
     reject |-> None,       \* rejectItem: whom the form rejects
     reasonOf |-> None,     \* observation: for whom the reason in it was typed
     acting |-> FALSE,      \* actionLoading
     kept |-> FALSE,        \* observation: the reason outlived a form left unsent
     stray |-> FALSE,       \* observation: the data came when no window, or that of
                            \* another, was open
     overtaken |-> FALSE]   \* observation: the window was opened over such data, or
                            \* while data were on their way

QueueUncovered == OnVerifications /\ view.selected = None /\ view.reject = None
Window == OnVerifications /\ view.selected # None /\ view.reject = None
RejectForm == OnVerifications /\ view.reject # None
Applicants == IF QueueUncovered /\ ~view.loading THEN view.rows ELSE {}

\* A filter, the refresh button, Enter in the search or its cross.
FetchVerifications ==
    QueueUncovered /\ Sends(FetchList, [view EXCEPT !.loading = TRUE])

QueueAnswered(s) ==
    /\ OnVerifications /\ Came(s, {"list"})
    /\ Receives(s, [view EXCEPT !.loading = FALSE, !.rows = IF Ok(s) THEN net[s].rows ELSE @])

HandleOpenDetail(p) ==
    /\ p \in Applicants
    /\ Sends(Ask("detail", {p}, None),
             [view EXCEPT !.selected = p, !.loadingDetail = TRUE,
                          !.overtaken = view.stray \/ Out({"detail"}) # {}])

\* An error leaves the data as they are; no answer is compared with the window.
DetailAnswered(s) ==
    /\ OnVerifications /\ Came(s, {"detail"})
    /\ \E p \in net[s].who :
          Receives(s, [view EXCEPT !.loadingDetail = FALSE,
                                   !.dataOf = IF Ok(s) THEN p ELSE @,
                                   !.stray = IF Ok(s) THEN p # view.selected ELSE @])

WindowClosed(v) == [v EXCEPT !.selected = None, !.dataOf = None, !.stray = FALSE]

CloseWindow == Window /\ Rearranged(WindowClosed(view))

HandleApprove(p) ==
    /\ p \in Applicants \/ (Window /\ p = view.selected)
    /\ ~view.acting
    /\ Sends(Ask("approve", {p}, view.selected), [view EXCEPT !.acting = TRUE])

\* The button of a row waits for a decision that is out, that of the window does not.
OpenReject(p) ==
    /\ (p \in Applicants /\ ~view.acting) \/ (Window /\ p = view.selected)
    /\ Rearranged([view EXCEPT !.reject = p])

TypeReason ==
    RejectForm /\ Rearranged([view EXCEPT !.reasonOf = view.reject, !.kept = FALSE])

\* The form goes and the text stays.
CancelReject ==
    RejectForm /\ Rearranged([view EXCEPT !.reject = None, !.kept = view.reasonOf # None])

\* Without a reason the handler puts one of its own.
HandleRejectSubmit ==
    /\ RejectForm /\ ~view.acting
    /\ Sends(Ask("reject", {view.reject}, view.selected), [view EXCEPT !.acting = TRUE])

\* Slip: the text of a rejection that was sent stays.
FormLeft(v) == [v EXCEPT !.reject = None]
FormEmptied(v) == [v EXCEPT !.reject = None, !.reasonOf = None, !.kept = FALSE]

\* The window is closed if it showed the applicant when the decision was sent.
DecisionAnswered(s) ==
    /\ OnVerifications /\ Came(s, Decisions)
    /\ LET settled == [view EXCEPT !.acting = FALSE]
           formed == IF net[s].op = "reject" THEN FormEmptied(settled) ELSE settled
           closed == IF net[s].over \in net[s].who THEN WindowClosed(formed) ELSE formed
       IN  \/ ~Ok(s) /\ Receives(s, settled)
           \/ Ok(s) /\ ReceivesAndAsks(s, [closed EXCEPT !.loading = TRUE], FetchList)

VerificationsNext ==
    \/ FetchVerifications \/ CloseWindow \/ TypeReason \/ CancelReject
    \/ HandleRejectSubmit
    \/ \E p \in People : HandleOpenDetail(p) \/ HandleApprove(p) \/ OpenReject(p)
    \/ \E s \in Slots : QueueAnswered(s) \/ DetailAnswered(s) \/ DecisionAnswered(s)
=============================================================================
