--------------------------- MODULE ParticipantsPage ---------------------------
(***************************************************************************)
(* The register of participants, admin/(dashboard)/participants/page.tsx:  *)
(* a list with ticks, a drawer with one participant and the e-mails that   *)
(* were sent, a form to edit, and dialogs to delete and to write messages. *)
(***************************************************************************)
EXTENDS AdminTab

OnParticipants == page = "participants"

FreshParticipants ==
    Joined(FreshList,
    [timer |-> TRUE,        \* the list is asked for when the timer fires
     detail |-> None,       \* detailItem: whom the drawer was opened for
     shown |-> None,        \* observation: whose name and addresses it shows
     mailsOf |-> None,      \* observation: whose e-mails it shows
     loadingLogs |-> FALSE,
     resending |-> FALSE,
     edit |-> None,         \* editItem
     saving |-> FALSE,
     messages |-> FALSE,    \* the WhatsApp dialog is open
     overlap |-> FALSE])    \* observation: the drawer was opened while the answer
                            \* to another's look-up, e-mail or edit was out

\* What covers the list, each above those before it.
Drawer == OnParticipants /\ view.detail # None /\ view.edit = None
EditForm == OnParticipants /\ view.edit # None
DeleteDialog == OnParticipants /\ view.target # "nobody"
Uncovered ==
    /\ OnParticipants /\ view.detail = None /\ view.edit = None
    /\ view.target = "nobody" /\ ~view.messages
Row(p) == Uncovered /\ p \in Rows

-----------------------------------------------------------------------------
(* The list.                                                               *)

\* The search, the status or the size of a page: ticks are dropped at once, the
\* rows they were on only when the new list comes.
SetQuery ==
    Uncovered /\ Rearranged([view EXCEPT !.ticked = {}, !.timer = TRUE])

\* Ticks are kept from page to page.
TurnPage == Uncovered /\ Rearranged([view EXCEPT !.timer = TRUE])

TimerFires ==
    /\ OnParticipants /\ view.timer /\ CanSend(net, 1)
    /\ view' = [view EXCEPT !.timer = FALSE, !.loading = TRUE]
    /\ net' = Sent(net, FetchList)
    /\ UNCHANGED <<db, page, presses>>

FetchData ==
    Uncovered /\ ~view.loading /\ Sends(FetchList, [view EXCEPT !.loading = TRUE])

ListAnswered(s) == OnParticipants /\ ListCame(s)

HandleSelectRow(p) == Row(p) /\ Rearranged([view EXCEPT !.ticked = Toggled(p)])
HandleSelectAll == Uncovered /\ Rearranged([view EXCEPT !.ticked = ToggledAll])

AskDelete(p) == Row(p) /\ Rearranged(AskDeleteOne(p))
BulkBar == Uncovered /\ view.ticked # {}
AskBulkDelete == BulkBar /\ Rearranged(AskDeleteTicked)
CancelDelete ==
    DeleteDialog /\ ~view.deleting /\ Rearranged(DroppedTarget(view))
HandleExecuteDelete == OnParticipants /\ ExecuteDelete
DeleteAnswered(s) == OnParticipants /\ DeleteCame(s)

\* To the ticked rows that are shown, or to one; the links it offers are opened
\* outside and nothing comes back.
OpenMessages ==
    /\ BulkBar \/ (Uncovered /\ Rows # {})
    /\ Rearranged([view EXCEPT !.messages = TRUE])
CloseMessages ==
    OnParticipants /\ view.messages /\ Rearranged([view EXCEPT !.messages = FALSE])

-----------------------------------------------------------------------------
(* The drawer.                                                             *)

\* Slip: the drawer does not wait for its own e-mails.
DrawerOfUnwaiting(p) ==
    [view EXCEPT !.detail = p, !.shown = p,
                 !.overlap = Out({"history", "resend", "save"}) # {}]
DrawerOf(p) ==
    [view EXCEPT !.detail = p, !.shown = p, !.loadingLogs = TRUE,
                 !.overlap = Out({"history", "resend", "save"}) # {}]

OpenDetail(p) == Row(p) /\ Sends(Ask("history", {p}, None), DrawerOf(p))

\* The two requests for e-mails and audit log count as one: an error of either
\* is an empty list.  Nothing compares the answer with the drawer.
LogsAnswered(s) ==
    /\ OnParticipants /\ Came(s, {"history"})
    /\ \E p \in net[s].who :
          Receives(s, [view EXCEPT !.mailsOf = p, !.loadingLogs = FALSE])

CloseDetail == Drawer /\ Rearranged([view EXCEPT !.detail = None, !.shown = None])

\* Each e-mail has a button; the list is asked for again before the answer counts.
HandleResendEmail ==
    /\ Drawer /\ ~view.loadingLogs /\ ~view.resending
    /\ Sends(Ask("resend", {view.detail}, None), [view EXCEPT !.resending = TRUE])

ResendAnswered(s) ==
    /\ OnParticipants /\ Came(s, {"resend"})
    /\ \E p \in net[s].who :
          Receives(s, [view EXCEPT !.resending = FALSE,
                                   !.mailsOf = IF Ok(s) THEN p ELSE @])

-----------------------------------------------------------------------------
(* The form.                                                               *)

OpenEdit(p) ==
    /\ Row(p) \/ (Drawer /\ p = view.detail)
    /\ Rearranged([view EXCEPT !.edit = p])

\* Neither the cross nor "Batal" waits for a form that is being saved.
CancelEdit == EditForm /\ Rearranged([view EXCEPT !.edit = None])

HandleSaveEdit ==
    /\ EditForm /\ ~view.saving
    /\ Sends(Ask("save", {view.edit}, view.detail), [view EXCEPT !.saving = TRUE])

\* The handler asks whether the drawer showed the same participant when it was
\* called, and then writes into the drawer there is now.
SaveAnswered(s) ==
    /\ OnParticipants /\ Came(s, {"save"})
    /\ \/ ~Ok(s) /\ Receives(s, [view EXCEPT !.saving = FALSE])
       \/ /\ Ok(s)
          /\ \E p \in net[s].who :
                ReceivesAndAsks(s,
                    [view EXCEPT !.saving = FALSE, !.edit = None, !.loading = TRUE,
                        !.shown = IF net[s].over = p /\ view.detail # None THEN p ELSE @],
                    FetchList)

ParticipantsNext ==
    \/ SetQuery \/ TurnPage \/ TimerFires \/ FetchData \/ HandleSelectAll
    \/ AskBulkDelete \/ CancelDelete \/ HandleExecuteDelete
    \/ OpenMessages \/ CloseMessages \/ CloseDetail \/ HandleResendEmail
    \/ CancelEdit \/ HandleSaveEdit
    \/ \E p \in People : HandleSelectRow(p) \/ AskDelete(p) \/ OpenDetail(p) \/ OpenEdit(p)
    \/ \E s \in Slots : ListAnswered(s) \/ DeleteAnswered(s) \/ LogsAnswered(s)
                          \/ ResendAnswered(s) \/ SaveAnswered(s)
=============================================================================
