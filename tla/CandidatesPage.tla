---------------------------- MODULE CandidatesPage ----------------------------
(***************************************************************************)
(* The list of candidates, admin/(dashboard)/candidates/page.tsx: ticks,   *)
(* a dialog to delete, and a form that stores a new candidate and then     *)
(* uploads the photo.                                                      *)
(***************************************************************************)
EXTENDS AdminTab

OnCandidates == page = "candidates"

FreshCandidates ==
    Joined(FreshList,
    [creating |-> FALSE,
     showForm |-> FALSE,   \* showCreateModal
     form |-> 0])          \* observation: when the form was filled in, 0 if blank

ListUncovered == OnCandidates /\ view.target = "nobody" /\ ~view.showForm
CreateForm == OnCandidates /\ view.showForm

\* The effect on filter and search: every letter asks for the list.  Ticks stay,
\* whether their rows do or not.
SetFilter ==
    ListUncovered /\ Sends(FetchList, [view EXCEPT !.loading = TRUE])
Refresh ==
    ListUncovered /\ ~view.loading /\ Sends(FetchList, [view EXCEPT !.loading = TRUE])

CandidatesListed(s) == OnCandidates /\ ListCame(s)

TickCandidate(p) ==
    ListUncovered /\ p \in Rows /\ Rearranged([view EXCEPT !.ticked = Toggled(p)])
TickAllCandidates ==
    ListUncovered /\ Rearranged([view EXCEPT !.ticked = ToggledAll])

AskDeleteCandidates ==
    /\ ListUncovered
    /\ \/ view.ticked # {} /\ Rearranged(AskDeleteTicked)
       \/ \E p \in Rows : Rearranged(AskDeleteOne(p))
CancelDeleteCandidates ==
    /\ OnCandidates /\ view.target # "nobody" /\ ~view.deleting
    /\ Rearranged(DroppedTarget(view))
DeleteCandidates == OnCandidates /\ ExecuteDelete
CandidatesDeleted(s) == OnCandidates /\ DeleteCame(s)

-----------------------------------------------------------------------------
(* The form.                                                               *)

OpenForm == ListUncovered /\ Rearranged([view EXCEPT !.showForm = TRUE])

\* Neither the cross nor "Batal" waits for a form that is being sent, or empties it.
CancelForm == CreateForm /\ Rearranged([view EXCEPT !.showForm = FALSE])

\* The fields the handler insists on are filled in, the rest as may be.
FillIn == CreateForm /\ Rearranged([view EXCEPT !.form = presses + 1])

HandleCreateCandidate ==
    /\ CreateForm /\ view.form # 0 /\ ~view.creating
    /\ Sends(Ask("create", {}, view.form), [view EXCEPT !.creating = TRUE])

\* Slip: a photo that fails counts as the failure of the whole.
FormAfterStrict(s) ==
    IF Ok(s) THEN [view EXCEPT !.creating = FALSE, !.showForm = FALSE, !.form = 0]
    ELSE [view EXCEPT !.creating = FALSE]

\* A candidate that was not stored leaves the form as it is; one that was closes
\* and empties it, whatever became of the photo.
FormAfter(s) ==
    IF Ok(s) \/ net[s].op = "photo"
    THEN [view EXCEPT !.creating = FALSE, !.showForm = FALSE, !.form = 0]
    ELSE [view EXCEPT !.creating = FALSE]

\* The photo is sent once the candidate is stored, if one was chosen.
CreateAnswered(s) ==
    /\ OnCandidates /\ Came(s, {"create"})
    /\ \/ ~Ok(s) /\ Receives(s, FormAfter(s))
       \/ Ok(s) /\ ReceivesAndAsks(s, view, Ask("photo", {}, net[s].over))
       \/ Ok(s) /\ ReceivesAndAsks(s, [FormAfter(s) EXCEPT !.loading = TRUE], FetchList)

PhotoAnswered(s) ==
    /\ OnCandidates /\ Came(s, {"photo"})
    /\ ReceivesAndAsks(s, [FormAfter(s) EXCEPT !.loading = TRUE], FetchList)

CandidatesNext ==
    \/ SetFilter \/ Refresh \/ TickAllCandidates \/ AskDeleteCandidates
    \/ CancelDeleteCandidates \/ DeleteCandidates
    \/ OpenForm \/ CancelForm \/ FillIn \/ HandleCreateCandidate
    \/ \E p \in People : TickCandidate(p)
    \/ \E s \in Slots : CandidatesListed(s) \/ CandidatesDeleted(s)
                          \/ CreateAnswered(s) \/ PhotoAnswered(s)
=============================================================================
