---------------------------- MODULE CandidatePage -----------------------------
(***************************************************************************)
(* One candidate, admin/(dashboard)/candidates/[id]/page.tsx: the verdict, *)
(* the publication, the photo, the documents and a form to edit.  Every    *)
(* success fetches the candidate again, and while that is out the whole    *)
(* page gives way to a spinner.                                            *)
(***************************************************************************)
EXTENDS AdminTab

OnCandidate == page = "candidate"

FreshCandidate ==
    [loading |-> TRUE,
     got |-> FALSE,          \* candidate # null
     status |-> "none",      \* candidate.status
     public |-> FALSE,       \* pubStatus = "Published"
     verdict |-> "none",     \* verifyStatus: what the verdict's list has selected
     verifying |-> FALSE, savingPub |-> FALSE, uploading |-> FALSE,
     editing |-> FALSE,      \* showEditModal
     saving |-> FALSE,
     review |-> FALSE,       \* a document is open
     overtaken |-> FALSE,    \* observation: the last answer was an error or late
     behind |-> FALSE]       \* observation: the candidate was changed otherwise than
                             \* by this page, and no fetch was sent since

FetchCandidate == Ask("candidate", {}, None)

\* Nothing of the page is drawn while it loads; the two windows cover the rest.
Drawn == OnCandidate /\ ~view.loading /\ view.got
Panels == Drawn /\ ~view.editing /\ ~view.review
VerdictPanel == Panels /\ ~view.verifying
PublishPanel == Panels /\ ~view.savingPub /\ view.status = "Verified"
SettingsPanel == Panels /\ ~view.savingPub
EditModal == Drawn /\ view.editing
DocumentWindow == Drawn /\ view.review

Fetching(v) == [v EXCEPT !.loading = TRUE, !.behind = FALSE]

Segarkan == Panels /\ Sends(FetchCandidate, Fetching(view))

\* Every field of the panels is overwritten, what was chosen and not saved included.
CandidateAnswered(s) ==
    /\ OnCandidate /\ Came(s, {"candidate"})
    /\ LET r == net[s]
           rest == [t \in Slots |-> IF net[t].op = "candidate" THEN [net[t] EXCEPT !.late = TRUE]
                                    ELSE net[t]]
       IN  /\ view' = IF Ok(s)
                      THEN [view EXCEPT !.loading = FALSE, !.got = TRUE, !.status = r.status,
                                        !.verdict = r.status, !.public = r.public,
                                        !.overtaken = r.late]
                      ELSE [view EXCEPT !.loading = FALSE, !.overtaken = TRUE]
           /\ net' = Done(rest, s)
    /\ UNCHANGED <<db, page, presses>>

ChooseVerdict(st) ==
    Panels /\ st # view.verdict /\ Rearranged([view EXCEPT !.verdict = st])

HandleVerifyCandidate ==
    /\ VerdictPanel
    /\ Sends([Ask("verify", {}, None) EXCEPT !.status = view.verdict],
             [view EXCEPT !.verifying = TRUE])

\* Which of the two it is depends on what the page last fetched.
HandlePublishToggle ==
    /\ PublishPanel
    /\ Sends(Ask(IF view.public THEN "unpublish" ELSE "publish", {}, None),
             [view EXCEPT !.savingPub = TRUE])

HandleSavePubSettings ==
    /\ SettingsPanel
    /\ Sends(Ask("settings", {}, None), [view EXCEPT !.savingPub = TRUE])

HandlePhotoUpload ==
    /\ Panels /\ ~view.uploading
    /\ Sends(Ask("photo", {}, None), [view EXCEPT !.uploading = TRUE])

OpenEditModal == Panels /\ Rearranged([view EXCEPT !.editing = TRUE])
CloseEditModal == EditModal /\ Rearranged([view EXCEPT !.editing = FALSE])
HandleSaveEditCandidate ==
    /\ EditModal /\ ~view.review /\ ~view.saving
    /\ Sends(Ask("save", {}, None), [view EXCEPT !.saving = TRUE])

OpenDocument == Panels /\ Rearranged([view EXCEPT !.review = TRUE])
CloseDocument == DocumentWindow /\ Rearranged([view EXCEPT !.review = FALSE])

\* The two buttons wait for nothing, not even for one another.
HandleVerifyDocument == DocumentWindow /\ Sends(Ask("document", {}, None), view)

\* Slip: a new verdict does not fetch the candidate.
RefetchesAllButVerdict(op) == op # "verify"
Refetches(op) == op \in Writes

\* Slip: the flag is not taken back by the settings.
ReleasedButSettings(op) ==
    [view EXCEPT !.verifying = @ /\ op # "verify",
                 !.savingPub = @ /\ op \notin {"publish", "unpublish"},
                 !.uploading = @ /\ op # "photo",
                 !.saving = @ /\ op # "save"]

\* The flag of the handler that was called is taken back.
Released(op) ==
    [view EXCEPT !.verifying = @ /\ op # "verify",
                 !.savingPub = @ /\ op \notin {"publish", "unpublish", "settings"},
                 !.uploading = @ /\ op # "photo",
                 !.saving = @ /\ op # "save"]

ChangeAnswered(s) ==
    /\ OnCandidate /\ Came(s, Writes)
    /\ LET v == Released(net[s].op) IN
       \/ ~Ok(s) /\ Receives(s, v)
       \/ /\ Ok(s) /\ Refetches(net[s].op)
          /\ ReceivesAndAsks(s, [Fetching(v) EXCEPT
                                    !.editing = @ /\ net[s].op # "save",
                                    !.review = @ /\ net[s].op # "document"], FetchCandidate)
       \/ Ok(s) /\ ~Refetches(net[s].op) /\ Receives(s, v)

\* Another officer changes the candidate.
OtherOfficer ==
    /\ OnCandidate /\ Press
    /\ \/ \E st \in Verdicts : Accepts(db.status, st) /\ db' = [db EXCEPT !.status = st]
       \/ db' = [db EXCEPT !.public = FALSE] /\ db.public
    /\ view' = Behind
    /\ UNCHANGED <<page, net>>

CandidateNext ==
    \/ Segarkan \/ HandleVerifyCandidate \/ HandlePublishToggle \/ HandleSavePubSettings
    \/ HandlePhotoUpload \/ OpenEditModal \/ CloseEditModal \/ HandleSaveEditCandidate
    \/ OpenDocument \/ CloseDocument \/ HandleVerifyDocument \/ OtherOfficer
    \/ \E st \in Verdicts : ChooseVerdict(st)
    \/ \E s \in Slots : CandidateAnswered(s) \/ ChangeAnswered(s)
=============================================================================
