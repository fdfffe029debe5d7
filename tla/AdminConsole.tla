----------------------------- MODULE AdminConsole -----------------------------
(***************************************************************************)
(* The console: the pages, and the links between them.                     *)
(***************************************************************************)
EXTENDS LoginPage, ParticipantsPage, CandidatesPage, VerificationsPage, CandidatePage

Pages == {"participants", "candidates", "verifications", "candidate"}

FreshView(q) ==
    CASE q = "login" -> FreshLogin
      [] q = "participants" -> FreshParticipants
      [] q = "candidates" -> FreshCandidates
      [] q = "verifications" -> FreshVerifications
      [] q = "candidate" -> FreshCandidate

\* What a page asks for as soon as it is mounted; one of them waits for a timer.
Mounted(n, q) ==
    CASE q \in {"login", "participants"} -> n
      [] q = "candidate" -> Sent(n, FetchCandidate)
      [] OTHER -> Sent(n, FetchList)

Init ==
    /\ db = FreshServer /\ presses = 0
    /\ page \in Pages \cup {"login"} /\ view = FreshView(page)
    /\ net = Mounted(Quiet(Slots), page)

\* The page that was shown is gone: answers have nobody to come to, and what was
\* sent to change the tables goes on.
Opened(q) ==
    LET orphans == [s \in Slots |-> IF net[s].op \in Writes /\ net[s].answer = "none"
                                    THEN [net[s] EXCEPT !.home = FALSE] ELSE Idle]
    IN  /\ CanSend(orphans, 1)
        /\ page' = q /\ view' = FreshView(q)
        /\ net' = Mounted(orphans, q)
        /\ UNCHANGED db

\* A link, or the browser's back button.
Leave(q) == ~OnLogin /\ page # q /\ Press /\ Opened(q)

HandleLogout == ~OnLogin /\ Press /\ Opened("login")
Expire == ~OnLogin /\ Denied /\ Opened("login") /\ UNCHANGED presses

\* The dashboard, which is not modelled, and from it any page.
Enter(s) == LoginAccepted(s) /\ \E q \in Pages : Opened(q) /\ UNCHANGED presses

Next ==
    \/ ParticipantsNext \/ CandidatesNext \/ VerificationsNext \/ CandidateNext
    \/ HandleSubmit \/ HandleLogout \/ Expire
    \/ \E q \in Pages : Leave(q)
    \/ \E s \in Slots : Serve(s) \/ ServeLogin(s) \/ LoginRefused(s) \/ Enter(s)

Spec == Init /\ [][Next]_vars

-----------------------------------------------------------------------------
(* Properties.                                                             *)

Request ==
    [op : Reads \cup Writes \cup {"login"}, who : SUBSET People, over : People \cup {None} \cup 0..MaxPresses,
     home : BOOLEAN, late : BOOLEAN, rows : SUBSET People,
     status : Verdicts \cup {"none"}, public : BOOLEAN, answer : {"none", "ok", "failed"}]

\* The tab shows one page with that page's state, and each flag that holds a
\* button back stands for one request, or one chain of requests, that is out.
TypeOK ==
    /\ db.people \subseteq People /\ db.status \in Verdicts
    /\ page \in Pages \cup {"login"} /\ DOMAIN view = DOMAIN FreshView(page)
    /\ presses \in 0..MaxPresses
    /\ net \in [Slots -> Request \cup {Idle}]
    /\ LET flag(held, ops) == Cardinality(Out(ops)) = IF held THEN 1 ELSE 0 IN
       /\ page = "login" => flag(view.loading, {"login"})
       /\ page = "participants" =>
             flag(view.saving, {"save"}) /\ flag(view.resending, {"resend"})
       /\ page \in {"participants", "candidates"} => flag(view.deleting, {"delete"})
       /\ page = "candidates" => flag(view.creating, {"create", "photo"})
       /\ page = "verifications" => flag(view.acting, {"approve", "reject"})
       /\ page = "candidate" =>
             /\ flag(view.verifying, {"verify"}) /\ flag(view.uploading, {"photo"})
             /\ flag(view.savingPub, {"publish", "unpublish", "settings"})

\* A window about one person shows nobody else's name, e-mails or data: late
\* answers to an earlier window, and an edit of an earlier person, get in only if
\* they were out when this window was opened.
DetailIsOnePerson ==
    /\ page = "participants" /\ view.detail # None /\ ~view.overlap =>
          /\ view.shown = view.detail
          /\ view.loadingLogs \/ view.mailsOf = view.detail
    /\ page = "verifications" /\ view.selected # None /\ ~view.overtaken =>
          view.loadingDetail \/ view.dataOf \in {view.selected, None}

\* A form that is filled in once is stored as a candidate once, whether or not
\* its window is closed meanwhile and whatever becomes of the photo, unless the
\* answer that it was stored was lost.
OneCandidatePerForm == db.twins => db.lost

\* The reason in the form that rejects was typed for the applicant it rejects,
\* unless the form of another was left with a reason and not sent.
ReasonIsForApplicant ==
    page = "verifications" /\ view.reject # None =>
        view.reasonOf \in {None, view.reject} \/ view.kept

\* When nothing is out the candidate's page shows the verdict and the publication
\* of the tables; it is behind only of what others did, or of an answer that was
\* an error or came after a later one.
SettledShowsCandidate ==
    page = "candidate" /\ view.got /\ Out(Reads \cup Writes) = {}
            /\ ~view.behind /\ ~view.overtaken =>
        view.status = db.status /\ view.public = db.public

=============================================================================
