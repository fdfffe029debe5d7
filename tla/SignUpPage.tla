------------------------------ MODULE SignUpPage ------------------------------
(***************************************************************************)
(* The page where a visitor registers: app/register/page.tsx.  It asks for *)
(* the home data once and decides from it whether to show the form; the    *)
(* visitor fills in two steps, reviews them and sends.  What is typed is   *)
(* kept as a draft in the browser's storage by a timer, and the draft is   *)
(* removed when the registration has been stored.                          *)
(*                                                                         *)
(* Everything is in one browser, whose storage outlives its pages.  Timers *)
(* may go off after any delay.  The API is one step per request here; how  *)
(* two registrations meet inside it is Registration's subject.             *)
(***************************************************************************)
EXTENDS Requests

CONSTANTS Emails, None,
          Modes,         \* capacity modes the committee may have configured
          Room,          \* participants the main pool has room for, 0: no limit
          WaitRoom,      \* the same for the waiting list
          Slots,         \* bound: requests out at once
          MaxEdits,      \* bound: changes of the form
          MaxVisits,     \* bound: how often the page is left or loaded anew
          MaxUpsets,     \* bound: what others do, and what is lost
          MaxSends       \* bound: presses of the button that sends

ASSUME SignUpAssumption ==
    /\ None \notin Emails /\ IsFiniteSet(Slots) /\ Slots # {}
    /\ Modes \subseteq {"CLOSE", "WAITING_LIST", "ALLOW"}
    /\ {Room, WaitRoom, MaxEdits, MaxVisits, MaxUpsets, MaxSends} \subseteq Nat

VARIABLES
    site,    \* the server: schedule, switch, mode, verified and waiting participants
    stored,  \* the status under which each e-mail is registered, or "none"
    draft,   \* participant_registration_draft in localStorage
    p,       \* the state of RegisterPage
    net,     \* the requests of this browser
    left,    \* how much of each bound is left
    h        \* observations, read by no step:
             \*   late: the form changed while it was sent, or may be sent, unsaved
             \*   thanked: e-mails this browser was told are registered
             \*   unheard: e-mails sent whose answer will not be shown
             \*   said: what the home data said of the rooms

vars == <<site, stored, draft, p, net, left, h>>

Phases == {"upcoming", "active", "past"}
NoForm == [email |-> None, work |-> FALSE]
NoSuccess == [email |-> None, place |-> "none"]

FreshPage ==
    [status |-> "loading", step |-> 1, form |-> NoForm, saving |-> "idle",
     armed |-> FALSE, idles |-> 0, loading |-> FALSE, error |-> "none",
     tried |-> None, success |-> NoSuccess]

Home == [op |-> "home", form |-> NoForm, heard |-> "page", answer |-> "none",
         site |-> "none"]
Register(f) == [Home EXCEPT !.op = "register", !.form = f]

Init ==
    /\ site \in [phase : Phases, enabled : BOOLEAN, mode : Modes,
                 main : {0, Room}, waiting : {0}]
    /\ stored = [e \in Emails |-> "none"]
    /\ draft = NoForm /\ p = FreshPage
    /\ net = Sent(Quiet(Slots), Home)
    /\ left = [edits |-> MaxEdits, visits |-> MaxVisits, upsets |-> MaxUpsets,
               sends |-> MaxSends]
    /\ h = [late |-> FALSE, thanked |-> {}, unheard |-> {}, said |-> "unknown"]

Spend(what) == left[what] > 0 /\ left' = [left EXCEPT ![what] = @ - 1]

-----------------------------------------------------------------------------
(* What is on the screen, and so what can be typed and pressed.            *)

FormShown == p.status \in {"open", "waiting_list"}
Step1 == FormShown /\ p.step = 1
Step2 == FormShown /\ p.step = 2
Review == FormShown /\ p.step = 3
Success == FormShown /\ p.step = 4
\* Instead of the form: not open yet, closed, or full.
StatusMessage == p.status \in {"closed", "not_started"}
WaitingNotice == p.status = "waiting_list" /\ p.step < 4

\* Slips: the button does not wait for the draft; it does not wait for the answer.
SubmitEnabledUnsaved == Review /\ ~p.loading
SubmitEnabledTwice == Review /\ p.saving # "saving"
SubmitEnabled == Review /\ ~p.loading /\ p.saving # "saving"

-----------------------------------------------------------------------------
(* The server.                                                             *)

MainFull(s) == Room > 0 /\ s.main >= Room
WaitingFull(s) == WaitRoom > 0 /\ s.waiting >= WaitRoom

\* What the home data comes to for a reader who has all of it: the first test
\* that holds decides, here and in the verdict.
Rooms(s) ==
    IF ~s.enabled THEN "off"
    ELSE IF s.mode = "ALLOW" \/ ~MainFull(s) THEN "main"
    ELSE IF s.mode = "CLOSE" \/ WaitingFull(s) THEN "full"
    ELSE "waiting"

\* POST /public/register.
Verdict(e) ==
    IF ~site.enabled \/ site.phase # "active" THEN "closed"
    ELSE IF stored[e] # "none" THEN "duplicate"
    ELSE IF Rooms(site) = "main" THEN "Pending"
    ELSE IF Rooms(site) = "full" THEN "quota"
    ELSE "Waiting List"

Serve(s) ==
    /\ Unserved(net, s)
    /\ IF net[s].op = "home"
       THEN /\ net' = [net EXCEPT ![s].answer = "ok", ![s].site = site]
            /\ UNCHANGED <<site, stored>>
       ELSE LET e == net[s].form.email
                v == Verdict(e)
            IN  /\ net' = [net EXCEPT ![s].answer = v]
                /\ stored' = IF v \in {"Pending", "Waiting List"}
                             THEN [stored EXCEPT ![e] = v] ELSE stored
                /\ site' = IF v = "Waiting List"
                           THEN [site EXCEPT !.waiting = @ + 1] ELSE site
    /\ UNCHANGED <<draft, p, left, h>>

\* The request does not reach the server, or its answer does not reach the page.
Lose(s) ==
    /\ net[s].op # "none" /\ net[s].answer \notin {"failed"} /\ Spend("upsets")
    /\ net' = [net EXCEPT ![s].answer = "failed"]
    /\ h' = IF net[s].answer \in {"Pending", "Waiting List"}
            THEN [h EXCEPT !.unheard = @ \cup {net[s].form.email}] ELSE h
    /\ UNCHANGED <<site, stored, draft, p>>

\* The committee verifies or withdraws a participant, moves the schedule, or
\* turns the registration on or off.
Committee ==
    /\ Spend("upsets")
    /\ \/ \E n \in 0..Room : n # site.main /\ site' = [site EXCEPT !.main = n]
       \/ \E f \in Phases \ {site.phase} : site' = [site EXCEPT !.phase = f]
       \/ site' = [site EXCEPT !.enabled = ~@]
    /\ UNCHANGED <<stored, draft, p, net, h>>

-----------------------------------------------------------------------------
(* The page is loaded.                                                     *)

ByTimeline(s) ==
    CASE s.phase = "active" -> "open"
      [] s.phase = "upcoming" -> "not_started"
      [] OTHER -> "closed"

\* The branch for the waiting list sets the status and goes on; the test that
\* should leave it alone reads the status of the first rendering, which is
\* "loading", so the timeline overwrites it.
EventStatus(s) ==
    CASE Rooms(s) = "off" -> "not_started"
      [] Rooms(s) = "full" -> "closed"
      [] OTHER -> ByTimeline(s)

\* The draft is put back unless the answer was an error or the page is closed
\* for want of room, or because registration is off.
HomeAnswered(s) ==
    /\ Answered(net, s, "home") /\ net[s].heard = "page"
    /\ IF net[s].answer = "failed"
       THEN p' = [p EXCEPT !.status = "not_started"] /\ UNCHANGED h
       ELSE LET seen == net[s].site IN
            /\ p' = [p EXCEPT !.status = EventStatus(seen),
                              !.form = IF Rooms(seen) \in {"off", "full"} \/ draft = NoForm
                                       THEN @ ELSE draft]
            /\ h' = [h EXCEPT !.said = Rooms(seen)]
    /\ net' = Done(net, s)
    /\ UNCHANGED <<site, stored, draft, left>>

\* A reload forgets the handlers of the page; a link inside the site leaves the
\* page and its timers, but the handler that sends goes on without it.
Visit(heard) ==
    LET sent == {s \in Pending(net, {"register"}) : net[s].heard = "page"}
        kept == [s \in Slots |->
                    CASE net[s].op = "home" -> Idle
                      [] s \in sent -> [net[s] EXCEPT !.heard = heard]
                      [] net[s].op = "register" /\ heard = "nobody" ->
                            [net[s] EXCEPT !.heard = "nobody"]
                      [] OTHER -> net[s]]
    IN  /\ Spend("visits") /\ CanSend(kept, 1)
        /\ p' = FreshPage /\ net' = Sent(kept, Home)
        /\ h' = [h EXCEPT !.late = FALSE, !.said = "unknown",
                          !.unheard = @ \cup {net[s].form.email : s \in sent}]
        /\ UNCHANGED <<site, stored, draft>>
Reload == Visit("nobody")
FollowLink == Visit("handler")

-----------------------------------------------------------------------------
(* The form, and its draft.                                                *)

\* Every change of the form starts the timer of the draft anew.
Changed(f) ==
    /\ f # p.form /\ Spend("edits")
    /\ p' = [p EXCEPT !.form = f, !.saving = "saving", !.armed = TRUE]
    /\ h' = [h EXCEPT !.late = @ \/ p.loading]
    /\ UNCHANGED <<site, stored, draft, net>>

TypeEmail(e) == Step1 /\ Changed([p.form EXCEPT !.email = e])
FillWork == Step2 /\ Changed([p.form EXCEPT !.work = TRUE])

\* 600 ms after the last change; 2 s later the notice that it is saved goes, a
\* timer that no later change stops.
DraftTimer ==
    /\ p.armed
    /\ draft' = p.form
    /\ p' = [p EXCEPT !.armed = FALSE, !.saving = "saved", !.idles = @ + 1]
    /\ h' = [h EXCEPT !.late = @ /\ p.step = 4]
    /\ UNCHANGED <<site, stored, net, left>>

IdleTimer ==
    /\ p.idles > 0
    /\ p' = [p EXCEPT !.saving = "idle", !.idles = @ - 1]
    /\ h' = [h EXCEPT !.late = @ \/ p.armed]
    /\ UNCHANGED <<site, stored, draft, net, left>>

\* From one step to another; the links of the review stay enabled while the
\* form is being sent.
Turn(n) == p' = [p EXCEPT !.step = n] /\ UNCHANGED <<site, stored, draft, net, left, h>>
OnNextStep1 == Step1 /\ p.saving # "saving" /\ p.form.email # None /\ Turn(2)
OnNextStep2 == Step2 /\ p.form.work /\ Turn(3)
BackTo1 == Step2 /\ Turn(1)
BackTo2 == Review /\ ~p.loading /\ Turn(2)
EditFromReview == \E n \in {1, 2} : Review /\ Turn(n)

-----------------------------------------------------------------------------
(* Sending it.                                                             *)

OnSubmit ==
    /\ SubmitEnabled /\ Spend("sends") /\ CanSend(net, 1)
    /\ p' = [p EXCEPT !.loading = TRUE, !.error = "none"]
    /\ net' = Sent(net, Register(p.form))
    /\ UNCHANGED <<site, stored, draft, h>>

\* Slip: only a success gives the button back.
AfterRegisterStuck(r) ==
    IF r.answer \in {"Pending", "Waiting List"}
    THEN [p EXCEPT !.loading = FALSE, !.step = 4,
                   !.success = [email |-> r.form.email, place |-> r.answer]]
    ELSE [p EXCEPT !.error = r.answer, !.tried = r.form.email]
AfterRegister(r) ==
    IF r.answer \in {"Pending", "Waiting List"}
    THEN [p EXCEPT !.loading = FALSE, !.step = 4,
                   !.success = [email |-> r.form.email, place |-> r.answer]]
    ELSE [p EXCEPT !.loading = FALSE, !.error = r.answer, !.tried = r.form.email]

RegisterAnswered(s) ==
    LET r == net[s]
        good == r.answer \in {"Pending", "Waiting List"}
    IN  /\ Answered(net, s, "register")
        /\ net' = Done(net, s)
        /\ draft' = IF good /\ r.heard # "nobody" THEN NoForm ELSE draft
        /\ p' = IF r.heard = "page" THEN AfterRegister(r) ELSE p
        /\ h' = IF good /\ r.heard = "page"
                THEN [h EXCEPT !.thanked = @ \cup {r.form.email}] ELSE h
        /\ UNCHANGED <<site, stored, left>>

-----------------------------------------------------------------------------

Next ==
    \/ \E s \in Slots : Serve(s) \/ Lose(s) \/ HomeAnswered(s) \/ RegisterAnswered(s)
    \/ Committee \/ Reload \/ FollowLink
    \/ \E e \in Emails : TypeEmail(e)
    \/ FillWork \/ DraftTimer \/ IdleTimer
    \/ OnNextStep1 \/ OnNextStep2 \/ BackTo1 \/ BackTo2 \/ EditFromReview
    \/ OnSubmit

Spec == Init /\ [][Next]_vars

-----------------------------------------------------------------------------
(* Properties.                                                             *)

Sites == [phase : Phases, enabled : BOOLEAN, mode : Modes,
          main : 0..Room, waiting : 0..MaxSends]
Forms == [email : Emails \cup {None}, work : BOOLEAN]
Places == {"Pending", "Waiting List"}
Refusals == {"duplicate", "quota", "closed", "failed"}

\* The page waits only for what is out: the button is held back by a
\* registration that was sent from this page, and the last step is shown with
\* the data of one that succeeded.
TypeOK ==
    /\ site \in Sites /\ stored \in [Emails -> Places \cup {"none"}]
    /\ draft \in Forms /\ p.form \in Forms
    /\ p.status \in {"loading", "open", "waiting_list", "closed", "not_started"}
    /\ p.saving \in {"idle", "saving", "saved"} /\ p.armed \in BOOLEAN
    /\ p.idles \in 0..MaxEdits /\ p.error \in Refusals \cup {"none"}
    /\ \A s \in Slots : net[s].op \in {"none", "home", "register"}
    /\ p.loading => \E s \in Pending(net, {"register"}) : net[s].heard = "page"
    /\ p.step = 4 <=> p.success # NoSuccess
    /\ StatusMessage => p.step = 1 /\ ~p.loading
    /\ p.success # NoSuccess => stored[p.success.email] = p.success.place

\* Nobody finds, on a shared computer, the form of a visitor who was thanked:
\* the draft is gone, unless the form was changed while it was being sent or an
\* old timer hid that a change was not yet saved.
DraftGoneAfterSuccess == Success /\ draft # NoForm => h.late

\* A visitor who reads that the e-mail is registered already was thanked for it
\* before, or left the page or lost the answer when it was sent.
DuplicateIsExplained ==
    p.error = "duplicate" => p.tried \in h.thanked \cup h.unheard

\* "Check Website Timeline (skip if already set to waiting_list above)": the
\* visitor of a form whose main pool is full, and whose waiting list is not, reads
\* that the registration goes on the waiting list.
WaitingListIsAnnounced ==
    h.said = "waiting" /\ FormShown /\ p.step < 4 => WaitingNotice
=============================================================================
