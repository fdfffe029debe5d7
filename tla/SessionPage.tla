----------------------------- MODULE SessionPage ------------------------------
(***************************************************************************)
(* The page that controls the voting session,                              *)
(* admin/(dashboard)/voting/page.tsx.  It shows a status and counts that   *)
(* it fetched, offers the buttons that fit the status shown, and fetches   *)
(* again after its own changes, whenever the status shown changes, and     *)
(* every thirty seconds while it shows RUNNING.  A fetch asks for the      *)
(* status, then for the counts, then for figures that decide nothing here; *)
(* fetches overlap and their answers are not ordered.                      *)
(* Other administrators change the session, and votes come in, meanwhile;  *)
(* a vote that found the session running may land after it was closed.     *)
(***************************************************************************)
EXTENDS Requests

CONSTANTS Slots,       \* bound: fetches and updates out at once
          MaxPresses,  \* bound: what the administrator does that sends a request
          MaxUpsets,   \* bound: changes by others, and requests or answers lost
          MaxVotes     \* bound: votes recorded or on their way

ASSUME SessionPageAssumption ==
    /\ IsFiniteSet(Slots) /\ Slots # {}
    /\ MaxPresses \in Nat /\ MaxUpsets \in Nat /\ MaxVotes \in Nat

VARIABLES session,  \* the status, at the server
          votes,    \* how many votes are recorded, at the server
          casting,  \* how many found the session running and are not recorded yet
          p,        \* the state of AdminVotingPage
          net,      \* its requests; a fetch keeps its slot for all its requests
          h         \* observations and bounds, read by no step of the page

vars == <<session, votes, casting, p, net, h>>

Statuses == {"NOT_STARTED", "RUNNING", "PAUSED", "CLOSED"}

FreshPage ==
    [shown |-> "none",     \* session.status; "none" before the first answer
     tally |-> 0,          \* summary: votes counted
     loading |-> FALSE,    \* actionLoading
     closing |-> FALSE,    \* showCloseConfirm
     reopening |-> FALSE,  \* showReopenConfirm
     typed |-> FALSE]      \* a reason, and the phrase that the dialog asks for

FreshHistory ==
    [presses |-> 0, upsets |-> 0,
     behind |-> FALSE,   \* the session changed and no fetch was sent since
     overtaken |-> FALSE, \* the last answer about the counts was an error or late
     atClose |-> 0]      \* votes recorded when the session was closed last

Ask(op) == [op |-> op, status |-> "none", n |-> 0, late |-> FALSE, answer |-> "none"]

Gets == {"session", "summary"}
FetchVotingData(n) == Sent(n, Ask("session"))

Init ==
    /\ session = "NOT_STARTED" /\ votes = 0 /\ casting = 0
    /\ p = FreshPage
    /\ net = FetchVotingData(Quiet(Slots))
    /\ h = FreshHistory

-----------------------------------------------------------------------------
(* What can be pressed.  A dialog covers the page under it.                *)

Dialog == p.closing \/ p.reopening
Banner == p.shown
TallyShown == p.tally

\* The report is made of what the page holds; nothing is fetched for it.
Report == [status |-> Banner, tally |-> TallyShown]
Press == h.presses < MaxPresses /\ CanSend(net, 2)
Counted(now) == [h EXCEPT !.presses = @ + 1, !.behind = now]

\* Slip: the buttons do not wait for the update that is out.
OfferedWhileBusy(act) ==
    /\ ~Dialog
    /\ <<act, p.shown>> \in
         {<<"start", "NOT_STARTED">>, <<"pause", "RUNNING">>, <<"resume", "PAUSED">>}

\* The three buttons that act at once, by the status shown.
Offered(act) ==
    /\ ~Dialog /\ ~p.loading
    /\ <<act, p.shown>> \in
         {<<"start", "NOT_STARTED">>, <<"pause", "RUNNING">>, <<"resume", "PAUSED">>}
CloseOffered == ~Dialog /\ ~p.loading /\ p.shown \in {"RUNNING", "PAUSED"}
ReopenOffered == ~Dialog /\ p.shown = "CLOSED"

RefreshTally ==
    /\ Press /\ ~Dialog
    /\ net' = FetchVotingData(net)
    /\ h' = Counted(FALSE)
    /\ UNCHANGED <<session, votes, casting, p>>

\* Slip: the timer runs only while voting is paused.
PollPaused ==
    /\ p.shown = "PAUSED" /\ CanSend(net, 2)
    /\ net' = FetchVotingData(net)
    /\ h' = [h EXCEPT !.behind = FALSE]
    /\ UNCHANGED <<session, votes, casting, p>>

\* setInterval of the effect: only while the page shows RUNNING.
Poll ==
    /\ p.shown = "RUNNING" /\ CanSend(net, 2)
    /\ net' = FetchVotingData(net)
    /\ h' = [h EXCEPT !.behind = FALSE]
    /\ UNCHANGED <<session, votes, casting, p>>

Send(act) ==
    /\ Press
    /\ p' = [p EXCEPT !.loading = TRUE]
    /\ net' = Sent(net, Ask(act))
    /\ h' = Counted(h.behind)
    /\ UNCHANGED <<session, votes, casting>>

HandleUpdateStatus(act) == Offered(act) /\ Send(act)

\* The dialog stays although the status it was opened for is gone by now.
ConfirmStop == p.closing /\ ~p.loading /\ Send("stop")

HandleReopenSession == p.reopening /\ ~p.loading /\ p.typed /\ Send("reopen")

Rearranged(q) == p' = q /\ UNCHANGED <<session, votes, casting, net, h>>

OpenDialog ==
    \/ CloseOffered /\ Rearranged([p EXCEPT !.closing = TRUE])
    \/ ReopenOffered /\ Rearranged([p EXCEPT !.reopening = TRUE])

TypeReason == p.reopening /\ Rearranged([p EXCEPT !.typed = ~@])

CancelDialog ==
    /\ ~p.loading
    /\ \/ p.closing /\ Rearranged([p EXCEPT !.closing = FALSE])
       \/ p.reopening /\ Rearranged([p EXCEPT !.reopening = FALSE, !.typed = FALSE])

-----------------------------------------------------------------------------
(* Answers.                                                                *)

\* Slip: a fetch ends with the status.
GoOnWithoutCounts(n, s) == Done(n, s)

\* A request that fails is skipped and the fetch goes on with the next.
GoOn(n, s) ==
    IF n[s].op = "summary" THEN Done(n, s) ELSE [n EXCEPT ![s] = Ask("summary")]

\* Slip: the effect has no dependencies, so that only the page's own changes fetch.
OnStatusMount(n, changed) == n
\* The effect on session?.status: a change of what is shown fetches again.
OnStatus(n, changed) == IF changed THEN FetchVotingData(n) ELSE n

SessionFetched(s) ==
    /\ Answered(net, s, "session")
    /\ LET r == net[s]
           changed == r.answer = "ok" /\ r.status # p.shown
       IN  /\ changed => CanSend(net, 1)
           /\ p' = IF changed THEN [p EXCEPT !.shown = r.status] ELSE p
           /\ net' = OnStatus(GoOn(net, s), changed)
           /\ h' = [h EXCEPT !.behind = IF changed THEN FALSE ELSE @ \/ r.answer # "ok"]
    /\ UNCHANGED <<session, votes, casting>>

\* Observed: requests for the counts that are out now are late when answered.
CountsFetched(s) ==
    /\ Answered(net, s, "summary")
    /\ LET r == net[s]
           marked == [t \in Slots |-> IF net[t].op = "summary"
                                     THEN [net[t] EXCEPT !.late = TRUE] ELSE net[t]]
       IN  /\ p' = IF r.answer = "ok" THEN [p EXCEPT !.tally = r.n] ELSE p
           /\ net' = GoOn(marked, s)
           /\ h' = [h EXCEPT !.overtaken = r.late \/ r.answer # "ok"]
    /\ UNCHANGED <<session, votes, casting>>

Updates == {"start", "pause", "resume", "stop", "reopen"}

\* A success is followed by a fetch; an error is shown, and nothing is fetched.
UpdateAnswered(s) ==
    /\ net[s].op \in Updates /\ net[s].answer # "none"
    /\ LET ok == net[s].answer = "ok" IN
       /\ p' = [p EXCEPT !.loading = FALSE,
                         !.closing = @ /\ ~(ok /\ net[s].op = "stop"),
                         !.reopening = @ /\ ~(ok /\ net[s].op = "reopen"),
                         !.typed = @ /\ ~(ok /\ net[s].op = "reopen")]
       /\ net' = IF ok THEN FetchVotingData(Done(net, s)) ELSE Done(net, s)
       /\ h' = [h EXCEPT !.behind = @ /\ ~ok]
    /\ UNCHANGED <<session, votes, casting>>

-----------------------------------------------------------------------------
(* The server, the other administrators and the voters.                    *)

\* The statuses an update accepts, each with the one it leads to.
Moves == [start  |-> {<<"NOT_STARTED", "RUNNING">>},
          pause  |-> {<<"RUNNING", "PAUSED">>},
          resume |-> {<<"PAUSED", "RUNNING">>},
          stop   |-> {<<"RUNNING", "CLOSED">>, <<"PAUSED", "CLOSED">>},
          reopen |-> {<<"CLOSED", "NOT_STARTED">>}]

Leads(act) == {st \in Statuses : <<session, st>> \in Moves[act]}

\* The session moves, and what is in the box at a close is noted.
Moved(act, g) ==
    \E st \in Leads(act) :
        /\ session' = st
        /\ h' = IF st = "CLOSED" THEN [g EXCEPT !.atClose = votes] ELSE g

Upset == h.upsets < MaxUpsets
Upsetting(behind) == [h EXCEPT !.upsets = @ + 1, !.behind = @ \/ behind]

Reply(s, a) == net' = [net EXCEPT ![s].answer = a]

ServeGet(s) ==
    /\ Unserved(net, s) /\ net[s].op \in Gets
    /\ net' = [net EXCEPT ![s].answer = "ok", ![s].status = session, ![s].n = votes]
    /\ UNCHANGED <<session, votes, casting, p, h>>

ServeUpdate(s) ==
    /\ Unserved(net, s) /\ net[s].op \in Updates
    /\ \/ Moved(net[s].op, h) /\ Reply(s, "ok")
       \/ Leads(net[s].op) = {} /\ Reply(s, "failed") /\ UNCHANGED <<session, h>>
    /\ UNCHANGED <<votes, casting, p>>

\* A request is lost, or an update is carried out and its answer lost.
Lose(s) ==
    /\ Upset /\ Unserved(net, s) /\ Reply(s, "failed")
    /\ \/ UNCHANGED session /\ h' = Upsetting(FALSE)
       \/ net[s].op \in Updates /\ Moved(net[s].op, Upsetting(TRUE))
    /\ UNCHANGED <<votes, casting, p>>

OtherAdmin ==
    /\ Upset /\ \E act \in Updates : Moved(act, Upsetting(TRUE))
    /\ UNCHANGED <<votes, casting, p, net>>

\* CastVote reads the status once, before all else, and never again.
VoteBegins ==
    /\ session = "RUNNING" /\ votes + casting < MaxVotes
    /\ casting' = casting + 1
    /\ UNCHANGED <<session, votes, p, net, h>>

\* It is recorded, or refused for another reason, whatever the status is by now.
VoteArrives ==
    /\ casting > 0 /\ casting' = casting - 1
    /\ votes' \in {votes, votes + 1}
    /\ UNCHANGED <<session, p, net, h>>

-----------------------------------------------------------------------------
Deliver(s) == SessionFetched(s) \/ CountsFetched(s) \/ UpdateAnswered(s)
Serve(s) == ServeGet(s) \/ ServeUpdate(s)

Next ==
    \/ RefreshTally \/ Poll \/ ConfirmStop \/ HandleReopenSession
    \/ OpenDialog \/ TypeReason \/ CancelDialog
    \/ \E act \in {"start", "pause", "resume"} : HandleUpdateStatus(act)
    \/ \E s \in Slots : Deliver(s) \/ Serve(s) \/ Lose(s)
    \/ OtherAdmin \/ VoteBegins \/ VoteArrives

\* The timer fires, and what is sent is carried out and answered in the end.
Fairness ==
    /\ WF_vars(Poll)
    /\ \A s \in Slots : WF_vars(Deliver(s)) /\ WF_vars(Serve(s))

Spec == Init /\ [][Next]_vars /\ Fairness

-----------------------------------------------------------------------------
(* Properties.                                                             *)

\* Every part of the page has a value of its kind; at most one update is out,
\* and the page shows that it waits for it.
TypeOK ==
    /\ session \in Statuses /\ votes \in 0..MaxVotes /\ casting \in 0..MaxVotes
    /\ p \in [shown : Statuses \cup {"none"}, tally : 0..MaxVotes,
              loading : BOOLEAN, closing : BOOLEAN, reopening : BOOLEAN, typed : BOOLEAN]
    /\ net \in [Slots -> [op : Gets \cup Updates, status : Statuses \cup {"none"},
                          n : 0..MaxVotes, late : BOOLEAN,
                          answer : {"none", "ok", "failed"}] \cup {Idle}]
    /\ h \in [presses : 0..MaxPresses, upsets : 0..MaxUpsets, behind : BOOLEAN,
              overtaken : BOOLEAN, atClose : 0..MaxVotes]
    /\ Cardinality(Pending(net, Updates)) = IF p.loading THEN 1 ELSE 0
    /\ ~(p.closing /\ p.reopening)

Settled == Pending(net, Gets \cup Updates) = {}

\* When no request is out, the page shows the session's status, however the
\* answers of overlapping fetches were ordered: an old answer that replaces a
\* newer one changes the status shown and so is followed by another fetch.
\* It is behind only of a change that no fetch of its own followed.
SettledShowsServer == Settled => Banner = session \/ h.behind

\* Once the session is closed and the page has settled on it, the counts it
\* shows and exports have every vote that was in the box at the close: the close
\* that the page itself made, or noticed, is followed by a fetch of the counts.
\* What they may miss are votes recorded after the close, which had found the
\* session running; nothing fetches again for those.  They may be short of more
\* only when the last answer with counts was an error or overtaken.
FinalTallyIsComplete ==
    Settled /\ Report.status = "CLOSED" /\ session = "CLOSED" /\ ~h.behind =>
        Report.tally \in h.atClose..votes \/ h.overtaken

\* A page that says that voting runs when it does not finds out by itself.
RunningIsCorrected ==
    p.shown = "RUNNING" /\ session # "RUNNING"
        ~> p.shown # "RUNNING" \/ session = "RUNNING"

=============================================================================
