-------------------------------- MODULE Kiosk --------------------------------
(***************************************************************************)
(* The page of a polling booth: app/evoting/page.tsx.  An officer enters   *)
(* the access code once; then each voter's badge is typed or scanned, the  *)
(* voter is looked up, picks a candidate, confirms, sees the thanks, and   *)
(* the booth resets itself for the next.  The page holds its state in      *)
(* React variables; every look-up and every vote is a request that may be  *)
(* answered late, after the booth has gone on to somebody else.            *)
(*                                                                         *)
(* The API is one atomic step per request here: what it does step by step  *)
(* is Voting's subject.  Not modelled: a camera that outlives its page.    *)
(***************************************************************************)
EXTENDS Requests

CONSTANTS Voters,      \* participants who are checked in
          Candidates,
          None,        \* no voter, no candidate
          Slots,       \* bound: requests out at once
          CountFrom    \* the seconds the thanks stay on the screen

ASSUME KioskAssumption ==
    /\ None \notin Voters \cup Candidates
    /\ CountFrom \in Nat
    /\ IsFiniteSet(Slots) /\ Slots # {}

VARIABLES
    ballots,  \* whom each voter has voted for, at the server
    cookie,   \* whether the browser holds a valid evoting_session cookie
    screen,   \* what EvotingPage renders
    entering, \* loading of AccessCodeGate
    k,        \* the state of BilikKiosk
    net,      \* the requests of the page
    h         \* observations, read by no step:
              \*   chooser: the voter on the screen when the candidate was picked
              \*   castFor: the voter of the vote last sent
              \*   movedOn: the booth was reset or looked a badge up since then
              \*   overtook: this look-up was started while another was out

vars == <<ballots, cookie, screen, entering, k, net, h>>

NoElig == [voter |-> None, ok |-> FALSE]

FreshKiosk ==
    [loading |-> FALSE, elig |-> NoElig, ballot |-> FALSE, sel |-> None,
     confirm |-> FALSE, submitting |-> FALSE, success |-> FALSE,
     count |-> 0, scan |-> FALSE]
FreshHistory ==
    [chooser |-> None, castFor |-> None, movedOn |-> FALSE, overtook |-> FALSE]

\* Requests carry the cookie they were sent with.  home says which component
\* waits: the booth, only its parent (the booth was unmounted), or nobody (the
\* page was loaded anew).
Ask(op, v, c) == [op |-> op, v |-> v, c |-> c, cookie |-> cookie,
                  home |-> "booth", answer |-> "none"]

Init ==
    /\ ballots = [v \in Voters |-> None]
    /\ cookie \in BOOLEAN
    /\ screen = "checking" /\ entering = FALSE
    /\ k = FreshKiosk
    /\ net = Sent(Quiet(Slots), Ask("session", None, None))
    /\ h = FreshHistory

-----------------------------------------------------------------------------
(* What is on the screen, and so what can be pressed.                      *)

InBooth == screen = "kiosk"
SuccessView == InBooth /\ k.success
InputForm == InBooth /\ ~k.success /\ k.elig = NoElig
EligibilityPanel == InBooth /\ ~k.success /\ k.elig # NoElig
BallotPaper == EligibilityPanel /\ k.elig.ok /\ k.ballot
\* The dialog covers the page; it is drawn only while a candidate is picked.
ConfirmModal == InBooth /\ ~k.success /\ k.confirm /\ k.sel # None
\* Slip: the button stays enabled while the vote is sent.
ConfirmEnabledAlways == ConfirmModal
ConfirmEnabled == ConfirmModal /\ ~k.submitting
SendButton == BallotPaper /\ k.sel # None /\ ~ConfirmModal

-----------------------------------------------------------------------------
(* The access code.                                                        *)

SubmitCode ==
    /\ screen = "gate" /\ ~entering /\ CanSend(net, 1)
    /\ entering' = TRUE
    /\ net' = Sent(net, Ask("auth", None, None))
    /\ UNCHANGED <<ballots, cookie, screen, k, h>>

\* BilikKiosk is mounted: its state is new, and it fetches the ballot once.
EnterBooth(n) ==
    /\ screen' = "kiosk" /\ entering' = FALSE
    /\ k' = FreshKiosk /\ h' = FreshHistory
    /\ net' = Sent(n, [Ask("ballot", None, None) EXCEPT !.cookie = cookie'])
    /\ UNCHANGED ballots

SessionAnswered(s) ==
    /\ Answered(net, s, "session") /\ net[s].home = "booth"
    /\ UNCHANGED cookie
    /\ \/ net[s].answer = "ok" /\ EnterBooth(Done(net, s))
       \/ /\ net[s].answer # "ok"
          /\ screen' = "gate" /\ net' = Done(net, s)
          /\ UNCHANGED <<ballots, entering, k, h>>

AuthAnswered(s) ==
    /\ Answered(net, s, "auth") /\ net[s].home = "booth"
    /\ \/ net[s].answer = "ok" /\ cookie' = TRUE /\ EnterBooth(Done(net, s))
       \/ /\ net[s].answer # "ok"
          /\ entering' = FALSE /\ net' = Done(net, s)
          /\ UNCHANGED <<ballots, cookie, screen, k, h>>

\* An answer 401, whichever request and whichever mount it belongs to: the
\* parent unmounts the booth, whose other requests now report to the parent.
SessionExpired(s) ==
    /\ net[s].answer = "denied" /\ net[s].op \in {"ballot", "check", "cast"}
    /\ net[s].home # "nobody"
    /\ screen' = "gate"
    /\ k' = FreshKiosk /\ h' = FreshHistory
    /\ net' = [r \in Slots |->
                 IF r = s THEN Idle
                 ELSE IF InBooth /\ net[r].op # "none" /\ net[r].home = "booth"
                      THEN [net[r] EXCEPT !.home = "parent"] ELSE net[r]]
    /\ UNCHANGED <<ballots, cookie, entering>>

\* Other answers to a component that is gone set the state of nothing.
AnswerIgnored(s) ==
    /\ net[s].op # "none" /\ net[s].answer # "none" /\ net[s].home # "booth"
    /\ net[s].home = "parent" => net[s].answer # "denied"
    /\ net' = Done(net, s)
    /\ UNCHANGED <<ballots, cookie, screen, entering, k, h>>

\* The browser forgets what the page waited for; a vote may still arrive.
Reload ==
    /\ CanSend(net, 1)
    /\ screen' = "checking" /\ entering' = FALSE
    /\ k' = FreshKiosk /\ h' = FreshHistory
    /\ net' = Sent([r \in Slots |-> IF net[r].op = "cast" /\ net[r].answer = "none"
                                    THEN [net[r] EXCEPT !.home = "nobody"] ELSE Idle],
                   Ask("session", None, None))
    /\ UNCHANGED <<ballots, cookie>>

BallotAnswered(s) ==
    /\ Answered(net, s, "ballot") /\ net[s].home = "booth"
    /\ net[s].answer # "denied"
    /\ k' = [k EXCEPT !.ballot = @ \/ net[s].answer = "ok"]
    /\ net' = Done(net, s)
    /\ UNCHANGED <<ballots, cookie, screen, entering, h>>

-----------------------------------------------------------------------------
(* Looking a badge up.                                                     *)

LookupsOut == {s \in Pending(net, {"check"}) : net[s].home = "booth"}

\* What is forgotten with the voter who was on the screen.
Forgotten ==
    [h EXCEPT !.chooser = None, !.movedOn = k.submitting,
              !.castFor = IF k.submitting THEN @ ELSE None]

\* Slip: the candidate picked before stays picked.
ClearedKeepingChoice ==
    [k EXCEPT !.loading = TRUE, !.elig = NoElig, !.success = FALSE]

\* What checkEligibility clears at once.  It leaves the dialog's flag, the flag
\* of a vote on its way, and an earlier look-up, as they are.
Cleared ==
    [k EXCEPT !.loading = TRUE, !.elig = NoElig, !.sel = None, !.success = FALSE]

CheckEligibility(v) ==
    /\ CanSend(net, 1)
    /\ k' = Cleared
    /\ net' = Sent(net, Ask("check", v, None))
    /\ h' = [Forgotten EXCEPT !.overtook = LookupsOut # {},
                             !.chooser = IF k'.sel = None THEN None ELSE h.chooser]
    /\ UNCHANGED <<ballots, cookie, screen, entering>>

ManualCheck(v) == InputForm /\ ~k.scan /\ ~k.loading /\ CheckEligibility(v)

StartScanner ==
    /\ InputForm /\ ~k.scan
    /\ k' = [k EXCEPT !.scan = TRUE]
    /\ UNCHANGED <<ballots, cookie, screen, entering, net, h>>

\* The camera reports fifteen times a second and stopping it takes a while, so
\* it may report the same badge, or the next one, again before it has stopped.
\* It reports even when the form it was started from has left the screen.
Decode(v) == InBooth /\ k.scan /\ CheckEligibility(v)

\* stopScanner has finished, called by the button, by a decoded badge or by a
\* reset; until it has, the camera may report.
ScannerStopped ==
    /\ InBooth /\ k.scan
    /\ k' = [k EXCEPT !.scan = FALSE]
    /\ UNCHANGED <<ballots, cookie, screen, entering, net, h>>

\* No answer is tied to the badge now on the screen: a late one replaces it.
CheckAnswered(s) ==
    /\ Answered(net, s, "check") /\ net[s].home = "booth"
    /\ net[s].answer # "denied"
    /\ k' = [k EXCEPT !.loading = FALSE,
                      !.elig = [voter |-> net[s].v, ok |-> net[s].answer = "ok"]]
    /\ net' = Done(net, s)
    /\ UNCHANGED <<ballots, cookie, screen, entering, h>>

-----------------------------------------------------------------------------
(* Choosing, confirming, casting.                                          *)

Select(c) ==
    /\ BallotPaper /\ ~ConfirmModal
    /\ k' = [k EXCEPT !.sel = c]
    /\ h' = [h EXCEPT !.chooser = k.elig.voter]
    /\ UNCHANGED <<ballots, cookie, screen, entering, net>>

OpenConfirm ==
    /\ SendButton
    /\ k' = [k EXCEPT !.confirm = TRUE]
    /\ UNCHANGED <<ballots, cookie, screen, entering, net, h>>

\* The backdrop and the cross close the dialog even while the vote is sent; only
\* the button that cancels waits for the answer.
CloseConfirm ==
    /\ ConfirmModal
    /\ k' = [k EXCEPT !.confirm = FALSE]
    /\ UNCHANGED <<ballots, cookie, screen, entering, net, h>>

CastVote ==
    /\ ConfirmEnabled /\ k.elig.ok /\ CanSend(net, 1)
    /\ k' = [k EXCEPT !.submitting = TRUE]
    /\ net' = Sent(net, Ask("cast", k.elig.voter, k.sel))
    /\ h' = [h EXCEPT !.castFor = k.elig.voter, !.movedOn = FALSE]
    /\ UNCHANGED <<ballots, cookie, screen, entering>>

\* Slip: every answer is thanked for.
AfterCastAlways(a) ==
    [k EXCEPT !.submitting = FALSE, !.confirm = FALSE, !.success = TRUE,
              !.count = CountFrom]

AfterCast(a) ==
    [k EXCEPT !.submitting = FALSE, !.confirm = FALSE,
              !.success = @ \/ a = "ok",
              !.count = IF a = "ok" THEN CountFrom ELSE @]

CastAnswered(s) ==
    /\ Answered(net, s, "cast") /\ net[s].home = "booth"
    /\ net[s].answer # "denied"
    /\ k' = AfterCast(net[s].answer)
    /\ net' = Done(net, s)
    /\ UNCHANGED <<ballots, cookie, screen, entering, h>>

ResetKiosk ==
    /\ k' = [k EXCEPT !.elig = NoElig, !.sel = None, !.confirm = FALSE,
                      !.success = FALSE]
    /\ h' = Forgotten
    /\ UNCHANGED <<ballots, cookie, screen, entering, net>>

\* "Ganti" in the panel and the button under the thanks.
PressReset ==
    (SuccessView \/ (EligibilityPanel /\ ~ConfirmModal)) /\ ResetKiosk

\* Slip: the effect stops at one.
CountdownShort ==
    /\ SuccessView /\ k.count > 1
    /\ k' = [k EXCEPT !.count = @ - 1]
    /\ UNCHANGED <<ballots, cookie, screen, entering, net, h>>

Countdown ==
    /\ SuccessView
    /\ \/ /\ k.count > 0
          /\ k' = [k EXCEPT !.count = @ - 1]
          /\ UNCHANGED <<ballots, cookie, screen, entering, net, h>>
       \/ k.count = 0 /\ ResetKiosk

-----------------------------------------------------------------------------
(* The server and the world.                                               *)

Votable(v) == ballots[v] = None

\* The answers the API may give.  It fails when the session does not run, when
\* the badge is unknown and when the network does; the page does the same then.
Answers(r) ==
    IF r.op = "auth" THEN {"ok", "failed"}
    ELSE IF ~r.cookie THEN {"denied", "failed"}
    ELSE {"failed"} \cup
         CASE r.op \in {"session", "ballot"} -> {"ok"}
           [] r.op = "check" -> {IF Votable(r.v) THEN "ok" ELSE "no"}
           [] r.op = "cast"  -> IF Votable(r.v) THEN {"ok"} ELSE {}

\* The vote may be recorded and its answer lost.
Serve(s) ==
    /\ Unserved(net, s)
    /\ \E a \in Answers(net[s]) :
          /\ net' = [net EXCEPT ![s].answer = a]
          /\ \/ a = "ok" /\ net[s].op = "cast"
                /\ ballots' = [ballots EXCEPT ![net[s].v] = net[s].c]
             \/ ~(a = "ok" /\ net[s].op = "cast") /\ UNCHANGED ballots
    /\ UNCHANGED <<cookie, screen, entering, k, h>>

ServeAndLose(s) ==
    /\ Unserved(net, s) /\ net[s].op = "cast" /\ "ok" \in Answers(net[s])
    /\ ballots' = [ballots EXCEPT ![net[s].v] = net[s].c]
    /\ net' = [net EXCEPT ![s].answer = "failed"]
    /\ UNCHANGED <<cookie, screen, entering, k, h>>

CookieExpires ==
    /\ cookie /\ cookie' = FALSE
    /\ UNCHANGED <<ballots, screen, entering, k, net, h>>

-----------------------------------------------------------------------------
Deliver(s) ==
    \/ SessionAnswered(s) \/ AuthAnswered(s) \/ BallotAnswered(s)
    \/ CheckAnswered(s) \/ CastAnswered(s) \/ SessionExpired(s) \/ AnswerIgnored(s)

Operator ==
    \/ SubmitCode \/ StartScanner \/ OpenConfirm \/ CloseConfirm
    \/ CastVote \/ PressReset \/ Reload
    \/ \E v \in Voters : ManualCheck(v) \/ Decode(v)
    \/ \E c \in Candidates : Select(c)

Next ==
    \/ Operator \/ ScannerStopped \/ Countdown \/ CookieExpires
    \/ \E s \in Slots : Deliver(s) \/ Serve(s) \/ ServeAndLose(s)

\* Timers fire and every request is answered in the end, if only by an error.
\* Nobody has to press anything.
Fairness ==
    /\ WF_vars(Countdown)
    /\ \A s \in Slots : WF_vars(Deliver(s)) /\ WF_vars(Serve(s))

Spec == Init /\ [][Next]_vars /\ Fairness

-----------------------------------------------------------------------------
(* Properties.                                                             *)

Request ==
    [op : {"session", "auth", "ballot", "check", "cast"}, v : Voters \cup {None},
     c : Candidates \cup {None}, cookie : BOOLEAN,
     home : {"booth", "parent", "nobody"},
     answer : {"none", "ok", "no", "failed", "denied"}]

\* Every part of the page has a value of its kind; the booth waits for one vote
\* at most, and shows that it waits.
TypeOK ==
    /\ ballots \in [Voters -> Candidates \cup {None}]
    /\ cookie \in BOOLEAN /\ entering \in BOOLEAN
    /\ screen \in {"checking", "gate", "kiosk"}
    /\ k \in [loading : BOOLEAN, elig : [voter : Voters \cup {None}, ok : BOOLEAN],
              ballot : BOOLEAN, sel : Candidates \cup {None}, confirm : BOOLEAN,
              submitting : BOOLEAN, success : BOOLEAN, count : 0..CountFrom,
              scan : BOOLEAN]
    /\ h \in [chooser : Voters \cup {None}, castFor : Voters \cup {None},
              movedOn : BOOLEAN, overtook : BOOLEAN]
    /\ net \in [Slots -> Request \cup {Idle}]
    /\ LET out(op) == {s \in Slots : net[s].op = op /\ net[s].home = "booth"}
       IN  /\ out("cast") # {} => k.submitting
           /\ Cardinality(out("cast")) <= 1
    /\ k.elig.ok => k.elig.voter \in Voters

\* What can be sent for a voter was picked by that voter: a choice does not
\* outlive its voter on the screen (checkEligibility and resetKiosk drop it),
\* unless the look-up was started while another was out, which the camera can
\* do and the form cannot: the late answer then puts its voter over the choice.
ChoiceIsOfVoterOnScreen ==
    k.elig.ok /\ k.sel # None => h.chooser = k.elig.voter \/ h.overtook

\* The thanks are shown only once the vote last sent is recorded, whatever came in
\* between, and over the voter who cast it unless the booth was reset or looked a
\* badge up while the vote was out, or look-ups overlapped: an answer that is late
\* in one of these ways thanks whoever is on the screen by then.
SuccessIsTheirs ==
    SuccessView => /\ ballots[h.castFor] # None
                   /\ k.elig.voter = h.castFor \/ h.movedOn \/ h.overtook

\* After the thanks the booth is free for the next voter without a hand's help.
KioskFreesItself == SuccessView ~> ~SuccessView
=============================================================================
