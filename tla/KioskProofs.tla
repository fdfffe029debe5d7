------------------------------ MODULE KioskProofs -----------------------------
(***************************************************************************)
(* Proofs about Kiosk, for any voters, candidates and number of requests   *)
(* out at once.  The properties are not inductive: what a late answer may  *)
(* do depends on which requests can be out, so the invariant says who      *)
(* waits for what.                                                         *)
(***************************************************************************)
EXTENDS Kiosk, FiniteSetTheorems, TLAPS

-----------------------------------------------------------------------------
(* What a send does to the slots.                                         *)

\* A page that may send has a slot to send with.
LEMMA CanSendFree ==
    ASSUME NEW n, CanSend(n, 1)
    PROVE  FreeSlots(n) # {}
BY FS_EmptySet DEF CanSend

\* A request takes one free slot, and the others stay.
LEMMA SentFills ==
    ASSUME NEW n, NEW r, FreeSlots(n) # {}
    PROVE  \E s \in DOMAIN n : n[s].op = "none" /\ Sent(n, r) = [n EXCEPT ![s] = r]
<1>1. PICK s \in FreeSlots(n) : Sent(n, r) = [n EXCEPT ![s] = r]
  BY DEF Sent
<1> QED
  BY <1>1 DEF FreeSlots

-----------------------------------------------------------------------------
(* The invariant.                                                        *)

Screens == {"checking", "gate", "kiosk"}
Entries == {"session", "auth"}
Calls == {"ballot", "check", "cast"}
Boothed(s, ops) == net[s].op \in ops /\ net[s].home = "booth"

KioskType ==
    [loading : BOOLEAN, elig : [voter : Voters \cup {None}, ok : BOOLEAN],
     ballot : BOOLEAN, sel : Candidates \cup {None}, confirm : BOOLEAN,
     submitting : BOOLEAN, success : BOOLEAN, count : 0..CountFrom, scan : BOOLEAN]
HistoryType ==
    [chooser : Voters \cup {None}, castFor : Voters \cup {None},
     movedOn : BOOLEAN, overtook : BOOLEAN]

\* The parts have values of their kinds, and a request about a voter names one.
Typed ==
    /\ ballots \in [Voters -> Candidates \cup {None}]
    /\ cookie \in BOOLEAN /\ entering \in BOOLEAN
    /\ screen \in Screens
    /\ k \in KioskType /\ h \in HistoryType
    /\ k.elig.ok => k.elig.voter \in Voters
    /\ net \in [Slots -> Request \cup {Idle}]
    /\ \A s \in Slots : /\ net[s].op \in {"check", "cast"} => net[s].v \in Voters
                        /\ net[s].op = "cast" => net[s].c \in Candidates

\* One request at most asks for entry, on the screen that waits for it, and the
\* booth waits for answers only while it is shown.
Entry ==
    /\ \A s \in Slots :
          /\ net[s].op \in Entries => net[s].home = "booth"
          /\ net[s].op = "session" => screen = "checking"
          /\ net[s].op = "auth" => screen = "gate" /\ entering
          /\ Boothed(s, Calls) => screen = "kiosk"
          /\ net[s].op # "none" /\ net[s].home = "parent" => screen # "checking"
    /\ \A s, t \in Slots : net[s].op \in Entries /\ net[t].op \in Entries => s = t

OverTheirs == k.elig.voter = h.castFor \/ h.movedOn \/ h.overtook

\* The booth waits for one vote at most, that of the voter it was last sent for.
Casting ==
    /\ \A s \in Slots : Boothed(s, {"cast"}) =>
          /\ k.submitting /\ net[s].v = h.castFor
          /\ net[s].answer = "ok" => ballots[h.castFor] # None
    /\ \A s, t \in Slots : Boothed(s, {"cast"}) /\ Boothed(t, {"cast"}) => s = t
    /\ k.submitting \/ k.success => h.castFor \in Voters /\ OverTheirs
    /\ k.success => ~k.submitting /\ ballots[h.castFor] # None

\* Unless look-ups overlapped, one is out at most, and nobody is on the screen
\* while it is.
Looking ==
    ~h.overtook =>
       /\ \A s, t \in Slots : Boothed(s, {"check"}) /\ Boothed(t, {"check"}) => s = t
       /\ \A s \in Slots : Boothed(s, {"check"}) => k.elig = NoElig /\ k.sel = None

IInv == Typed /\ Entry /\ Casting /\ Looking /\ ChoiceIsOfVoterOnScreen

-----------------------------------------------------------------------------
LEMMA RequestType ==
    ASSUME NEW op \in {"session", "auth", "ballot", "check", "cast"},
           NEW v \in Voters \cup {None}, NEW c \in Candidates \cup {None}, cookie \in BOOLEAN
    PROVE  /\ Ask(op, v, c) \in Request
           /\ Ask(op, v, c).op = op /\ Ask(op, v, c).v = v /\ Ask(op, v, c).c = c
           /\ Ask(op, v, c).home = "booth" /\ Ask(op, v, c).answer = "none"
BY DEF Ask, Request

LEMMA FreshTypes == FreshKiosk \in KioskType /\ FreshHistory \in HistoryType
BY KioskAssumption DEF FreshKiosk, FreshHistory, KioskType, HistoryType, NoElig

\* A step that shows or hides something leaves the voter, the choice and what is
\* awaited alone.
LEMMA ShownOnly ==
    ASSUME IInv, k' \in KioskType,
           ballots' = ballots /\ cookie' = cookie /\ screen' = screen /\ entering' = entering,
           net' = net /\ h' = h,
           k'.elig = k.elig /\ k'.sel = k.sel,
           k'.submitting = k.submitting /\ k'.success = k.success
    PROVE  IInv'
<1>1. Typed'
  BY DEF IInv, Typed
<1>2. Entry' /\ Looking' /\ ChoiceIsOfVoterOnScreen'
  BY DEF IInv, Entry, Looking, ChoiceIsOfVoterOnScreen, Boothed
<1>3. Casting'
  BY DEF IInv, Casting, OverTheirs, Boothed
<1> QED
  BY <1>1, <1>2, <1>3 DEF IInv

\* Actions that touch only what is on the screen.
LEMMA ScreenSteps ==
    ASSUME IInv,
           \/ StartScanner \/ ScannerStopped \/ OpenConfirm \/ CloseConfirm
           \/ PressReset \/ Countdown \/ \E c \in Candidates : Select(c)
    PROVE  IInv'
<1> USE KioskAssumption
<1>0. k \in KioskType
  BY DEF IInv, Typed
<1>1. CASE StartScanner
  BY <1>0, <1>1, ShownOnly DEF StartScanner, KioskType
<1>2. CASE ScannerStopped
  BY <1>0, <1>2, ShownOnly DEF ScannerStopped, KioskType
<1>3. CASE OpenConfirm
  BY <1>0, <1>3, ShownOnly DEF OpenConfirm, KioskType
<1>4. CASE CloseConfirm
  BY <1>0, <1>4, ShownOnly DEF CloseConfirm, KioskType
<1>5. ASSUME ResetKiosk
      PROVE  IInv'
  <2>1. Typed'
    BY <1>5 DEF IInv, Typed, ResetKiosk, Forgotten, KioskType, HistoryType, NoElig
  <2>2. Casting'
    BY <1>5 DEF IInv, Typed, Casting, ResetKiosk, Forgotten, KioskType, HistoryType, NoElig, Boothed, OverTheirs
  <2>3. Entry' /\ Looking' /\ ChoiceIsOfVoterOnScreen'
    BY <1>5 DEF IInv, Typed, Entry, Looking, ChoiceIsOfVoterOnScreen, ResetKiosk, Forgotten, KioskType, HistoryType, NoElig, Boothed
  <2> QED
    BY <2>1, <2>2, <2>3 DEF IInv
<1>6. CASE PressReset
  BY <1>5, <1>6 DEF PressReset
<1>7. CASE Countdown
  <2>1. CASE k.count > 0 /\ k' = [k EXCEPT !.count = @ - 1] /\ UNCHANGED <<ballots, cookie, screen, entering, net, h>>
    <3>1. k.count - 1 \in Nat /\ k.count - 1 <= k.count
      BY <1>0, <2>1 DEF KioskType
    <3> QED
      BY <1>0, <2>1, <3>1, ShownOnly DEF KioskType
  <2> QED
    BY <1>5, <1>7, <2>1 DEF Countdown
<1>8. ASSUME NEW c \in Candidates, Select(c)
      PROVE  IInv'
  BY <1>8 DEF IInv, Typed, Entry, Casting, Looking, ChoiceIsOfVoterOnScreen, Select, BallotPaper, EligibilityPanel, KioskType, HistoryType, Boothed, OverTheirs, NoElig
<1> QED
  BY <1>1, <1>2, <1>3, <1>4, <1>6, <1>7, <1>8

-----------------------------------------------------------------------------
\* Every request is one of the five, and says whom it is about.
LEMMA NetType ==
    ASSUME IInv, NEW r \in Request, CanSend(net, 1),
           r.op \in {"check", "cast"} => r.v \in Voters,
           r.op = "cast" => r.c \in Candidates
    PROVE  \E s \in Slots :
              /\ net[s].op = "none" /\ Sent(net, r)[s] = r
              /\ \A t \in Slots \ {s} : Sent(net, r)[t] = net[t]
              /\ Sent(net, r) \in [Slots -> Request \cup {Idle}]
<1>1. net \in [Slots -> Request \cup {Idle}]
  BY DEF IInv, Typed
<1>2. PICK s \in DOMAIN net : net[s].op = "none" /\ Sent(net, r) = [net EXCEPT ![s] = r]
  BY CanSendFree, SentFills
<1> QED
  BY <1>1, <1>2

LEMMA LookupStep ==
    ASSUME IInv, NEW v \in Voters, CheckEligibility(v), InBooth
    PROVE  IInv'
<1> DEFINE r == Ask("check", v, None)
<1>1. /\ r \in Request /\ r.op = "check" /\ r.v = v /\ r.home = "booth"
      /\ r.answer = "none"
  BY RequestType DEF IInv, Typed
<1> HIDE DEF r
<1>2. CanSend(net, 1) /\ net' = Sent(net, r) /\ k' = Cleared
  BY DEF CheckEligibility, r
<1>3. PICK s \in Slots : /\ net[s].op = "none" /\ net'[s] = r
                         /\ \A t \in Slots \ {s} : net'[t] = net[t]
                         /\ net' \in [Slots -> Request \cup {Idle}]
  BY <1>1, <1>2, NetType
<1>4. /\ k' \in KioskType /\ k'.elig = NoElig /\ k'.sel = None /\ ~k'.success
      /\ k'.submitting = k.submitting
  BY <1>2 DEF IInv, Typed, Cleared, KioskType, NoElig
<1>5. /\ h' \in HistoryType /\ h'.overtook = (LookupsOut # {})
      /\ h'.movedOn = k.submitting
      /\ k.submitting => h'.castFor = h.castFor
  BY DEF IInv, Typed, CheckEligibility, Forgotten, HistoryType, KioskType
<1>6. /\ ballots' = ballots /\ screen' = screen /\ entering' = entering
      /\ cookie' \in BOOLEAN /\ entering' \in BOOLEAN
  BY DEF IInv, Typed, CheckEligibility
<1>7. Typed'
  <2>1. \A t \in Slots : /\ net'[t].op \in {"check", "cast"} => net'[t].v \in Voters
                         /\ net'[t].op = "cast" => net'[t].c \in Candidates
    BY <1>1, <1>3 DEF IInv, Typed
  <2> QED
    BY <2>1, <1>3, <1>4, <1>5, <1>6 DEF IInv, Typed, NoElig
<1>8. Entry'
  BY <1>1, <1>3, <1>6 DEF IInv, Entry, Boothed, Entries, Calls, InBooth
<1>9. Casting'
  BY <1>1, <1>3, <1>4, <1>5, <1>6 DEF IInv, Typed, Casting, Boothed, OverTheirs
<1>10. LookupsOut = {} => \A t \in Slots : ~Boothed(t, {"check"})
  BY DEF LookupsOut, Pending, Boothed, IInv, Typed
<1>11. Looking' /\ ChoiceIsOfVoterOnScreen'
  BY <1>1, <1>3, <1>4, <1>5, <1>10 DEF Looking, ChoiceIsOfVoterOnScreen, Boothed, NoElig
<1> QED
  BY <1>7, <1>8, <1>9, <1>11 DEF IInv

LEMMA CastStep ==
    ASSUME IInv, CastVote
    PROVE  IInv'
<1> DEFINE r == Ask("cast", k.elig.voter, k.sel)
<1>0. /\ k.elig.ok /\ k.elig.voter \in Voters /\ k.sel \in Candidates
      /\ ~k.submitting /\ ~k.success /\ screen = "kiosk"
  BY DEF IInv, Typed, KioskType, CastVote, ConfirmEnabled, ConfirmModal, InBooth
<1>1. /\ r \in Request /\ r.op = "cast" /\ r.v = k.elig.voter /\ r.c = k.sel
      /\ r.home = "booth" /\ r.answer = "none"
  BY <1>0, RequestType DEF IInv, Typed
<1> HIDE DEF r
<1>2. CanSend(net, 1) /\ net' = Sent(net, r)
  BY DEF CastVote, r
<1>3. PICK s \in Slots : /\ net[s].op = "none" /\ net'[s] = r
                         /\ \A t \in Slots \ {s} : net'[t] = net[t]
                         /\ net' \in [Slots -> Request \cup {Idle}]
  BY <1>0, <1>1, <1>2, NetType
<1>4. /\ k' \in KioskType /\ k'.elig = k.elig /\ k'.sel = k.sel
      /\ k'.submitting /\ k'.success = k.success
  BY DEF IInv, Typed, CastVote, KioskType
<1>5. /\ h' \in HistoryType /\ h'.overtook = h.overtook /\ h'.chooser = h.chooser
      /\ h'.castFor = k.elig.voter
  BY DEF IInv, Typed, CastVote, HistoryType, KioskType
<1>6. /\ ballots' = ballots /\ screen' = screen /\ entering' = entering
      /\ cookie' \in BOOLEAN /\ entering' \in BOOLEAN
  BY DEF IInv, Typed, CastVote
<1>7. Typed'
  <2>1. \A t \in Slots : /\ net'[t].op \in {"check", "cast"} => net'[t].v \in Voters
                         /\ net'[t].op = "cast" => net'[t].c \in Candidates
    BY <1>0, <1>1, <1>3 DEF IInv, Typed
  <2> QED
    BY <2>1, <1>0, <1>3, <1>4, <1>5, <1>6 DEF IInv, Typed
<1>8. Entry'
  BY <1>0, <1>1, <1>3, <1>6 DEF IInv, Entry, Boothed, Entries, Calls
<1>9. Casting'
  BY <1>0, <1>1, <1>3, <1>4, <1>5, <1>6 DEF IInv, Casting, Boothed, OverTheirs
<1>10. Looking' /\ ChoiceIsOfVoterOnScreen'
  BY <1>1, <1>3, <1>4, <1>5 DEF IInv, Looking, ChoiceIsOfVoterOnScreen, Boothed
<1> QED
  BY <1>7, <1>8, <1>9, <1>10 DEF IInv

\* The officer at the gate: no request asks for entry yet.
LEMMA CodeStep ==
    ASSUME IInv, SubmitCode
    PROVE  IInv'
<1> DEFINE r == Ask("auth", None, None)
<1>1. /\ r \in Request /\ r.op = "auth" /\ r.home = "booth" /\ r.answer = "none"
  <2>1. cookie \in BOOLEAN
    BY DEF IInv, Typed
  <2> QED
    BY <2>1, RequestType
<1> HIDE DEF r
<1>2. CanSend(net, 1) /\ net' = Sent(net, r)
  BY DEF SubmitCode, r
<1>3. PICK s \in Slots : /\ net[s].op = "none" /\ net'[s] = r
                         /\ \A t \in Slots \ {s} : net'[t] = net[t]
                         /\ net' \in [Slots -> Request \cup {Idle}]
  BY <1>1, <1>2, NetType
<1>4. /\ screen = "gate" /\ ~entering /\ entering' = TRUE
      /\ ballots' = ballots /\ screen' = screen /\ k' = k /\ h' = h
      /\ cookie' \in BOOLEAN
  BY DEF IInv, Typed, SubmitCode
<1>5. Typed'
  <2>1. \A t \in Slots : /\ net'[t].op \in {"check", "cast"} => net'[t].v \in Voters
                         /\ net'[t].op = "cast" => net'[t].c \in Candidates
    BY <1>1, <1>3 DEF IInv, Typed
  <2> QED
    BY <2>1, <1>3, <1>4 DEF IInv, Typed
<1>6. Entry'
  BY <1>1, <1>3, <1>4 DEF IInv, Entry, Boothed, Entries, Calls
<1>7. Casting' /\ Looking' /\ ChoiceIsOfVoterOnScreen'
  BY <1>1, <1>3, <1>4 DEF IInv, Casting, Looking, ChoiceIsOfVoterOnScreen, Boothed, OverTheirs
<1> QED
  BY <1>5, <1>6, <1>7 DEF IInv

-----------------------------------------------------------------------------
(* Answers.                                                                *)

\* Once s is answered, its slot is idle and the others are as they were.
LEMMA Finished ==
    ASSUME IInv, NEW s \in Slots
    PROVE  /\ Done(net, s) \in [Slots -> Request \cup {Idle}]
           /\ Done(net, s)[s] = Idle
           /\ \A t \in Slots \ {s} : Done(net, s)[t] = net[t]
BY DEF IInv, Typed, Done

\* Whoever enters finds a booth that waits for nothing but its ballot paper.
LEMMA EnterStep ==
    ASSUME IInv, NEW s \in Slots, net[s].op \in Entries, cookie' \in BOOLEAN,
           EnterBooth(Done(net, s))
    PROVE  IInv'
<1> DEFINE r == [Ask("ballot", None, None) EXCEPT !.cookie = cookie']
<1>1. r \in Request /\ r.op = "ballot" /\ r.home = "booth"
  BY DEF Ask, Request, IInv, Typed
<1> HIDE DEF r
<1> DEFINE n == Done(net, s)
<1>2. /\ n \in [Slots -> Request \cup {Idle}] /\ n[s] = Idle
      /\ \A t \in Slots \ {s} : n[t] = net[t]
  BY Finished
<1> HIDE DEF n
<1>3. net' = Sent(n, r)
  BY DEF EnterBooth, n, r
<1>4. FreeSlots(n) # {}
  BY <1>2 DEF FreeSlots, Idle
<1>5. PICK u \in Slots : /\ net'[u] = r
                         /\ \A t \in Slots \ {u} : net'[t] = n[t]
                         /\ net' \in [Slots -> Request \cup {Idle}]
  <2>1. PICK u \in DOMAIN n : Sent(n, r) = [n EXCEPT ![u] = r]
    BY <1>4, SentFills
  <2> QED
    BY <2>1, <1>1, <1>2, <1>3
<1>6. /\ screen' = "kiosk" /\ entering' \in BOOLEAN /\ k' = FreshKiosk /\ h' = FreshHistory
      /\ ballots' = ballots
  BY DEF EnterBooth
<1>7. \A t \in Slots : ~Boothed(t, Calls)
  BY DEF IInv, Entry, Entries
<1>8. \A t \in Slots \ {u} : \/ net'[t] = Idle
                             \/ net'[t] = net[t] /\ net[t].op \notin Entries
  BY <1>2, <1>5 DEF IInv, Entry
<1>9. \A t \in Slots : /\ net'[t].op \notin Entries
                       /\ ~Boothed(t, {"check", "cast"})'
  BY <1>1, <1>5, <1>7, <1>8 DEF Boothed, Calls, Entries, Idle
<1>10. Typed'
  <2>1. \A t \in Slots : /\ net'[t].op \in {"check", "cast"} => net'[t].v \in Voters
                         /\ net'[t].op = "cast" => net'[t].c \in Candidates
    BY <1>1, <1>5, <1>8 DEF IInv, Typed, Idle
  <2> QED
    BY <2>1, <1>5, <1>6, FreshTypes DEF IInv, Typed, Screens, FreshKiosk, NoElig
<1>11. Entry'
  BY <1>6, <1>9 DEF Entry, Entries
<1>12. Casting' /\ Looking' /\ ChoiceIsOfVoterOnScreen'
  BY <1>6, <1>9 DEF Casting, Looking, ChoiceIsOfVoterOnScreen, Boothed, FreshKiosk, NoElig
<1> QED
  BY <1>10, <1>11, <1>12 DEF IInv

\* A page loaded anew waits for its session; nobody waits for its votes.
LEMMA ReloadStep ==
    ASSUME IInv, Reload
    PROVE  IInv'
<1> DEFINE r == Ask("session", None, None)
           n == [t \in Slots |-> IF net[t].op = "cast" /\ net[t].answer = "none"
                                 THEN [net[t] EXCEPT !.home = "nobody"] ELSE Idle]
<1>1. r \in Request /\ r.op = "session" /\ r.home = "booth"
  <2>1. cookie \in BOOLEAN
    BY DEF IInv, Typed
  <2> QED
    BY <2>1, RequestType
<1>2. net' = Sent(n, r) /\ CanSend(net, 1)
  BY DEF Reload
<1> HIDE DEF r
<1>3. \A t \in Slots : \/ n[t] = Idle
                       \/ /\ n[t] \in Request /\ n[t].op = "cast" /\ n[t].home = "nobody"
                          /\ n[t].v \in Voters /\ n[t].c \in Candidates
  BY DEF IInv, Typed, Request, Idle
<1>4. n \in [Slots -> Request \cup {Idle}]
  BY <1>3
<1>5. FreeSlots(n) # {}
  <2>1. PICK u \in Slots : net[u].op = "none"
    BY <1>2, CanSendFree DEF FreeSlots, IInv, Typed
  <2> QED
    BY <2>1 DEF FreeSlots, Idle
<1> HIDE DEF n
<1>6. PICK u \in Slots : /\ net'[u] = r
                         /\ \A t \in Slots \ {u} : net'[t] = n[t]
                         /\ net' \in [Slots -> Request \cup {Idle}]
  <2>1. PICK u \in DOMAIN n : Sent(n, r) = [n EXCEPT ![u] = r]
    BY <1>5, SentFills
  <2> QED
    BY <2>1, <1>1, <1>2, <1>4
<1>7. /\ screen' = "checking" /\ entering' \in BOOLEAN /\ k' = FreshKiosk /\ h' = FreshHistory
      /\ ballots' = ballots /\ cookie' \in BOOLEAN
  BY DEF Reload, IInv, Typed
<1>8. /\ \A t \in Slots \ {u} : net'[t].op \notin Entries
      /\ \A t \in Slots : ~Boothed(t, Calls)'
      /\ \A t \in Slots : net'[t].op # "none" => net'[t].home # "parent"
  BY <1>1, <1>3, <1>6 DEF Boothed, Calls, Entries, Idle
<1>9. Typed'
  <2>1. \A t \in Slots : /\ net'[t].op \in {"check", "cast"} => net'[t].v \in Voters
                         /\ net'[t].op = "cast" => net'[t].c \in Candidates
    BY <1>1, <1>3, <1>6 DEF Idle
  <2> QED
    BY <2>1, <1>6, <1>7, FreshTypes DEF IInv, Typed, Screens, FreshKiosk, NoElig
<1>10. Entry'
  BY <1>1, <1>6, <1>7, <1>8 DEF Entry, Entries
<1>11. Casting' /\ Looking' /\ ChoiceIsOfVoterOnScreen'
  BY <1>7, <1>8 DEF Casting, Looking, ChoiceIsOfVoterOnScreen, Boothed, FreshKiosk, NoElig, Calls
<1> QED
  BY <1>9, <1>10, <1>11 DEF IInv

\* A slot that falls idle costs the invariant nothing while the page stays.
LEMMA FallsIdle ==
    ASSUME IInv, NEW s \in Slots, net' = Done(net, s), cookie' \in BOOLEAN,
           entering' \in BOOLEAN, screen' \in Screens, screen = "kiosk" => screen' = "kiosk",
           (net[s].op \in Entries /\ screen' # "checking") \/ UNCHANGED <<screen, entering>>,
           UNCHANGED <<ballots, k, h>>
    PROVE  IInv'
<1>1. /\ net' \in [Slots -> Request \cup {Idle}] /\ net'[s].op = "none"
      /\ \A t \in Slots \ {s} : net'[t] = net[t]
  BY Finished DEF Idle
<1>2. ballots' = ballots /\ k' = k /\ h' = h
  OBVIOUS
<1>3. Typed'
  BY <1>1, <1>2 DEF IInv, Typed
<1>4. \A t \in Slots \ {s} : /\ net'[t].op = net[t].op /\ net'[t].home = net[t].home
                             /\ net'[t].v = net[t].v /\ net'[t].answer = net[t].answer
  BY <1>1
<1>5. Entry'
  <2>1. CASE net[s].op \in Entries /\ screen' # "checking"
    BY <2>1, <1>1, <1>4 DEF IInv, Entry, Boothed, Entries, Calls
  <2>2. CASE screen' = screen /\ entering' = entering
    BY <2>2, <1>1, <1>4 DEF IInv, Entry, Boothed, Entries, Calls
  <2> QED
    BY <2>1, <2>2
<1>6. Casting' /\ Looking' /\ ChoiceIsOfVoterOnScreen'
  BY <1>1, <1>2, <1>4 DEF IInv, Casting, Looking, ChoiceIsOfVoterOnScreen, Boothed, OverTheirs
<1> QED
  BY <1>3, <1>5, <1>6 DEF IInv

LEMMA EntryAnswers ==
    ASSUME IInv, NEW s \in Slots, SessionAnswered(s) \/ AuthAnswered(s) \/ AnswerIgnored(s)
    PROVE  IInv'
<1>1. CASE SessionAnswered(s)
  <2>1. net[s].op \in Entries /\ cookie' \in BOOLEAN /\ screen = "checking"
    BY <1>1 DEF SessionAnswered, Answered, Entries, IInv, Typed, Entry
  <2>2. CASE EnterBooth(Done(net, s))
    BY <2>1, <2>2, EnterStep
  <2>3. CASE net[s].answer # "ok"
    BY <1>1, <2>1, <2>3, FallsIdle DEF SessionAnswered, Screens, IInv, Typed
  <2> QED
    BY <1>1, <2>2, <2>3 DEF SessionAnswered
<1>2. CASE AuthAnswered(s)
  <2>1. net[s].op \in Entries /\ cookie' \in BOOLEAN /\ screen = "gate"
    BY <1>2 DEF AuthAnswered, Answered, Entries, IInv, Typed, Entry
  <2>2. CASE EnterBooth(Done(net, s))
    BY <2>1, <2>2, EnterStep
  <2>3. CASE net[s].answer # "ok"
    BY <1>2, <2>1, <2>3, FallsIdle DEF AuthAnswered, Screens, IInv, Typed
  <2> QED
    BY <1>2, <2>2, <2>3 DEF AuthAnswered
<1>3. CASE AnswerIgnored(s)
  BY <1>3, FallsIdle DEF AnswerIgnored, Screens, IInv, Typed
<1> QED
  BY <1>1, <1>2, <1>3

\* A booth that is left waits for nothing; its parent may still hear a refusal.
LEMMA ExpiredStep ==
    ASSUME IInv, NEW s \in Slots, SessionExpired(s)
    PROVE  IInv'
<1>1. /\ screen' = "gate" /\ k' = FreshKiosk /\ h' = FreshHistory /\ ballots' = ballots
      /\ cookie' \in BOOLEAN /\ entering' \in BOOLEAN /\ entering' = entering
  BY DEF SessionExpired, IInv, Typed
<1>2. \A t \in Slots : \/ net'[t] = Idle
                       \/ net'[t] = net[t] /\ ~(InBooth /\ net[t].op # "none" /\ net[t].home = "booth")
                       \/ net'[t] = [net[t] EXCEPT !.home = "parent"] /\ net[t] \in Request /\ InBooth
  BY DEF SessionExpired, IInv, Typed, Idle
<1>3. net' \in [Slots -> Request \cup {Idle}]
  <2>1. \A t \in Slots : net'[t] \in Request \cup {Idle}
    <3>1. ASSUME NEW q \in Request
          PROVE  [q EXCEPT !.home = "parent"] \in Request
      BY <3>1 DEF Request
    <3> SUFFICES ASSUME NEW t \in Slots
                 PROVE  net'[t] \in Request \cup {Idle}
      OBVIOUS
    <3>2. net[t] \in Request \cup {Idle}
      BY DEF IInv, Typed
    <3>3. CASE net'[t] = Idle
      BY <3>3
    <3>4. CASE net'[t] = net[t]
      BY <3>2, <3>4
    <3>5. CASE net'[t] = [net[t] EXCEPT !.home = "parent"] /\ net[t] \in Request
      BY <3>1, <3>5
    <3> QED
      BY <1>2, <3>3, <3>4, <3>5
  <2>2. net' = [t \in Slots |-> net'[t]]
    BY DEF SessionExpired
  <2> QED
    BY <2>1, <2>2
<1>4. ASSUME NEW t \in Slots
      PROVE  /\ net'[t].op \in {"check", "cast"} => net'[t].v \in Voters
             /\ net'[t].op = "cast" => net'[t].c \in Candidates
             /\ net'[t].op \in Entries => net'[t] = net[t] /\ ~InBooth
             /\ ~Boothed(t, Calls)'
  <2>1. CASE net'[t] = Idle
    BY <2>1 DEF Idle, Entries, Boothed, Calls
  <2>2. CASE net'[t] = net[t] /\ ~(InBooth /\ net[t].op # "none" /\ net[t].home = "booth")
    <3>1. (~Boothed(t, Calls) /\ ~Boothed(t, Entries)) \/ ~InBooth
      BY <2>2 DEF Boothed, Calls, Entries
    <3>2. ~Boothed(t, Calls)
      BY <3>1 DEF IInv, Entry, InBooth
    <3>3. net[t].op \in Entries => ~InBooth
      BY DEF IInv, Entry, InBooth, Entries
    <3> QED
      BY <2>2, <3>2, <3>3 DEF IInv, Typed, Boothed
  <2>3. CASE net'[t] = [net[t] EXCEPT !.home = "parent"] /\ net[t] \in Request /\ InBooth
    <3>1. /\ net'[t].op = net[t].op /\ net'[t].v = net[t].v /\ net'[t].c = net[t].c
          /\ net'[t].home = "parent"
      BY <2>3 DEF Request
    <3>2. net[t].op \notin Entries
      BY <2>3 DEF IInv, Entry, InBooth, Entries
    <3> QED
      BY <3>1, <3>2 DEF IInv, Typed, Boothed
  <2> QED
    BY <1>2, <2>1, <2>2, <2>3
<1>5. Typed'
  BY <1>1, <1>3, <1>4, FreshTypes DEF Typed, Screens, FreshKiosk, NoElig, IInv
<1>6. Entry'
  <2>1. screen # "checking"
    BY DEF SessionExpired, IInv, Entry, Boothed, Calls, Typed, Request, Idle
  <2>2. \A t \in Slots : net'[t].op \in Entries =>
          net'[t] = net[t] /\ net'[t].op = "auth" /\ net'[t].home = "booth" /\ entering'
    BY <1>1, <1>4, <2>1 DEF IInv, Entry, Entries
  <2>3. \A t, u \in Slots : net'[t].op \in Entries /\ net'[u].op \in Entries => t = u
    BY <2>2 DEF IInv, Entry
  <2> QED
    BY <1>1, <1>4, <2>2, <2>3 DEF Entry, Entries
<1>7. Casting' /\ Looking' /\ ChoiceIsOfVoterOnScreen'
  BY <1>1, <1>4 DEF Casting, Looking, ChoiceIsOfVoterOnScreen, Boothed, FreshKiosk, NoElig, Calls
<1> QED
  BY <1>5, <1>6, <1>7 DEF IInv

LEMMA BallotStep ==
    ASSUME IInv, NEW s \in Slots, BallotAnswered(s)
    PROVE  IInv'
<1>1. /\ net' \in [Slots -> Request \cup {Idle}] /\ net'[s].op = "none"
      /\ \A t \in Slots \ {s} : net'[t] = net[t]
  BY Finished DEF BallotAnswered, Idle
<1>2. /\ ballots' = ballots /\ screen' = screen /\ entering' = entering /\ h' = h
      /\ cookie' \in BOOLEAN /\ entering' \in BOOLEAN
  BY DEF BallotAnswered, IInv, Typed
<1>3. /\ k' \in KioskType /\ k'.elig = k.elig /\ k'.sel = k.sel
      /\ k'.submitting = k.submitting /\ k'.success = k.success
  BY DEF BallotAnswered, IInv, Typed, KioskType
<1>4. Typed'
  BY <1>1, <1>2, <1>3 DEF IInv, Typed
<1>5. Entry'
  BY <1>1, <1>2 DEF IInv, Entry, Boothed, Entries, Calls
<1>6. Casting' /\ Looking' /\ ChoiceIsOfVoterOnScreen'
  BY <1>1, <1>2, <1>3 DEF IInv, Casting, Looking, ChoiceIsOfVoterOnScreen, Boothed, OverTheirs
<1> QED
  BY <1>4, <1>5, <1>6 DEF IInv

\* Where look-ups do not overlap, the answer finds nobody on the screen.
LEMMA CheckStep ==
    ASSUME IInv, NEW s \in Slots, CheckAnswered(s)
    PROVE  IInv'
<1>1. /\ net' \in [Slots -> Request \cup {Idle}] /\ net'[s].op = "none"
      /\ \A t \in Slots \ {s} : net'[t] = net[t]
  BY Finished DEF CheckAnswered, Idle
<1>2. /\ ballots' = ballots /\ screen' = screen /\ entering' = entering /\ h' = h
      /\ cookie' \in BOOLEAN /\ entering' \in BOOLEAN
  BY DEF CheckAnswered, IInv, Typed
<1>3. Boothed(s, {"check"}) /\ net[s].v \in Voters
  BY DEF CheckAnswered, Answered, Boothed, IInv, Typed
<1>4. /\ k' \in KioskType /\ k'.elig.voter \in Voters /\ k'.sel = k.sel
      /\ k'.submitting = k.submitting /\ k'.success = k.success
  BY <1>3 DEF CheckAnswered, IInv, Typed, KioskType
<1>5. Typed'
  BY <1>1, <1>2, <1>4 DEF IInv, Typed
<1>6. Entry'
  BY <1>1, <1>2 DEF IInv, Entry, Boothed, Entries, Calls
<1>7. ~h.overtook => k.elig = NoElig /\ k.sel = None
  BY <1>3 DEF IInv, Looking
<1>8. k.submitting \/ k.success => h.movedOn \/ h.overtook
  <2>1. k.elig = NoElig => k.elig.voter \notin Voters
    BY KioskAssumption DEF NoElig
  <2> QED
    BY <1>7, <2>1 DEF IInv, Casting, OverTheirs
<1>9. Casting'
  BY <1>1, <1>2, <1>4, <1>8 DEF IInv, Casting, Boothed, OverTheirs
<1>10. ~h.overtook => \A t \in Slots : ~Boothed(t, {"check"})'
  BY <1>1, <1>3 DEF IInv, Looking, Boothed
<1>11. Looking' /\ ChoiceIsOfVoterOnScreen'
  BY <1>2, <1>4, <1>7, <1>10 DEF Looking, ChoiceIsOfVoterOnScreen
<1> QED
  BY <1>5, <1>6, <1>9, <1>11 DEF IInv

LEMMA CastAnswerStep ==
    ASSUME IInv, NEW s \in Slots, CastAnswered(s)
    PROVE  IInv'
<1>1. /\ net' \in [Slots -> Request \cup {Idle}] /\ net'[s].op = "none"
      /\ \A t \in Slots \ {s} : net'[t] = net[t]
  BY Finished DEF CastAnswered, Idle
<1>2. /\ ballots' = ballots /\ screen' = screen /\ entering' = entering /\ h' = h
      /\ cookie' \in BOOLEAN /\ entering' \in BOOLEAN
  BY DEF CastAnswered, IInv, Typed
<1>3. Boothed(s, {"cast"})
  BY DEF CastAnswered, Answered, Boothed
<1>4. k.submitting /\ (net[s].answer = "ok" => ballots[h.castFor] # None)
  BY <1>3 DEF IInv, Casting
<1>5. /\ k' \in KioskType /\ k'.elig = k.elig /\ k'.sel = k.sel /\ ~k'.submitting
      /\ k'.success <=> k.success \/ net[s].answer = "ok"
  <2>1. /\ k \in KioskType /\ CountFrom \in 0..CountFrom
        /\ k' = [k EXCEPT !.submitting = FALSE, !.confirm = FALSE,
                          !.success = @ \/ net[s].answer = "ok",
                          !.count = IF net[s].answer = "ok" THEN CountFrom ELSE @]
    BY KioskAssumption DEF CastAnswered, AfterCast, IInv, Typed
  <2>2. k'.elig = k.elig /\ k'.sel = k.sel /\ k'.submitting = FALSE
    BY <2>1 DEF KioskType
  <2>3. k'.success = (k.success \/ net[s].answer = "ok")
    BY <2>1 DEF KioskType
  <2>4. k' \in KioskType
    BY <2>1 DEF KioskType
  <2> QED
    BY <2>2, <2>3, <2>4
<1>6. Typed'
  BY <1>1, <1>2, <1>5 DEF IInv, Typed
<1>7. Entry'
  BY <1>1, <1>2 DEF IInv, Entry, Boothed, Entries, Calls
<1>8. \A t \in Slots : ~Boothed(t, {"cast"})'
  BY <1>1, <1>3 DEF IInv, Casting, Boothed
<1>9. Casting'
  BY <1>2, <1>4, <1>5, <1>8 DEF IInv, Casting, OverTheirs
<1>10. Looking' /\ ChoiceIsOfVoterOnScreen'
  BY <1>1, <1>2, <1>5 DEF IInv, Looking, ChoiceIsOfVoterOnScreen, Boothed
<1> QED
  BY <1>6, <1>7, <1>9, <1>10 DEF IInv

-----------------------------------------------------------------------------
(* The server.                                                             *)

LEMMA AnswersType ==
    ASSUME NEW r \in Request
    PROVE  Answers(r) \subseteq {"ok", "no", "failed", "denied"}
BY DEF Answers, Request

\* A request is answered, and no vote is taken back.
LEMMA ServerStep ==
    ASSUME IInv, NEW s \in Slots, NEW a \in {"ok", "no", "failed", "denied"},
           net[s].op # "none", net' = [net EXCEPT ![s].answer = a],
           ballots' \in [Voters -> Candidates \cup {None}],
           \A v \in Voters : ballots[v] # None => ballots'[v] # None,
           net[s].op = "cast" /\ a = "ok" => ballots'[net[s].v] # None,
           UNCHANGED <<cookie, screen, entering, k, h>>
    PROVE  IInv'
<1>1. net[s] \in Request
  BY DEF IInv, Typed, Idle
<1>2. /\ net' \in [Slots -> Request \cup {Idle}]
      /\ net'[s].op = net[s].op /\ net'[s].home = net[s].home /\ net'[s].v = net[s].v
      /\ net'[s].c = net[s].c /\ net'[s].answer = a
      /\ \A t \in Slots \ {s} : net'[t] = net[t]
  BY <1>1 DEF IInv, Typed, Request
<1>3. \A t \in Slots : /\ net'[t].op = net[t].op /\ net'[t].home = net[t].home
                       /\ net'[t].v = net[t].v /\ net'[t].c = net[t].c
  BY <1>2
<1>4. /\ cookie' \in BOOLEAN /\ entering' \in BOOLEAN /\ entering' = entering
      /\ screen' = screen /\ k' = k /\ h' = h
  BY DEF IInv, Typed
<1>5. Typed'
  <2>1. \A t \in Slots : /\ net'[t].op \in {"check", "cast"} => net'[t].v \in Voters
                         /\ net'[t].op = "cast" => net'[t].c \in Candidates
    BY <1>3 DEF IInv, Typed
  <2> QED
    BY <2>1, <1>2, <1>4 DEF IInv, Typed
<1>6. Entry'
  BY <1>3, <1>4 DEF IInv, Entry, Boothed
<1>7. Casting'
  <2>1. \A t \in Slots : Boothed(t, {"cast"})' <=> Boothed(t, {"cast"})
    BY <1>3 DEF Boothed
  <2>2. \A t \in Slots : Boothed(t, {"cast"}) =>
           /\ k.submitting /\ net'[t].v = h.castFor
           /\ net'[t].answer = "ok" => ballots'[h.castFor] # None
    BY <1>2, <1>3 DEF IInv, Casting, Boothed
  <2>3. k.success => ballots'[h.castFor] # None
    BY DEF IInv, Casting
  <2> QED
    BY <1>4, <2>1, <2>2, <2>3 DEF IInv, Casting, OverTheirs
<1>8. Looking' /\ ChoiceIsOfVoterOnScreen'
  BY <1>3, <1>4 DEF IInv, Looking, ChoiceIsOfVoterOnScreen, Boothed
<1> QED
  BY <1>5, <1>6, <1>7, <1>8 DEF IInv

LEMMA ServeStep ==
    ASSUME IInv, NEW s \in Slots, Serve(s) \/ ServeAndLose(s)
    PROVE  IInv'
<1>1. net[s].op # "none" /\ net[s] \in Request
  BY DEF Serve, ServeAndLose, Unserved, IInv, Typed, Idle
<1>2. net[s].op = "cast" => net[s].v \in Voters /\ net[s].c \in Candidates
  BY DEF IInv, Typed
<1>3. ASSUME net[s].op = "cast", ballots' = [ballots EXCEPT ![net[s].v] = net[s].c]
      PROVE  /\ ballots' \in [Voters -> Candidates \cup {None}]
             /\ \A v \in Voters : ballots[v] # None => ballots'[v] # None
             /\ ballots'[net[s].v] # None
  BY <1>2, <1>3, KioskAssumption DEF IInv, Typed
<1>4. CASE Serve(s)
  <2>1. PICK a \in Answers(net[s]) :
           /\ net' = [net EXCEPT ![s].answer = a]
           /\ \/ a = "ok" /\ net[s].op = "cast"
                 /\ ballots' = [ballots EXCEPT ![net[s].v] = net[s].c]
              \/ ~(a = "ok" /\ net[s].op = "cast") /\ UNCHANGED ballots
    BY <1>4 DEF Serve
  <2>2. a \in {"ok", "no", "failed", "denied"}
    BY <1>1, <2>1, AnswersType
  <2>3. ballots \in [Voters -> Candidates \cup {None}]
    BY DEF IInv, Typed
  <2>4. UNCHANGED <<cookie, screen, entering, k, h>>
    BY <1>4 DEF Serve
  <2> QED
    BY <1>1, <1>3, <2>1, <2>2, <2>3, <2>4, ServerStep
<1>5. CASE ServeAndLose(s)
  BY <1>1, <1>3, <1>5, ServerStep DEF ServeAndLose
<1> QED
  BY <1>4, <1>5

-----------------------------------------------------------------------------
(* The invariant.                                                          *)

LEMMA InitIInv ==
    ASSUME Init
    PROVE  IInv
<1> DEFINE r == Ask("session", None, None)
<1>1. r \in Request /\ r.op = "session" /\ r.home = "booth"
  BY RequestType DEF Init
<1> HIDE DEF r
<1>2. Quiet(Slots) = [t \in Slots |-> Idle]
  BY DEF Quiet
<1>3. FreeSlots(Quiet(Slots)) # {}
  BY <1>2, KioskAssumption DEF FreeSlots, Idle
<1>4. PICK u \in DOMAIN Quiet(Slots) : Sent(Quiet(Slots), r) = [Quiet(Slots) EXCEPT ![u] = r]
  BY <1>3, SentFills
<1>5. /\ net \in [Slots -> Request \cup {Idle}]
      /\ u \in Slots /\ net[u] = r /\ \A t \in Slots \ {u} : net[t] = Idle
  BY <1>1, <1>2, <1>4 DEF Init, r
<1>6. /\ \A t \in Slots \ {u} : net[t].op = "none"
      /\ \A t \in Slots : /\ ~Boothed(t, Calls)
                          /\ net[t].op \notin {"check", "cast", "auth"}
                          /\ net[t].op # "none" => net[t].home = "booth"
  BY <1>1, <1>5 DEF Boothed, Calls, Idle
<1>7. /\ k = FreshKiosk /\ h = FreshHistory /\ screen = "checking"
      /\ entering \in BOOLEAN /\ cookie \in BOOLEAN
      /\ ballots \in [Voters -> Candidates \cup {None}]
  BY DEF Init
<1>8. Typed
  BY <1>5, <1>6, <1>7, FreshTypes DEF Typed, Screens, FreshKiosk, NoElig
<1>9. Entry
  BY <1>1, <1>5, <1>6, <1>7 DEF Entry, Entries
<1>10. Casting /\ Looking /\ ChoiceIsOfVoterOnScreen
  BY <1>6, <1>7 DEF Casting, Looking, ChoiceIsOfVoterOnScreen, Boothed, Calls, FreshKiosk, NoElig
<1> QED
  BY <1>8, <1>9, <1>10 DEF IInv

LEMMA NextIInv ==
    ASSUME IInv, [Next]_vars
    PROVE  IInv'
<1>1. CASE Operator
  <2>1. ASSUME NEW v \in Voters, ManualCheck(v) \/ Decode(v)
        PROVE  IInv'
    BY <2>1, LookupStep DEF ManualCheck, Decode, InputForm
  <2> QED
    BY <1>1, <2>1, CodeStep, ScreenSteps, CastStep, ReloadStep DEF Operator
<1>2. CASE ScannerStopped \/ Countdown
  BY <1>2, ScreenSteps
<1>3. CASE CookieExpires
  BY <1>3 DEF CookieExpires, IInv, Typed, Entry, Casting, Looking, ChoiceIsOfVoterOnScreen, Boothed, OverTheirs
<1>4. ASSUME NEW s \in Slots, Deliver(s) \/ Serve(s) \/ ServeAndLose(s)
      PROVE  IInv'
  BY <1>4, EntryAnswers, BallotStep, CheckStep, CastAnswerStep, ExpiredStep, ServeStep DEF Deliver
<1>5. CASE UNCHANGED vars
  BY <1>5 DEF vars, IInv, Typed, Entry, Casting, Looking, ChoiceIsOfVoterOnScreen, Boothed, OverTheirs
<1> QED
  BY <1>1, <1>2, <1>3, <1>4, <1>5 DEF Next

-----------------------------------------------------------------------------
(* What follows.                                                           *)

\* The invariant holds of every run of BilikKiosk and its parent.
THEOREM Invariant == Spec => []IInv
<1>1. Init => IInv
  BY InitIInv
<1>2. IInv /\ [Next]_vars => IInv'
  BY NextIInv
<1> QED
  BY <1>1, <1>2, PTL DEF Spec

\* handleCastVote sends a candidate only for the voter who picked it, whatever
\* answers come late to checkEligibility, unless its look-ups overlapped.
THEOREM ChoiceCorrect == Spec => []ChoiceIsOfVoterOnScreen
<1>1. IInv => ChoiceIsOfVoterOnScreen
  BY DEF IInv
<1> QED
  BY <1>1, Invariant, PTL

\* setSuccess follows a recorded vote: without exception, the vote the booth sent
\* last is in the box while handleCastVote's thanks are shown.  They stand over its
\* voter unless the booth was reset, or a badge looked up, while that vote was out,
\* or look-ups overlapped: to those late answers the page has no defence, and
\* nothing is claimed of whose name is then on the screen.
THEOREM SuccessCorrect == Spec => []SuccessIsTheirs
<1>1. IInv => SuccessIsTheirs
  BY DEF IInv, Casting, OverTheirs, SuccessIsTheirs, SuccessView
<1> QED
  BY <1>1, Invariant, PTL

\* The page's state has the kinds of values it is declared with, and the booth
\* waits for one vote at most: setSubmitting guards the button that sends it.
THEOREM TypeCorrect == Spec => []TypeOK
<1>1. ASSUME IInv
      PROVE  TypeOK
  <2> DEFINE out(op) == {s \in Slots : net[s].op = op /\ net[s].home = "booth"}
  <2>1. /\ out("cast") # {} => k.submitting
        /\ \A s, t \in out("cast") : s = t
    BY <1>1 DEF IInv, Casting, Boothed
  <2>2. Cardinality(out("cast")) <= 1
    <3>1. CASE out("cast") = {}
      BY <3>1, FS_EmptySet
    <3>2. CASE out("cast") # {}
      <4>1. PICK s \in out("cast") : TRUE
        BY <3>2
      <4>2. out("cast") = {s}
        BY <2>1, <4>1
      <4> HIDE DEF out
      <4>3. Cardinality(out("cast")) = 1
        BY <4>2, FS_Singleton
      <4> QED
        BY <4>3
    <3> QED
      BY <3>1, <3>2
  <2> QED
    BY <1>1, <2>1, <2>2 DEF IInv, Typed, TypeOK, Screens, KioskType, HistoryType
<1> QED
  BY <1>1, Invariant, PTL
=============================================================================
