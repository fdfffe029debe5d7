---------------------------- MODULE SessionProofs -----------------------------
(***************************************************************************)
(* Proofs about the page that controls the session, for any number of      *)
(* requests out at once, presses, upsets and votes.  Both properties speak *)
(* of a page that has settled; the invariant says of one that has not who  *)
(* will bring what it misses: a request that tells of the status, and one  *)
(* whose counts are of the close or of a later time.                       *)
(***************************************************************************)
EXTENDS SessionPage, FiniteSetTheorems, TLAPS

-----------------------------------------------------------------------------
(* What a send does to the slots.                                         *)

\* A page that may send has a slot to send with.
LEMMA CanSendFree ==
    ASSUME NEW n, CanSend(n, 1)
    PROVE  FreeSlots(n) # {}
BY FS_EmptySet DEF CanSend

\* A request takes one free slot, and the others stay.
LEMMA SentFills ==
    ASSUME NEW n, NEW r, FreeSlots(n) # {}
    PROVE  \E s \in DOMAIN n : n[s].op = "none" /\ Sent(n, r) = [n EXCEPT ![s] = r]
<1>1. PICK s \in FreeSlots(n) : Sent(n, r) = [n EXCEPT ![s] = r]
  BY DEF Sent
<1> QED
  BY <1>1 DEF FreeSlots

-----------------------------------------------------------------------------
(* The invariant.                                                        *)

Fetch == [op : Gets \cup Updates, status : Statuses \cup {"none"}, n : 0..MaxVotes,
          late : BOOLEAN, answer : {"none", "ok", "failed"}]
Network == [Slots -> Fetch \cup {Idle}]
PageType ==
    [shown : Statuses \cup {"none"}, tally : 0..MaxVotes, loading : BOOLEAN,
     closing : BOOLEAN, reopening : BOOLEAN, typed : BOOLEAN]
HistoryType ==
    [presses : 0..MaxPresses, upsets : 0..MaxUpsets, behind : BOOLEAN, overtaken : BOOLEAN,
     atClose : 0..MaxVotes]

\* One update is out at most, and exactly while the page waits for it; counts
\* are of no later time than the present.
Typed ==
    /\ session \in Statuses /\ votes \in 0..MaxVotes /\ casting \in 0..MaxVotes
    /\ votes + casting <= MaxVotes
    /\ p \in PageType /\ h \in HistoryType /\ net \in Network
    /\ ~(p.closing /\ p.reopening)
    /\ p.tally <= votes /\ h.atClose <= votes
    /\ \A s \in Slots : net[s].op # "none" => net[s].n <= votes
    /\ p.loading <=> \E s \in Slots : net[s].op \in Updates
    /\ \A s, t \in Slots : net[s].op \in Updates /\ net[t].op \in Updates => s = t

\* The request tells of the status there is, or will, or its answer will say so.
UpdateDone(s) == net[s].op \in Updates /\ net[s].answer = "ok"
Tells(s) ==
    \/ net[s].op = "session" /\ (net[s].answer # "ok" \/ net[s].status = session)
    \/ UpdateDone(s)
StatusInv == ~h.behind => p.shown = session \/ \E s \in Slots : Tells(s)

\* The request brings the counts of the close, or later ones, or leads to one that does.
Counts(s) ==
    \/ net[s].op = "session"
    \/ net[s].op = "summary" /\ (net[s].answer # "ok" \/ h.atClose <= net[s].n)
    \/ UpdateDone(s)
\* The page has such counts, and requests that have earlier ones are known to be late.
Complete ==
    /\ h.atClose <= p.tally \/ h.overtaken
    /\ \A s \in Slots : net[s].op = "summary" /\ net[s].answer = "ok" /\ ~(h.atClose <= net[s].n)
                           => net[s].late
CountInv ==
    session = "CLOSED" /\ ~h.behind => Complete \/ \E s \in Slots : Counts(s)

IInv == Typed /\ StatusInv /\ CountInv

-----------------------------------------------------------------------------
(* Requests.                                                               *)

LEMMA TwoFree ==
    ASSUME NEW n, CanSend(n, 2)
    PROVE  FreeSlots(n) # {}
BY FS_EmptySet DEF CanSend

LEMMA AskType ==
    ASSUME NEW op \in Gets \cup Updates
    PROVE  /\ Ask(op) \in Fetch
           /\ Ask(op).op = op /\ Ask(op).answer = "none" /\ Ask(op).n = 0
<1>1. 0 \in 0..MaxVotes
  BY SessionPageAssumption
<1> QED
  BY <1>1 DEF Ask, Fetch

\* What sending does, whatever is sent.
LEMMA SendType ==
    ASSUME NEW n \in Network, FreeSlots(n) # {}, NEW op \in Gets \cup Updates
    PROVE  /\ Sent(n, Ask(op)) \in Network
           /\ \E u \in Slots :
                 LET F == Sent(n, Ask(op)) IN
                 /\ n[u].op = "none" /\ F[u].op = op /\ F[u].answer = "none" /\ F[u].n = 0
                 /\ \A s \in Slots \ {u} : F[s] = n[s]
<1>1. PICK u \in DOMAIN n : n[u].op = "none" /\ Sent(n, Ask(op)) = [n EXCEPT ![u] = Ask(op)]
  BY SentFills
<1>2. u \in Slots
  BY <1>1 DEF Network
<1> QED
  BY <1>1, <1>2, AskType DEF Network

\* A fetch is sent, and everything else stays: it will tell of both.
LEMMA Refreshed ==
    ASSUME Typed, NEW n \in Network, FreeSlots(n) # {}, net' = FetchVotingData(n),
           p' \in PageType, h' \in HistoryType, UNCHANGED <<session, votes, casting>>,
           ~(p'.closing /\ p'.reopening),
           p'.tally <= votes, h'.atClose = h.atClose,
           \A s \in Slots : n[s].op # "none" => n[s].n <= votes,
           p'.loading <=> \E s \in Slots : n[s].op \in Updates,
           \A s, t \in Slots : n[s].op \in Updates /\ n[t].op \in Updates => s = t
    PROVE  IInv'
<1>1. "session" \in Gets \cup Updates /\ "session" \notin Updates /\ "none" \notin Updates
  BY DEF Gets, Updates
<1>2. PICK u \in Slots :
         /\ n[u].op = "none" /\ net'[u].op = "session" /\ net'[u].answer = "none" /\ net'[u].n = 0
         /\ \A s \in Slots \ {u} : net'[s] = n[s]
  BY <1>1, SendType DEF FetchVotingData
<1>3. net' \in Network
  BY <1>1, SendType DEF FetchVotingData
<1>4. Typed'
  <2>1. \A s \in Slots : net'[s].op \in Updates <=> n[s].op \in Updates
    BY <1>1, <1>2
  <2>2. \A s \in Slots : net'[s].op # "none" => net'[s].n <= votes
    BY <1>2, SessionPageAssumption DEF Typed
  <2> QED
    BY <1>3, <2>1, <2>2 DEF Typed
<1>5. Tells(u)' /\ Counts(u)'
  BY <1>2 DEF Tells, Counts
<1> QED
  BY <1>4, <1>5 DEF IInv, StatusInv, CountInv

-----------------------------------------------------------------------------
(* Presses and the timer.                                                  *)

LEMMA CountedType ==
    ASSUME Typed, Press, NEW now \in BOOLEAN
    PROVE  Counted(now) \in HistoryType /\ Counted(now).atClose = h.atClose
<1>1. h \in HistoryType /\ h.presses < MaxPresses /\ h.presses + 1 \in 0..MaxPresses
  BY SessionPageAssumption DEF Typed, Press, HistoryType
<1> QED
  BY <1>1 DEF Counted, HistoryType

LEMMA FetchSteps ==
    ASSUME IInv, RefreshTally \/ Poll
    PROVE  IInv'
<1>1. /\ FreeSlots(net) # {} /\ net' = FetchVotingData(net) /\ p' = p
      /\ session' = session /\ votes' = votes /\ casting' = casting
  BY TwoFree DEF RefreshTally, Poll, Press
<1>2. h' \in HistoryType /\ h'.atClose = h.atClose
  <2>1. CASE RefreshTally
    BY <2>1, CountedType DEF RefreshTally, IInv
  <2>2. CASE Poll
    BY <2>2 DEF Poll, IInv, Typed, HistoryType
  <2> QED
    BY <2>1, <2>2
<1>3. Typed
  BY DEF IInv
<1> QED
  BY <1>1, <1>2, <1>3, Refreshed DEF Typed

LEMMA UpdateSteps ==
    ASSUME IInv,
           \/ ConfirmStop \/ HandleReopenSession
           \/ \E act \in {"start", "pause", "resume"} : HandleUpdateStatus(act)
    PROVE  IInv'
<1>1. PICK act \in Updates : Send(act) /\ ~p.loading
  BY DEF ConfirmStop, HandleReopenSession, HandleUpdateStatus, Offered, Updates
<1>2. /\ p' = [p EXCEPT !.loading = TRUE] /\ net' = Sent(net, Ask(act))
      /\ h' = Counted(h.behind) /\ session' = session /\ votes' = votes /\ casting' = casting
      /\ FreeSlots(net) # {} /\ Press
  BY <1>1, TwoFree DEF Send, Press
<1>3. Typed
  BY DEF IInv
<1>4. /\ h' \in HistoryType /\ h'.behind = h.behind /\ h'.overtaken = h.overtaken
      /\ h'.atClose = h.atClose
  <2>1. h.behind \in BOOLEAN /\ h \in HistoryType
    BY <1>3 DEF Typed, HistoryType
  <2> QED
    BY <1>2, <1>3, <2>1, CountedType DEF Counted, HistoryType
<1>5. /\ p' \in PageType /\ p'.loading /\ p'.shown = p.shown /\ p'.tally = p.tally
      /\ p'.closing = p.closing /\ p'.reopening = p.reopening
  BY <1>2, <1>3 DEF Typed, PageType
<1>6. PICK u \in Slots :
         /\ net[u].op = "none" /\ net'[u].op = act /\ net'[u].answer = "none" /\ net'[u].n = 0
         /\ \A s \in Slots \ {u} : net'[s] = net[s]
  BY <1>2, <1>3, SendType DEF Typed
<1>7. net' \in Network
  BY <1>2, <1>3, SendType DEF Typed
<1>8. Typed'
  <2>1. \A s \in Slots : net[s].op \notin Updates
    BY <1>1, <1>3 DEF Typed
  <2> QED
    BY <1>2, <1>3, <1>4, <1>5, <1>6, <1>7, <2>1 DEF Typed
<1>9. act \notin {"session", "summary", "none"} /\ "none" \notin Updates
  BY DEF Updates
<1>10. \A s \in Slots : /\ Tells(s) => Tells(s)' /\ s # u
                        /\ Counts(s) => Counts(s)' /\ s # u
  BY <1>2, <1>4, <1>6, <1>9 DEF Tells, Counts, UpdateDone
<1>11. Complete => Complete'
  BY <1>2, <1>4, <1>5, <1>6, <1>9 DEF Complete
<1> QED
  BY <1>2, <1>4, <1>5, <1>8, <1>10, <1>11 DEF IInv, StatusInv, CountInv

LEMMA DialogSteps ==
    ASSUME IInv, OpenDialog \/ TypeReason \/ CancelDialog
    PROVE  IInv'
<1>1. /\ p \in PageType /\ session' = session /\ votes' = votes /\ casting' = casting /\ net' = net /\ h' = h
      /\ p' \in PageType /\ p'.loading = p.loading /\ p'.shown = p.shown /\ p'.tally = p.tally
      /\ ~(p'.closing /\ p'.reopening)
  BY DEF IInv, Typed, PageType, OpenDialog, TypeReason, CancelDialog, Rearranged, CloseOffered,
         ReopenOffered, Dialog
<1> QED
  BY <1>1 DEF IInv, Typed, StatusInv, CountInv, Tells, Counts, UpdateDone, Complete

-----------------------------------------------------------------------------
(* Answers.                                                                *)

LEMMA DoneType ==
    ASSUME NEW n \in Network, NEW s \in Slots
    PROVE  /\ Done(n, s) \in Network /\ FreeSlots(Done(n, s)) # {}
           /\ Done(n, s)[s].op = "none" /\ \A t \in Slots \ {s} : Done(n, s)[t] = n[t]
<1>1. /\ Done(n, s) \in Network /\ Done(n, s)[s] = Idle
      /\ \A t \in Slots \ {s} : Done(n, s)[t] = n[t]
  BY DEF Done, Network
<1> QED
  BY <1>1 DEF FreeSlots, Idle, Network

LEMMA SessionStep ==
    ASSUME IInv, NEW s \in Slots, SessionFetched(s)
    PROVE  IInv'
<1> DEFINE r == net[s]
           changed == r.answer = "ok" /\ r.status # p.shown
           n == [net EXCEPT ![s] = Ask("summary")]
<1>1. /\ Typed /\ net \in Network /\ p \in PageType /\ h \in HistoryType
      /\ r.op = "session" /\ r.answer # "none" /\ session' = session /\ votes' = votes /\ casting' = casting
  BY DEF IInv, Typed, SessionFetched, Answered
<1>2. r \in Fetch /\ "summary" \in Gets /\ "session" \notin Updates /\ "summary" \notin Updates
  BY <1>1 DEF Network, Idle, Gets, Updates
<1>3. /\ n \in Network /\ n[s].op = "summary" /\ n[s].answer = "none" /\ n[s].n = 0
      /\ \A t \in Slots \ {s} : n[t] = net[t]
  BY <1>1, <1>2, AskType DEF Network
<1>4. GoOn(net, s) = n
  BY <1>1 DEF GoOn
<1>5. \A t \in Slots : n[t].op \in Updates <=> net[t].op \in Updates
  BY <1>1, <1>2, <1>3
<1>6. DOMAIN n = Slots /\ DOMAIN net = Slots
  BY <1>1, <1>3 DEF Network
<1>10. \A t \in Slots : n[t].op # "none" => n[t].n <= votes
  BY <1>1, <1>3, SessionPageAssumption DEF Typed
<1>7. /\ h' \in HistoryType /\ h'.overtaken = h.overtaken /\ h'.atClose = h.atClose
      /\ ~changed /\ ~h'.behind => ~h.behind /\ r.answer = "ok"
  BY <1>1 DEF SessionFetched, HistoryType
<1>8. CASE changed
  <2>1. p' = [p EXCEPT !.shown = r.status] /\ net' = FetchVotingData(n) /\ CanSend(net, 1)
    BY <1>4, <1>8 DEF SessionFetched, OnStatus
  <2>2. /\ p' \in PageType /\ p'.loading = p.loading /\ p'.closing = p.closing
        /\ p'.reopening = p.reopening /\ p'.tally = p.tally
    BY <1>1, <1>2, <2>1 DEF PageType, Fetch
  <2>3. FreeSlots(n) # {}
    <3>1. PICK t \in FreeSlots(net) : TRUE
      BY <2>1, CanSendFree
    <3>2. t \in Slots /\ t # s /\ n[t].op = "none"
      BY <1>1, <1>3, <1>6, <3>1 DEF FreeSlots
    <3> QED
      BY <1>6, <3>2 DEF FreeSlots
  <2> HIDE DEF n
  <2> QED
    BY <1>1, <1>3, <1>5, <1>7, <1>10, <2>1, <2>2, <2>3, Refreshed DEF Typed
<1>9. CASE ~changed
  <2>1. p' = p /\ net' = n
    BY <1>4, <1>9 DEF SessionFetched, OnStatus
  <2> HIDE DEF n
  <2>2. Typed'
    BY <1>1, <1>3, <1>5, <1>7, <1>10, <2>1 DEF Typed
  <2>3. StatusInv'
    <3>1. ASSUME ~h'.behind, p.shown # session
          PROVE  \E t \in Slots : Tells(t)'
      <4>1. PICK t \in Slots : Tells(t)
        BY <1>7, <1>9, <3>1 DEF IInv, StatusInv
      <4>2. t # s
        BY <1>1, <1>2, <1>7, <1>9, <3>1, <4>1 DEF Tells, UpdateDone
      <4>3. Tells(t)'
        BY <1>1, <1>3, <2>1, <4>1, <4>2 DEF Tells, UpdateDone
      <4> QED
        BY <4>3
    <3> QED
      BY <1>1, <2>1, <3>1 DEF StatusInv
  <2>4. Counts(s)'
    BY <1>3, <2>1 DEF Counts
  <2> QED
    BY <2>2, <2>3, <2>4 DEF IInv, CountInv
<1> QED
  BY <1>8, <1>9

LEMMA CountsStep ==
    ASSUME IInv, NEW s \in Slots, CountsFetched(s)
    PROVE  IInv'
<1> DEFINE r == net[s]
           marked == [t \in Slots |-> IF net[t].op = "summary"
                                      THEN [net[t] EXCEPT !.late = TRUE] ELSE net[t]]
<1>1. /\ Typed /\ net \in Network /\ p \in PageType /\ h \in HistoryType
      /\ r.op = "summary" /\ r.answer # "none" /\ session' = session /\ votes' = votes /\ casting' = casting
      /\ p' = IF r.answer = "ok" THEN [p EXCEPT !.tally = r.n] ELSE p
      /\ h' = [h EXCEPT !.overtaken = r.late \/ r.answer # "ok"]
      /\ net' = GoOn(marked, s)
  BY DEF IInv, Typed, CountsFetched, Answered
<1>2. \A t \in Slots : net[t].op = "summary" =>
         /\ [net[t] EXCEPT !.late = TRUE] \in Fetch
         /\ [net[t] EXCEPT !.late = TRUE].op = net[t].op
         /\ [net[t] EXCEPT !.late = TRUE].answer = net[t].answer
         /\ [net[t] EXCEPT !.late = TRUE].n = net[t].n
         /\ [net[t] EXCEPT !.late = TRUE].late
  <2> SUFFICES ASSUME NEW t \in Slots, net[t].op = "summary"
               PROVE  /\ [net[t] EXCEPT !.late = TRUE] \in Fetch
                      /\ [net[t] EXCEPT !.late = TRUE].op = net[t].op
                      /\ [net[t] EXCEPT !.late = TRUE].answer = net[t].answer
                      /\ [net[t] EXCEPT !.late = TRUE].n = net[t].n
                      /\ [net[t] EXCEPT !.late = TRUE].late
    OBVIOUS
  <2>1. net[t] \in Fetch
    BY <1>1 DEF Network, Idle
  <2> QED
    BY <2>1 DEF Fetch
<1>3. /\ marked \in Network
      /\ \A t \in Slots : /\ marked[t].op = net[t].op /\ marked[t].answer = net[t].answer
                          /\ net[t].op # "summary" => marked[t] = net[t]
                          /\ net[t].op = "summary" => marked[t].n = net[t].n /\ marked[t].late
                          /\ marked[t].op # "none" => marked[t].n = net[t].n
  BY <1>1, <1>2 DEF Network
<1> HIDE DEF marked
<1>4. net' = Done(marked, s)
  BY <1>1, <1>3 DEF GoOn
<1>5. /\ net' \in Network /\ net'[s].op = "none"
      /\ \A t \in Slots \ {s} : net'[t] = marked[t]
  BY <1>3, <1>4, DoneType
<1>6. r \in Fetch
  BY <1>1 DEF Network, Idle
<1>7. /\ p' \in PageType /\ p'.shown = p.shown /\ p'.loading = p.loading
      /\ p'.closing = p.closing /\ p'.reopening = p.reopening
      /\ r.answer = "ok" => p'.tally = r.n
      /\ p'.tally <= votes
  BY <1>1, <1>6 DEF Typed, PageType, Fetch
<1>8. /\ h' \in HistoryType /\ h'.behind = h.behind /\ h'.atClose = h.atClose
      /\ r.late \/ r.answer # "ok" => h'.overtaken
  BY <1>1, <1>6 DEF HistoryType, Fetch
<1>9. "summary" \notin Updates /\ "none" \notin Updates
  BY DEF Updates
<1>10. Typed'
  <2>1. \A t \in Slots : net'[t].op \in Updates <=> net[t].op \in Updates
    BY <1>1, <1>3, <1>5, <1>9
  <2>2. \A t \in Slots : net'[t].op # "none" => net'[t].n <= votes
    BY <1>1, <1>3, <1>5 DEF Typed
  <2> QED
    BY <1>1, <1>5, <1>7, <1>8, <2>1, <2>2 DEF Typed
<1>11. StatusInv'
  <2>1. \A t \in Slots : Tells(t) => Tells(t)'
    BY <1>1, <1>3, <1>5, <1>9 DEF Tells, UpdateDone
  <2> QED
    BY <1>1, <1>7, <1>8, <2>1 DEF IInv, StatusInv
<1>12. CountInv'
  <2> SUFFICES ASSUME session = "CLOSED", ~h.behind, \A t \in Slots : ~Counts(t)'
               PROVE  Complete'
    BY <1>1, <1>8 DEF CountInv
  <2>1. \A t \in Slots \ {s} : ~Counts(t)
    BY <1>1, <1>3, <1>5, <1>8, <1>9 DEF Counts, UpdateDone
  <2>2. Complete \/ Counts(s)
    BY <2>1 DEF IInv, CountInv
  <2>3. h'.atClose <= p'.tally \/ h'.overtaken
    BY <1>1, <1>6, <1>7, <1>8, <1>9, <2>2 DEF Complete, Counts, UpdateDone
  <2>4. \A t \in Slots : net'[t].op = "summary" => net'[t].late
    BY <1>3, <1>5
  <2> QED
    BY <1>1, <1>8, <2>3, <2>4 DEF Complete
<1> QED
  BY <1>10, <1>11, <1>12 DEF IInv

LEMMA UpdateStep ==
    ASSUME IInv, NEW s \in Slots, UpdateAnswered(s)
    PROVE  IInv'
<1> DEFINE ok == net[s].answer = "ok"
           stop == net[s].op = "stop"
           reopen == net[s].op = "reopen"
<1>1. /\ Typed /\ net \in Network /\ p \in PageType /\ h \in HistoryType
      /\ net[s].op \in Updates /\ net[s].answer # "none"
      /\ session' = session /\ votes' = votes /\ casting' = casting
      /\ p' = [p EXCEPT !.loading = FALSE, !.closing = p.closing /\ ~(ok /\ stop),
                        !.reopening = p.reopening /\ ~(ok /\ reopen),
                        !.typed = p.typed /\ ~(ok /\ reopen)]
      /\ h' = [h EXCEPT !.behind = h.behind /\ ~ok]
  BY DEF IInv, Typed, UpdateAnswered
<1>2. /\ p' \in PageType /\ p'.loading = FALSE /\ p'.shown = p.shown /\ p'.tally = p.tally
      /\ ~(p'.closing /\ p'.reopening)
      /\ h' \in HistoryType /\ h'.overtaken = h.overtaken /\ h'.atClose = h.atClose
  BY <1>1 DEF PageType, HistoryType, Typed
<1>3. /\ Done(net, s) \in Network /\ FreeSlots(Done(net, s)) # {}
      /\ Done(net, s)[s].op = "none" /\ \A t \in Slots \ {s} : Done(net, s)[t] = net[t]
  BY <1>1, DoneType
<1>4. "none" \notin Updates
  BY DEF Updates
<1>5. \A t \in Slots : Done(net, s)[t].op \notin Updates
  BY <1>1, <1>3, <1>4 DEF Typed
<1>8. /\ \A t \in Slots : Done(net, s)[t].op # "none" => Done(net, s)[t].n <= votes
      /\ p'.tally <= votes /\ h'.atClose <= votes
  BY <1>1, <1>2, <1>3 DEF Typed
<1>6. CASE ok
  <2>1. net' = FetchVotingData(Done(net, s))
    BY <1>6 DEF UpdateAnswered
  <2> QED
    BY <1>1, <1>2, <1>3, <1>5, <1>8, <2>1, Refreshed
<1>7. CASE ~ok
  <2>1. net' = Done(net, s) /\ (h'.behind <=> h.behind)
    BY <1>1, <1>7 DEF UpdateAnswered, HistoryType
  <2>2. Typed'
    BY <1>1, <1>2, <1>3, <1>5, <1>8, <2>1 DEF Typed
  <2>3. \A t \in Slots : /\ Tells(t) => Tells(t)'
                         /\ Counts(t) => Counts(t)'
    <3>1. ~Tells(s) /\ ~Counts(s)
      BY <1>1, <1>7 DEF Tells, Counts, UpdateDone, Updates
    <3>2. \A t \in Slots \ {s} : net'[t] = net[t]
      BY <1>3, <2>1
    <3> QED
      BY <1>1, <1>2, <3>1, <3>2 DEF Tells, Counts, UpdateDone
  <2>4. Complete => Complete'
    BY <1>1, <1>2, <1>3, <2>1 DEF Complete
  <2> QED
    BY <1>1, <1>2, <2>1, <2>2, <2>3, <2>4 DEF IInv, StatusInv, CountInv
<1> QED
  BY <1>6, <1>7

-----------------------------------------------------------------------------
(* The server, the other administrators and the voters.                    *)

\* Only the answer of one request changes, of which it keeps the rest.
LEMMA ReplyType ==
    ASSUME Typed, NEW s \in Slots, Unserved(net, s), NEW a \in {"ok", "failed"}, Reply(s, a)
    PROVE  /\ net' \in Network
           /\ net'[s].op = net[s].op /\ net'[s].answer = a /\ net'[s].n = net[s].n
           /\ \A t \in Slots \ {s} : net'[t] = net[t]
<1>1. net \in Network /\ net[s].op # "none"
  BY DEF Typed, Unserved
<1>2. net[s] \in Fetch
  BY <1>1 DEF Network, Idle
<1>3. [net[s] EXCEPT !.answer = a] \in Fetch /\ [net[s] EXCEPT !.answer = a].op = net[s].op
      /\ [net[s] EXCEPT !.answer = a].answer = a /\ [net[s] EXCEPT !.answer = a].n = net[s].n
  BY <1>2 DEF Fetch
<1> QED
  BY <1>1, <1>2, <1>3 DEF Reply, Network, Fetch

LEMMA ServeGetStep ==
    ASSUME IInv, NEW s \in Slots, ServeGet(s)
    PROVE  IInv'
<1> DEFINE r == [net[s] EXCEPT !.answer = "ok", !.status = session, !.n = votes]
<1>1. /\ Typed /\ net \in Network /\ net[s].op \in {"session", "summary"} /\ net[s].answer = "none"
      /\ session \in Statuses /\ votes \in 0..MaxVotes
      /\ session' = session /\ votes' = votes /\ casting' = casting /\ p' = p /\ h' = h
  BY DEF IInv, Typed, ServeGet, Unserved, Gets
<1>2. net[s] \in Fetch
  BY <1>1 DEF Network, Idle
<1>3. /\ r \in Fetch /\ r.op = net[s].op /\ r.answer = "ok" /\ r.status = session /\ r.n = votes
  BY <1>1, <1>2 DEF Fetch
<1>4. net' = [net EXCEPT ![s] = r]
  BY <1>1, <1>2 DEF ServeGet, Network, Fetch
<1> HIDE DEF r
<1>5. net' \in Network /\ net'[s] = r /\ \A t \in Slots \ {s} : net'[t] = net[t]
  BY <1>1, <1>3, <1>4 DEF Network
<1>6. Typed'
  <2>1. \A t \in Slots : net'[t].op = net[t].op
    BY <1>3, <1>5
  <2>2. \A t \in Slots : net'[t].op # "none" => net'[t].n <= votes
    BY <1>1, <1>3, <1>5 DEF Typed
  <2> QED
    BY <1>1, <1>5, <2>1, <2>2 DEF Typed
<1>7. \A t \in Slots : /\ Tells(t) => Tells(t)'
                       /\ Counts(t) => Counts(t)'
  BY <1>1, <1>3, <1>5 DEF Typed, Tells, Counts, UpdateDone
<1>8. Complete => Complete'
  BY <1>1, <1>3, <1>5 DEF Typed, Complete
<1> QED
  BY <1>1, <1>6, <1>7, <1>8 DEF IInv, StatusInv, CountInv

LEMMA UpsettingType ==
    ASSUME Typed, Upset, NEW behind \in BOOLEAN
    PROVE  /\ Upsetting(behind) \in HistoryType
           /\ Upsetting(behind).overtaken = h.overtaken
           /\ Upsetting(behind).atClose = h.atClose
           /\ behind => Upsetting(behind).behind
           /\ ~behind => Upsetting(behind).behind = h.behind
<1>1. h \in HistoryType /\ h.upsets < MaxUpsets /\ h.upsets + 1 \in 0..MaxUpsets
  BY SessionPageAssumption DEF Typed, Upset, HistoryType
<1> QED
  BY <1>1 DEF Upsetting, HistoryType

\* Where the session moves to, and that nothing but the close is noted.
LEMMA MovedType ==
    ASSUME Typed, NEW act, NEW g \in HistoryType, Moved(act, g)
    PROVE  /\ session' \in Statuses /\ h' \in HistoryType
           /\ h'.behind = g.behind /\ h'.overtaken = g.overtaken
           /\ h'.atClose \in {g.atClose, votes}
<1>1. PICK st \in Leads(act) :
         session' = st /\ h' = IF st = "CLOSED" THEN [g EXCEPT !.atClose = votes] ELSE g
  BY DEF Moved
<1>2. st \in Statuses
  BY DEF Leads
<1> QED
  BY <1>1, <1>2 DEF Typed, HistoryType

LEMMA ServeUpdateStep ==
    ASSUME IInv, NEW s \in Slots, ServeUpdate(s)
    PROVE  IInv'
<1>1. /\ Typed /\ net[s].op \in Updates /\ net[s].answer = "none" /\ Unserved(net, s)
      /\ votes' = votes /\ casting' = casting /\ p' = p /\ h \in HistoryType
  BY DEF IInv, Typed, ServeUpdate, Unserved
<1>2. PICK a \in {"ok", "failed"} :
         /\ Reply(s, a)
         /\ \/ a = "ok" /\ Moved(net[s].op, h)
            \/ a = "failed" /\ session' = session /\ h' = h
  BY DEF ServeUpdate
<1>3. /\ net' \in Network /\ net'[s].op = net[s].op /\ net'[s].answer = a /\ net'[s].n = net[s].n
      /\ \A t \in Slots \ {s} : net'[t] = net[t]
  BY <1>1, <1>2, ReplyType
<1>4. Typed'
  <2>1. \A t \in Slots : net'[t].op = net[t].op /\ net'[t].n = net[t].n
    BY <1>3
  <2>2. session' \in Statuses /\ h' \in HistoryType /\ h'.atClose \in {h.atClose, votes}
    BY <1>1, <1>2, MovedType DEF Typed
  <2>3. h'.atClose <= votes
    BY <1>1, <2>2 DEF Typed
  <2> QED
    BY <1>1, <1>3, <2>1, <2>2, <2>3 DEF Typed
<1>5. CASE a = "ok"
  <2>1. Tells(s)' /\ Counts(s)'
    BY <1>1, <1>3, <1>5 DEF Tells, Counts, UpdateDone
  <2> QED
    BY <1>4, <2>1 DEF IInv, StatusInv, CountInv
<1>6. CASE a = "failed"
  <2>1. session' = session /\ h' = h /\ net[s].op \notin {"session", "summary"}
    BY <1>1, <1>2, <1>6 DEF Updates
  <2>2. \A t \in Slots : /\ Tells(t) => Tells(t)'
                         /\ Counts(t) => Counts(t)'
    BY <1>1, <1>3, <2>1 DEF Tells, Counts, UpdateDone
  <2>3. Complete => Complete'
    BY <1>1, <1>3, <2>1 DEF Complete
  <2> QED
    BY <1>1, <1>4, <2>1, <2>2, <2>3 DEF IInv, StatusInv, CountInv
<1> QED
  BY <1>5, <1>6

LEMMA LoseStep ==
    ASSUME IInv, NEW s \in Slots, Lose(s)
    PROVE  IInv'
<1>1. /\ Typed /\ Unserved(net, s) /\ net[s].answer = "none" /\ Upset /\ Reply(s, "failed")
      /\ votes' = votes /\ casting' = casting /\ p' = p
      /\ \/ session' = session /\ h' = Upsetting(FALSE)
         \/ Moved(net[s].op, Upsetting(TRUE))
  BY DEF IInv, Lose, Unserved
<1>2. /\ net' \in Network /\ net'[s].op = net[s].op /\ net'[s].answer = "failed"
      /\ net'[s].n = net[s].n /\ \A t \in Slots \ {s} : net'[t] = net[t]
  BY <1>1, ReplyType
<1>3. /\ session' \in Statuses /\ h' \in HistoryType /\ h'.overtaken = h.overtaken
      /\ h'.atClose \in {h.atClose, votes}
      /\ \/ h'.behind
         \/ h'.behind = h.behind /\ session' = session /\ h'.atClose = h.atClose
  <2>1. CASE session' = session /\ h' = Upsetting(FALSE)
    BY <1>1, <2>1, UpsettingType DEF Typed
  <2>2. CASE Moved(net[s].op, Upsetting(TRUE))
    <3>1. /\ Upsetting(TRUE) \in HistoryType /\ Upsetting(TRUE).behind
          /\ Upsetting(TRUE).overtaken = h.overtaken /\ Upsetting(TRUE).atClose = h.atClose
      BY <1>1, UpsettingType
    <3> QED
      BY <1>1, <2>2, <3>1, MovedType
  <2> QED
    BY <1>1, <2>1, <2>2
<1>4. Typed'
  <2>1. \A t \in Slots : net'[t].op = net[t].op /\ net'[t].n = net[t].n
    BY <1>2
  <2>2. h'.atClose <= votes
    BY <1>1, <1>3 DEF Typed
  <2> QED
    BY <1>1, <1>2, <1>3, <2>1, <2>2 DEF Typed
<1>5. CASE h'.behind
  BY <1>4, <1>5 DEF IInv, StatusInv, CountInv
<1>6. CASE h'.behind = h.behind /\ session' = session /\ h'.atClose = h.atClose
  <2>1. \A t \in Slots : /\ Tells(t) => Tells(t)'
                         /\ Counts(t) => Counts(t)'
    BY <1>1, <1>2, <1>6 DEF Tells, Counts, UpdateDone
  <2>2. Complete => Complete'
    BY <1>1, <1>2, <1>3, <1>6 DEF Complete
  <2> QED
    BY <1>1, <1>4, <1>6, <2>1, <2>2 DEF IInv, StatusInv, CountInv
<1> QED
  BY <1>3, <1>5, <1>6

LEMMA OthersSteps ==
    ASSUME IInv, OtherAdmin \/ VoteBegins \/ VoteArrives
    PROVE  IInv'
<1>1. Typed /\ p' = p /\ net' = net
  BY DEF IInv, OtherAdmin, VoteBegins, VoteArrives
<1>2. CASE OtherAdmin
  <2>1. PICK act \in Updates : Upset /\ Moved(act, Upsetting(TRUE))
    BY <1>2 DEF OtherAdmin
  <2>2. /\ Upsetting(TRUE) \in HistoryType /\ Upsetting(TRUE).behind
        /\ Upsetting(TRUE).atClose = h.atClose
    BY <1>1, <2>1, UpsettingType
  <2>3. /\ session' \in Statuses /\ h' \in HistoryType /\ h'.behind
        /\ h'.atClose \in {h.atClose, votes} /\ votes' = votes /\ casting' = casting
    BY <1>1, <1>2, <2>1, <2>2, MovedType DEF OtherAdmin
  <2>4. h'.atClose <= votes
    BY <1>1, <2>3 DEF Typed
  <2>5. Typed'
    BY <1>1, <2>3, <2>4 DEF Typed
  <2> QED
    BY <2>3, <2>5 DEF IInv, StatusInv, CountInv
<1>3. CASE VoteBegins \/ VoteArrives
  <2>1. /\ session' = session /\ h' = h /\ votes' \in 0..MaxVotes /\ casting' \in 0..MaxVotes
        /\ votes <= votes' /\ votes' + casting' <= MaxVotes
    BY <1>1, <1>3, SessionPageAssumption DEF VoteBegins, VoteArrives, Typed
  <2>2. /\ p'.tally <= votes' /\ h'.atClose <= votes'
        /\ \A s \in Slots : net'[s].op # "none" => net'[s].n <= votes'
    <3>1. /\ p.tally \in Nat /\ h.atClose \in Nat /\ votes \in Nat /\ votes' \in Nat
      BY <1>1, <2>1, SessionPageAssumption DEF Typed, PageType, HistoryType
    <3>2. \A s \in Slots : net[s].op # "none" => net[s].n \in Nat
      BY <1>1, SessionPageAssumption DEF Typed, Network, Fetch, Idle
    <3> QED
      BY <1>1, <2>1, <3>1, <3>2 DEF Typed
  <2>3. Typed'
    BY <1>1, <2>1, <2>2 DEF Typed
  <2>4. \A s \in Slots : /\ Tells(s) => Tells(s)'
                         /\ Counts(s) => Counts(s)'
    BY <1>1, <2>1 DEF Tells, Counts, UpdateDone
  <2>5. Complete => Complete'
    BY <1>1, <2>1 DEF Complete
  <2> QED
    BY <1>1, <2>1, <2>3, <2>4, <2>5 DEF IInv, StatusInv, CountInv
<1> QED
  BY <1>2, <1>3

-----------------------------------------------------------------------------
(* The invariant, and what follows.                                        *)

LEMMA InitIInv ==
    ASSUME Init
    PROVE  IInv
<1>1. Quiet(Slots) \in Network /\ \A s \in Slots : Quiet(Slots)[s].op = "none"
  BY DEF Quiet, Network, Idle
<1>2. FreeSlots(Quiet(Slots)) # {}
  BY <1>1, SessionPageAssumption DEF FreeSlots, Network
<1>3. "session" \in Gets \cup Updates /\ "session" \notin Updates /\ "none" \notin Updates
  BY DEF Gets, Updates
<1>4. PICK u \in Slots :
         /\ net[u].op = "session" /\ net[u].answer = "none" /\ net[u].n = 0
         /\ \A s \in Slots \ {u} : net[s].op = "none"
  BY <1>1, <1>2, <1>3, SendType DEF Init, FetchVotingData
<1>5. net \in Network
  BY <1>1, <1>2, <1>3, SendType DEF Init, FetchVotingData
<1>6. /\ session \in Statuses /\ votes = 0 /\ casting = 0 /\ 0 \in 0..MaxVotes
      /\ p.tally = 0 /\ h.atClose = 0
      /\ p \in PageType /\ h \in HistoryType /\ ~p.loading /\ ~p.closing
  BY SessionPageAssumption DEF Init, Statuses, FreshPage, FreshHistory, PageType, HistoryType
<1>7. Typed
  BY <1>3, <1>4, <1>5, <1>6, SessionPageAssumption DEF Typed
<1>8. Tells(u) /\ Counts(u)
  BY <1>4 DEF Tells, Counts
<1> QED
  BY <1>7, <1>8 DEF IInv, StatusInv, CountInv

LEMMA NextIInv ==
    ASSUME IInv, [Next]_vars
    PROVE  IInv'
<1>1. CASE UNCHANGED vars
  BY <1>1 DEF vars, IInv, Typed, StatusInv, CountInv, Tells, Counts, UpdateDone, Complete
<1>2. ASSUME NEW s \in Slots, Deliver(s) \/ Serve(s) \/ Lose(s)
      PROVE  IInv'
  BY <1>2, SessionStep, CountsStep, UpdateStep, ServeGetStep, ServeUpdateStep, LoseStep
     DEF Deliver, Serve
<1> QED
  BY <1>1, <1>2, FetchSteps, UpdateSteps, DialogSteps, OthersSteps DEF Next

\* The invariant holds of every run of AdminVotingPage.
THEOREM Invariant == Spec => []IInv
<1>1. Init => IInv
  BY InitIInv
<1>2. IInv /\ [Next]_vars => IInv'
  BY NextIInv
<1> QED
  BY <1>1, <1>2, PTL DEF Spec

\* A settled request is none of the fetch's and none of the updates'.
LEMMA SettledMeans ==
    ASSUME IInv, Settled
    PROVE  \A s \in Slots : ~Tells(s) /\ ~Counts(s)
<1>1. \A s \in Slots : net[s].op \notin Gets \cup Updates
  BY DEF IInv, Typed, Network, Settled, Pending
<1> QED
  BY <1>1 DEF Tells, Counts, UpdateDone, Gets

\* fetchVotingData and the effect on session?.status leave the page with the
\* session's status, in whatever order overlapping fetches are answered.
THEOREM StatusCorrect == Spec => []SettledShowsServer
<1>1. ASSUME IInv
      PROVE  SettledShowsServer
  BY <1>1, SettledMeans DEF IInv, StatusInv, SettledShowsServer, Banner
<1> QED
  BY <1>1, Invariant, PTL

\* What handleExportCSV writes once the page has settled on a closed session counts
\* every vote recorded by the time of the close, unless the last answer with counts
\* was an error or overtaken.  Votes recorded after the close may be missing.
THEOREM TallyCorrect == Spec => []FinalTallyIsComplete
<1>1. ASSUME IInv
      PROVE  FinalTallyIsComplete
  BY <1>1, SettledMeans DEF IInv, Typed, PageType, HistoryType, CountInv, Complete,
                                   FinalTallyIsComplete, TallyShown, Report, Banner
<1> QED
  BY <1>1, Invariant, PTL

\* The page's state has the kinds of values it is declared with; actionLoading
\* keeps a second update from being sent while one is out.
THEOREM TypeCorrect == Spec => []TypeOK
<1>1. ASSUME IInv
      PROVE  TypeOK
  <2> DEFINE out == Pending(net, Updates)
  <2>1. /\ out = {s \in Slots : net[s].op \in Updates}
        /\ \A s, t \in out : s = t
        /\ p.loading <=> out # {}
    BY <1>1 DEF IInv, Typed, Network, Pending
  <2> HIDE DEF out
  <2>2. Cardinality(out) = IF p.loading THEN 1 ELSE 0
    <3>1. CASE out = {}
      BY <2>1, <3>1, FS_EmptySet
    <3>2. CASE out # {}
      <4>1. PICK s \in out : out = {s}
        BY <2>1, <3>2
      <4> QED
        BY <2>1, <3>2, <4>1, FS_Singleton
    <3> QED
      BY <3>1, <3>2
  <2> QED
    BY <1>1, <2>2 DEF IInv, Typed, TypeOK, PageType, HistoryType, Network, Fetch, out
<1> QED
  BY <1>1, Invariant, PTL
==============================================================================
