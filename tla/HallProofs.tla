------------------------------ MODULE HallProofs ------------------------------
(***************************************************************************)
(* Proofs about the two pages of the entrance, for any people, presses and *)
(* number of requests out at once.  What a page shows is decided by the    *)
(* request that was sent last, so the invariant says what the requests     *)
(* that are not overtaken agree with: the mutation with the badge it was   *)
(* given, the list with the filter that is chosen.                         *)
(***************************************************************************)
EXTENDS CheckInHall, FiniteSetTheorems, TLAPS

-----------------------------------------------------------------------------
(* What a send does to the slots.                                         *)

\* A page that may send has a slot to send with.
LEMMA CanSendFree ==
    ASSUME NEW n, CanSend(n, 1)
    PROVE  FreeSlots(n) # {}
BY FS_EmptySet DEF CanSend

\* A request takes one free slot, and the others stay.
LEMMA SentFills ==
    ASSUME NEW n, NEW r, FreeSlots(n) # {}
    PROVE  \E s \in DOMAIN n : n[s].op = "none" /\ Sent(n, r) = [n EXCEPT ![s] = r]
<1>1. PICK s \in FreeSlots(n) : Sent(n, r) = [n EXCEPT ![s] = r]
  BY DEF Sent
<1> QED
  BY <1>1 DEF FreeSlots

-----------------------------------------------------------------------------
(* The invariant.                                                        *)

DeskType ==
    [last : People \cup {None}, pending : BOOLEAN,
     shown : {"nothing", "success", "duplicate", "error"},
     of : People \cup {None}, scan : BOOLEAN]
ListType ==
    [filter : Filters, loading : BOOLEAN, rows : RowSets, rowsFor : Filters \cup {"nothing"},
     ticked : SUBSET People, loadingId : People \cup {None}, submitting : BOOLEAN]
Network == [Slots -> Request \cup {Idle}]

Typed ==
    /\ attendance \in [People -> {"none", "active", "undone"}]
    /\ presses \in 0..MaxPresses
    /\ net \in Network /\ desk \in DeskType /\ list \in ListType /\ crossed \in BOOLEAN

\* The desk waits for the mutation last sent, and only it reports.
Current(s) == net[s].op = "checkin" /\ net[s].page = "desk" /\ ~net[s].overtaken
DeskInv ==
    /\ \A s \in Slots : Current(s) => net[s].who = {desk.last}
    /\ desk.pending => \E s \in Slots : Current(s)
    /\ OutcomeIsOfLastBadge

\* The list that is not overtaken was asked for with the filter of the page.
ListInv ==
    /\ \A s \in Slots : net[s].op = "list" /\ ~net[s].overtaken => net[s].filter = list.filter
    /\ list.loading => \E s \in Slots : net[s].op = "list"
    /\ TableMatchesFilter

IInv == Typed /\ DeskInv /\ ListInv

-----------------------------------------------------------------------------
(* The gauge.                                                              *)

\* IsQuorumReached rounds before it compares: it says yes from 99 in 200 on, one
\* half less than a half, and never of an empty register.
THEOREM QuorumIsRounded ==
    ASSUME NEW present \in Nat, NEW total \in Nat
    PROVE  IsQuorumReached(present, total) <=> total > 0 /\ 200 * present >= 99 * total
<1>1. CASE total = 0
  BY <1>1 DEF IsQuorumReached, QuorumPercentage
<1>2. CASE total > 0
  <2> DEFINE a == 200 * present + total
             b == 2 * total
             d == a \div b
  <2>1. a \in Nat /\ b \in Nat /\ b > 0
    BY <1>2
  <2>2. IsQuorumReached(present, total) <=> d >= 50
    BY <1>2 DEF IsQuorumReached, QuorumPercentage
  <2>3. 200 * present >= 99 * total <=> a >= 50 * b
    BY <1>2
  <2> HIDE DEF a, b
  <2>4. d \in Int /\ d * b <= a /\ a < (d + 1) * b
    BY <2>1
  <2>5. d >= 50 <=> a >= 50 * b
    <3> HIDE DEF d
    <3>1. ASSUME d >= 50 PROVE a >= 50 * b
      BY <2>1, <2>4, <3>1
    <3>2. ASSUME d < 50 PROVE a < 50 * b
      <4>1. d + 1 <= 50 /\ d + 1 \in Int
        BY <2>4, <3>2
      <4> QED
        BY <2>1, <2>4, <4>1
    <3> QED
      BY <2>1, <2>4, <3>1, <3>2
  <2> QED
    BY <1>2, <2>2, <2>3, <2>5
<1> QED
  BY <1>1, <1>2

-----------------------------------------------------------------------------
(* Requests.                                                               *)

LEMMA AskType ==
    ASSUME NEW page \in {"desk", "list", "row", "form", "bulk"},
           NEW op \in {"checkin", "undo", "list"}, NEW who \in SUBSET People, NEW f \in Filters
    PROVE  Ask(page, op, who, f) \in Request
<1>1. <<>> \in RowSets
  BY DEF RowSets
<1> QED
  BY <1>1 DEF Ask, Request

LEMMA RowsType ==
    ASSUME Typed, NEW f \in Filters
    PROVE  Rows(f) \in RowSets
<1> DEFINE S == {q \in People : \/ f = "ALL"
                                \/ f = "PRESENT" /\ Present(q)
                                \/ f = "ABSENT" /\ ~Present(q)}
<1>1. Rows(f) \in [S -> BOOLEAN] /\ S \in SUBSET People
  BY DEF Rows, Present
<1> QED
  BY <1>1 DEF RowSets

LEMMA ServeStep ==
    ASSUME IInv, NEW s \in Slots, Serve(s), UNCHANGED <<desk, list, crossed>>
    PROVE  IInv'
<1>1. /\ net \in Network /\ attendance \in [People -> {"none", "active", "undone"}]
      /\ presses \in 0..MaxPresses
  BY DEF IInv, Typed
<1>2. net[s].op # "none" /\ net[s] \in Request
  BY <1>1 DEF Serve, ServeCheckIn, ServeUndo, ServeList, ServeError, Unserved, Network, Idle
<1>3. /\ net' \in Network /\ attendance' \in [People -> {"none", "active", "undone"}]
      /\ presses' = presses
      /\ \A t \in Slots : /\ net'[t].op = net[t].op /\ net'[t].page = net[t].page
                          /\ net'[t].overtaken = net[t].overtaken
                          /\ net'[t].who = net[t].who /\ net'[t].filter = net[t].filter
  <2>1. ASSUME NEW a \in {"new", "old", "ok", "failed"}, Reply(s, a)
        PROVE  /\ net' \in Network
               /\ \A t \in Slots : /\ net'[t].op = net[t].op /\ net'[t].page = net[t].page
                                   /\ net'[t].overtaken = net[t].overtaken
                                   /\ net'[t].who = net[t].who /\ net'[t].filter = net[t].filter
    <3>1. [net[s] EXCEPT !.answer = a] \in Request
      BY <1>2 DEF Request
    <3> QED
      BY <1>1, <1>2, <2>1, <3>1 DEF Reply, Network, Request
  <2>2. CASE ServeCheckIn(s)
    BY <1>1, <2>1, <2>2 DEF ServeCheckIn
  <2>3. CASE ServeUndo(s)
    BY <1>1, <2>1, <2>3 DEF ServeUndo
  <2>4. CASE ServeList(s)
    <3> DEFINE rows == Rows(net[s].filter)
    <3>1. rows \in RowSets
      BY <1>2, RowsType DEF IInv, Request
    <3>2. net' = [net EXCEPT ![s] = [net[s] EXCEPT !.answer = "ok", !.rows = rows]]
      BY <1>1, <1>2, <2>4 DEF ServeList, Network, Request
    <3> HIDE DEF rows
    <3>3. [net[s] EXCEPT !.answer = "ok", !.rows = rows] \in Request
      BY <1>2, <3>1 DEF Request, RowSets
    <3>4. attendance' = attendance /\ presses' = presses
      BY <2>4 DEF ServeList
    <3> QED
      BY <1>1, <1>2, <3>2, <3>3, <3>4 DEF Network, Request
  <2>5. CASE ServeError(s)
    BY <1>1, <2>1, <2>5 DEF ServeError
  <2> QED
    BY <2>2, <2>3, <2>4, <2>5 DEF Serve
<1>4. desk' = desk /\ list' = list /\ crossed' = crossed
  OBVIOUS
<1>5. Typed'
  BY <1>3, <1>4 DEF IInv, Typed
<1>6. DeskInv'
  BY <1>3, <1>4 DEF IInv, DeskInv, Current, OutcomeIsOfLastBadge
<1>7. ListInv'
  <2>1. DOMAIN net = Slots /\ DOMAIN net' = Slots
    BY <1>1, <1>3 DEF Network
  <2>2. Pending(net, {"list"})' = Pending(net, {"list"})
    BY <1>3, <2>1 DEF Pending
  <2> QED
    BY <1>3, <1>4, <2>2 DEF IInv, ListInv, TableMatchesFilter
<1> QED
  BY <1>5, <1>6, <1>7 DEF IInv

-----------------------------------------------------------------------------
(* The check-in page.                                                      *)

\* Presses of the check-in page that send nothing.
LEMMA CameraSteps ==
    ASSUME IInv, StartScanner \/ RetryWithBasicConstraint \/ StopScanner \/ ResetScanner,
           UNCHANGED <<list, crossed>>
    PROVE  IInv'
<1>1. /\ desk \in DeskType /\ net' = net /\ attendance' = attendance /\ presses' = presses
      /\ list' = list /\ crossed' = crossed
      /\ \/ \E ok \in BOOLEAN : desk' = [desk EXCEPT !.scan = ok]
         \/ ~desk.pending /\ desk' = [desk EXCEPT !.shown = "nothing", !.of = None]
  BY DEF StartScanner, RetryWithBasicConstraint, StopScanner, ResetScanner, OutcomeShown,
         hallVars, IInv, Typed
<1>2. /\ desk' \in DeskType /\ desk'.last = desk.last /\ desk'.pending = desk.pending
      /\ (desk'.shown = desk.shown /\ desk'.of = desk.of) \/ desk'.shown = "nothing"
  BY <1>1 DEF DeskType
<1>3. Typed'
  BY <1>1, <1>2 DEF IInv, Typed
<1>4. DeskInv'
  BY <1>1, <1>2 DEF IInv, DeskInv, Current, OutcomeIsOfLastBadge
<1>5. ListInv'
  BY <1>1 DEF IInv, ListInv, TableMatchesFilter, Pending
<1> QED
  BY <1>3, <1>4, <1>5 DEF IInv

LEMMA SupersededType ==
    ASSUME Typed
    PROVE  /\ Superseded \in Network
           /\ FreeSlots(Superseded) = FreeSlots(net)
           /\ \A s \in Slots :
                 /\ Superseded[s].op = net[s].op /\ Superseded[s].page = net[s].page
                 /\ Superseded[s].filter = net[s].filter
                 /\ Superseded[s].op = "checkin" /\ Superseded[s].page = "desk"
                       => Superseded[s].overtaken
                 /\ Superseded[s].op = "list" => Superseded[s].overtaken = net[s].overtaken
<1>1. net \in Network
  BY DEF Typed
<1>2. \A s \in Slots : net[s].op = "checkin" =>
         /\ net[s] \in Request
         /\ [net[s] EXCEPT !.overtaken = TRUE] \in Request
         /\ [net[s] EXCEPT !.overtaken = TRUE].op = net[s].op
         /\ [net[s] EXCEPT !.overtaken = TRUE].page = net[s].page
         /\ [net[s] EXCEPT !.overtaken = TRUE].filter = net[s].filter
         /\ [net[s] EXCEPT !.overtaken = TRUE].overtaken
  <2> SUFFICES ASSUME NEW s \in Slots, net[s].op = "checkin"
               PROVE  /\ net[s] \in Request
                      /\ [net[s] EXCEPT !.overtaken = TRUE] \in Request
                      /\ [net[s] EXCEPT !.overtaken = TRUE].op = net[s].op
                      /\ [net[s] EXCEPT !.overtaken = TRUE].page = net[s].page
                      /\ [net[s] EXCEPT !.overtaken = TRUE].filter = net[s].filter
                      /\ [net[s] EXCEPT !.overtaken = TRUE].overtaken
    OBVIOUS
  <2>1. net[s] \in Request
    BY <1>1 DEF Network, Idle
  <2> QED
    BY <2>1 DEF Request
<1>3. Superseded \in Network
  BY <1>1, <1>2 DEF Superseded, Network
<1>4. \A s \in Slots :
         /\ Superseded[s].op = net[s].op /\ Superseded[s].page = net[s].page
         /\ Superseded[s].filter = net[s].filter
         /\ Superseded[s].op = "checkin" /\ Superseded[s].page = "desk"
               => Superseded[s].overtaken
         /\ Superseded[s].op = "list" => Superseded[s].overtaken = net[s].overtaken
  BY <1>2 DEF Superseded
<1>5. DOMAIN Superseded = Slots /\ DOMAIN net = Slots
  BY <1>1, <1>3 DEF Network
<1> QED
  BY <1>3, <1>4, <1>5 DEF FreeSlots

LEMMA CheckInStep ==
    ASSUME IInv, NEW p \in People, NEW scan \in BOOLEAN, Press, HandleCheckIn(p, scan),
           UNCHANGED <<list, crossed>>
    PROVE  IInv'
<1> DEFINE r == Ask("desk", "checkin", {p}, "ALL")
<1>1. /\ r \in Request /\ r.op = "checkin" /\ r.page = "desk" /\ r.who = {p} /\ ~r.overtaken
  BY AskType DEF Ask, Filters
<1> HIDE DEF r
<1>2. /\ Superseded \in Network /\ FreeSlots(Superseded) # {}
      /\ \A s \in Slots :
            /\ Superseded[s].op = net[s].op /\ Superseded[s].filter = net[s].filter
            /\ Superseded[s].op = "checkin" /\ Superseded[s].page = "desk"
                  => Superseded[s].overtaken
            /\ Superseded[s].op = "list" => Superseded[s].overtaken = net[s].overtaken
  BY SupersededType, CanSendFree DEF HandleCheckIn, IInv
<1>3. PICK u \in DOMAIN Superseded :
        Superseded[u].op = "none" /\ Sent(Superseded, r) = [Superseded EXCEPT ![u] = r]
  BY <1>2, SentFills
<1>4. /\ net' \in Network /\ u \in Slots /\ net'[u] = r
      /\ net[u].op = "none" /\ \A s \in Slots \ {u} : net'[s] = Superseded[s]
  BY <1>1, <1>2, <1>3 DEF HandleCheckIn, Network, r
<1>5. /\ desk' = [last |-> p, pending |-> TRUE, shown |-> "nothing", of |-> None, scan |-> scan]
      /\ attendance' = attendance /\ list' = list /\ crossed' = crossed
      /\ presses' \in 0..MaxPresses
  <2>1. presses \in 0..MaxPresses /\ presses < MaxPresses /\ presses' = presses + 1
    BY DEF Press, IInv, Typed
  <2>2. presses' \in 0..MaxPresses
    BY <2>1, HallAssumption
  <2> QED
    BY <2>2 DEF HandleCheckIn
<1>6. Typed'
  BY <1>4, <1>5 DEF IInv, Typed, DeskType
<1>7. DeskInv'
  <2>1. \A s \in Slots : Current(s)' => s = u
    BY <1>2, <1>4 DEF Current
  <2>2. Current(u)' /\ net'[u].who = {desk'.last}
    BY <1>1, <1>4, <1>5 DEF Current
  <2> QED
    BY <1>4, <1>5, <2>1, <2>2 DEF DeskInv, OutcomeIsOfLastBadge
<1>8. ListInv'
  <2>1. DOMAIN net = Slots /\ DOMAIN net' = Slots
    BY <1>4 DEF IInv, Typed, Network
  <2>2. \A s \in Slots : /\ net'[s].op = "list" <=> net[s].op = "list"
                         /\ net'[s].op = "list" => /\ net'[s].filter = net[s].filter
                                                   /\ net'[s].overtaken = net[s].overtaken
    BY <1>1, <1>2, <1>4
  <2>3. Pending(net, {"list"})' = Pending(net, {"list"})
    BY <2>1, <2>2 DEF Pending
  <2> QED
    BY <1>5, <2>2, <2>3 DEF IInv, ListInv, TableMatchesFilter
<1> QED
  BY <1>6, <1>7, <1>8 DEF IInv

LEMMA DoneType ==
    ASSUME Typed, NEW s \in Slots
    PROVE  /\ Done(net, s) \in Network /\ s \in FreeSlots(Done(net, s))
           /\ Done(net, s)[s].op = "none"
           /\ \A t \in Slots \ {s} : Done(net, s)[t] = net[t]
<1>1. net \in Network
  BY DEF Typed
<1>2. /\ Done(net, s) \in Network /\ Done(net, s)[s] = Idle
      /\ \A t \in Slots \ {s} : Done(net, s)[t] = net[t]
  BY <1>1 DEF Done, Network
<1> QED
  BY <1>2 DEF FreeSlots, Idle, Network

LEMMA ReportStep ==
    ASSUME IInv, NEW s \in Slots, CheckInReported(s), UNCHANGED <<list, crossed>>
    PROVE  IInv'
<1>1. /\ net \in Network /\ desk \in DeskType /\ net[s].op = "checkin" /\ net[s].page = "desk"
      /\ attendance' = attendance /\ presses' = presses /\ list' = list /\ crossed' = crossed
  BY DEF CheckInReported, Answered, IInv, Typed
<1>2. /\ net' \in Network /\ net'[s].op = "none" /\ \A t \in Slots \ {s} : net'[t] = net[t]
  BY DoneType DEF CheckInReported, IInv
<1>3. /\ desk' \in DeskType /\ desk'.last = desk.last
      /\ net[s].overtaken => desk' = desk
      /\ ~net[s].overtaken => ~desk'.pending /\ desk'.of = desk.last
  <2>1. CASE net[s].overtaken
    BY <1>1, <2>1 DEF CheckInReported
  <2>2. CASE ~net[s].overtaken
    <3>1. net[s].who = {desk.last}
      BY <1>1, <2>2 DEF IInv, DeskInv, Current
    <3>2. desk' = [desk EXCEPT !.pending = FALSE, !.of = desk.last,
                               !.shown = Outcome(net[s].answer)]
      BY <2>2, <3>1 DEF CheckInReported
    <3>3. Outcome(net[s].answer) \in {"success", "duplicate", "error"}
      BY DEF Outcome
    <3> QED
      BY <1>1, <2>2, <3>2, <3>3 DEF DeskType
  <2> QED
    BY <2>1, <2>2
<1>4. Typed'
  BY <1>1, <1>2, <1>3 DEF IInv, Typed
<1>5. DeskInv'
  <2>1. \A t \in Slots : Current(t)' => Current(t) /\ net'[t].who = net[t].who
    BY <1>2 DEF Current
  <2>2. desk'.pending => \E t \in Slots : Current(t)'
    BY <1>2, <1>3 DEF IInv, DeskInv, Current
  <2> QED
    BY <1>3, <2>1, <2>2 DEF IInv, DeskInv, OutcomeIsOfLastBadge
<1>6. ListInv'
  <2>1. DOMAIN net = Slots /\ DOMAIN net' = Slots
    BY <1>1, <1>2 DEF Network
  <2>2. Pending(net, {"list"})' = Pending(net, {"list"})
    BY <1>1, <1>2, <2>1 DEF Pending
  <2> QED
    BY <1>1, <1>2, <2>2 DEF IInv, ListInv, TableMatchesFilter
<1> QED
  BY <1>4, <1>5, <1>6 DEF IInv

LEMMA LeaveStep ==
    ASSUME IInv, LeaveDesk, UNCHANGED <<list, crossed>>
    PROVE  IInv'
<1>1. /\ desk' = FreshDesk /\ net' = Superseded /\ attendance' = attendance
      /\ presses' = presses /\ list' = list /\ crossed' = crossed
  BY DEF LeaveDesk
<1>2. Typed'
  BY <1>1, SupersededType DEF IInv, Typed, FreshDesk, DeskType
<1>3. DeskInv'
  BY <1>1, SupersededType DEF IInv, DeskInv, Current, OutcomeIsOfLastBadge, FreshDesk
<1>4. ListInv'
  <2>1. Pending(net, {"list"})' = Pending(net, {"list"})
    <3>1. DOMAIN net = Slots /\ DOMAIN net' = Slots
      BY <1>1, SupersededType DEF IInv, Typed, Network
    <3> QED
      BY <1>1, <3>1, SupersededType DEF IInv, Pending
  <2> QED
    BY <1>1, <2>1, SupersededType DEF IInv, ListInv, TableMatchesFilter
<1> QED
  BY <1>2, <1>3, <1>4 DEF IInv

-----------------------------------------------------------------------------
(* The attendance page.                                                    *)

\* The lists that are out are overtaken, and one more is out.
LEMMA FetchType ==
    ASSUME NEW n \in Network, FreeSlots(n) # {}, NEW f \in Filters, NEW now
    PROVE  /\ FetchAttendance(n, f, now) \in Network
           /\ \E u \in Slots :
                 LET F == FetchAttendance(n, f, now) IN
                 /\ n[u].op = "none"
                 /\ F[u].op = "list" /\ F[u].filter = f /\ F[u].overtaken = (f # now)
                 /\ \A s \in Slots \ {u} : /\ F[s].op = n[s].op
                                           /\ F[s].op # "list" => F[s] = n[s]
                                           /\ F[s].op = "list" => F[s].overtaken
<1> DEFINE m == [s \in Slots |-> IF n[s].op = "list" THEN [n[s] EXCEPT !.overtaken = TRUE]
                                 ELSE n[s]]
           r == [Ask("list", "list", {}, f) EXCEPT !.overtaken = f # now]
<1>1. \A s \in Slots : n[s].op = "list" =>
         /\ [n[s] EXCEPT !.overtaken = TRUE] \in Request
         /\ [n[s] EXCEPT !.overtaken = TRUE].op = "list"
         /\ [n[s] EXCEPT !.overtaken = TRUE].overtaken
  <2> SUFFICES ASSUME NEW s \in Slots, n[s].op = "list"
               PROVE  /\ [n[s] EXCEPT !.overtaken = TRUE] \in Request
                      /\ [n[s] EXCEPT !.overtaken = TRUE].op = "list"
                      /\ [n[s] EXCEPT !.overtaken = TRUE].overtaken
    OBVIOUS
  <2>1. n[s] \in Request
    BY DEF Network, Idle
  <2> QED
    BY <2>1 DEF Request
<1>2. /\ m \in Network /\ FreeSlots(m) # {} /\ DOMAIN m = Slots
      /\ \A s \in Slots : /\ m[s].op = n[s].op
                          /\ m[s].op # "list" => m[s] = n[s]
                          /\ m[s].op = "list" => m[s].overtaken
  <2>1. m \in Network
    BY <1>1 DEF Network
  <2>2. \A s \in Slots : /\ m[s].op = n[s].op
                         /\ m[s].op # "list" => m[s] = n[s]
                         /\ m[s].op = "list" => m[s].overtaken
    BY <1>1
  <2> HIDE DEF m
  <2>3. DOMAIN m = Slots /\ DOMAIN n = Slots
    BY <2>1 DEF Network
  <2> QED
    BY <2>1, <2>2, <2>3 DEF FreeSlots
<1>3. r \in Request /\ r.op = "list" /\ r.filter = f /\ r.overtaken = (f # now)
  <2> DEFINE a == Ask("list", "list", {}, f)
  <2>1. a \in Request /\ a.op = "list" /\ a.filter = f
    BY AskType DEF Ask
  <2> HIDE DEF a
  <2>2. [a EXCEPT !.overtaken = f # now] \in Request
    BY <2>1 DEF Request
  <2> QED
    BY <2>1, <2>2 DEF Request, a
<1>4. FetchAttendance(n, f, now) = Sent(m, r)
  BY DEF FetchAttendance
<1> HIDE DEF m, r
<1>5. PICK u \in DOMAIN m : m[u].op = "none" /\ Sent(m, r) = [m EXCEPT ![u] = r]
  BY <1>2, SentFills
<1>6. u \in Slots /\ [m EXCEPT ![u] = r] \in Network
  BY <1>2, <1>3, <1>5 DEF Network
<1> QED
  BY <1>2, <1>3, <1>4, <1>5, <1>6

\* A step of the attendance page that leaves the mutations of the desk alone.
LEMMA DeskStays ==
    ASSUME IInv, UNCHANGED desk,
           \A s \in Slots : \/ net'[s] = net[s]
                            \/ /\ net[s].op = "checkin" => net[s].page # "desk"
                               /\ net'[s].op = "checkin" => net'[s].page # "desk"
    PROVE  DeskInv'
<1>1. \A s \in Slots : /\ Current(s)' <=> Current(s)
                       /\ Current(s) => net'[s].who = net[s].who
  <2> SUFFICES ASSUME NEW s \in Slots
               PROVE  /\ Current(s)' <=> Current(s)
                      /\ Current(s) => net'[s].who = net[s].who
    OBVIOUS
  <2>1. CASE net'[s] = net[s]
    BY <2>1 DEF Current
  <2>2. CASE net'[s] # net[s]
    <3>1. ~Current(s) /\ ~Current(s)'
      BY <2>2 DEF Current
    <3> QED
      BY <3>1
  <2> QED
    BY <2>1, <2>2
<1> QED
  BY <1>1 DEF IInv, DeskInv, OutcomeIsOfLastBadge

LEMMA PressType ==
    ASSUME IInv, Press
    PROVE  presses' \in 0..MaxPresses
<1>1. presses \in 0..MaxPresses /\ presses < MaxPresses /\ presses' = presses + 1
  BY DEF Press, IInv, Typed
<1> QED
  BY <1>1, HallAssumption

LEMMA FetchSteps ==
    ASSUME IInv, UNCHANGED desk,
           PressRefresh \/ \E f \in UsedFilters : SetStatusFilter(f)
    PROVE  IInv'
<1>1. PICK f \in Filters :
         /\ list' = [list EXCEPT !.filter = f, !.loading = TRUE]
         /\ net' = FetchAttendance(net, f, f) /\ CanSend(net, 1)
         /\ attendance' = attendance /\ crossed' = crossed /\ Press
  <2>1. CASE PressRefresh
    <3>1. /\ list.filter \in Filters
          /\ [list EXCEPT !.loading = TRUE] = [list EXCEPT !.filter = list.filter, !.loading = TRUE]
      BY DEF IInv, Typed, ListType
    <3> QED
      BY <2>1, <3>1 DEF PressRefresh
  <2>2. CASE \E f \in UsedFilters : SetStatusFilter(f)
    BY <2>2, AttendancePageAssumption DEF SetStatusFilter
  <2> QED
    BY <2>1, <2>2
<1>2. net \in Network /\ list \in ListType /\ FreeSlots(net) # {}
  BY <1>1, CanSendFree DEF IInv, Typed
<1>3. net' \in Network
  BY <1>1, <1>2, FetchType
<1>4. PICK u \in Slots :
         /\ net[u].op = "none"
         /\ net'[u].op = "list" /\ net'[u].filter = f
         /\ \A s \in Slots \ {u} : /\ net'[s].op = net[s].op
                                   /\ net'[s].op # "list" => net'[s] = net[s]
                                   /\ net'[s].op = "list" => net'[s].overtaken
  BY <1>1, <1>2, FetchType
<1>5. list' \in ListType /\ list'.filter = f
  BY <1>1, <1>2 DEF ListType
<1>6. Typed'
  BY <1>1, <1>3, <1>5, PressType DEF IInv, Typed
<1>7. DeskInv'
  BY <1>4, DeskStays
<1>8. ListInv'
  <2>1. u \in Pending(net, {"list"})'
    BY <1>3, <1>4 DEF Pending, Network
  <2> QED
    BY <1>4, <1>5, <2>1 DEF ListInv, TableMatchesFilter
<1> QED
  BY <1>6, <1>7, <1>8 DEF IInv

LEMMA TickSteps ==
    ASSUME IInv, UNCHANGED desk, ToggleSelectAll \/ \E p \in People : ToggleSelect(p)
    PROVE  IInv'
<1>1. list \in ListType /\ Fetched \subseteq People
  <2>1. list \in ListType /\ list.rows \in RowSets
    BY DEF IInv, Typed, ListType
  <2>2. CASE list.rows \in UNION {[S -> BOOLEAN] : S \in SUBSET People}
    BY <2>1, <2>2 DEF Fetched
  <2>3. CASE list.rows = <<>>
    <3>1. DOMAIN list.rows = {}
      BY <2>3
    <3> QED
      BY <2>1, <3>1 DEF Fetched
  <2> QED
    BY <2>1, <2>2, <2>3, Zenon DEF RowSets
<1>2. /\ \E ticked \in SUBSET People : list' = [list EXCEPT !.ticked = ticked]
      /\ net' = net /\ attendance' = attendance /\ crossed' = crossed /\ Press
  <2>1. ASSUME NEW p \in People, ToggleSelect(p)
        PROVE  \E ticked \in SUBSET People : list' = [list EXCEPT !.ticked = ticked]
    <3>1. list.ticked \in SUBSET People
      BY <1>1 DEF ListType
    <3> QED
      BY <1>1, <2>1, <3>1 DEF ToggleSelect
  <2>2. ASSUME ToggleSelectAll
        PROVE  \E ticked \in SUBSET People : list' = [list EXCEPT !.ticked = ticked]
    BY <1>1, <2>2 DEF ToggleSelectAll
  <2> QED
    BY <2>1, <2>2 DEF ToggleSelect, ToggleSelectAll
<1>3. list' \in ListType /\ list'.filter = list.filter /\ list'.loading = list.loading
      /\ list'.rowsFor = list.rowsFor
  BY <1>1, <1>2 DEF ListType
<1>4. Typed'
  BY <1>2, <1>3, PressType DEF IInv, Typed
<1>5. DeskInv'
  BY <1>2, DeskStays
<1>6. ListInv'
  BY <1>2, <1>3 DEF IInv, ListInv, TableMatchesFilter, Pending
<1> QED
  BY <1>4, <1>5, <1>6 DEF IInv

\* What an action sends is no list and not the desk's.
LEMMA ActionSteps ==
    ASSUME IInv, UNCHANGED desk,
           HandleBulkUndo \/ \E p \in People : \/ HandleQuickCheckIn(p) \/ HandleUndoCheckIn(p)
                                               \/ HandleManualCheckIn(p)
    PROVE  IInv'
<1>1. net \in Network /\ list \in ListType /\ list.ticked \in SUBSET People
  BY DEF IInv, Typed, ListType
<1>2. PICK page \in {"row", "form", "bulk"}, op \in {"checkin", "undo"}, who \in SUBSET People :
         /\ net' = Sent(net, Ask(page, op, who, list.filter))
         /\ \/ \E p \in People : list' = [list EXCEPT !.loadingId = p]
            \/ list' = [list EXCEPT !.submitting = TRUE]
         /\ Press /\ CanSend(net, 1) /\ attendance' = attendance /\ crossed' = crossed
  <2>1. ASSUME NEW p \in People, HandleQuickCheckIn(p)
        PROVE  /\ net' = Sent(net, Ask("row", "checkin", {p}, list.filter))
               /\ list' = [list EXCEPT !.loadingId = p]
               /\ Press /\ CanSend(net, 1) /\ attendance' = attendance /\ crossed' = crossed
    BY <2>1 DEF HandleQuickCheckIn
  <2>2. ASSUME NEW p \in People, HandleUndoCheckIn(p)
        PROVE  /\ net' = Sent(net, Ask("row", "undo", {p}, list.filter))
               /\ list' = [list EXCEPT !.loadingId = p]
               /\ Press /\ CanSend(net, 1) /\ attendance' = attendance /\ crossed' = crossed
    BY <2>2 DEF HandleUndoCheckIn
  <2>3. ASSUME NEW p \in People, HandleManualCheckIn(p)
        PROVE  /\ net' = Sent(net, Ask("form", "checkin", {p}, list.filter))
               /\ list' = [list EXCEPT !.submitting = TRUE]
               /\ Press /\ CanSend(net, 1) /\ attendance' = attendance /\ crossed' = crossed
    BY <2>3 DEF HandleManualCheckIn
  <2>4. ASSUME HandleBulkUndo
        PROVE  /\ net' = Sent(net, Ask("bulk", "undo", list.ticked, list.filter))
               /\ list' = [list EXCEPT !.submitting = TRUE]
               /\ Press /\ CanSend(net, 1) /\ attendance' = attendance /\ crossed' = crossed
    BY <2>4 DEF HandleBulkUndo
  <2>5. \A p \in People : {p} \in SUBSET People
    OBVIOUS
  <2> QED
    BY <1>1, <2>1, <2>2, <2>3, <2>4, <2>5
<1> DEFINE r == Ask(page, op, who, list.filter)
<1>3. /\ r \in Request /\ r.op = op /\ r.page = page
  <2>1. list.filter \in Filters
    BY <1>1 DEF ListType
  <2> QED
    BY <2>1, AskType DEF Ask
<1>4. list' \in ListType /\ list'.filter = list.filter /\ list'.loading = list.loading
      /\ list'.rowsFor = list.rowsFor
  BY <1>1, <1>2 DEF ListType
<1> HIDE DEF r
<1>5. FreeSlots(net) # {}
  BY <1>2, CanSendFree
<1>6. PICK u \in DOMAIN net : net[u].op = "none" /\ Sent(net, r) = [net EXCEPT ![u] = r]
  BY <1>5, SentFills
<1>7. /\ net' \in Network /\ u \in Slots /\ net'[u] = r /\ net[u].op = "none"
      /\ \A s \in Slots \ {u} : net'[s] = net[s]
  BY <1>1, <1>2, <1>3, <1>6 DEF Network, r
<1>8. Typed'
  BY <1>2, <1>4, <1>7, PressType DEF IInv, Typed
<1>9. DeskInv'
  BY <1>2, <1>3, <1>7, DeskStays
<1>10. ListInv'
  <2>1. DOMAIN net = Slots /\ DOMAIN net' = Slots
    BY <1>1, <1>7 DEF Network
  <2>2. Pending(net, {"list"})' = Pending(net, {"list"})
    BY <1>2, <1>3, <1>7, <2>1 DEF Pending
  <2> QED
    BY <1>2, <1>3, <1>4, <1>7, <2>2 DEF IInv, ListInv, TableMatchesFilter
<1> QED
  BY <1>8, <1>9, <1>10 DEF IInv

LEMMA ListAnswerStep ==
    ASSUME IInv, UNCHANGED desk, NEW s \in Slots, ListAnswered(s)
    PROVE  IInv'
<1>1. /\ net \in Network /\ list \in ListType /\ net[s].op = "list"
      /\ list' = AfterList(net[s]) /\ crossed' = (net[s].overtaken \/ net[s].answer # "ok")
      /\ attendance' = attendance /\ presses' = presses
  BY DEF IInv, Typed, ListAnswered, Answered
<1>2. net[s] \in Request
  BY <1>1 DEF Network, Idle
<1>3. net' \in Network /\ net'[s].op = "none" /\ \A t \in Slots \ {s} : net'[t] = net[t]
  BY DoneType DEF IInv, ListAnswered
<1>4. /\ list' \in ListType /\ list'.filter = list.filter /\ list'.loading = FALSE
      /\ net[s].answer = "ok" => list'.rowsFor = net[s].filter
  BY <1>1, <1>2 DEF ListType, AfterList, Filled, Request
<1>5. Typed'
  BY <1>1, <1>2, <1>3, <1>4 DEF IInv, Typed, Request
<1>6. DeskInv'
  BY <1>1, <1>3, DeskStays
<1>7. ListInv'
  <2>1. net[s].overtaken \in BOOLEAN
    BY <1>2 DEF Request
  <2>2. crossed' \/ list'.rowsFor = list'.filter
    BY <1>1, <1>4, <2>1 DEF IInv, ListInv
  <2>3. TableMatchesFilter'
    BY <2>2 DEF TableMatchesFilter
  <2>4. \A t \in Slots : net'[t].op = "list" /\ ~net'[t].overtaken => net'[t].filter = list'.filter
    BY <1>3, <1>4 DEF IInv, ListInv
  <2> QED
    BY <1>4, <2>3, <2>4 DEF ListInv
<1> QED
  BY <1>5, <1>6, <1>7 DEF IInv

LEMMA ActionAnswerStep ==
    ASSUME IInv, UNCHANGED desk, NEW s \in Slots, ActionAnswered(s)
    PROVE  IInv'
<1>1. /\ net \in Network /\ list \in ListType
      /\ net[s].op \in {"checkin", "undo"} /\ net[s].page # "desk"
      /\ attendance' = attendance /\ presses' = presses /\ crossed' = crossed
  BY DEF IInv, Typed, ActionAnswered
<1>2. net[s] \in Request /\ net[s].filter \in Filters
  BY <1>1 DEF Network, Idle, Request
<1>3. /\ Done(net, s) \in Network /\ FreeSlots(Done(net, s)) # {}
      /\ Done(net, s)[s].op = "none" /\ \A t \in Slots \ {s} : Done(net, s)[t] = net[t]
  BY DoneType DEF IInv
<1>4. /\ list' \in ListType /\ list'.filter = list.filter /\ list'.rowsFor = list.rowsFor
      /\ net[s].answer = "failed" => list'.loading = list.loading
  <2>1. list' = [list EXCEPT !.loading = list.loading \/ net[s].answer # "failed",
                             !.loadingId = IF net[s].page = "row" THEN None ELSE list.loadingId,
                             !.submitting = IF net[s].page = "row" THEN list.submitting ELSE FALSE,
                             !.ticked = IF net[s].page = "bulk" /\ net[s].answer = "ok" THEN {}
                                        ELSE list.ticked]
    BY DEF ActionAnswered
  <2> QED
    BY <1>1, <2>1 DEF ListType
<1>5. CASE net[s].answer = "failed"
  <2>1. net' \in Network /\ net'[s].op = "none" /\ \A t \in Slots \ {s} : net'[t] = net[t]
    BY <1>3, <1>5 DEF ActionAnswered
  <2>2. Typed'
    BY <1>1, <1>4, <2>1 DEF IInv, Typed
  <2>3. DeskInv'
    BY <1>1, <2>1, DeskStays
  <2>4. Pending(net, {"list"})' = Pending(net, {"list"})
    BY <1>1, <2>1 DEF Pending, Network
  <2>5. ListInv'
    BY <1>1, <1>4, <1>5, <2>1, <2>4 DEF IInv, ListInv, TableMatchesFilter
  <2> QED
    BY <2>2, <2>3, <2>5 DEF IInv
<1>6. CASE net[s].answer # "failed"
  <2>1. net' = FetchAttendance(Done(net, s), net[s].filter, list.filter)
    BY <1>6 DEF ActionAnswered
  <2>2. net' \in Network
    BY <1>2, <1>3, <2>1, FetchType
  <2>3. PICK u \in Slots :
           /\ Done(net, s)[u].op = "none"
           /\ net'[u].op = "list" /\ net'[u].filter = net[s].filter
           /\ net'[u].overtaken = (net[s].filter # list.filter)
           /\ \A t \in Slots \ {u} : /\ net'[t].op = Done(net, s)[t].op
                                     /\ net'[t].op # "list" => net'[t] = Done(net, s)[t]
                                     /\ net'[t].op = "list" => net'[t].overtaken
    BY <1>2, <1>3, <2>1, FetchType
  <2>4. Typed'
    BY <1>1, <1>4, <2>2 DEF IInv, Typed
  <2>5. DeskInv'
    <3>1. \A t \in Slots : \/ net'[t] = net[t]
                           \/ /\ net[t].op = "checkin" => net[t].page # "desk"
                              /\ net'[t].op = "checkin" => net'[t].page # "desk"
      BY <1>1, <1>3, <2>3
    <3> QED
      BY <3>1, DeskStays
  <2>6. ListInv'
    <3>1. u \in Pending(net, {"list"})'
      BY <2>2, <2>3 DEF Pending, Network
    <3> QED
      BY <1>4, <2>3, <3>1 DEF ListInv, TableMatchesFilter
  <2> QED
    BY <2>4, <2>5, <2>6 DEF IInv
<1> QED
  BY <1>5, <1>6

-----------------------------------------------------------------------------
(* The invariant, and what follows.                                        *)

LEMMA InitIInv ==
    ASSUME Init
    PROVE  IInv
<1> DEFINE m == [s \in Slots |-> IF Quiet(Slots)[s].op = "list"
                                 THEN [Quiet(Slots)[s] EXCEPT !.overtaken = TRUE]
                                 ELSE Quiet(Slots)[s]]
           r == [Ask("list", "list", {}, "ALL") EXCEPT !.overtaken = FALSE]
<1>1. "ALL" \in Filters /\ HallInit /\ DeskInit /\ ListInit
  BY DEF Init, Filters
<1>2. Quiet(Slots) \in Network /\ DOMAIN Quiet(Slots) = Slots
  BY DEF Quiet, Network
<1>3. FreeSlots(Quiet(Slots)) # {}
  <2>1. PICK s \in Slots : TRUE
    BY HallAssumption
  <2>2. Quiet(Slots)[s].op = "none"
    BY <2>1 DEF Quiet, Idle
  <2> QED
    BY <1>2, <2>1, <2>2 DEF FreeSlots
<1>4. net \in Network
  BY <1>1, <1>2, <1>3, FetchType DEF ListInit
<1>5. PICK u \in Slots :
         /\ net[u].op = "list" /\ net[u].filter = "ALL"
         /\ \A s \in Slots \ {u} : net[s].op = "none"
  <2>1. PICK u \in Slots :
           /\ net[u].op = "list" /\ net[u].filter = "ALL"
           /\ \A s \in Slots \ {u} : net[s].op = Quiet(Slots)[s].op
    BY <1>1, <1>2, <1>3, FetchType DEF ListInit
  <2>2. \A s \in Slots : Quiet(Slots)[s].op = "none"
    BY DEF Quiet, Idle
  <2> QED
    BY <2>1, <2>2
<1>6. attendance = [p \in People |-> "none"] /\ presses = 0 /\ desk = FreshDesk
      /\ list = FreshList /\ crossed = FALSE
  BY <1>1 DEF HallInit, DeskInit, ListInit
<1>7. <<>> \in RowSets
  BY DEF RowSets
<1>8. Typed
  <2>1. FreshList \in ListType
    BY <1>1, <1>7 DEF FreshList, ListType
  <2>2. FreshDesk \in DeskType
    BY DEF FreshDesk, DeskType
  <2>3. presses \in 0..MaxPresses
    BY <1>6, HallAssumption
  <2>4. attendance \in [People -> {"none", "active", "undone"}]
    BY <1>6
  <2> QED
    BY <1>4, <1>6, <2>1, <2>2, <2>3, <2>4 DEF Typed
<1>9. DeskInv
  BY <1>5, <1>6 DEF DeskInv, Current, OutcomeIsOfLastBadge, FreshDesk
<1>10. ListInv
  <2>1. u \in Pending(net, {"list"})
    BY <1>4, <1>5 DEF Pending, Network
  <2> QED
    BY <1>5, <1>6, <2>1 DEF ListInv, TableMatchesFilter, FreshList
<1> QED
  BY <1>8, <1>9, <1>10 DEF IInv

LEMMA NextIInv ==
    ASSUME IInv, [Next]_vars
    PROVE  IInv'
<1>1. CASE DeskNext /\ UNCHANGED <<list, crossed>>
  <2>1. ASSUME NEW p \in People, HandleManualSubmit(p) \/ Decode(p) \/ OpenedByBadge(p)
        PROVE  IInv'
    BY <1>1, <2>1, CheckInStep DEF HandleManualSubmit, Decode, OpenedByBadge
  <2> QED
    BY <1>1, <2>1, CameraSteps, LeaveStep, ReportStep DEF DeskNext
<1>2. CASE ListNext /\ UNCHANGED desk
  BY <1>2, FetchSteps, TickSteps, ActionSteps, ListAnswerStep, ActionAnswerStep DEF ListNext
<1>3. CASE UNCHANGED vars
  BY <1>3 DEF vars, hallVars, IInv, Typed, DeskInv, ListInv, Current, OutcomeIsOfLastBadge,
              TableMatchesFilter, Pending
<1> QED
  BY <1>1, <1>2, <1>3, ServeStep DEF Next

\* The invariant holds of every run of the two pages.
THEOREM Invariant == Spec => []IInv
<1>1. Init => IInv
  BY InitIInv
<1>2. IInv /\ [Next]_vars => IInv'
  BY NextIInv
<1> QED
  BY <1>1, <1>2, PTL DEF Spec

\* CheckInContent announces the outcome of the badge it sent last, in whatever
\* order mutations are answered.
THEOREM OutcomeCorrect == Spec => []OutcomeIsOfLastBadge
<1>1. IInv => OutcomeIsOfLastBadge
  BY DEF IInv, DeskInv
<1> QED
  BY <1>1, Invariant, PTL

\* fetchAttendanceData leaves the table with the rows of its filter, unless its
\* answers crossed.
THEOREM TableCorrect == Spec => []TableMatchesFilter
<1>1. IInv => TableMatchesFilter
  BY DEF IInv, ListInv
<1> QED
  BY <1>1, Invariant, PTL

\* The pages' states have the kinds of values they are declared with, and a page
\* that shows that it waits has something to wait for.
THEOREM TypeCorrect == Spec => []TypeOK
<1>1. ASSUME IInv
      PROVE  TypeOK
  <2>1. Fetched \subseteq People
    <3>1. list.rows \in RowSets
      BY <1>1 DEF IInv, Typed, ListType
    <3> QED
      BY <3>1 DEF Fetched, RowSets
  <2>2. DOMAIN net = Slots
    BY <1>1 DEF IInv, Typed, Network
  <2>3. list.loading => Pending(net, {"list"}) # {}
    BY <1>1, <2>2 DEF IInv, ListInv, Pending
  <2>4. desk.pending => \E s \in Pending(net, {"checkin"}) :
                           net[s].page = "desk" /\ ~net[s].overtaken
    BY <1>1, <2>2 DEF IInv, DeskInv, Current, Pending
  <2> QED
    BY <1>1, <2>1, <2>3, <2>4 DEF IInv, Typed, TypeOK, DeskType, ListType, Network
<1> QED
  BY <1>1, Invariant, PTL
==============================================================================
