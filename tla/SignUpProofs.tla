----------------------------- MODULE SignUpProofs -----------------------------
(***************************************************************************)
(* Proofs about the registration page, for any addresses, rooms and bounds.*)
(* A draft left behind and a refusal that nobody understands each take     *)
(* several steps to come about; the invariant says which timers may still  *)
(* write while a registration is out, and who of those that are stored has *)
(* not been thanked yet.                                                   *)
(***************************************************************************)
EXTENDS SignUpPage, FiniteSetTheorems, TLAPS

-----------------------------------------------------------------------------
(* What a send does to the slots.                                         *)

\* A page that may send has a slot to send with.
LEMMA CanSendFree ==
    ASSUME NEW n, CanSend(n, 1)
    PROVE  FreeSlots(n) # {}
BY FS_EmptySet DEF CanSend

\* A request takes one free slot, and the others stay.
LEMMA SentFills ==
    ASSUME NEW n, NEW r, FreeSlots(n) # {}
    PROVE  \E s \in DOMAIN n : n[s].op = "none" /\ Sent(n, r) = [n EXCEPT ![s] = r]
<1>1. PICK s \in FreeSlots(n) : Sent(n, r) = [n EXCEPT ![s] = r]
  BY DEF Sent
<1> QED
  BY <1>1 DEF FreeSlots

-----------------------------------------------------------------------------
(* The invariant.                                                        *)

SiteType == [phase : Phases, enabled : BOOLEAN, mode : Modes, main : 0..Room, waiting : Nat]
SuccessType == [email : Emails \cup {None}, place : Places \cup {"none"}]
PageType ==
    [status : {"loading", "open", "waiting_list", "closed", "not_started"}, step : 1..4,
     form : Forms, saving : {"idle", "saving", "saved"}, armed : BOOLEAN, idles : Nat,
     loading : BOOLEAN, error : Refusals \cup {"none"}, tried : Emails \cup {None},
     success : SuccessType]
HistoryType ==
    [late : BOOLEAN, thanked : SUBSET Emails, unheard : SUBSET Emails,
     said : {"unknown", "off", "main", "full", "waiting"}]
Answer == {"none", "ok"} \cup Places \cup Refusals
Message ==
    [op : {"home", "register"}, form : Forms, heard : {"page", "handler", "nobody"},
     answer : Answer, site : SiteType \cup {"none"}]
Network == [Slots -> Message \cup {Idle}]

\* A registration names an address; the home data is asked for once, by a page
\* that shows nothing yet.
Typed ==
    /\ site \in SiteType /\ stored \in [Emails -> Places \cup {"none"}]
    /\ draft \in Forms /\ p \in PageType /\ h \in HistoryType /\ net \in Network
    /\ p.step \in {2, 3} => p.form.email # None
    /\ \A s \in Slots : /\ net[s].op = "register" => /\ net[s].form.email \in Emails
                                                     /\ net[s].answer # "ok"
                        /\ net[s].op = "home" => /\ p.status = "loading"
                                                 /\ net[s].answer \notin Places
    /\ p.status = "loading" => p.step = 1 /\ ~p.loading
    /\ \A s, t \in Slots : net[s].op = "home" /\ net[t].op = "home" => s = t

\* A timer that will still write the draft is known of, once it could do harm.
Drafts ==
    /\ p.armed /\ (p.saving # "saving" \/ p.loading \/ p.step = 4) => h.late
    /\ p.step = 4 /\ draft # NoForm => h.late

\* The registration the page waits for.
Awaited(s) == net[s].op = "register" /\ net[s].heard = "page"
Explained(e) == e \in h.thanked \cup h.unheard

\* Who is stored was thanked, or went unheard, or is about to be thanked.
Stored ==
    /\ \A s \in Slots : Awaited(s) => p.loading
    /\ \A s, t \in Slots : Awaited(s) /\ Awaited(t) => s = t
    /\ \A s \in Slots : net[s].op = "register" /\ net[s].heard # "page"
                           => Explained(net[s].form.email)
    /\ \A s \in Slots : Awaited(s) /\ net[s].answer = "duplicate" => Explained(net[s].form.email)
    /\ \A e \in Emails : stored[e] # "none" =>
          \/ Explained(e)
          \/ \E s \in Slots : Awaited(s) /\ net[s].form.email = e /\ net[s].answer \in Places
    /\ DuplicateIsExplained

IInv == Typed /\ Drafts /\ Stored

-----------------------------------------------------------------------------
(* The page alone.                                                         *)

\* A step that touches neither the requests nor what is stored.
LEMMA PageOnly ==
    ASSUME IInv, UNCHANGED <<site, stored, net>>, draft' \in Forms, p' \in PageType,
           h' \in HistoryType, h'.thanked = h.thanked, h'.unheard = h.unheard,
           p'.status = p.status, p'.loading = p.loading, p'.error = p.error, p'.tried = p.tried,
           p'.step \in {2, 3} => p'.form.email # None,
           p'.status = "loading" => p'.step = 1, Drafts'
    PROVE  IInv'
<1>1. Typed'
  BY DEF IInv, Typed
<1>2. Stored'
  BY DEF IInv, Stored, Awaited, Explained, DuplicateIsExplained
<1> QED
  BY <1>1, <1>2 DEF IInv

LEMMA FormSteps ==
    ASSUME IInv, FillWork \/ \E e \in Emails : TypeEmail(e)
    PROVE  IInv'
<1>1. PICK f \in Forms :
         /\ Changed(f) /\ FormShown /\ p.step \in {1, 2}
         /\ p.step = 2 => f.email = p.form.email
  <2>1. p.form \in Forms /\ \A e \in Emails : [p.form EXCEPT !.email = e] \in Forms
    BY DEF IInv, Typed, PageType, Forms
  <2>2. [p.form EXCEPT !.work = TRUE] \in Forms /\ [p.form EXCEPT !.work = TRUE].email = p.form.email
    BY <2>1 DEF Forms
  <2>3. CASE FillWork
    <3>1. Changed([p.form EXCEPT !.work = TRUE]) /\ FormShown /\ p.step = 2
      BY <2>3 DEF FillWork, Step2
    <3> QED
      BY <2>2, <3>1
  <2>4. CASE \E e \in Emails : TypeEmail(e)
    <3>1. PICK e \in Emails : Changed([p.form EXCEPT !.email = e]) /\ FormShown /\ p.step = 1
      BY <2>4 DEF TypeEmail, Step1
    <3> QED
      BY <2>1, <3>1
  <2> QED
    BY <2>3, <2>4
<1>2. /\ p' = [p EXCEPT !.form = f, !.saving = "saving", !.armed = TRUE]
      /\ h' = [h EXCEPT !.late = @ \/ p.loading]
      /\ site' = site /\ stored' = stored /\ draft' = draft /\ net' = net
      /\ p \in PageType /\ h \in HistoryType /\ draft \in Forms
  BY <1>1 DEF Changed, IInv, Typed
<1>3. /\ p' \in PageType /\ p'.status = p.status /\ p'.loading = p.loading /\ p'.error = p.error
      /\ p'.tried = p.tried /\ p'.step = p.step /\ p'.form = f /\ p'.saving = "saving"
  BY <1>2 DEF PageType
<1>4. /\ h' \in HistoryType /\ h'.thanked = h.thanked /\ h'.unheard = h.unheard
      /\ p.loading => h'.late
  BY <1>2 DEF HistoryType, PageType
<1>5. Drafts'
  BY <1>1, <1>3, <1>4 DEF Drafts
<1>6. /\ p'.step \in {2, 3} => p'.form.email # None
      /\ p'.status = "loading" => p'.step = 1
  BY <1>1, <1>3 DEF IInv, Typed
<1> QED
  BY <1>2, <1>3, <1>4, <1>5, <1>6, PageOnly

LEMMA TimerSteps ==
    ASSUME IInv, DraftTimer \/ IdleTimer
    PROVE  IInv'
<1>1. /\ site' = site /\ stored' = stored /\ net' = net
      /\ p \in PageType /\ h \in HistoryType /\ draft \in Forms
  BY DEF DraftTimer, IdleTimer, IInv, Typed
<1>2. /\ p' \in PageType /\ p'.status = p.status /\ p'.loading = p.loading /\ p'.error = p.error
      /\ p'.tried = p.tried /\ p'.step = p.step /\ p'.form = p.form
  <2>1. CASE DraftTimer
    <3>1. p' = [p EXCEPT !.armed = FALSE, !.saving = "saved", !.idles = @ + 1] /\ p.idles + 1 \in Nat
      BY <1>1, <2>1 DEF DraftTimer, PageType
    <3> QED
      BY <1>1, <3>1 DEF PageType
  <2>2. CASE IdleTimer
    <3>1. p' = [p EXCEPT !.saving = "idle", !.idles = @ - 1] /\ p.idles - 1 \in Nat
      BY <1>1, <2>2 DEF IdleTimer, PageType
    <3> QED
      BY <1>1, <3>1 DEF PageType
  <2> QED
    BY <2>1, <2>2
<1>3. /\ h' \in HistoryType /\ h'.thanked = h.thanked /\ h'.unheard = h.unheard
      /\ draft' \in Forms
  BY <1>1 DEF DraftTimer, IdleTimer, HistoryType, PageType
<1>4. Drafts'
  <2>1. CASE DraftTimer
    <3>1. /\ p.armed /\ ~p'.armed
          /\ p.step = 4 => (h'.late <=> h.late)
      BY <1>1, <2>1 DEF DraftTimer, PageType, HistoryType
    <3> QED
      BY <1>2, <3>1 DEF IInv, Drafts
  <2>2. CASE IdleTimer
    <3>1. /\ draft' = draft /\ p'.armed = p.armed
          /\ h.late \/ p.armed => h'.late
      BY <1>1, <2>2 DEF IdleTimer, PageType, HistoryType
    <3> QED
      BY <1>2, <3>1 DEF IInv, Drafts
  <2> QED
    BY <2>1, <2>2
<1> QED
  BY <1>1, <1>2, <1>3, <1>4, PageOnly DEF IInv, Typed

LEMMA TurnSteps ==
    ASSUME IInv, OnNextStep1 \/ OnNextStep2 \/ BackTo1 \/ BackTo2 \/ EditFromReview
    PROVE  IInv'
<1>1. PICK n \in {1, 2, 3} :
         /\ p' = [p EXCEPT !.step = n] /\ FormShown
         /\ site' = site /\ stored' = stored /\ draft' = draft /\ net' = net /\ h' = h
         /\ n \in {2, 3} => p.form.email # None
  BY DEF OnNextStep1, OnNextStep2, BackTo1, BackTo2, EditFromReview, Turn, Step1, Step2, Review,
         IInv, Typed
<1>2. p \in PageType /\ h \in HistoryType /\ draft \in Forms
  BY DEF IInv, Typed
<1>3. /\ p' \in PageType /\ p'.status = p.status /\ p'.loading = p.loading /\ p'.error = p.error
      /\ p'.tried = p.tried /\ p'.step = n /\ p'.form = p.form
      /\ p'.armed = p.armed /\ p'.saving = p.saving
  BY <1>1, <1>2 DEF PageType
<1>4. Drafts'
  BY <1>1, <1>3 DEF IInv, Drafts
<1>5. p.status # "loading"
  BY <1>1 DEF FormShown
<1> QED
  BY <1>1, <1>2, <1>3, <1>4, <1>5, PageOnly

-----------------------------------------------------------------------------
(* The server, the network and the committee.                              *)

LEMMA CommitteeStep ==
    ASSUME IInv, Committee
    PROVE  IInv'
<1>1. /\ stored' = stored /\ draft' = draft /\ p' = p /\ net' = net /\ h' = h
      /\ site' \in SiteType
  BY SignUpAssumption DEF Committee, IInv, Typed, SiteType
<1> QED
  BY <1>1 DEF IInv, Typed, Drafts, Stored, Awaited, Explained, DuplicateIsExplained

LEMMA HomeServed ==
    ASSUME IInv, NEW s \in Slots, Serve(s), net[s].op = "home"
    PROVE  IInv'
<1>1. /\ net' = [net EXCEPT ![s].answer = "ok", ![s].site = site] /\ net \in Network
      /\ site' = site /\ stored' = stored /\ draft' = draft /\ p' = p /\ h' = h
      /\ net[s] \in Message /\ site \in SiteType
  BY DEF Serve, IInv, Typed, Network, Idle
<1>2. /\ net' \in Network
      /\ net'[s].op = "home"
      /\ \A t \in Slots \ {s} : net'[t] = net[t]
  BY <1>1 DEF Network, Message, Answer
<1>3. Typed'
  <2>1. \A t \in Slots : /\ net'[t].op = "register" => net'[t] = net[t]
                         /\ net'[t].op = "home" => net[t].op = "home"
                         /\ net'[t].op = "home" => net'[t] = net[t] \/ net'[t].answer = "ok"
    BY <1>1, <1>2 DEF Network, Message
  <2>2. "ok" \notin Places
    BY DEF Places
  <2> QED
    BY <1>1, <1>2, <2>1, <2>2 DEF IInv, Typed
<1>4. Drafts'
  BY <1>1 DEF IInv, Drafts
<1>5. \A t \in Slots : /\ Awaited(t)' <=> Awaited(t)
                       /\ net'[t].op = "register" => net'[t] = net[t]
                       /\ Awaited(t) => net'[t] = net[t]
  BY <1>1, <1>2 DEF Awaited
<1>6. Stored'
  <2>1. DuplicateIsExplained'
    BY <1>1 DEF IInv, Stored, DuplicateIsExplained
  <2>2. \A d : Explained(d)' <=> Explained(d)
    BY <1>1 DEF Explained
  <2>3. \A t \in Slots : net'[t].op = "register" /\ net'[t].heard # "page"
                            => Explained(net'[t].form.email)
    BY <1>5 DEF IInv, Stored
  <2>4. \A t \in Slots : Awaited(t)' /\ net'[t].answer = "duplicate"
                            => Explained(net'[t].form.email)
    BY <1>5 DEF IInv, Stored
  <2>5. \A e \in Emails : stored'[e] # "none" =>
           \/ Explained(e)
           \/ \E t \in Slots : Awaited(t)' /\ net'[t].form.email = e /\ net'[t].answer \in Places
    <3> SUFFICES ASSUME NEW e \in Emails, stored[e] # "none", ~Explained(e)
                 PROVE  \E t \in Slots : Awaited(t)' /\ net'[t].form.email = e
                                                     /\ net'[t].answer \in Places
      BY <1>1
    <3>1. PICK t \in Slots : Awaited(t) /\ net[t].form.email = e /\ net[t].answer \in Places
      BY DEF IInv, Stored
    <3> QED
      BY <1>5, <3>1
  <2>6. /\ \A t \in Slots : Awaited(t)' => p'.loading
        /\ \A t, u \in Slots : Awaited(t)' /\ Awaited(u)' => t = u
    BY <1>1, <1>5 DEF IInv, Stored
  <2> QED
    BY <2>1, <2>2, <2>3, <2>4, <2>5, <2>6 DEF Stored
<1> QED
  BY <1>3, <1>4, <1>6 DEF IInv

\* A duplicate is answered only for an address that is stored, and the one who
\* sent it now is not the one who stored it.
LEMMA RegisterServed ==
    ASSUME IInv, NEW s \in Slots, Serve(s), net[s].op # "home"
    PROVE  IInv'
<1> DEFINE e == net[s].form.email
           v == Verdict(e)
<1>1. /\ net \in Network /\ net[s] \in Message /\ net[s].op = "register" /\ net[s].answer = "none"
      /\ e \in Emails /\ site \in SiteType /\ stored \in [Emails -> Places \cup {"none"}]
  <2>1. /\ net \in Network /\ site \in SiteType /\ stored \in [Emails -> Places \cup {"none"}]
        /\ net[s].op # "none" /\ net[s].answer = "none"
    BY DEF Serve, Unserved, IInv, Typed
  <2>2. net[s] \in Message
    BY <2>1 DEF Network, Idle
  <2>3. net[s].op = "register"
    BY <2>2 DEF Message
  <2> QED
    BY <2>1, <2>2, <2>3 DEF IInv, Typed
<1>2. /\ net' = [net EXCEPT ![s].answer = v]
      /\ stored' = IF v \in Places THEN [stored EXCEPT ![e] = v] ELSE stored
      /\ site' = IF v = "Waiting List" THEN [site EXCEPT !.waiting = @ + 1] ELSE site
      /\ draft' = draft /\ p' = p /\ h' = h
  BY DEF Serve, Places
<1>3. /\ v \in Places \cup {"duplicate", "quota", "closed"}
      /\ v = "duplicate" => stored[e] # "none"
  BY DEF Verdict, Places
<1> HIDE DEF v, e
<1>4. site' \in SiteType /\ stored' \in [Emails -> Places \cup {"none"}]
  <2>1. site.waiting + 1 \in Nat /\ [site EXCEPT !.waiting = @ + 1] \in SiteType
    BY <1>1 DEF SiteType
  <2> QED
    BY <1>1, <1>2, <2>1
<1>5. /\ net' \in Network
      /\ net'[s] = [net[s] EXCEPT !.answer = v] /\ net'[s].answer = v /\ v # "ok"
      /\ net'[s].op = "register" /\ net'[s].heard = net[s].heard /\ net'[s].form = net[s].form
      /\ \A t \in Slots \ {s} : net'[t] = net[t]
  BY <1>1, <1>2, <1>3 DEF Network, Message, Answer, Refusals, Places
<1>6. Typed'
  <2>1. \A t \in Slots : /\ net'[t].op = net[t].op
                         /\ net'[t].op = "register" => net'[t].form = net[t].form
                         /\ net'[t].op = "home" => net'[t] = net[t]
                         /\ net'[t].answer = "ok" => net'[t] = net[t]
    BY <1>1, <1>5
  <2>2. \A t \in Slots : /\ net'[t].op = "register" => /\ net'[t].form.email \in Emails
                                                       /\ net'[t].answer # "ok"
                         /\ net'[t].op = "home" => /\ p'.status = "loading"
                                                   /\ net'[t].answer \notin Places
    BY <1>2, <2>1 DEF IInv, Typed
  <2>3. \A t, u \in Slots : net'[t].op = "home" /\ net'[u].op = "home" => t = u
    BY <2>1 DEF IInv, Typed
  <2> QED
    BY <1>2, <1>4, <1>5, <2>2, <2>3 DEF IInv, Typed
<1>7. Drafts'
  BY <1>2 DEF IInv, Drafts
<1>8. \A t \in Slots : /\ Awaited(t)' <=> Awaited(t)
                       /\ net'[t].op = net[t].op /\ net'[t].heard = net[t].heard
                       /\ net'[t].op = "register" => net'[t].form.email = net[t].form.email
  BY <1>1, <1>5 DEF Awaited
<1>9. \A d : Explained(d)' <=> Explained(d)
  BY <1>2 DEF Explained
<1>10. Awaited(s) /\ v = "duplicate" => Explained(e)
  BY <1>1, <1>3 DEF IInv, Stored, Places
<1>11. ASSUME NEW d \in Emails, stored'[d] # "none"
       PROVE  \/ Explained(d)
              \/ \E t \in Slots : Awaited(t)' /\ net'[t].form.email = d /\ net'[t].answer \in Places
  <2>1. CASE v \in Places /\ d = e
    <3>1. CASE Awaited(s)
      BY <1>5, <1>8, <2>1, <3>1 DEF e
    <3>2. CASE ~Awaited(s)
      BY <1>1, <2>1, <3>2 DEF IInv, Stored, Awaited, e
    <3> QED
      BY <3>1, <3>2
  <2>2. CASE ~(v \in Places /\ d = e)
    <3>1. stored[d] # "none"
      BY <1>1, <1>2, <1>11, <2>2
    <3>2. CASE Explained(d)
      BY <3>2
    <3>3. CASE \E t \in Slots : Awaited(t) /\ net[t].form.email = d /\ net[t].answer \in Places
      <4>1. PICK t \in Slots : Awaited(t) /\ net[t].form.email = d /\ net[t].answer \in Places
        BY <3>3
      <4>2. t # s
        BY <1>1, <4>1 DEF Places
      <4> QED
        BY <1>5, <1>8, <4>1, <4>2
    <3> QED
      BY <3>1, <3>2, <3>3 DEF IInv, Stored
  <2> QED
    BY <2>1, <2>2
<1>12. Stored'
  <2>1. \A t \in Slots : Awaited(t)' => p'.loading
    BY <1>2, <1>8 DEF IInv, Stored
  <2>2. \A t, u \in Slots : Awaited(t)' /\ Awaited(u)' => t = u
    BY <1>8 DEF IInv, Stored
  <2>3. \A t \in Slots : net'[t].op = "register" /\ net'[t].heard # "page"
                            => Explained(net'[t].form.email)
    BY <1>8 DEF IInv, Stored
  <2>4. \A t \in Slots : Awaited(t)' /\ net'[t].answer = "duplicate"
                            => Explained(net'[t].form.email)
    <3> SUFFICES ASSUME NEW t \in Slots, Awaited(t)', net'[t].answer = "duplicate"
                 PROVE  Explained(net'[t].form.email)
      OBVIOUS
    <3>1. Awaited(t) /\ net'[t].form.email = net[t].form.email
      BY <1>8 DEF Awaited
    <3>2. CASE t = s
      BY <1>5, <1>10, <3>1, <3>2 DEF e
    <3>3. CASE t # s
      BY <1>5, <3>1, <3>3 DEF IInv, Stored
    <3> QED
      BY <3>2, <3>3
  <2>5. DuplicateIsExplained'
    BY <1>2 DEF IInv, Stored, DuplicateIsExplained
  <2> QED
    BY <1>9, <1>11, <2>1, <2>2, <2>3, <2>4, <2>5 DEF Stored
<1> QED
  BY <1>6, <1>7, <1>12 DEF IInv

LEMMA LoseStep ==
    ASSUME IInv, NEW s \in Slots, Lose(s)
    PROVE  IInv'
<1>1. /\ net' = [net EXCEPT ![s].answer = "failed"] /\ net \in Network
      /\ site' = site /\ stored' = stored /\ draft' = draft /\ p' = p /\ h \in HistoryType
      /\ net[s].op # "none"
      /\ h' = IF net[s].answer \in Places
              THEN [h EXCEPT !.unheard = @ \cup {net[s].form.email}] ELSE h
  BY DEF Lose, IInv, Typed, Places
<1>0. net[s] \in Message
  BY <1>1 DEF Network, Idle
<1>2. /\ net' \in Network
      /\ net'[s].answer = "failed" /\ net'[s].op = net[s].op
      /\ net'[s].heard = net[s].heard /\ net'[s].form = net[s].form
      /\ \A t \in Slots \ {s} : net'[t] = net[t]
  BY <1>0, <1>1 DEF Network, Message, Answer, Refusals
<1>3. /\ h' \in HistoryType /\ h'.late = h.late /\ h'.thanked = h.thanked
      /\ h.unheard \subseteq h'.unheard
      /\ net[s].answer \in Places => net[s].form.email \in h'.unheard
  <2>1. net[s].answer \in Places => net[s].form.email \in Emails
    BY <1>0 DEF IInv, Typed, Message
  <2> QED
    BY <1>1, <2>1 DEF HistoryType
<1>4. Typed'
  <2>1. "failed" \notin Places /\ "failed" # "ok"
    BY DEF Places
  <2> QED
    BY <1>1, <1>2, <1>3, <2>1 DEF IInv, Typed
<1>5. Drafts'
  BY <1>1, <1>3 DEF IInv, Drafts
<1>6. \A t \in Slots : /\ Awaited(t)' <=> Awaited(t)
                       /\ net'[t].op = net[t].op
                       /\ net'[t].op = "register" => /\ net'[t].form.email = net[t].form.email
                                                     /\ net'[t].heard = net[t].heard
  BY <1>2 DEF Awaited
<1>7. \A d : Explained(d) => Explained(d)'
  BY <1>3 DEF Explained
<1>8. Stored'
  <2>1. DuplicateIsExplained'
    BY <1>1, <1>3 DEF IInv, Stored, DuplicateIsExplained
  <2>2. \A t \in Slots : Awaited(t)' /\ net'[t].answer = "duplicate"
                            => Explained(net[t].form.email) /\ net'[t].form.email = net[t].form.email
    BY <1>2, <1>6 DEF IInv, Stored, Awaited
  <2>3. ASSUME NEW d \in Emails, stored'[d] # "none"
        PROVE  \/ Explained(d)'
               \/ \E t \in Slots : Awaited(t)' /\ net'[t].form.email = d /\ net'[t].answer \in Places
    <3>1. CASE Explained(d)
      BY <1>7, <3>1
    <3>2. CASE \E t \in Slots : Awaited(t) /\ net[t].form.email = d /\ net[t].answer \in Places
      <4>1. PICK t \in Slots : Awaited(t) /\ net[t].form.email = d /\ net[t].answer \in Places
        BY <3>2
      <4>2. CASE t = s
        BY <1>3, <4>1, <4>2 DEF Explained
      <4>3. CASE t # s
        BY <1>2, <1>6, <4>1, <4>3
      <4> QED
        BY <4>2, <4>3
    <3> QED
      BY <1>1, <2>3, <3>1, <3>2 DEF IInv, Stored
  <2> QED
    BY <1>1, <1>6, <1>7, <2>1, <2>2, <2>3 DEF IInv, Stored
<1> QED
  BY <1>4, <1>5, <1>8 DEF IInv

-----------------------------------------------------------------------------
(* What the page asks and hears.                                          *)

LEMMA HomeAnsweredStep ==
    ASSUME IInv, NEW s \in Slots, HomeAnswered(s)
    PROVE  IInv'
<1>1. /\ net' = [net EXCEPT ![s] = Idle] /\ net \in Network /\ net[s].op = "home"
      /\ site' = site /\ stored' = stored /\ draft' = draft
      /\ p \in PageType /\ h \in HistoryType /\ draft \in Forms
      /\ p.status = "loading" /\ p.step = 1
  BY DEF HomeAnswered, Answered, Done, IInv, Typed
<1>2. /\ \A x : EventStatus(x) \in {"open", "closed", "not_started"}
      /\ \A x : Rooms(x) \in {"off", "main", "full", "waiting"}
  BY DEF EventStatus, ByTimeline, Rooms
<1>3. /\ p' \in PageType /\ p'.status \in {"open", "closed", "not_started"} /\ p'.step = 1
      /\ p'.armed = p.armed /\ p'.saving = p.saving /\ p'.loading = p.loading
      /\ p'.error = p.error /\ p'.tried = p.tried
  <2>1. CASE net[s].answer = "failed"
    <3>1. p' = [p EXCEPT !.status = "not_started"]
      BY <2>1 DEF HomeAnswered
    <3> QED
      BY <1>1, <3>1 DEF PageType
  <2>2. CASE net[s].answer # "failed"
    <3>1. PICK st \in {"open", "closed", "not_started"}, f \in Forms :
             p' = [p EXCEPT !.status = st, !.form = f]
      <4>1. /\ EventStatus(net[s].site) \in {"open", "closed", "not_started"}
            /\ p.form \in Forms
        BY <1>1, <1>2 DEF PageType
      <4>2. \E f \in Forms : p' = [p EXCEPT !.status = EventStatus(net[s].site), !.form = f]
        BY <1>1, <2>2, <4>1 DEF HomeAnswered
      <4> QED
        BY <4>1, <4>2
    <3> QED
      BY <1>1, <3>1 DEF PageType
  <2> QED
    BY <2>1, <2>2
<1>4. /\ h' \in HistoryType /\ h'.late = h.late
      /\ h'.thanked = h.thanked /\ h'.unheard = h.unheard
  <2>1. h' = h \/ \E r \in {"off", "main", "full", "waiting"} : h' = [h EXCEPT !.said = r]
    BY <1>2 DEF HomeAnswered
  <2> QED
    BY <1>1, <2>1 DEF HistoryType
<1>5. /\ net' \in Network
      /\ \A t \in Slots : net'[t].op # "none" => net'[t] = net[t] /\ net'[t].op = "register"
      /\ \A t \in Slots : net[t].op = "register" => net'[t] = net[t]
  <2>1. net' \in Network /\ net'[s] = Idle /\ \A t \in Slots \ {s} : net'[t] = net[t]
    BY <1>1 DEF Network
  <2>2. \A t \in Slots \ {s} : net[t].op \in {"register", "none"}
    BY <1>1 DEF IInv, Typed, Network, Message, Idle
  <2> QED
    BY <1>1, <2>1, <2>2 DEF Idle
<1>6. Typed'
  BY <1>1, <1>3, <1>4, <1>5 DEF IInv, Typed
<1>7. Drafts'
  BY <1>1, <1>3, <1>4 DEF IInv, Drafts
<1>8. \A t \in Slots : /\ Awaited(t)' <=> Awaited(t)
                       /\ net'[t].op = "register" => net'[t] = net[t]
                       /\ Awaited(t) => net'[t] = net[t]
  BY <1>5 DEF Awaited
<1>9. Stored'
  <2>1. DuplicateIsExplained'
    BY <1>3, <1>4 DEF IInv, Stored, DuplicateIsExplained
  <2>2. \A d : Explained(d)' <=> Explained(d)
    BY <1>4 DEF Explained
  <2> QED
    BY <1>1, <1>3, <1>8, <2>1, <2>2 DEF IInv, Stored
<1> QED
  BY <1>6, <1>7, <1>9 DEF IInv

\* The draft may be written once more while the registration is out: not by a
\* timer of what was typed before, for the button waited for it.
LEMMA SubmitStep ==
    ASSUME IInv, OnSubmit
    PROVE  IInv'
<1>1. /\ p \in PageType /\ h \in HistoryType /\ draft \in Forms /\ net \in Network
      /\ p' = [p EXCEPT !.loading = TRUE, !.error = "none"]
      /\ site' = site /\ stored' = stored /\ draft' = draft /\ h' = h
      /\ ~p.loading /\ p.saving # "saving" /\ p.step = 3 /\ p.status # "loading"
      /\ p.form.email \in Emails
  BY DEF OnSubmit, SubmitEnabled, Review, FormShown, IInv, Typed, PageType, Forms
<1>2. PICK s \in Slots : net[s].op = "none" /\ net' = [net EXCEPT ![s] = Register(p.form)]
  BY CanSendFree, SentFills, <1>1 DEF OnSubmit, Network
<1>3. /\ Register(p.form) \in Message /\ Register(p.form).op = "register"
      /\ Register(p.form).heard = "page" /\ Register(p.form).answer = "none"
      /\ Register(p.form).form = p.form
  BY <1>1 DEF Register, Home, Message, Answer, PageType, Forms, NoForm
<1>4. /\ net' \in Network /\ net'[s] = Register(p.form)
      /\ \A t \in Slots \ {s} : net'[t] = net[t]
  BY <1>1, <1>2, <1>3 DEF Network
<1>5. /\ p' \in PageType /\ p'.loading /\ p'.error = "none" /\ p'.step = 3 /\ p'.form = p.form
      /\ p'.armed = p.armed /\ p'.saving = p.saving /\ p'.status = p.status
  BY <1>1 DEF PageType
<1>6. Typed'
  <2>1. \A t \in Slots : /\ net'[t].op = "register" => /\ net'[t].form.email \in Emails
                                                       /\ net'[t].answer # "ok"
                         /\ net'[t].op = "home" => net'[t] = net[t]
    BY <1>1, <1>3, <1>4 DEF IInv, Typed
  <2>2. \A t \in Slots : net[t].op # "home"
    BY <1>1 DEF IInv, Typed
  <2>3. p'.form.email # None
    BY <1>1, <1>5, SignUpAssumption
  <2> QED
    BY <1>1, <1>4, <1>5, <2>1, <2>2, <2>3 DEF IInv, Typed
<1>7. Drafts'
  BY <1>1, <1>5 DEF IInv, Drafts
<1>8. \A t \in Slots : ~Awaited(t) /\ (Awaited(t)' => t = s)
  BY <1>1, <1>3, <1>4 DEF IInv, Stored, Awaited
<1>9. Stored'
  <2>1. \A d : Explained(d)' <=> Explained(d)
    BY <1>1 DEF Explained
  <2>2. DuplicateIsExplained'
    BY <1>5 DEF DuplicateIsExplained
  <2>3. \A t \in Slots : net'[t].op = "register" /\ net'[t].heard # "page"
                            => Explained(net'[t].form.email)
    BY <1>3, <1>4 DEF IInv, Stored
  <2>4. \A t \in Slots : Awaited(t)' => net'[t].answer # "duplicate"
    BY <1>3, <1>4, <1>8
  <2>5. \A e \in Emails : stored'[e] # "none" => Explained(e)
    BY <1>1, <1>8 DEF IInv, Stored
  <2> QED
    BY <1>5, <1>8, <2>1, <2>2, <2>3, <2>4, <2>5 DEF Stored
<1> QED
  BY <1>6, <1>7, <1>9 DEF IInv

\* What was thanked for is told here and now; what was refused as a duplicate is
\* explained already.
LEMMA RegisterAnsweredStep ==
    ASSUME IInv, NEW s \in Slots, RegisterAnswered(s)
    PROVE  IInv'
<1> DEFINE r == net[s]
           good == r.answer \in Places
<1>1. /\ p \in PageType /\ h \in HistoryType /\ draft \in Forms /\ net \in Network
      /\ net' = [net EXCEPT ![s] = Idle] /\ r.op = "register" /\ r.answer # "none"
      /\ site' = site /\ stored' = stored
      /\ draft' = IF good /\ r.heard # "nobody" THEN NoForm ELSE draft
      /\ p' = IF r.heard = "page" THEN AfterRegister(r) ELSE p
      /\ h' = IF good /\ r.heard = "page"
              THEN [h EXCEPT !.thanked = @ \cup {r.form.email}] ELSE h
      /\ r.form.email \in Emails /\ r.answer # "ok"
  BY DEF RegisterAnswered, Answered, Done, IInv, Typed, Places
<1>2. /\ r \in Message /\ r.answer \in Places \cup Refusals
  BY <1>1 DEF Network, Message, Answer, Idle
<1>3. /\ net' \in Network /\ net'[s].op = "none" /\ \A t \in Slots \ {s} : net'[t] = net[t]
  BY <1>1 DEF Network, Idle
<1>4. /\ h' \in HistoryType /\ h'.late = h.late /\ h'.unheard = h.unheard
      /\ h.thanked \subseteq h'.thanked
      /\ good /\ r.heard = "page" => r.form.email \in h'.thanked
  BY <1>1 DEF HistoryType
<1>5. NoForm \in Forms /\ draft' \in Forms
  BY <1>1 DEF NoForm, Forms
<1>6. CASE r.heard # "page"
  <2>1. p' = p /\ h' = h /\ draft' \in {draft, NoForm}
    BY <1>1, <1>6
  <2>2. Typed'
    BY <1>1, <1>3, <1>5, <2>1 DEF IInv, Typed
  <2>3. Drafts'
    BY <2>1 DEF IInv, Drafts
  <2>4. \A t \in Slots : /\ Awaited(t)' <=> Awaited(t)
                         /\ net'[t].op = "register" => net'[t] = net[t]
                         /\ Awaited(t) => net'[t] = net[t]
    BY <1>1, <1>3, <1>6 DEF Awaited
  <2>5. DuplicateIsExplained' /\ \A d : Explained(d)' <=> Explained(d)
    BY <2>1 DEF IInv, Stored, DuplicateIsExplained, Explained
  <2>6. Stored'
    BY <1>1, <2>1, <2>4, <2>5 DEF IInv, Stored
  <2> QED
    BY <2>2, <2>3, <2>6 DEF IInv
<1>7. CASE r.heard = "page"
  <2>1. Awaited(s) /\ p.loading /\ \A t \in Slots : Awaited(t) => t = s
    BY <1>1, <1>7 DEF IInv, Stored, Awaited
  <2>2. p.status # "loading"
    BY <2>1 DEF IInv, Typed
  <2>3. /\ p' \in PageType /\ ~p'.loading /\ p'.form = p.form /\ p'.status = p.status
        /\ p'.armed = p.armed /\ p'.saving = p.saving
        /\ good => p'.step = 4 /\ p'.error = p.error /\ p'.tried = p.tried
        /\ ~good => p'.step = p.step /\ p'.error = r.answer /\ p'.tried = r.form.email
    <3>1. CASE good
      <4>1. PICK y \in SuccessType : p' = [p EXCEPT !.loading = FALSE, !.step = 4, !.success = y]
        BY <1>1, <1>7, <3>1 DEF AfterRegister, Places, SuccessType
      <4>2. p' \in PageType
        <5>1. p \in PageType /\ 4 \in 1..4
          BY <1>1
        <5> QED
          BY ONLY <4>1, <5>1 DEF PageType
      <4>3. /\ ~p'.loading /\ p'.form = p.form /\ p'.status = p.status /\ p'.armed = p.armed
            /\ p'.saving = p.saving /\ p'.step = 4 /\ p'.error = p.error /\ p'.tried = p.tried
        BY <1>1, <4>1 DEF PageType
      <4> QED
        BY <3>1, <4>2, <4>3
    <3>2. CASE ~good
      <4>1. PICK a \in Refusals, e \in Emails :
               /\ p' = [p EXCEPT !.loading = FALSE, !.error = a, !.tried = e]
               /\ a = r.answer /\ e = r.form.email
        BY <1>1, <1>2, <1>7, <3>2 DEF AfterRegister, Places
      <4> QED
        BY <1>1, <3>2, <4>1 DEF PageType
    <3> QED
      BY <3>1, <3>2
  <2>4. Typed'
    <3>1. \A t \in Slots : net'[t].op # "none" => net'[t] = net[t]
      BY <1>3
    <3>2. p'.step \in {2, 3} => p'.form.email # None
      BY <2>3 DEF IInv, Typed
    <3> QED
      BY <1>1, <1>3, <1>4, <1>5, <2>2, <2>3, <3>1, <3>2 DEF IInv, Typed
  <2>5. Drafts'
    <3>1. CASE good
      <4>1. draft' = NoForm
        BY <1>1, <1>7, <3>1
      <4> QED
        BY <1>4, <2>1, <2>3, <3>1, <4>1 DEF IInv, Drafts
    <3>2. CASE ~good
      <4>1. draft' = draft
        BY <1>1, <3>2
      <4> QED
        BY <1>4, <2>1, <2>3, <3>2, <4>1 DEF IInv, Drafts
    <3> QED
      BY <3>1, <3>2
  <2>6. Stored'
    <3>1. \A d : Explained(d) => Explained(d)'
      BY <1>4 DEF Explained
    <3>2. \A t \in Slots : ~Awaited(t)'
      BY <1>3, <2>1 DEF Awaited
    <3>3. DuplicateIsExplained'
      <4>1. CASE good
        BY <1>4, <2>3, <4>1 DEF IInv, Stored, DuplicateIsExplained
      <4>2. CASE ~good
        <5>1. p'.error = "duplicate" => Explained(p'.tried)
          BY <2>1, <2>3, <4>2 DEF IInv, Stored
        <5> QED
          BY <3>1, <5>1 DEF DuplicateIsExplained, Explained
      <4> QED
        BY <4>1, <4>2
    <3>4. \A t \in Slots : net'[t].op = "register" /\ net'[t].heard # "page"
                              => Explained(net'[t].form.email)
      BY <1>3 DEF IInv, Stored
    <3>5. \A e \in Emails : stored'[e] # "none" => Explained(e)'
      <4> SUFFICES ASSUME NEW e \in Emails, stored[e] # "none", ~Explained(e)
                   PROVE  Explained(e)'
        BY <1>1, <3>1
      <4>1. r.form.email = e /\ good
        BY <2>1 DEF IInv, Stored
      <4> QED
        BY <1>4, <1>7, <4>1 DEF Explained
    <3>6. \A t \in Slots : net'[t].op = "register" /\ net'[t].heard # "page"
                              => Explained(net[t].form.email)' /\ net'[t] = net[t]
      BY <1>3, <3>1, <3>4
    <3> QED
      BY <3>2, <3>3, <3>5, <3>6 DEF Stored, Explained
  <2> QED
    BY <2>4, <2>5, <2>6 DEF IInv
<1> QED
  BY <1>6, <1>7

\* Whoever leaves the page keeps of its requests the registrations, and asks for
\* the home data anew; nobody hears those registrations on the page.
LEMMA VisitKeeps ==
    ASSUME IInv, NEW heard \in {"nobody", "handler"}, Visit(heard)
    PROVE  /\ net' \in Network
           /\ \E z \in Slots :
                 /\ net'[z] = Home
                 /\ \A s \in Slots : /\ net'[s].op = "home" => s = z
                                     /\ net'[s].op = "register" =>
                                           /\ net[s].op = "register"
                                           /\ net'[s].form = net[s].form
                                           /\ net'[s].answer = net[s].answer
                                           /\ net'[s].heard # "page"
<1> DEFINE sent == {s \in Pending(net, {"register"}) : net[s].heard = "page"}
           kept == [s \in Slots |->
                       CASE net[s].op = "home" -> Idle
                         [] s \in sent -> [net[s] EXCEPT !.heard = heard]
                         [] net[s].op = "register" /\ heard = "nobody" ->
                               [net[s] EXCEPT !.heard = "nobody"]
                         [] OTHER -> net[s]]
<1>1. net \in Network /\ net' = Sent(kept, Home) /\ CanSend(kept, 1)
  BY DEF Visit, IInv, Typed
<1>2. \A s \in Slots : s \in sent <=> Awaited(s)
  BY <1>1 DEF Pending, Awaited, Network
<1>3. ASSUME NEW s \in Slots
      PROVE  /\ kept[s] \in Message \cup {Idle}
             /\ kept[s].op = "none" \/ /\ kept[s].op = "register" /\ net[s].op = "register"
                                       /\ kept[s].form = net[s].form
                                       /\ kept[s].answer = net[s].answer
                                       /\ kept[s].heard # "page"
  <2>1. net[s] \in Message \cup {Idle}
    BY <1>1 DEF Network
  <2>2. CASE net[s] = Idle
    <3>1. kept[s] = Idle
      BY <1>2, <2>2 DEF Idle, Awaited
    <3> QED
      BY <3>1 DEF Idle
  <2>3. CASE net[s] \in Message /\ net[s].op = "home"
    <3>1. kept[s] = Idle
      BY <1>2, <2>3 DEF Awaited
    <3> QED
      BY <3>1 DEF Idle
  <2>4. CASE net[s] \in Message /\ net[s].op = "register"
    <3>1. \/ kept[s] = [net[s] EXCEPT !.heard = heard]
          \/ kept[s] = [net[s] EXCEPT !.heard = "nobody"]
          \/ kept[s] = net[s] /\ net[s].heard # "page"
      BY <1>2, <2>4 DEF Awaited
    <3> QED
      BY <2>4, <3>1 DEF Message
  <2> QED
    BY <2>1, <2>2, <2>3, <2>4 DEF Message
<1>4. DOMAIN kept = Slots /\ kept \in Network
  BY <1>3 DEF Network
<1> HIDE DEF kept, sent
<1>5. PICK z \in Slots : net' = [kept EXCEPT ![z] = Home]
  BY CanSendFree, SentFills, <1>1, <1>4
<1>6. /\ Home \in Message /\ Home.op = "home" /\ Home.answer = "none"
      /\ NoForm \in Forms /\ NoForm = [email |-> None, work |-> FALSE]
  BY DEF Home, Message, Forms, NoForm, Answer
<1>7. net' \in Network /\ net'[z] = Home /\ \A s \in Slots \ {z} : net'[s] = kept[s]
  BY <1>4, <1>5, <1>6 DEF Network
<1>8. \A s \in Slots : /\ net'[s].op = "home" => s = z
                       /\ net'[s].op = "register" => /\ net[s].op = "register"
                                                     /\ net'[s].form = net[s].form
                                                     /\ net'[s].answer = net[s].answer
                                                     /\ net'[s].heard # "page"
  BY <1>3, <1>6, <1>7
<1> QED
  BY <1>6, <1>7, <1>8

\* Whoever leaves the page is not told of what was sent from it.
LEMMA VisitStep ==
    ASSUME IInv, NEW heard \in {"nobody", "handler"}, Visit(heard)
    PROVE  IInv'
<1> DEFINE sent == {s \in Pending(net, {"register"}) : net[s].heard = "page"}
<1>1. /\ h \in HistoryType /\ draft \in Forms /\ net \in Network
      /\ site' = site /\ stored' = stored /\ draft' = draft /\ p' = FreshPage
      /\ h' = [h EXCEPT !.late = FALSE, !.said = "unknown",
                        !.unheard = @ \cup {net[s].form.email : s \in sent}]
  BY DEF Visit, IInv, Typed
<1>2. \A s \in Slots : s \in sent <=> Awaited(s)
  BY <1>1 DEF Pending, Awaited, Network
<1>3. sent \subseteq Slots
  BY <1>1 DEF Pending, Network
<1> HIDE DEF sent
<1>4. /\ Home.op = "home" /\ Home.answer = "none"
      /\ NoForm \in Forms /\ NoForm = [email |-> None, work |-> FALSE]
  BY DEF Home, Forms, NoForm
<1>5. PICK z \in Slots :
         /\ net' \in Network /\ net'[z] = Home
         /\ \A s \in Slots : /\ net'[s].op = "home" => s = z
                             /\ net'[s].op = "register" => /\ net[s].op = "register"
                                                           /\ net'[s].form = net[s].form
                                                           /\ net'[s].answer = net[s].answer
                                                           /\ net'[s].heard # "page"
  BY VisitKeeps
<1>6. \A s \in Slots : /\ net'[s].op = "home" => s = z
                       /\ net'[s].op = "register" => /\ net[s].op = "register"
                                                     /\ net'[s].form = net[s].form
                                                     /\ net'[s].answer = net[s].answer
                                                     /\ net'[s].heard # "page"
  BY <1>5
<1>7. /\ p' \in PageType /\ p'.status = "loading" /\ p'.step = 1 /\ ~p'.loading
       /\ ~p'.armed /\ p'.error = "none"
  BY <1>1, <1>4 DEF FreshPage, PageType, SuccessType, NoSuccess
<1>8. /\ h' \in HistoryType /\ h'.thanked = h.thanked /\ h.unheard \subseteq h'.unheard
       /\ \A s \in Slots : Awaited(s) => net[s].form.email \in h'.unheard
  <2>1. {net[s].form.email : s \in sent} \subseteq Emails
    BY <1>2, <1>3 DEF IInv, Typed, Awaited
  <2>2. \A s \in Slots : Awaited(s) => net[s].form.email \in {net[t].form.email : t \in sent}
    BY <1>2
  <2> QED
    BY <1>1, <2>1, <2>2 DEF HistoryType
<1>9. \A d : Explained(d) => Explained(d)'
  BY <1>8 DEF Explained
<1>10. Typed'
  <2>1. \A s \in Slots : /\ net'[s].op = "register" => /\ net'[s].form.email \in Emails
                                                       /\ net'[s].answer # "ok"
                         /\ net'[s].op = "home" => net'[s].answer \notin Places
    BY <1>4, <1>5, <1>6 DEF IInv, Typed, Places
  <2>2. \A s, t \in Slots : net'[s].op = "home" /\ net'[t].op = "home" => s = t
    BY <1>6
  <2> QED
    BY <1>1, <1>5, <1>7, <1>8, <2>1, <2>2 DEF IInv, Typed
<1>11. Drafts'
  BY <1>7 DEF Drafts
<1>12. Stored'
  <2>1. \A s \in Slots : ~Awaited(s)'
    BY <1>6 DEF Awaited
  <2>2. \A s \in Slots : net'[s].op = "register" => Explained(net[s].form.email)'
                                                   /\ net'[s].form = net[s].form
    BY <1>6, <1>8, <1>9 DEF IInv, Stored, Awaited, Explained
  <2>3. \A e \in Emails : stored'[e] # "none" => Explained(e)'
    <3> SUFFICES ASSUME NEW e \in Emails, stored[e] # "none", ~Explained(e)
                 PROVE  Explained(e)'
      BY <1>1, <1>9
    <3> QED
      BY <1>8 DEF IInv, Stored, Explained
  <2>4. DuplicateIsExplained'
    BY <1>7 DEF DuplicateIsExplained
  <2> QED
    BY <2>1, <2>2, <2>3, <2>4 DEF Stored, Explained
<1> QED
  BY <1>10, <1>11, <1>12 DEF IInv

-----------------------------------------------------------------------------
(* The theorems.                                                          *)

LEMMA InitIInv == Init => IInv
<1> SUFFICES ASSUME Init PROVE IInv
  OBVIOUS
<1>1. /\ site \in SiteType /\ stored \in [Emails -> Places \cup {"none"}]
      /\ NoForm \in Forms /\ draft = NoForm /\ p = FreshPage
  BY SignUpAssumption DEF Init, SiteType, Forms, NoForm
<1>2. /\ p \in PageType /\ p.status = "loading" /\ p.step = 1 /\ ~p.loading
      /\ ~p.armed /\ p.error = "none"
  BY <1>1 DEF FreshPage, PageType, SuccessType, NoSuccess
<1>3. h \in HistoryType
  BY DEF Init, HistoryType
<1>4. PICK z \in Slots : net = [Quiet(Slots) EXCEPT ![z] = Home]
  <2>1. FreeSlots(Quiet(Slots)) = Slots /\ DOMAIN Quiet(Slots) = Slots
    BY DEF FreeSlots, Quiet, Idle
  <2> QED
    BY SentFills, SignUpAssumption, <2>1 DEF Init
<1>5. Home \in Message /\ Home.op = "home" /\ Home.answer = "none"
  BY <1>1 DEF Home, Message, Answer
<1>6. net \in Network /\ net[z] = Home /\ \A s \in Slots \ {z} : net[s].op = "none"
  BY <1>4, <1>5 DEF Network, Quiet, Idle
<1>7. Typed
  <2>1. \A s \in Slots : /\ net[s].op # "register"
                         /\ net[s].op = "home" => s = z
    BY <1>5, <1>6
  <2>2. \A s \in Slots : net[s].op = "home" => net[s].answer \notin Places
    BY <1>5, <1>6, <2>1 DEF Places
  <2>3. \A s, t \in Slots : net[s].op = "home" /\ net[t].op = "home" => s = t
    BY <2>1
  <2>4. draft \in Forms /\ p.step \notin {2, 3}
    BY <1>1, <1>2
  <2> QED
    BY <1>1, <1>2, <1>3, <1>6, <2>1, <2>2, <2>3, <2>4 DEF Typed
<1>8. Drafts
  BY <1>2 DEF Drafts
<1>9. Stored
  <2>1. \A s \in Slots : net[s].op # "register"
    BY <1>5, <1>6
  <2>2. \A e \in Emails : stored[e] = "none"
    BY DEF Init
  <2> QED
    BY <1>2, <2>1, <2>2 DEF Stored, Awaited, DuplicateIsExplained
<1> QED
  BY <1>7, <1>8, <1>9 DEF IInv

LEMMA NextIInv == IInv /\ [Next]_vars => IInv'
<1> SUFFICES ASSUME IInv, [Next]_vars PROVE IInv'
  OBVIOUS
<1>1. ASSUME NEW s \in Slots, Serve(s) PROVE IInv'
  BY <1>1, HomeServed, RegisterServed
<1>2. ASSUME NEW s \in Slots, Lose(s) PROVE IInv'
  BY <1>2, LoseStep
<1>3. ASSUME NEW s \in Slots, HomeAnswered(s) PROVE IInv'
  BY <1>3, HomeAnsweredStep
<1>4. ASSUME NEW s \in Slots, RegisterAnswered(s) PROVE IInv'
  BY <1>4, RegisterAnsweredStep
<1>5. CASE Committee
  BY <1>5, CommitteeStep
<1>6. CASE Reload \/ FollowLink
  BY <1>6, VisitStep DEF Reload, FollowLink
<1>7. CASE FillWork \/ \E e \in Emails : TypeEmail(e)
  BY <1>7, FormSteps
<1>8. CASE DraftTimer \/ IdleTimer
  BY <1>8, TimerSteps
<1>9. CASE OnNextStep1 \/ OnNextStep2 \/ BackTo1 \/ BackTo2 \/ EditFromReview
  BY <1>9, TurnSteps
<1>10. CASE OnSubmit
  BY <1>10, SubmitStep
<1>11. CASE UNCHANGED vars
  BY <1>11 DEF vars, IInv, Typed, Drafts, Stored, Awaited, Explained, DuplicateIsExplained
<1> QED
  BY <1>1, <1>2, <1>3, <1>4, <1>5, <1>6, <1>7, <1>8, <1>9, <1>10, <1>11 DEF Next

\* The strengthening holds in every reachable state.
THEOREM Invariant == Spec => []IInv
  BY InitIInv, NextIInv, PTL DEF Spec

\* A visitor who was thanked leaves no draft behind, but for what was typed while
\* the form was being sent or an old timer hid from the button.
THEOREM DraftCorrect == Spec => []DraftGoneAfterSuccess
<1>1. IInv => DraftGoneAfterSuccess
  BY DEF IInv, Drafts, DraftGoneAfterSuccess, Success
<1> QED
  BY <1>1, Invariant, PTL

\* Who reads that the e-mail is registered already has been thanked for it, or
\* has left the page or lost the answer.
THEOREM DuplicateCorrect == Spec => []DuplicateIsExplained
<1>1. IInv => DuplicateIsExplained
  BY DEF IInv, Stored
<1> QED
  BY <1>1, Invariant, PTL
-----------------------------------------------------------------------------
(* The types.  The bounds are on what the page and the server count, so    *)
(* what is left of each is owed to a timer or to a request that is out.    *)

LeftType == [edits : Nat, visits : Nat, upsets : Nat, sends : Nat]
Undecided(n) == {s \in Slots : n[s].op = "register" /\ n[s].answer = "none"}

\* A change of the form leaves at most one notice to be taken down, and a press
\* of the button at most one place on the waiting list.
Counted ==
    /\ left \in LeftType
    /\ p.idles + (IF p.armed THEN 1 ELSE 0) + left.edits <= MaxEdits
    /\ site.waiting + Cardinality(Undecided(net)) + left.sends <= MaxSends

\* The button is held back by a request, and only where the form is shown.
Waiting ==
    /\ p.loading => \E s \in Slots : Awaited(s)
    /\ StatusMessage => p.step = 1 /\ ~p.loading

\* Whoever is told of a place has it.
Placed ==
    /\ p.step = 4 <=> p.success # NoSuccess
    /\ p.success # NoSuccess => /\ p.success.email \in Emails /\ p.success.place \in Places
                                /\ stored[p.success.email] = p.success.place
    /\ \A s \in Slots : net[s].op = "register" /\ net[s].answer \in Places
                           => stored[net[s].form.email] = net[s].answer

TInv == Counted /\ Waiting /\ Placed

LEMMA Spent ==
    ASSUME left \in LeftType, NEW what \in {"edits", "visits", "upsets", "sends"}, Spend(what)
    PROVE  /\ left' \in LeftType
           /\ left'.edits = IF what = "edits" THEN left.edits - 1 ELSE left.edits
           /\ left'.sends = IF what = "sends" THEN left.sends - 1 ELSE left.sends
<1>1. CASE what = "edits"
  BY <1>1 DEF Spend, LeftType
<1>2. CASE what = "visits"
  BY <1>2 DEF Spend, LeftType
<1>3. CASE what = "upsets"
  BY <1>3 DEF Spend, LeftType
<1>4. CASE what = "sends"
  BY <1>4 DEF Spend, LeftType
<1> QED
  BY <1>1, <1>2, <1>3, <1>4

\* Fewer registrations to decide of, or one more.
LEMMA UndecidedCounts ==
    ASSUME NEW n, NEW m
    PROVE  /\ Cardinality(Undecided(n)) \in Nat
           /\ Undecided(m) \subseteq Undecided(n)
                 => Cardinality(Undecided(m)) <= Cardinality(Undecided(n))
           /\ \A s \in Undecided(n) : Undecided(m) = Undecided(n) \ {s}
                 => Cardinality(Undecided(m)) = Cardinality(Undecided(n)) - 1
           /\ \A s \in Slots : s \notin Undecided(n) /\ Undecided(m) = Undecided(n) \cup {s}
                 => Cardinality(Undecided(m)) = Cardinality(Undecided(n)) + 1
<1>1. IsFiniteSet(Slots) /\ Undecided(n) \subseteq Slots
  BY SignUpAssumption DEF Undecided
<1>2. IsFiniteSet(Undecided(n))
  BY <1>1, FS_Subset
<1>3. Cardinality(Undecided(n)) \in Nat
  BY <1>2, FS_CardinalityType
<1>4. Undecided(m) \subseteq Undecided(n)
         => Cardinality(Undecided(m)) <= Cardinality(Undecided(n))
  BY <1>2, FS_Subset
<1>5. \A s \in Undecided(n) : Undecided(m) = Undecided(n) \ {s}
         => Cardinality(Undecided(m)) = Cardinality(Undecided(n)) - 1
  BY <1>2, FS_RemoveElement
<1>6. \A s \in Slots : s \notin Undecided(n) /\ Undecided(m) = Undecided(n) \cup {s}
         => Cardinality(Undecided(m)) = Cardinality(Undecided(n)) + 1
  BY <1>2, FS_AddElement
<1> QED
  BY <1>3, <1>4, <1>5, <1>6

\* What a step that leaves the requests, the places and the thanks owes.
LEMMA TypesAside ==
    ASSUME IInv, TInv, Counted', net' = net, stored' = stored, p'.loading = p.loading,
           p'.status = p.status, p'.success = p.success,
           p'.step = p.step \/ (FormShown /\ p.step # 4 /\ p'.step # 4)
    PROVE  TInv'
<1>1. Waiting'
  BY DEF TInv, Waiting, Awaited, StatusMessage, FormShown
<1>2. Placed'
  BY DEF TInv, Placed
<1> QED
  BY <1>1, <1>2 DEF TInv

LEMMA TypesForm ==
    ASSUME IInv, TInv, FillWork \/ \E e \in Emails : TypeEmail(e)
    PROVE  TInv'
<1>1. PICK f : Changed(f)
  BY DEF FillWork, TypeEmail
<1>a. /\ p' = [p EXCEPT !.form = f, !.saving = "saving", !.armed = TRUE]
      /\ site' = site /\ stored' = stored /\ net' = net /\ Spend("edits")
  BY <1>1 DEF Changed
<1>2. /\ p'.loading = p.loading /\ p'.status = p.status /\ p'.success = p.success
      /\ p'.step = p.step /\ p'.idles = p.idles /\ p'.armed = TRUE /\ p.idles \in Nat
  BY <1>a DEF IInv, Typed, PageType
<1>3. Counted'
  <2>1. left \in LeftType
    BY DEF TInv, Counted
  <2>2. left' \in LeftType /\ left'.edits = left.edits - 1 /\ left'.sends = left.sends
    BY <1>a, <2>1, Spent
  <2>3. left.edits \in Nat
    BY <2>1 DEF LeftType
  <2>4. p.idles + left.edits <= MaxEdits
    BY <2>3, <1>2, SignUpAssumption DEF TInv, Counted
  <2>5. p'.idles + (IF p'.armed THEN 1 ELSE 0) + left'.edits <= MaxEdits
    BY <2>2, <2>3, <2>4, <1>2, SignUpAssumption
  <2> QED
    BY <1>a, <2>2, <2>5 DEF TInv, Counted
<1> QED
  BY <1>a, <1>2, <1>3, TypesAside

LEMMA TypesTimer ==
    ASSUME IInv, TInv, DraftTimer \/ IdleTimer
    PROVE  TInv'
<1>1. /\ site' = site /\ stored' = stored /\ net' = net /\ left' = left
      /\ p \in PageType /\ p.idles \in Nat /\ p.armed \in BOOLEAN
      /\ left.edits \in Nat
  BY DEF DraftTimer, IdleTimer, IInv, Typed, PageType, TInv, Counted, LeftType
<1>2. /\ p'.loading = p.loading /\ p'.status = p.status /\ p'.success = p.success
      /\ p'.step = p.step
  BY <1>1 DEF DraftTimer, IdleTimer, PageType
<1>3. /\ p'.idles + (IF p'.armed THEN 1 ELSE 0) <= p.idles + (IF p.armed THEN 1 ELSE 0)
      /\ p'.idles \in Int
  <2>1. CASE DraftTimer
    <3>1. p.armed /\ ~p'.armed /\ p'.idles = p.idles + 1
      BY <1>1, <2>1 DEF DraftTimer, PageType
    <3> QED
      BY <1>1, <3>1
  <2>2. CASE IdleTimer
    <3>1. p'.armed = p.armed /\ p'.idles = p.idles - 1
      BY <1>1, <2>2 DEF IdleTimer, PageType
    <3> QED
      BY <1>1, <3>1
  <2> QED
    BY <2>1, <2>2
<1>4. Counted'
  <2>2. p'.idles + (IF p'.armed THEN 1 ELSE 0) + left'.edits <= MaxEdits
    BY <1>1, <1>3, SignUpAssumption DEF TInv, Counted
  <2> QED
    BY <1>1, <2>2 DEF TInv, Counted
<1> QED
  BY <1>1, <1>2, <1>4, TypesAside

LEMMA TypesTurn ==
    ASSUME IInv, TInv, OnNextStep1 \/ OnNextStep2 \/ BackTo1 \/ BackTo2 \/ EditFromReview
    PROVE  TInv'
<1>1. PICK n \in {1, 2, 3} :
         /\ p' = [p EXCEPT !.step = n] /\ FormShown /\ p.step # 4
         /\ site' = site /\ stored' = stored /\ net' = net /\ left' = left
  BY DEF OnNextStep1, OnNextStep2, BackTo1, BackTo2, EditFromReview, Turn, Step1, Step2, Review
<1>2. /\ p'.loading = p.loading /\ p'.status = p.status /\ p'.success = p.success
      /\ p'.step = n /\ p'.idles = p.idles /\ p'.armed = p.armed
  BY <1>1 DEF IInv, Typed, PageType
<1>3. Counted'
  BY <1>1, <1>2 DEF TInv, Counted
<1> QED
  BY <1>1, <1>2, <1>3, TypesAside

LEMMA TypesCommittee ==
    ASSUME IInv, TInv, Committee
    PROVE  TInv'
<1>1. /\ stored' = stored /\ p' = p /\ net' = net /\ Spend("upsets") /\ site \in SiteType
  BY DEF Committee, IInv, Typed
<1>2. site'.waiting = site.waiting
  BY <1>1 DEF Committee, SiteType
<1>3. left' \in LeftType /\ left'.edits = left.edits /\ left'.sends = left.sends
  BY <1>1, Spent DEF TInv, Counted
<1>4. Counted'
  BY <1>1, <1>2, <1>3 DEF TInv, Counted
<1> QED
  BY <1>1, <1>4, TypesAside

LEMMA NoPlace == "none" \notin Places /\ "failed" \notin Places
  BY DEF Places

\* What a step that changes requests, but not what they say, owes.
LEMMA TypesAnswer ==
    ASSUME IInv, TInv, p' = p, left' \in LeftType, left'.edits = left.edits,
           site'.waiting + Cardinality(Undecided(net')) + left'.sends <= MaxSends,
           \A s \in Slots : Awaited(s) => Awaited(s)',
           \A e \in Emails : stored[e] # "none" => stored'[e] = stored[e],
           \A s \in Slots : net'[s].op = "register" /\ net'[s].answer \in Places
                               => stored'[net'[s].form.email] = net'[s].answer
    PROVE  TInv'
<1>1. Counted'
  BY DEF TInv, Counted
<1>2. Waiting'
  BY DEF TInv, Waiting, StatusMessage
<1>3. Placed'
  <2>1. p.success # NoSuccess => p.success.place \in Places
    BY DEF TInv, Placed
  <2> QED
    BY <2>1, NoPlace DEF TInv, Placed
<1> QED
  BY <1>1, <1>2, <1>3 DEF TInv

LEMMA TypesHomeServed ==
    ASSUME IInv, TInv, NEW s \in Slots, Serve(s), net[s].op = "home"
    PROVE  TInv'
<1>1. /\ net' = [net EXCEPT ![s].answer = "ok", ![s].site = site] /\ net \in Network
      /\ site' = site /\ stored' = stored /\ p' = p /\ left' = left /\ net[s] \in Message
  BY DEF Serve, IInv, Typed, Network, Idle
<1>2. net'[s].op = "home" /\ \A t \in Slots \ {s} : net'[t] = net[t]
  BY <1>1 DEF Network, Message
<1>3. Undecided(net') \subseteq Undecided(net)
  BY <1>2 DEF Undecided
<1>4. site'.waiting + Cardinality(Undecided(net')) + left'.sends <= MaxSends
  <2>1. Cardinality(Undecided(net')) \in Nat /\ Cardinality(Undecided(net)) \in Nat
    BY UndecidedCounts
  <2>2. Cardinality(Undecided(net')) <= Cardinality(Undecided(net))
    BY <1>3, UndecidedCounts
  <2>3. left.sends \in Nat /\ site.waiting \in Nat /\ MaxSends \in Nat
    BY SignUpAssumption DEF TInv, Counted, LeftType, IInv, Typed, SiteType
  <2> QED
    BY <1>1, <2>1, <2>2, <2>3 DEF TInv, Counted
<1>5. \A t \in Slots : Awaited(t) => Awaited(t)'
  BY <1>2 DEF Awaited
<1>6. \A t \in Slots : net'[t].op = "register" => net'[t] = net[t]
  BY <1>2
<1>7. left' \in LeftType
  BY <1>1 DEF TInv, Counted
<1>8. \A t \in Slots : net'[t].op = "register" /\ net'[t].answer \in Places
                           => stored'[net'[t].form.email] = net'[t].answer
  BY <1>1, <1>6 DEF TInv, Placed
<1> QED
  BY <1>1, <1>4, <1>5, <1>7, <1>8, TypesAnswer

LEMMA Decided ==
    ASSUME IInv, NEW s \in Slots, Serve(s), net[s].op # "home"
    PROVE  /\ net[s].op = "register" /\ net[s].answer = "none" /\ net[s].form.email \in Emails
           /\ p' = p /\ left' = left /\ \A t \in Slots \ {s} : net'[t] = net[t]
           /\ \E v : /\ net'[s].op = "register" /\ net'[s].answer = v /\ v # "none"
                     /\ net'[s].form = net[s].form /\ net'[s].heard = net[s].heard
                     /\ v \in Places => stored[net[s].form.email] = "none"
                     /\ stored' = IF v \in Places THEN [stored EXCEPT ![net[s].form.email] = v]
                                  ELSE stored
                     /\ site' = site \/ site' = [site EXCEPT !.waiting = @ + 1]
<1> DEFINE e == net[s].form.email
           v == Verdict(e)
<1>a. Unserved(net, s)
  BY Zenon DEF Serve
<1>1. net \in Network /\ net[s].op # "none" /\ net[s].answer = "none"
  BY <1>a DEF Unserved, IInv, Typed
<1>2. net[s] \in Message
  BY <1>1 DEF Network, Idle
<1>3. net[s].op = "register"
  BY <1>2 DEF Message
<1>4. e \in Emails
  BY <1>3 DEF IInv, Typed
<1>5. /\ net' = [net EXCEPT ![s].answer = v] /\ p' = p /\ left' = left
      /\ stored' = IF v \in Places THEN [stored EXCEPT ![e] = v] ELSE stored
      /\ site' = site \/ site' = [site EXCEPT !.waiting = @ + 1]
  <2>1. /\ net' = [net EXCEPT ![s].answer = v] /\ p' = p /\ left' = left
        /\ stored' = IF v \in Places THEN [stored EXCEPT ![e] = v] ELSE stored
    BY Zenon DEF Serve, Places
  <2>2. site' = IF v = "Waiting List" THEN [site EXCEPT !.waiting = @ + 1] ELSE site
    BY Zenon DEF Serve
  <2>3. site' = site \/ site' = [site EXCEPT !.waiting = @ + 1]
    BY <2>2, Zenon
  <2> QED
    BY <2>1, <2>3
<1>6. v # "none" /\ (v \in Places => stored[e] = "none")
  <2>1. v \in Places \cup {"duplicate", "quota", "closed"}
    BY Zenon DEF Verdict, Places
  <2>2. "duplicate" \notin Places /\ "closed" \notin Places
    BY Zenon DEF Places
  <2>3. v \in {"closed", "duplicate"} \/ stored[e] = "none"
    BY Zenon DEF Verdict
  <2>. HIDE DEF v
  <2> QED
    BY <2>1, <2>2, <2>3, NoPlace
<1> HIDE DEF v
<1>7. /\ net'[s].op = "register" /\ net'[s].answer = v
      /\ net'[s].form = net[s].form /\ net'[s].heard = net[s].heard
      /\ \A t \in Slots \ {s} : net'[t] = net[t]
  BY <1>1, <1>2, <1>3, <1>5 DEF Network, Message
<1> QED
  BY <1>1, <1>3, <1>4, <1>5, <1>6, <1>7

\* A registration that is decided of may take a place on the waiting list, and
\* overwrites nothing that was stored.
LEMMA TypesRegisterServed ==
    ASSUME IInv, TInv, NEW s \in Slots, Serve(s), net[s].op # "home"
    PROVE  TInv'
<1>1. /\ net[s].op = "register" /\ net[s].answer = "none" /\ net[s].form.email \in Emails
      /\ p' = p /\ left' = left /\ \A t \in Slots \ {s} : net'[t] = net[t]
  BY Decided
<1>2. PICK v : /\ net'[s].op = "register" /\ net'[s].answer = v /\ v # "none"
               /\ net'[s].form = net[s].form /\ net'[s].heard = net[s].heard
               /\ v \in Places => stored[net[s].form.email] = "none"
               /\ stored' = IF v \in Places THEN [stored EXCEPT ![net[s].form.email] = v]
                            ELSE stored
               /\ site' = site \/ site' = [site EXCEPT !.waiting = @ + 1]
  BY Decided
<1>3. stored \in [Emails -> Places \cup {"none"}] /\ site \in SiteType
  BY DEF IInv, Typed
<1>5. site'.waiting + Cardinality(Undecided(net')) + left'.sends <= MaxSends
  <2>1. s \in Undecided(net) /\ Undecided(net') = Undecided(net) \ {s}
    BY <1>1, <1>2 DEF Undecided
  <2>2. Cardinality(Undecided(net)) \in Nat
    BY UndecidedCounts
  <2>3. Cardinality(Undecided(net')) = Cardinality(Undecided(net)) - 1
    BY <2>1, UndecidedCounts
  <2>4. left.sends \in Nat /\ site.waiting \in Nat /\ MaxSends \in Nat
    BY SignUpAssumption DEF TInv, Counted, LeftType, IInv, Typed, SiteType
  <2>5. site'.waiting \in {site.waiting, site.waiting + 1}
    BY <1>2, <1>3 DEF SiteType
  <2> QED
    BY <1>1, <2>2, <2>3, <2>4, <2>5 DEF TInv, Counted
<1>6. \A t \in Slots : Awaited(t) => Awaited(t)'
  BY <1>1, <1>2 DEF Awaited
<1>7. \A d \in Emails : stored[d] # "none" => stored'[d] = stored[d]
  BY <1>1, <1>2, <1>3
<1>8. left' \in LeftType /\ left'.edits = left.edits
  BY <1>1 DEF TInv, Counted
<1>9. ASSUME NEW t \in Slots, net'[t].op = "register", net'[t].answer \in Places
      PROVE  stored'[net'[t].form.email] = net'[t].answer
  <2>1. CASE t = s
    BY <1>1, <1>2, <1>3, <1>9, <2>1
  <2>2. CASE t # s
    <3>1. net'[t] = net[t]
      BY <1>1, <2>2
    <3>2. stored[net[t].form.email] = net[t].answer /\ net[t].form.email \in Emails
      BY <1>9, <3>1 DEF TInv, Placed, IInv, Typed
    <3>3. net[t].answer # "none"
      BY <1>9, <3>1, NoPlace
    <3> QED
      BY <1>7, <3>1, <3>2, <3>3
  <2> QED
    BY <2>1, <2>2
<1> QED
  BY <1>1, <1>5, <1>6, <1>7, <1>8, <1>9, TypesAnswer

LEMMA TypesLose ==
    ASSUME IInv, TInv, NEW s \in Slots, Lose(s)
    PROVE  TInv'
<1>1. /\ net' = [net EXCEPT ![s].answer = "failed"] /\ net \in Network /\ net[s] \in Message
      /\ site' = site /\ stored' = stored /\ p' = p /\ Spend("upsets")
  <2>1. /\ net' = [net EXCEPT ![s].answer = "failed"] /\ net[s].op # "none"
        /\ site' = site /\ stored' = stored /\ p' = p /\ Spend("upsets")
    BY Zenon DEF Lose
  <2> QED
    BY <2>1 DEF IInv, Typed, Network, Idle
<1>2. /\ net'[s].answer = "failed" /\ net'[s].op = net[s].op /\ net'[s].heard = net[s].heard
      /\ \A t \in Slots \ {s} : net'[t] = net[t]
  BY <1>1 DEF Network, Message
<1>3. left' \in LeftType /\ left'.edits = left.edits /\ left'.sends = left.sends
  BY <1>1, Spent DEF TInv, Counted
<1>4. site'.waiting + Cardinality(Undecided(net')) + left'.sends <= MaxSends
  <2>1. Undecided(net') \subseteq Undecided(net)
    BY <1>2 DEF Undecided
  <2>2. Cardinality(Undecided(net')) \in Nat /\ Cardinality(Undecided(net)) \in Nat
    BY UndecidedCounts
  <2>3. Cardinality(Undecided(net')) <= Cardinality(Undecided(net))
    BY <2>1, UndecidedCounts
  <2>4. left.sends \in Nat /\ site.waiting \in Nat /\ MaxSends \in Nat
    BY SignUpAssumption DEF TInv, Counted, LeftType, IInv, Typed, SiteType
  <2> QED
    BY <1>1, <1>3, <2>2, <2>3, <2>4 DEF TInv, Counted
<1>5. \A t \in Slots : Awaited(t) => Awaited(t)'
  BY <1>2 DEF Awaited
<1>7. \A t \in Slots : net'[t].op = "register" /\ net'[t].answer \in Places
                           => stored'[net'[t].form.email] = net'[t].answer
  BY <1>1, <1>2, NoPlace DEF TInv, Placed
<1> QED
  BY <1>1, <1>3, <1>4, <1>5, <1>7, TypesAnswer

LEMMA TypesHomeAnswered ==
    ASSUME IInv, TInv, NEW s \in Slots, HomeAnswered(s)
    PROVE  TInv'
<1>1. /\ net' = [net EXCEPT ![s] = Idle] /\ net \in Network /\ net[s].op = "home"
      /\ site' = site /\ stored' = stored /\ left' = left /\ p \in PageType
      /\ p.status = "loading" /\ p.step = 1 /\ ~p.loading
  BY DEF HomeAnswered, Answered, Done, IInv, Typed
<1>2. /\ p'.step = 1 /\ ~p'.loading /\ p'.armed = p.armed /\ p'.idles = p.idles
      /\ p'.success = p.success
  <2>1. CASE net[s].answer = "failed"
    <3>1. p' = [p EXCEPT !.status = "not_started"]
      BY <2>1 DEF HomeAnswered
    <3> QED
      BY <1>1, <3>1 DEF PageType
  <2>2. CASE net[s].answer # "failed"
    <3>1. \E st, f : p' = [p EXCEPT !.status = st, !.form = f]
      BY <2>2 DEF HomeAnswered
    <3> QED
      BY <1>1, <3>1 DEF PageType
  <2> QED
    BY <2>1, <2>2
<1>3. \A t \in Slots : net'[t].op = "register" <=> net[t].op = "register"
  BY <1>1 DEF Network, Idle
<1>4. \A t \in Slots : net[t].op = "register" => net'[t] = net[t]
  BY <1>1 DEF Network
<1>5. Undecided(net') = Undecided(net)
  BY <1>3, <1>4 DEF Undecided
<1>6. Counted'
  BY <1>1, <1>2, <1>5 DEF TInv, Counted
<1>7. Waiting'
  BY <1>2 DEF Waiting
<1>8. Placed'
  BY <1>1, <1>2, <1>3, <1>4 DEF TInv, Placed
<1> QED
  BY <1>6, <1>7, <1>8 DEF TInv

LEMMA TypesSubmit ==
    ASSUME IInv, TInv, OnSubmit
    PROVE  TInv'
<1>1. /\ p \in PageType /\ net \in Network /\ p' = [p EXCEPT !.loading = TRUE, !.error = "none"]
      /\ site' = site /\ stored' = stored /\ Spend("sends") /\ CanSend(net, 1)
      /\ net' = Sent(net, Register(p.form)) /\ FormShown /\ p.step = 3
  BY DEF OnSubmit, SubmitEnabled, Review, IInv, Typed
<1>2. PICK s \in Slots : net[s].op = "none" /\ net' = [net EXCEPT ![s] = Register(p.form)]
  BY CanSendFree, SentFills, <1>1 DEF Network
<1>3. /\ net'[s].op = "register" /\ net'[s].answer = "none" /\ net'[s].heard = "page"
      /\ \A t \in Slots \ {s} : net'[t] = net[t]
  BY <1>1, <1>2 DEF Network, Register, Home
<1>4. /\ p'.step = p.step /\ p'.status = p.status /\ p'.armed = p.armed /\ p'.idles = p.idles
      /\ p'.success = p.success
  BY <1>1 DEF PageType
<1>5. left' \in LeftType /\ left'.edits = left.edits /\ left'.sends = left.sends - 1
  BY <1>1, Spent DEF TInv, Counted
<1>6. site'.waiting + Cardinality(Undecided(net')) + left'.sends <= MaxSends
  <2>1. s \notin Undecided(net) /\ Undecided(net') = Undecided(net) \cup {s}
    BY <1>2, <1>3 DEF Undecided
  <2>2. Cardinality(Undecided(net)) \in Nat
    BY UndecidedCounts
  <2>3. Cardinality(Undecided(net')) = Cardinality(Undecided(net)) + 1
    BY <2>1, UndecidedCounts
  <2>4. left.sends \in Nat /\ site.waiting \in Nat /\ MaxSends \in Nat
    BY SignUpAssumption DEF TInv, Counted, LeftType, IInv, Typed, SiteType
  <2> QED
    BY <1>1, <1>5, <2>2, <2>3, <2>4 DEF TInv, Counted
<1>7. Counted'
  BY <1>4, <1>5, <1>6 DEF TInv, Counted
<1>8. Waiting'
  BY <1>1, <1>3, <1>4 DEF Waiting, Awaited, StatusMessage, FormShown
<1>9. Placed'
  <2>1. \A t \in Slots : net'[t].op = "register" /\ net'[t].answer \in Places
                            => net'[t] = net[t]
    BY <1>3, NoPlace
  <2> QED
    BY <1>1, <1>4, <2>1 DEF TInv, Placed
<1> QED
  BY <1>7, <1>8, <1>9 DEF TInv

\* The page that waits shows the form; where it is told of a place, the place is
\* the one that was stored when the registration was decided of.
LEMMA TypesRegisterAnswered ==
    ASSUME IInv, TInv, NEW s \in Slots, RegisterAnswered(s)
    PROVE  TInv'
<1> DEFINE r == net[s]
<1>1. /\ p \in PageType /\ net \in Network /\ net' = [net EXCEPT ![s] = Idle]
      /\ r.op = "register" /\ r.answer # "none"
      /\ site' = site /\ stored' = stored /\ left' = left
      /\ p' = IF r.heard = "page" THEN AfterRegister(r) ELSE p
      /\ r.form.email \in Emails
  BY DEF RegisterAnswered, Answered, Done, IInv, Typed
<1>2. net'[s].op = "none" /\ \A t \in Slots \ {s} : net'[t] = net[t]
  BY <1>1 DEF Network, Idle
<1>3. Undecided(net') = Undecided(net)
  BY <1>1, <1>2 DEF Undecided
<1>4. \A t \in Slots : net'[t].op = "register" => net'[t] = net[t]
  BY <1>2
<1>5. CASE r.heard # "page"
  <2>1. p' = p
    BY <1>1, <1>5
  <2>2. \A t \in Slots : Awaited(t) => Awaited(t)'
    BY <1>2, <1>5 DEF Awaited
  <2>3. Counted'
    BY <1>1, <1>3, <2>1 DEF TInv, Counted
  <2>4. Waiting'
    BY <2>1, <2>2 DEF TInv, Waiting, StatusMessage
  <2>5. Placed'
    BY <1>1, <1>4, <2>1 DEF TInv, Placed
  <2> QED
    BY <2>3, <2>4, <2>5 DEF TInv
<1>6. CASE r.heard = "page"
  <2>1. p.loading
    BY <1>1, <1>6 DEF IInv, Stored, Awaited
  <2>2. ~StatusMessage
    BY <2>1 DEF TInv, Waiting
  <2>3. PICK good \in BOOLEAN : good <=> r.answer \in Places
    OBVIOUS
  <2>4. /\ ~p'.loading /\ p'.armed = p.armed /\ p'.idles = p.idles /\ p'.status = p.status
        /\ good => /\ p'.step = 4
                   /\ p'.success = [email |-> r.form.email, place |-> r.answer]
        /\ ~good => p'.step = p.step /\ p'.success = p.success
    <3>1. p' = IF good THEN [p EXCEPT !.loading = FALSE, !.step = 4,
                                      !.success = [email |-> r.form.email, place |-> r.answer]]
               ELSE [p EXCEPT !.loading = FALSE, !.error = r.answer, !.tried = r.form.email]
      BY <1>1, <1>6, <2>3, Zenon DEF AfterRegister, Places
    <3> QED
      BY <1>1, <3>1 DEF PageType
  <2>5. Counted'
    BY <1>1, <1>3, <2>4 DEF TInv, Counted
  <2>6. Waiting'
    BY <2>2, <2>4 DEF Waiting, StatusMessage
  <2>7. CASE good
    <3>1. p'.success # NoSuccess
      BY <1>1, <2>4, <2>7, SignUpAssumption DEF NoSuccess
    <3>2. stored[r.form.email] = r.answer
      BY <1>1, <2>3, <2>7 DEF TInv, Placed
    <3>3. Placed'
      BY <1>1, <1>4, <2>3, <2>4, <2>7, <3>1, <3>2 DEF TInv, Placed
    <3> QED
      BY <2>5, <2>6, <3>3 DEF TInv
  <2>8. CASE ~good
    <3>1. Placed'
      BY <1>1, <1>4, <2>4, <2>8 DEF TInv, Placed
    <3> QED
      BY <2>5, <2>6, <3>1 DEF TInv
  <2> QED
    BY <2>7, <2>8
<1> QED
  BY <1>5, <1>6

LEMMA TypesVisit ==
    ASSUME IInv, TInv, NEW heard \in {"nobody", "handler"}, Visit(heard)
    PROVE  TInv'
<1>1. \A s \in Slots : net'[s].op = "register"
                          => /\ net[s].op = "register" /\ net'[s].form = net[s].form
                             /\ net'[s].answer = net[s].answer
  BY VisitKeeps
<1>2. /\ site' = site /\ stored' = stored /\ p' = FreshPage /\ Spend("visits")
  BY DEF Visit
<1>3. left' \in LeftType /\ left'.edits = left.edits /\ left'.sends = left.sends
  BY <1>2, Spent DEF TInv, Counted
<1>5. site'.waiting + Cardinality(Undecided(net')) + left'.sends <= MaxSends
  <2>1. Undecided(net') \subseteq Undecided(net)
    BY <1>1 DEF Undecided
  <2>2. Cardinality(Undecided(net')) \in Nat /\ Cardinality(Undecided(net)) \in Nat
    BY UndecidedCounts
  <2>3. Cardinality(Undecided(net')) <= Cardinality(Undecided(net))
    BY <2>1, UndecidedCounts
  <2>4. left.sends \in Nat /\ site.waiting \in Nat /\ MaxSends \in Nat
    BY SignUpAssumption DEF TInv, Counted, LeftType, IInv, Typed, SiteType
  <2> QED
    BY <1>2, <1>3, <2>2, <2>3, <2>4 DEF TInv, Counted
<1>6. /\ p'.step = 1 /\ ~p'.loading /\ ~p'.armed /\ p'.idles = 0 /\ p'.success = NoSuccess
  BY <1>2 DEF FreshPage
<1>7. Counted'
  <2>1. p'.idles + (IF p'.armed THEN 1 ELSE 0) + left'.edits <= MaxEdits
    <3>1. left.edits \in Nat /\ p.idles \in Nat /\ p.armed \in BOOLEAN
      BY DEF TInv, Counted, LeftType, IInv, Typed, PageType
    <3> QED
      BY <1>3, <1>6, <3>1, SignUpAssumption DEF TInv, Counted
  <2> QED
    BY <1>3, <1>5, <2>1 DEF Counted
<1>8. Waiting'
  BY <1>6 DEF Waiting
<1>9. Placed'
  BY <1>1, <1>2, <1>6 DEF TInv, Placed
<1> QED
  BY <1>7, <1>8, <1>9 DEF TInv

LEMMA InitTInv == Init => TInv
<1> SUFFICES ASSUME Init PROVE TInv
  OBVIOUS
<1>1. IInv
  BY InitIInv
<1>2. /\ left = [edits |-> MaxEdits, visits |-> MaxVisits, upsets |-> MaxUpsets,
                 sends |-> MaxSends]
      /\ p = FreshPage /\ site.waiting = 0
  BY DEF Init
<1>3. \A s \in Slots : net[s].op # "register"
  <2>1. net = Sent(Quiet(Slots), Home) /\ FreeSlots(Quiet(Slots)) = Slots
        /\ DOMAIN Quiet(Slots) = Slots
    BY DEF Init, FreeSlots, Quiet, Idle
  <2>2. PICK z \in Slots : net = [Quiet(Slots) EXCEPT ![z] = Home]
    BY SentFills, SignUpAssumption, <2>1
  <2> QED
    BY <2>2 DEF Quiet, Home, Idle
<1>4. Counted
  <2>1. Undecided(net) = {}
    BY <1>3 DEF Undecided
  <2>2. Cardinality(Undecided(net)) = 0
    BY <2>1, FS_EmptySet
  <2>3. left \in LeftType
    BY <1>2, SignUpAssumption DEF LeftType
  <2>4. ~p.armed /\ p.idles = 0
    BY <1>2 DEF FreshPage
  <2> QED
    BY <1>2, <2>2, <2>3, <2>4, SignUpAssumption DEF Counted
<1>5. Waiting
  BY <1>2 DEF Waiting, FreshPage, StatusMessage
<1>6. Placed
  BY <1>2, <1>3 DEF Placed, FreshPage
<1> QED
  BY <1>4, <1>5, <1>6 DEF TInv

LEMMA NextTInv == IInv /\ TInv /\ [Next]_vars => TInv'
<1> SUFFICES ASSUME IInv, TInv, [Next]_vars PROVE TInv'
  OBVIOUS
<1>1. ASSUME NEW s \in Slots, Serve(s) PROVE TInv'
  BY <1>1, TypesHomeServed, TypesRegisterServed
<1>2. ASSUME NEW s \in Slots, Lose(s) PROVE TInv'
  BY <1>2, TypesLose
<1>3. ASSUME NEW s \in Slots, HomeAnswered(s) PROVE TInv'
  BY <1>3, TypesHomeAnswered
<1>4. ASSUME NEW s \in Slots, RegisterAnswered(s) PROVE TInv'
  BY <1>4, TypesRegisterAnswered
<1>5. CASE Committee
  BY <1>5, TypesCommittee
<1>6. CASE Reload \/ FollowLink
  BY <1>6, TypesVisit DEF Reload, FollowLink
<1>7. CASE FillWork \/ \E e \in Emails : TypeEmail(e)
  BY <1>7, TypesForm
<1>8. CASE DraftTimer \/ IdleTimer
  BY <1>8, TypesTimer
<1>9. CASE OnNextStep1 \/ OnNextStep2 \/ BackTo1 \/ BackTo2 \/ EditFromReview
  BY <1>9, TypesTurn
<1>10. CASE OnSubmit
  BY <1>10, TypesSubmit
<1>11. CASE UNCHANGED vars
  BY <1>11 DEF vars, TInv, Counted, Waiting, Placed, Awaited, StatusMessage
<1> QED
  BY <1>1, <1>2, <1>3, <1>4, <1>5, <1>6, <1>7, <1>8, <1>9, <1>10, <1>11 DEF Next

\* The page waits only for a registration that is out, and the last step is shown
\* with the place that is stored under the address; the counters keep to their
\* bounds.
THEOREM TypeCorrect == Spec => []TypeOK
<1>1. IInv /\ TInv => TypeOK
  <2> SUFFICES ASSUME IInv, TInv PROVE TypeOK
    OBVIOUS
  <2>1. site.waiting <= MaxSends /\ p.idles <= MaxEdits
    <3>1. Cardinality(Undecided(net)) \in Nat
      BY UndecidedCounts
    <3>2. /\ left.sends \in Nat /\ left.edits \in Nat /\ site.waiting \in Nat /\ p.idles \in Nat
          /\ MaxSends \in Nat /\ MaxEdits \in Nat
      BY SignUpAssumption DEF TInv, Counted, LeftType, IInv, Typed, SiteType, PageType
    <3> QED
      BY <3>1, <3>2 DEF TInv, Counted
  <2>2. site \in Sites
    BY <2>1, SignUpAssumption DEF IInv, Typed, SiteType, Sites
  <2>3. /\ p.form \in Forms /\ p.saving \in {"idle", "saving", "saved"} /\ p.armed \in BOOLEAN
        /\ p.status \in {"loading", "open", "waiting_list", "closed", "not_started"}
        /\ p.error \in Refusals \cup {"none"} /\ p.idles \in 0..MaxEdits
    BY <2>1, SignUpAssumption DEF IInv, Typed, PageType
  <2>4. \A s \in Slots : net[s].op \in {"none", "home", "register"}
    BY DEF IInv, Typed, Network, Message, Idle
  <2>5. p.loading => \E s \in Pending(net, {"register"}) : net[s].heard = "page"
    BY DEF TInv, Waiting, Awaited, Pending, IInv, Typed, Network
  <2>6. /\ p.step = 4 <=> p.success # NoSuccess
        /\ StatusMessage => p.step = 1 /\ ~p.loading
        /\ p.success # NoSuccess => stored[p.success.email] = p.success.place
    BY DEF TInv, Waiting, Placed
  <2>7. draft \in Forms /\ stored \in [Emails -> Places \cup {"none"}]
    BY DEF IInv, Typed
  <2> QED
    BY <2>2, <2>3, <2>4, <2>5, <2>6, <2>7 DEF TypeOK
<1> QED
  BY <1>1, Invariant, InitTInv, NextTInv, PTL DEF Spec
=============================================================================
