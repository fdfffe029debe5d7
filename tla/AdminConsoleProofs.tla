-------------------------- MODULE AdminConsoleProofs --------------------------
(***************************************************************************)
(* Proofs about the committee's console, for any number of people, of      *)
(* requests out and of presses.  A window, a form or a settled page is     *)
(* right because of what may still be answered: the invariant says, for    *)
(* the page that is shown, whom the requests that are out are about, and   *)
(* for the tables, which creation forms may still be stored.               *)
(***************************************************************************)
EXTENDS AdminConsole, FiniteSetTheorems, TLAPS

-----------------------------------------------------------------------------
(* The kinds of values the tab holds.                                      *)

Server ==
    [people : SUBSET People, forms : SUBSET Nat, twins : BOOLEAN, lost : BOOLEAN,
     status : Verdicts, public : BOOLEAN]
LoginType == [loading : BOOLEAN, errorMsg : BOOLEAN]
ParticipantsType ==
    [loading : BOOLEAN, rows : SUBSET People, ticked : SUBSET People,
     target : {"nobody", "one", "bulk"}, single : People \cup {None}, deleting : BOOLEAN,
     timer : BOOLEAN, detail : People \cup {None}, shown : People \cup {None},
     mailsOf : People \cup {None}, loadingLogs : BOOLEAN, resending : BOOLEAN,
     edit : People \cup {None}, saving : BOOLEAN, messages : BOOLEAN, overlap : BOOLEAN]
CandidatesType ==
    [loading : BOOLEAN, rows : SUBSET People, ticked : SUBSET People,
     target : {"nobody", "one", "bulk"}, single : People \cup {None}, deleting : BOOLEAN,
     creating : BOOLEAN, showForm : BOOLEAN, form : Nat]
VerificationsType ==
    [loading : BOOLEAN, rows : SUBSET People, selected : People \cup {None},
     dataOf : People \cup {None}, loadingDetail : BOOLEAN, reject : People \cup {None},
     reasonOf : People \cup {None}, acting : BOOLEAN, kept : BOOLEAN, stray : BOOLEAN,
     overtaken : BOOLEAN]
CandidateType ==
    [loading : BOOLEAN, got : BOOLEAN, status : Verdicts \cup {"none"}, public : BOOLEAN,
     verdict : Verdicts \cup {"none"}, verifying : BOOLEAN, savingPub : BOOLEAN,
     uploading : BOOLEAN, editing : BOOLEAN, saving : BOOLEAN, review : BOOLEAN,
     overtaken : BOOLEAN, behind : BOOLEAN]

-----------------------------------------------------------------------------
(* The invariant.  It is stated of a view v and a network n, and where they *)
(* matter of the tables d and of k presses, so that what a step does to     *)
(* one can be said without the others.                                      *)

\* A request of the page that is shown, and one that may still store a form.
Open(n, s, ops) == n[s].op \in ops /\ n[s].home
Unstored(n, s) == n[s].op = "create" /\ n[s].answer = "none"

\* A flag of a page is held exactly while one request, and one only, is out.
Flag(n, held, ops) ==
    /\ \A s \in Slots : Open(n, s, ops) => held
    /\ held => \E s \in Slots : Open(n, s, ops)
    /\ \A s, t \in Slots : Open(n, s, ops) /\ Open(n, t, ops) => s = t

OpsOf(q) ==
    CASE q = "login" -> {"login"}
      [] q = "participants" -> {"list", "delete", "history", "resend", "save"}
      [] q = "candidates" -> {"list", "delete", "create", "photo"}
      [] q = "verifications" -> {"list", "detail", "approve", "reject"}
      [] q = "candidate" -> {"candidate", "verify", "publish", "unpublish", "settings",
                             "photo", "save", "document"}

\* What is out belongs to the page that is shown, or writes and has no answer.
Owned(r) ==
    /\ r.op # "none" => IF r.home THEN r.op \in OpsOf(page)
                        ELSE r.op \in Writes /\ r.answer = "none"
    /\ r.op = "verify" => r.status \in Verdicts
    /\ r.op = "candidate" /\ r.answer = "ok" => r.status \in Verdicts
    /\ r.op = "create" => r.over \in 1..presses
Tab ==
    /\ db \in Server /\ page \in Pages \cup {"login"} /\ presses \in 0..MaxPresses
    /\ net \in [Slots -> Request \cup {Idle}]
    /\ \A s \in Slots : Owned(net[s])

\* A form that is sent, or may be sent again, is not stored and not on its way twice.
Spare(d, n, f) == f \notin d.forms /\ \A s \in Slots : Unstored(n, s) => n[s].over # f
Forms(d, n) ==
    /\ d.forms \subseteq 1..presses
    /\ ~d.lost =>
          /\ ~d.twins
          /\ \A s \in Slots : Unstored(n, s) => n[s].over \notin d.forms
          /\ \A s, t \in Slots : Unstored(n, s) /\ Unstored(n, t) /\ n[s].over = n[t].over => s = t
          /\ \A s \in Slots : n[s].op = "create" /\ n[s].answer = "failed" => Spare(d, n, n[s].over)

LoginInv(v, n) == v \in LoginType /\ Flag(n, v.loading, {"login"})

\* What is out is about the participant in the drawer, unless it was out before.
DrawerIsOf(v, n) ==
    v.detail # None /\ ~v.overlap =>
        /\ v.shown = v.detail /\ (v.loadingLogs \/ v.mailsOf = v.detail)
        /\ \A s \in Slots : Open(n, s, {"history", "resend"}) => n[s].who = {v.detail}
        /\ \A s \in Slots : Open(n, s, {"save"}) => n[s].over = v.detail
ParticipantsInv(v, n) ==
    /\ v \in ParticipantsType /\ (v.target = "one" => v.single \in People)
    /\ Flag(n, v.saving, {"save"}) /\ Flag(n, v.resending, {"resend"})
    /\ Flag(n, v.deleting, {"delete"})
    /\ DrawerIsOf(v, n)

\* The form on the page may be sent, or is being sent.
FormIsSpare(v, d, n) ==
    ~d.lost /\ v.form # 0 =>
        \/ Spare(d, n, v.form)
        \/ \E s \in Slots : Open(n, s, {"create", "photo"}) /\ n[s].over = v.form
CandidatesInv(v, d, n, k) ==
    /\ v \in CandidatesType /\ (v.target = "one" => v.single \in People)
    /\ Flag(n, v.deleting, {"delete"}) /\ Flag(n, v.creating, {"create", "photo"})
    /\ v.form <= k /\ FormIsSpare(v, d, n)

\* Data that did not come astray are of the applicant in the window.
WindowIsOf(v, n) ==
    /\ ~v.stray => v.dataOf \in {v.selected, None}
    /\ v.selected # None /\ ~v.overtaken =>
          /\ ~v.stray
          /\ \A s \in Slots : Open(n, s, {"detail"}) => n[s].who = {v.selected}
VerificationsInv(v, n) ==
    /\ v \in VerificationsType
    /\ Flag(n, v.acting, {"approve", "reject"})
    /\ WindowIsOf(v, n)
    /\ v.reasonOf \in {None, v.reject} \/ v.kept

\* The page shows the tables, and a fetch that does not is known to be late; or
\* there is a request out whose answer mends it.
Shows(v, d, n) ==
    /\ (v.status = d.status /\ v.public = d.public) \/ v.overtaken
    /\ \A s \in Slots : n[s].op = "candidate" /\ n[s].answer = "ok"
                           => (n[s].status = d.status /\ n[s].public = d.public) \/ n[s].late
Mends(d, n, s) ==
    \/ n[s].op = "candidate" /\ (n[s].answer = "ok" => n[s].status = d.status /\ n[s].public = d.public)
    \/ Open(n, s, Writes) /\ n[s].answer = "ok"
CandidateInv(v, d, n) ==
    /\ v \in CandidateType /\ (v.got => v.verdict \in Verdicts)
    /\ Flag(n, v.verifying, {"verify"}) /\ Flag(n, v.uploading, {"photo"})
    /\ Flag(n, v.savingPub, {"publish", "unpublish", "settings"})
    /\ ~v.behind => Shows(v, d, n) \/ \E s \in Slots : Mends(d, n, s)

Shown ==
    /\ page = "login" => LoginInv(view, net)
    /\ page = "participants" => ParticipantsInv(view, net)
    /\ page = "candidates" => CandidatesInv(view, db, net, presses)
    /\ page = "verifications" => VerificationsInv(view, net)
    /\ page = "candidate" => CandidateInv(view, db, net)

IInv == Tab /\ Forms(db, net) /\ Shown

-----------------------------------------------------------------------------
(* What a send and an answer do to the network.                            *)

\* A slot that takes a request was idle.
LEMMA SendFills ==
    ASSUME NEW n \in [Slots -> Request \cup {Idle}], CanSend(n, 1), NEW r
    PROVE  \E s \in Slots : n[s] = Idle /\ Sent(n, r) = [n EXCEPT ![s] = r]
<1>1. FreeSlots(n) # {}
  <2>1. IsFiniteSet({}) /\ Cardinality({}) = 0
    BY FS_EmptySet
  <2>. QED BY <2>1, ~ (0 >= 1) DEF CanSend
<1>. DEFINE c == CHOOSE s \in FreeSlots(n) : TRUE
<1>2. c \in FreeSlots(n)
  BY <1>1
<1>3. c \in Slots /\ n[c].op = "none"
  BY <1>2 DEF FreeSlots
<1>4. n[c] = Idle
  BY <1>3 DEF Request, Reads, Writes, ParticipantWrites, CandidateWrites, Decisions
<1>. QED BY <1>3, <1>4 DEF Sent

\* Requests that a page may be waiting for are the same ones, but for answers.
Alike(n, m, ops) ==
    \A s \in Slots :
        /\ Open(m, s, ops) <=> Open(n, s, ops)
        /\ Open(n, s, ops) => m[s].op = n[s].op /\ m[s].who = n[s].who /\ m[s].over = n[s].over

\* A flag is right of requests that are alike.
LEMMA FlagKept ==
    ASSUME NEW n, NEW m, NEW held \in BOOLEAN, NEW ops, NEW some, some \subseteq ops,
           Alike(n, m, ops), Flag(n, held, some)
    PROVE  Flag(m, held, some)
<1>1. \A s \in Slots : Open(m, s, some) <=> Open(n, s, some)
  BY DEF Alike, Open
<1>. QED BY <1>1 DEF Flag

\* A flag is raised by a send, and lowered by the answer.
LEMMA FlagRaised ==
    ASSUME NEW n, NEW m, NEW s \in Slots, \A t \in Slots : t # s => m[t] = n[t],
           NEW ops, \A t \in Slots : ~Open(n, t, ops), Open(m, s, ops)
    PROVE  Flag(m, TRUE, ops)
<1>1. \A t \in Slots : t # s => (Open(m, t, ops) <=> Open(n, t, ops))
  BY DEF Open
<1>. QED BY <1>1 DEF Flag

LEMMA FlagLowered ==
    ASSUME NEW n, NEW m, NEW s \in Slots, \A t \in Slots : t # s => m[t] = n[t],
           NEW held, NEW ops, Flag(n, held, ops), Open(n, s, ops), ~Open(m, s, ops)
    PROVE  Flag(m, FALSE, ops)
<1>1. \A t \in Slots : t # s => (Open(m, t, ops) <=> Open(n, t, ops))
  BY DEF Open
<1>. QED BY <1>1 DEF Flag

\* A flag counts the requests it stands for.
LEMMA FlagCounts ==
    ASSUME NEW held \in BOOLEAN, NEW ops, Tab, Flag(net, held, ops)
    PROVE  Cardinality(Out(ops)) = IF held THEN 1 ELSE 0
<1>1. Out(ops) = {s \in Slots : Open(net, s, ops)}
  BY DEF Tab, Out, Pending, Open
<1>2. CASE ~held
  <2>1. Out(ops) = {}
    BY <1>1, <1>2 DEF Flag
  <2>. QED BY <2>1, <1>2, FS_EmptySet
<1>3. CASE held
  <2>1. PICK s \in Slots : Open(net, s, ops)
    BY <1>3 DEF Flag
  <2>2. Out(ops) = {s}
    BY <1>1, <2>1 DEF Flag
  <2>. QED BY <2>2, <1>3, FS_Singleton
<1>. QED BY <1>2, <1>3

\* What a request leaves behind in its slot, and the rest of the tab, is in order.
LEMMA PutTab ==
    ASSUME Tab, NEW s \in Slots, NEW r \in Request \cup {Idle},
           net' = [net EXCEPT ![s] = r], db' \in Server, page' = page,
           presses' \in 0..MaxPresses, presses <= presses', Owned(r)'
    PROVE  /\ Tab'
           /\ \A t \in Slots : net'[t] = IF t = s THEN r ELSE net[t]
<1>1. \A t \in Slots : net'[t] = IF t = s THEN r ELSE net[t]
  BY DEF Tab
<1>2. net' \in [Slots -> Request \cup {Idle}]
  BY DEF Tab
<1>3. ASSUME NEW t \in Slots PROVE Owned(net[t])'
  <2>1. CASE t = s
    <3>1. net'[t] = r
      BY <1>1, <2>1
    <3>. QED BY <3>1 DEF Owned
  <2>2. CASE t # s
    <3>1. net'[t] = net[t] /\ Owned(net[t])
      BY <1>1, <2>2 DEF Tab
    <3>2. 1..presses \subseteq 1..presses'
      BY DEF Tab
    <3>. QED BY <3>1, <3>2 DEF Owned
  <2>. QED BY <2>1, <2>2
<1>. QED BY <1>1, <1>2, <1>3 DEF Tab

\* Forms that are on their way stay so, or are answered.
LEMMA FormsKept ==
    ASSUME Tab, Forms(db, net), presses' \in 0..MaxPresses, presses <= presses',
           db'.forms = db.forms, db'.twins = db.twins, db'.lost = db.lost,
           \A t \in Slots : (Unstored(net, t))' => Unstored(net, t) /\ net'[t].over = net[t].over,
           \A t \in Slots : net'[t].op = "create" /\ net'[t].answer = "failed" => net'[t] = net[t]
    PROVE  Forms(db, net)' /\ \A f : Spare(db, net, f) => Spare(db', net', f)
<1>1. db'.forms \subseteq 1..presses'
  BY DEF Forms, Tab
<1>2. \A f : Spare(db, net, f) => Spare(db', net', f)
  BY DEF Spare, Unstored
<1>. QED BY <1>1, <1>2 DEF Forms, Unstored

-----------------------------------------------------------------------------
(* The server.  Each page is told apart by what an answer changes of it.   *)

\* What holds of a page does not depend on answers that have not been looked at,
\* except on the page of one candidate.
LEMMA AlikeShown ==
    ASSUME Tab, Shown, view' = view, page' = page, presses' \in 0..MaxPresses,
           presses <= presses', page # "candidate",
           \A ops : "none" \notin ops => Alike(net, net', ops),
           ~db'.lost => ~db.lost,
           \A f : ~db'.lost /\ Spare(db, net, f) => Spare(db', net', f)
    PROVE  Shown'
<1>1. CASE page = "login"
  <2>1. LoginInv(view, net')
    BY <1>1, FlagKept DEF Shown, LoginInv, LoginType
  <2>. QED BY <2>1, <1>1 DEF Shown
<1>2. CASE page = "participants"
  <2>. DEFINE all == {"save", "resend", "delete", "history"}
  <2>1. ParticipantsInv(view, net)
    BY <1>2 DEF Shown
  <2>2. Alike(net, net', all)
    OBVIOUS
  <2>3. /\ Flag(net', view.saving, {"save"}) /\ Flag(net', view.resending, {"resend"})
        /\ Flag(net', view.deleting, {"delete"})
    BY <2>1, FlagKept DEF ParticipantsInv, ParticipantsType
  <2>4. DrawerIsOf(view, net')
    BY <2>1, <2>2 DEF ParticipantsInv, DrawerIsOf, Alike, Open
  <2>. QED BY <2>1, <2>3, <2>4, <1>2 DEF Shown, ParticipantsInv
<1>3. CASE page = "candidates"
  <2>1. CandidatesInv(view, db, net, presses)
    BY <1>3 DEF Shown
  <2>2. Alike(net, net', {"create", "photo"})
    OBVIOUS
  <2>3. Flag(net', view.deleting, {"delete"}) /\ Flag(net', view.creating, {"create", "photo"})
    BY <2>1, FlagKept DEF CandidatesInv, CandidatesType
  <2>4. FormIsSpare(view, db', net')
    BY <2>1, <2>2 DEF CandidatesInv, FormIsSpare, Alike
  <2>5. view.form <= presses'
    BY <2>1 DEF CandidatesInv, CandidatesType, Tab
  <2>. QED BY <2>1, <2>3, <2>4, <2>5, <1>3 DEF Shown, CandidatesInv
<1>4. CASE page = "verifications"
  <2>1. VerificationsInv(view, net)
    BY <1>4 DEF Shown
  <2>2. Alike(net, net', {"detail"})
    OBVIOUS
  <2>3. Flag(net', view.acting, {"approve", "reject"})
    BY <2>1, FlagKept DEF VerificationsInv, VerificationsType
  <2>4. WindowIsOf(view, net')
    BY <2>1, <2>2 DEF VerificationsInv, WindowIsOf, Alike, Open
  <2>. QED BY <2>1, <2>3, <2>4, <1>4 DEF Shown, VerificationsInv
<1>. QED BY <1>1, <1>2, <1>3, <1>4 DEF Shown, Tab, Pages

\* The flags of the candidate's page in the same case.
LEMMA AlikeFlags ==
    ASSUME NEW v \in CandidateType, NEW w \in CandidateType, NEW n, NEW m,
           \A ops : "none" \notin ops => Alike(n, m, ops),
           Flag(n, v.verifying, {"verify"}), Flag(n, v.uploading, {"photo"}),
           Flag(n, v.savingPub, {"publish", "unpublish", "settings"}),
           w.verifying = v.verifying, w.uploading = v.uploading, w.savingPub = v.savingPub
    PROVE  /\ Flag(m, w.verifying, {"verify"}) /\ Flag(m, w.uploading, {"photo"})
           /\ Flag(m, w.savingPub, {"publish", "unpublish", "settings"})
BY FlagKept DEF CandidateType

\* The tables stay tables.
LEMMA EffectType ==
    ASSUME Tab, NEW s \in Slots, net[s].op # "none"
    PROVE  /\ Effect(net[s]) \in Server
           /\ [Effect(net[s]) EXCEPT !.lost = @ \/ net[s].op = "create"] \in Server
           /\ Effect(net[s]).forms \subseteq db.forms \cup {net[s].over}
           /\ net[s].op # "create" => Effect(net[s]).forms = db.forms /\ Effect(net[s]).twins = db.twins
           /\ net[s].op = "create" => /\ Effect(net[s]).forms = db.forms \cup {net[s].over}
                                      /\ Effect(net[s]).twins = (db.twins \/ net[s].over \in db.forms)
           /\ Effect(net[s]).lost = db.lost
<1>. DEFINE r == net[s]
<1>1. db \in Server /\ Owned(r)
  BY DEF Tab
<1>2. r.op = "verify" => r.status \in Verdicts
  BY <1>1 DEF Owned
<1>3. r.op = "create" => r.over \in 1..presses
  BY <1>1 DEF Owned
<1>4. r.over \in 1..presses => r.over \in Nat
  BY DEF Tab
<1>5. /\ Effect(r) \in Server /\ Effect(r).lost = db.lost
      /\ r.op # "create" => Effect(r).forms = db.forms /\ Effect(r).twins = db.twins
      /\ r.op = "create" => /\ Effect(r).forms = db.forms \cup {r.over}
                            /\ Effect(r).twins = (db.twins \/ r.over \in db.forms)
  BY <1>1, <1>2, <1>3, <1>4 DEF Effect, Server
<1>6. [Effect(r) EXCEPT !.lost = @ \/ r.op = "create"] \in Server
  BY <1>5 DEF Server
<1>. QED BY <1>5, <1>6

\* An answer is put where the request was, or the request of a page that is gone
\* is dropped.
Answers(r, s) ==
    \/ r \in Request /\ net[s].home /\ r.op = net[s].op /\ r.who = net[s].who
          /\ r.over = net[s].over /\ r.home = net[s].home
    \/ r = Idle /\ ~net[s].home

LEMMA AnswerAlike ==
    ASSUME Tab, NEW s \in Slots, NEW r, Answers(r, s), net[s].op # "none",
           net' = [net EXCEPT ![s] = r]
    PROVE  \A ops : "none" \notin ops => Alike(net, net', ops)
<1>1. \A t \in Slots : net'[t] = IF t = s THEN r ELSE net[t]
  BY DEF Tab
<1>2. CASE net[s].home
  BY <1>1, <1>2 DEF Alike, Open, Answers
<1>3. CASE ~net[s].home
  <2>1. ASSUME NEW ops, NEW t \in Slots, t # s
        PROVE  net'[t] = net[t]
    BY <1>1, <2>1
  <2>2. ASSUME NEW ops PROVE ~Open(net, s, ops)
    BY <1>3 DEF Open
  <2>3. ASSUME NEW ops, "none" \notin ops PROVE ~Open(net', s, ops)
    BY <1>1, <1>3, <2>3 DEF Open, Answers, Idle
  <2>. QED BY <2>1, <2>2, <2>3 DEF Alike, Open
<1>. QED BY <1>2, <1>3

LEMMA ReadKeeps == ASSUME IInv, NEW s \in Slots, ServeRead(s) PROVE IInv'
<1>. DEFINE was == net[s]
<1>1. Tab /\ Forms(db, net) /\ Shown
  BY DEF IInv
<1>2. Unserved(net, s) /\ was.op \in Reads /\ was \in Request
  BY <1>1 DEF ServeRead, Unserved, Tab, Idle
<1>3. PICK rows \in IF was.op = "list" THEN SUBSET db.people ELSE {{}} :
        net' = [net EXCEPT ![s].answer = "ok", ![s].rows = rows,
                           ![s].status = db.status, ![s].public = db.public]
  BY DEF ServeRead
<1>. PICK r : r = [was EXCEPT !.answer = "ok", !.rows = rows, !.status = db.status,
                              !.public = db.public]
  OBVIOUS
<1>4. db' = db /\ page' = page /\ view' = view /\ presses' = presses
  BY DEF ServeRead
<1>5. net' = [net EXCEPT ![s] = r]
  BY <1>3, <1>1 DEF Tab
<1>6. /\ r \in Request /\ r.op = was.op /\ r.who = was.who /\ r.over = was.over
      /\ r.home = was.home /\ r.answer = "ok" /\ r.status = db.status /\ r.public = db.public
      /\ r.late = was.late
  <2>1. rows \in SUBSET People /\ db.status \in Verdicts /\ db.public \in BOOLEAN
    BY <1>1 DEF Tab, Server
  <2>. QED BY <1>2, <2>1 DEF Request
<1>7. was.home
  BY <1>1, <1>2 DEF Tab, Owned, Reads, Writes, ParticipantWrites, CandidateWrites, Decisions
<1>8. Answers(r, s)
  BY <1>6, <1>7 DEF Answers
<1>9. presses \in 0..MaxPresses /\ presses <= presses' /\ presses' \in 0..MaxPresses
  BY <1>1, <1>4 DEF Tab
<1>10. Owned(r)'
  <2>1. was.op # "create" /\ was.op # "verify"
    BY <1>2 DEF Reads
  <2>2. r.op \in OpsOf(page)
    BY <1>1, <1>2, <1>6, <1>7 DEF Tab, Owned, Reads
  <2>3. db.status \in Verdicts
    BY <1>1 DEF Tab, Server
  <2>. QED BY <1>4, <1>6, <1>7, <2>1, <2>2, <2>3 DEF Owned
<1>11. Tab' /\ \A t \in Slots : net'[t] = IF t = s THEN r ELSE net[t]
  <2>1. r \in Request \cup {Idle} /\ db' \in Server
    BY <1>1, <1>4, <1>6 DEF Tab
  <2>. QED BY <2>1, <1>1, <1>4, <1>5, <1>9, <1>10, PutTab
<1>12. \A ops : "none" \notin ops => Alike(net, net', ops)
  BY <1>1, <1>2, <1>5, <1>8, AnswerAlike DEF Unserved
<1>13. Forms(db, net)' /\ \A f : Spare(db, net, f) => Spare(db', net', f)
  BY <1>1, <1>2, <1>4, <1>6, <1>9, <1>11, FormsKept DEF Unstored, Reads
<1>14. CASE page # "candidate"
  BY <1>1, <1>4, <1>9, <1>11, <1>12, <1>13, <1>14, AlikeShown DEF IInv
<1>15. CASE page = "candidate"
  <2>1. CandidateInv(view, db, net)
    BY <1>1, <1>15 DEF Shown
  <2>2. ASSUME Shows(view, db, net) PROVE Shows(view, db, net')
    BY <2>2, <1>6, <1>11 DEF Shows
  <2>3. ASSUME NEW t \in Slots, Mends(db, net, t) PROVE Mends(db, net', t)
    BY <2>3, <1>2, <1>6, <1>11 DEF Mends, Open, Unserved
  <2>4. CandidateInv(view, db, net')
    BY <2>1, <2>2, <2>3, <1>12, AlikeFlags DEF CandidateInv
  <2>. QED BY <2>4, <1>4, <1>11, <1>13, <1>15 DEF IInv, Shown
<1>. QED BY <1>14, <1>15

\* A request that was carried out or refused leaves the tab in order.
LEMMA ServedTab ==
    ASSUME Tab, NEW s \in Slots, Unserved(net, s), NEW r, Answers(r, s),
           r # Idle => r.status = net[s].status /\ (net[s].op = "candidate" => r.answer # "ok"),
           net' = [net EXCEPT ![s] = r], db' \in Server, page' = page, presses' = presses
    PROVE  /\ Tab' /\ \A t \in Slots : net'[t] = IF t = s THEN r ELSE net[t]
           /\ \A ops : "none" \notin ops => Alike(net, net', ops)
           /\ net[s] \in Request /\ presses' \in 0..MaxPresses /\ presses <= presses'
<1>1. /\ net[s] \in Request /\ Owned(net[s]) /\ presses' \in 0..MaxPresses
      /\ presses <= presses'
  BY DEF Tab, Unserved, Idle
<1>2. r \in Request \cup {Idle}
  BY DEF Answers
<1>3. Owned(r)'
  <2>1. CASE net[s].home
    <3>1. r \in Request /\ r # Idle
      BY <2>1 DEF Answers, Request, Reads, Writes, ParticipantWrites, CandidateWrites,
                  Decisions, Idle
    <3>. QED BY <1>1, <2>1, <3>1 DEF Owned, Answers
  <2>2. CASE ~net[s].home
    <3>1. r.op = "none"
      BY <2>2 DEF Answers, Idle
    <3>. QED BY <3>1 DEF Owned
  <2>. QED BY <2>1, <2>2
<1>4. Tab' /\ \A t \in Slots : net'[t] = IF t = s THEN r ELSE net[t]
  BY <1>1, <1>2, <1>3, PutTab
<1>5. \A ops : "none" \notin ops => Alike(net, net', ops)
  BY AnswerAlike DEF Unserved
<1>. QED BY <1>1, <1>4, <1>5

\* A form that is stored is none that was stored, or that may be sent again.
LEMMA FormsStored ==
    ASSUME Tab, Forms(db, net), NEW s \in Slots, Unstored(net, s),
           \A t \in Slots : t # s => net'[t] = net[t],
           ~(Unstored(net, s))', presses' = presses,
           \/ db'.lost
           \/ db'.lost = db.lost /\ ~(net'[s].op = "create" /\ net'[s].answer = "failed"),
           db'.forms = db.forms \cup {net[s].over},
           db'.twins = (db.twins \/ net[s].over \in db.forms)
    PROVE  Forms(db, net)' /\ \A f : Spare(db, net, f) => Spare(db', net', f)
<1>1. net[s].over \in 1..presses
  BY DEF Tab, Owned, Unstored
<1>2. \A t \in Slots : (Unstored(net, t))' => t # s /\ Unstored(net, t) /\ net'[t].over = net[t].over
  BY DEF Unstored
<1>3. ASSUME NEW f, Spare(db, net, f) PROVE Spare(db', net', f)
  <2>1. f # net[s].over /\ f \notin db.forms
    BY <1>3 DEF Spare
  <2>. QED BY <2>1, <1>2, <1>3 DEF Spare, Unstored
<1>4. db'.forms \subseteq 1..presses'
  BY <1>1 DEF Forms
<1>5. ASSUME ~db'.lost
      PROVE  /\ ~db'.twins
             /\ \A t \in Slots : Unstored(net', t) => net'[t].over \notin db'.forms
             /\ \A t, u \in Slots : Unstored(net', t) /\ Unstored(net', u)
                                       /\ net'[t].over = net'[u].over => t = u
             /\ \A t \in Slots : net'[t].op = "create" /\ net'[t].answer = "failed"
                                    => Spare(db', net', net'[t].over)
  <2>1. ~db.lost
    BY <1>5
  <2>2. ~db'.twins
    BY <2>1 DEF Forms
  <2>3. ASSUME NEW t \in Slots, Unstored(net', t) PROVE net'[t].over \notin db'.forms
    BY <2>1, <2>3, <1>2 DEF Forms, Unstored
  <2>4. ASSUME NEW t \in Slots, NEW u \in Slots, Unstored(net', t), Unstored(net', u),
               net'[t].over = net'[u].over
        PROVE  t = u
    BY <2>1, <2>4, <1>2 DEF Forms, Unstored
  <2>5. ASSUME NEW t \in Slots, net'[t].op = "create", net'[t].answer = "failed"
        PROVE  Spare(db', net', net'[t].over)
    <3>1. net'[t] = net[t]
      BY <1>5, <2>5
    <3>. QED BY <3>1, <2>1, <2>5, <1>3 DEF Forms
  <2>. QED BY <2>2, <2>3, <2>4, <2>5
<1>. QED BY <1>3, <1>4, <1>5 DEF Forms

\* A page that may be behind of the tables owes nothing but its flags.
LEMMA BehindKeeps ==
    ASSUME Tab, Shown, page = "candidate", page' = page,
           \A ops : "none" \notin ops => Alike(net, net', ops),
           view' = [view EXCEPT !.behind = TRUE]
    PROVE  Shown'
<1>1. CandidateInv(view, db, net)
  BY DEF Shown
<1>2. /\ view' \in CandidateType /\ view'.behind /\ view'.got = view.got
      /\ view'.verdict = view.verdict /\ view'.verifying = view.verifying
      /\ view'.uploading = view.uploading /\ view'.savingPub = view.savingPub
  BY <1>1 DEF CandidateInv, CandidateType
<1>3. CandidateInv(view', db', net')
  BY <1>1, <1>2, AlikeFlags DEF CandidateInv
<1>. QED BY <1>3 DEF Shown

LEMMA ServedForms ==
    ASSUME Tab, Forms(db, net), NEW s \in Slots, Unserved(net, s),
           \A t \in Slots : t # s => net'[t] = net[t], presses' = presses,
           net'[s] = Idle \/ net'[s].answer # "none",
           \/ db' = Effect(net[s]) /\ net'[s].answer # "failed"
           \/ db' = [Effect(net[s]) EXCEPT !.lost = @ \/ net[s].op = "create"]
                 /\ net'[s].op = net[s].op
    PROVE  /\ Forms(db, net)' /\ \A f : Spare(db, net, f) => Spare(db', net', f)
           /\ db' \in Server /\ (~db'.lost => ~db.lost)
<1>1. /\ Effect(net[s]) \in Server
      /\ [Effect(net[s]) EXCEPT !.lost = @ \/ net[s].op = "create"] \in Server
      /\ net[s].op # "create" => Effect(net[s]).forms = db.forms /\ Effect(net[s]).twins = db.twins
      /\ net[s].op = "create" => /\ Effect(net[s]).forms = db.forms \cup {net[s].over}
                                 /\ Effect(net[s]).twins = (db.twins \/ net[s].over \in db.forms)
      /\ Effect(net[s]).lost = db.lost
  BY EffectType DEF Unserved
<1>2. /\ db' \in Server /\ db'.forms = Effect(net[s]).forms
      /\ db'.twins = Effect(net[s]).twins
      /\ net[s].op # "create" => db'.lost = db.lost
      /\ db'.lost = db.lost \/ (db'.lost /\ net[s].op = "create")
      /\ db'.lost \/ (db'.lost = db.lost /\ ~(net'[s].op = "create" /\ net'[s].answer = "failed"))
  <2>1. CASE db' = Effect(net[s]) /\ net'[s].answer # "failed"
    BY <1>1, <2>1 DEF Server
  <2>2. CASE /\ db' = [Effect(net[s]) EXCEPT !.lost = @ \/ net[s].op = "create"]
             /\ net'[s].op = net[s].op
    BY <1>1, <2>2 DEF Server
  <2>. QED BY <2>1, <2>2
<1>3. ~(Unstored(net, s))'
  BY DEF Unstored, Idle
<1>4. CASE net[s].op = "create"
  <2>1. Unstored(net, s)
    BY <1>4 DEF Unstored, Unserved
  <2>. QED BY <1>1, <1>2, <1>3, <1>4, <2>1, FormsStored
<1>5. CASE net[s].op # "create"
  <2>1. presses' \in 0..MaxPresses /\ presses <= presses'
    BY DEF Tab
  <2>2. ASSUME NEW t \in Slots, net'[t].op = "create", net'[t].answer = "failed"
        PROVE  net'[t] = net[t]
    <3>1. CASE db' = Effect(net[s]) /\ net'[s].answer # "failed"
      BY <2>2, <3>1
    <3>2. CASE net'[s].op = net[s].op
      BY <2>2, <3>2, <1>5
    <3>. QED BY <3>1, <3>2
  <2>3. \A t \in Slots : (Unstored(net, t))' => Unstored(net, t) /\ net'[t].over = net[t].over
    BY <1>3 DEF Unstored
  <2>. QED BY <1>1, <1>2, <1>5, <2>1, <2>2, <2>3, FormsKept
<1>. QED BY <1>4, <1>5

LEMMA WriteKeeps ==
    ASSUME IInv, NEW s \in Slots, ServeWrite(s) \/ ServeAndLose(s)
    PROVE  IInv'
<1>. DEFINE was == net[s]
<1>1. /\ Tab /\ Forms(db, net) /\ Shown /\ Unserved(net, s)
      /\ was.op \in Writes /\ was \in Request /\ was.answer = "none"
  BY DEF IInv, ServeWrite, ServeAndLose, Unserved, Tab, Idle
<1>2. PICK kind \in {"done", "orphan", "lost"} :
        /\ kind = "done" => /\ was.home /\ net' = [net EXCEPT ![s].answer = "ok"]
                            /\ view' = view /\ db' = Effect(was)
        /\ kind = "orphan" => /\ ~was.home /\ net' = [net EXCEPT ![s] = Idle]
                              /\ view' = Behind /\ db' = Effect(was)
        /\ kind = "lost" => /\ was.home /\ net' = [net EXCEPT ![s].answer = "failed"]
                            /\ view' = Behind
                            /\ db' = [Effect(was) EXCEPT !.lost = @ \/ was.op = "create"]
  BY DEF ServeWrite, ServeAndLose, Done
<1>3. page' = page /\ presses' = presses
  BY DEF ServeWrite, ServeAndLose
<1>4. PICK r : r = CASE kind = "done" -> [was EXCEPT !.answer = "ok"]
                     [] kind = "orphan" -> Idle
                     [] kind = "lost" -> [was EXCEPT !.answer = "failed"]
  OBVIOUS
<1>5. net' = [net EXCEPT ![s] = r]
  BY <1>1, <1>2, <1>4 DEF Tab
<1>6. /\ kind # "orphan" => /\ r \in Request /\ r.op = was.op /\ r.who = was.who
                            /\ r.over = was.over /\ r.home = was.home /\ r.status = was.status
      /\ kind = "done" => r.answer = "ok"
      /\ kind = "lost" => r.answer = "failed"
      /\ kind = "orphan" => r = Idle
  BY <1>1, <1>2, <1>4 DEF Request
<1>7. Answers(r, s)
  BY <1>2, <1>6 DEF Answers
<1>8. was.op # "candidate" /\ was.op # "none"
  BY <1>1 DEF Writes, ParticipantWrites, CandidateWrites, Decisions
<1>9. \A t \in Slots : net'[t] = IF t = s THEN r ELSE net[t]
  BY <1>1, <1>5 DEF Tab
<1>10. /\ Forms(db, net)' /\ \A f : Spare(db, net, f) => Spare(db', net', f)
       /\ db' \in Server /\ (~db'.lost => ~db.lost)
  <2>1. net'[s] = Idle \/ net'[s].answer # "none"
    BY <1>6, <1>9
  <2>2. \/ db' = Effect(was) /\ net'[s].answer # "failed"
        \/ db' = [Effect(was) EXCEPT !.lost = @ \/ was.op = "create"]
              /\ net'[s].op = was.op
    BY <1>2, <1>6, <1>9 DEF Idle
  <2>. QED BY <1>1, <1>3, <1>9, <2>1, <2>2, ServedForms
<1>11. /\ Tab' /\ \A ops : "none" \notin ops => Alike(net, net', ops)
       /\ presses' \in 0..MaxPresses /\ presses <= presses'
  <2>1. r # Idle => r.status = was.status /\ (was.op = "candidate" => r.answer # "ok")
    BY <1>6, <1>8
  <2>. QED BY <1>1, <1>3, <1>5, <1>7, <1>10, <2>1, ServedTab
<1>12. CASE page # "candidate"
  <2>1. view' = view
    BY <1>2, <1>12 DEF Behind
  <2>2. Shown'
    BY <1>1, <1>3, <1>10, <1>11, <1>12, <2>1, AlikeShown
  <2>. QED BY <2>2, <1>10, <1>11 DEF IInv
<1>13. CASE page = "candidate" /\ kind # "done"
  <2>1. view' = [view EXCEPT !.behind = TRUE]
    BY <1>2, <1>13 DEF Behind
  <2>2. Shown'
    BY <1>1, <1>3, <1>11, <1>13, <2>1, BehindKeeps
  <2>. QED BY <2>2, <1>10, <1>11 DEF IInv
<1>14. CASE page = "candidate" /\ kind = "done"
  <2>1. Mends(db', net', s)
    BY <1>1, <1>2, <1>6, <1>9, <1>14 DEF Mends, Open
  <2>2. CandidateInv(view, db', net')
    BY <1>1, <1>11, <1>14, <2>1, AlikeFlags DEF Shown, CandidateInv
  <2>3. view' = view
    BY <1>2, <1>14
  <2>4. Shown'
    BY <2>2, <2>3, <1>3, <1>14 DEF Shown
  <2>. QED BY <2>4, <1>10, <1>11 DEF IInv
<1>. QED BY <1>12, <1>13, <1>14

LEMMA ErrorKeeps == ASSUME IInv, NEW s \in Slots, ServeError(s) PROVE IInv'
<1>. DEFINE was == net[s]
<1>1. /\ Tab /\ Forms(db, net) /\ Shown /\ Unserved(net, s)
      /\ was \in Request /\ was.answer = "none" /\ was.op # "none"
      /\ db' = db /\ page' = page /\ view' = view /\ presses' = presses
  BY DEF IInv, ServeError, Unserved, Tab, Idle
<1>2. PICK r : r = IF was.home THEN [was EXCEPT !.answer = "failed"] ELSE Idle
  OBVIOUS
<1>3. net' = [net EXCEPT ![s] = r]
  BY <1>1, <1>2 DEF ServeError, Done, Tab
<1>4. /\ was.home => /\ r \in Request /\ r.op = was.op /\ r.who = was.who
                     /\ r.over = was.over /\ r.home = was.home /\ r.status = was.status
                     /\ r.answer = "failed"
      /\ ~was.home => r = Idle
  BY <1>1, <1>2 DEF Request
<1>5. Answers(r, s)
  BY <1>4 DEF Answers
<1>6. /\ Tab' /\ \A ops : "none" \notin ops => Alike(net, net', ops)
      /\ \A t \in Slots : net'[t] = IF t = s THEN r ELSE net[t]
      /\ presses' \in 0..MaxPresses /\ presses <= presses'
  <2>1. r # Idle => r.status = was.status /\ (was.op = "candidate" => r.answer # "ok")
    BY <1>4
  <2>2. db' \in Server
    BY <1>1 DEF Tab
  <2>. QED BY <1>1, <1>3, <1>5, <2>1, <2>2, ServedTab
<1>7. Forms(db, net)' /\ \A f : Spare(db, net, f) => Spare(db', net', f)
  <2>1. \A t \in Slots : (Unstored(net, t))' => Unstored(net, t) /\ net'[t].over = net[t].over
    BY <1>4, <1>6 DEF Unstored, Idle
  <2>2. CASE was.op = "create" /\ was.home
    <3>1. \A f : Spare(db, net, f) => Spare(db', net', f)
      BY <1>1, <2>1 DEF Spare, Unstored
    <3>2. ASSUME ~db.lost PROVE Spare(db', net', was.over)
      <4>1. Unstored(net, s)
        BY <1>1, <2>2 DEF Unstored
      <4>2. \A t \in Slots : Unstored(net', t) => t # s
        BY <1>4, <1>6, <2>2 DEF Unstored
      <4>. QED BY <1>1, <3>2, <4>1, <4>2, <2>1 DEF Spare, Forms, Unstored
    <3>3. ASSUME NEW t \in Slots, ~db.lost, net'[t].op = "create", net'[t].answer = "failed"
          PROVE  Spare(db', net', net'[t].over)
      <4>1. CASE t = s
        BY <3>2, <3>3, <4>1, <1>4, <1>6, <2>2
      <4>2. CASE t # s
        BY <3>1, <3>3, <4>2, <1>1, <1>6 DEF Forms
      <4>. QED BY <4>1, <4>2
    <3>4. /\ db.forms \subseteq 1..presses
          /\ ~db.lost =>
               /\ ~db.twins
               /\ \A t \in Slots : Unstored(net', t) => net'[t].over \notin db.forms
               /\ \A t, u \in Slots : Unstored(net', t) /\ Unstored(net', u)
                                         /\ net'[t].over = net'[u].over => t = u
      BY <1>1, <2>1 DEF Forms, Unstored
    <3>. QED BY <1>1, <3>1, <3>3, <3>4 DEF Forms
  <2>3. CASE ~(was.op = "create" /\ was.home)
    <3>1. ASSUME NEW t \in Slots, net'[t].op = "create", net'[t].answer = "failed"
          PROVE  net'[t] = net[t]
      BY <2>3, <3>1, <1>4, <1>6 DEF Idle
    <3>. QED BY <1>1, <1>6, <2>1, <3>1, FormsKept
  <2>. QED BY <2>2, <2>3
<1>8. CASE page # "candidate"
  <2>1. Shown'
    BY <1>1, <1>6, <1>7, <1>8, AlikeShown
  <2>. QED BY <2>1, <1>6, <1>7 DEF IInv
<1>9. CASE page = "candidate"
  <2>1. CandidateInv(view, db, net)
    BY <1>1, <1>9 DEF Shown
  <2>2. ASSUME Shows(view, db, net) PROVE Shows(view, db, net')
    BY <2>2, <1>4, <1>6 DEF Shows, Idle
  <2>3. ASSUME NEW t \in Slots, Mends(db, net, t) PROVE Mends(db, net', t)
    <3>1. CASE t # s
      BY <2>3, <3>1, <1>6 DEF Mends, Open
    <3>2. CASE t = s
      <4>1. was.op = "candidate"
        BY <2>3, <3>2, <1>1 DEF Mends
      <4>2. was.home
        BY <1>1, <4>1 DEF Tab, Owned, Writes, ParticipantWrites, CandidateWrites, Decisions
      <4>. QED BY <3>2, <4>1, <4>2, <1>4, <1>6 DEF Mends
    <3>. QED BY <3>1, <3>2
  <2>4. CandidateInv(view, db, net')
    BY <2>1, <2>2, <2>3, <1>6, AlikeFlags DEF CandidateInv
  <2>5. Shown'
    BY <2>4, <1>1, <1>9 DEF Shown
  <2>. QED BY <2>5, <1>6, <1>7 DEF IInv
<1>. QED BY <1>8, <1>9

LEMMA LoginServed == ASSUME IInv, NEW s \in Slots, ServeLogin(s) PROVE IInv'
<1>. DEFINE was == net[s]
<1>1. /\ Tab /\ Forms(db, net) /\ Shown /\ Unserved(net, s)
      /\ was \in Request /\ was.op = "login" /\ was.op # "none"
      /\ db' = db /\ page' = page /\ view' = view /\ presses' = presses
  BY DEF IInv, ServeLogin, Unserved, Tab, Idle
<1>2. was.home /\ "login" \in OpsOf(page) /\ page \in Pages \cup {"login"}
  BY <1>1 DEF Tab, Owned, Writes, ParticipantWrites, CandidateWrites, Decisions
<1>3. page # "candidate"
  BY <1>2 DEF OpsOf
<1>4. PICK r : r = [was EXCEPT !.answer = "ok"]
  OBVIOUS
<1>5. net' = [net EXCEPT ![s] = r]
  BY <1>1, <1>4 DEF ServeLogin, Tab
<1>6. /\ r \in Request /\ r.op = was.op /\ r.who = was.who /\ r.answer = "ok"
      /\ r.over = was.over /\ r.home = was.home /\ r.status = was.status
  BY <1>1, <1>4 DEF Request
<1>7. Answers(r, s)
  BY <1>2, <1>6 DEF Answers
<1>8. /\ Tab' /\ \A ops : "none" \notin ops => Alike(net, net', ops)
      /\ \A t \in Slots : net'[t] = IF t = s THEN r ELSE net[t]
      /\ presses' \in 0..MaxPresses /\ presses <= presses'
  <2>1. r # Idle => r.status = was.status /\ (was.op = "candidate" => r.answer # "ok")
    BY <1>1, <1>6
  <2>2. db' \in Server
    BY <1>1 DEF Tab
  <2>. QED BY <1>1, <1>5, <1>7, <2>1, <2>2, ServedTab
<1>9. Forms(db, net)' /\ \A f : Spare(db, net, f) => Spare(db', net', f)
  BY <1>1, <1>6, <1>8, FormsKept DEF Unstored
<1>10. Shown'
  BY <1>1, <1>3, <1>8, <1>9, AlikeShown
<1>. QED BY <1>8, <1>9, <1>10 DEF IInv

-----------------------------------------------------------------------------
(* A page that has just been opened.                                       *)

LEMMA FreshTypes ==
    /\ FreshParticipants \in ParticipantsType /\ FreshCandidates \in CandidatesType
    /\ FreshParticipants.target = "nobody" /\ FreshCandidates.target = "nobody"
    /\ FreshParticipants.saving = FALSE /\ FreshParticipants.resending = FALSE
    /\ FreshParticipants.deleting = FALSE /\ FreshParticipants.detail = None
    /\ FreshCandidates.deleting = FALSE /\ FreshCandidates.creating = FALSE
    /\ FreshCandidates.form = 0
BY DEF FreshParticipants, FreshCandidates, FreshList, Joined, ParticipantsType, CandidatesType

\* A page that waits for no answer but its first is in order.
LEMMA FreshShows ==
    ASSUME NEW v, NEW d, NEW n, NEW k \in Nat, NEW q \in Pages \cup {"login"}, v = FreshView(q),
           \A s \in Slots : n[s].op # "none" /\ n[s].home => n[s].op \in {"list", "candidate"},
           q = "candidate" =>
               \E s \in Slots : n[s].op = "candidate" /\ n[s].answer = "none"
    PROVE  /\ q = "login" => LoginInv(v, n)
           /\ q = "participants" => ParticipantsInv(v, n)
           /\ q = "candidates" => CandidatesInv(v, d, n, k)
           /\ q = "verifications" => VerificationsInv(v, n)
           /\ q = "candidate" => CandidateInv(v, d, n)
<1>1. ASSUME NEW ops, "list" \notin ops, "candidate" \notin ops, "none" \notin ops
      PROVE  \A s \in Slots : ~Open(n, s, ops)
  BY <1>1 DEF Open
<1>2. ASSUME NEW ops, "list" \notin ops, "candidate" \notin ops, "none" \notin ops
      PROVE  Flag(n, FALSE, ops)
  BY <1>1, <1>2 DEF Flag
<1>3. CASE q = "login"
  BY <1>2, <1>3 DEF LoginInv, FreshView, FreshLogin, LoginType
<1>4. CASE q = "participants"
  <2>1. v = FreshParticipants
    BY <1>4 DEF FreshView
  <2>. QED BY <2>1, <1>2, <1>4, FreshTypes DEF ParticipantsInv, DrawerIsOf
<1>5. CASE q = "candidates"
  <2>1. v = FreshCandidates
    BY <1>5 DEF FreshView
  <2>2. Flag(n, v.deleting, {"delete"}) /\ Flag(n, v.creating, {"create", "photo"})
    BY <2>1, <1>2, FreshTypes
  <2>3. v.form <= k /\ FormIsSpare(v, d, n)
    BY <2>1, FreshTypes DEF FormIsSpare
  <2>. QED BY <2>1, <2>2, <2>3, <1>5, FreshTypes DEF CandidatesInv
<1>6. CASE q = "verifications"
  <2>1. v = FreshVerifications
    BY <1>6 DEF FreshView
  <2>2. v.acting = FALSE
    BY <2>1 DEF FreshVerifications
  <2>3. v \in VerificationsType /\ WindowIsOf(v, n) /\ v.reasonOf = None
    BY <2>1 DEF FreshVerifications, VerificationsType, WindowIsOf
  <2>4. Flag(n, v.acting, {"approve", "reject"})
    BY <2>2, <1>2
  <2>. QED BY <2>3, <2>4, <1>6 DEF VerificationsInv
<1>7. CASE q = "candidate"
  <2>1. v = FreshCandidate
    BY <1>7 DEF FreshView
  <2>2. /\ v \in CandidateType /\ ~v.got /\ ~v.verifying /\ ~v.uploading /\ ~v.savingPub
        /\ v.verifying = FALSE /\ v.uploading = FALSE /\ v.savingPub = FALSE
    BY <2>1 DEF FreshCandidate, CandidateType
  <2>3. PICK s \in Slots : n[s].op = "candidate" /\ n[s].answer = "none"
    BY <1>7
  <2>4. Mends(d, n, s)
    BY <2>3 DEF Mends
  <2>5. /\ Flag(n, v.verifying, {"verify"}) /\ Flag(n, v.uploading, {"photo"})
        /\ Flag(n, v.savingPub, {"publish", "unpublish", "settings"})
    BY <2>2, <1>2
  <2>. QED BY <2>2, <2>4, <2>5, <1>7 DEF CandidateInv
<1>. QED BY <1>3, <1>4, <1>5, <1>6, <1>7 DEF Pages

\* What a page fetches.
LEMMA FetchType ==
    /\ FetchList \in Request /\ FetchList.op = "list" /\ FetchList.home
    /\ FetchList.answer = "none"
    /\ FetchCandidate \in Request /\ FetchCandidate.op = "candidate" /\ FetchCandidate.home
    /\ FetchCandidate.answer = "none"
<1>1. /\ FetchList \in Request /\ FetchList.op = "list" /\ FetchList.home
      /\ FetchList.answer = "none"
  BY DEF FetchList, Ask, Request, Reads
<1>2. /\ FetchCandidate \in Request /\ FetchCandidate.op = "candidate" /\ FetchCandidate.home
      /\ FetchCandidate.answer = "none"
  BY DEF FetchCandidate, Ask, Request, Reads
<1>. QED BY <1>1, <1>2

\* The requests of a page that has just been mounted on a network n.
LEMMA MountedPut ==
    ASSUME NEW n \in [Slots -> Request \cup {Idle}], NEW q \in Pages \cup {"login"}, CanSend(n, 1)
    PROVE  /\ Mounted(n, q) \in [Slots -> Request \cup {Idle}]
           /\ \A s \in Slots : \/ Mounted(n, q)[s] = n[s]
                               \/ q = "candidate" /\ Mounted(n, q)[s] = FetchCandidate
                               \/ q \in {"candidates", "verifications"} /\ Mounted(n, q)[s] = FetchList
           /\ q = "candidate" => \E s \in Slots : Mounted(n, q)[s] = FetchCandidate
<1>1. CASE q \in {"login", "participants"}
  BY <1>1 DEF Mounted
<1>2. CASE q = "candidate"
  <2>1. PICK s \in Slots : Sent(n, FetchCandidate) = [n EXCEPT ![s] = FetchCandidate]
    BY SendFills
  <2>2. Mounted(n, q) = [n EXCEPT ![s] = FetchCandidate]
    BY <2>1, <1>2 DEF Mounted
  <2>. QED BY <2>2, <1>2, FetchType
<1>3. CASE q \in {"candidates", "verifications"}
  <2>1. PICK s \in Slots : Sent(n, FetchList) = [n EXCEPT ![s] = FetchList]
    BY SendFills
  <2>2. Mounted(n, q) = [n EXCEPT ![s] = FetchList]
    BY <2>1, <1>3 DEF Mounted
  <2>. QED BY <2>2, <1>3, FetchType
<1>. QED BY <1>1, <1>2, <1>3 DEF Pages

LEMMA InitHolds == Init => IInv
<1>. SUFFICES ASSUME Init PROVE IInv
  OBVIOUS
<1>. DEFINE quiet == Quiet(Slots)
<1>1. quiet \in [Slots -> Request \cup {Idle}] /\ \A s \in Slots : quiet[s] = Idle
  BY DEF Quiet
<1>2. CanSend(quiet, 1)
  <2>1. FreeSlots(quiet) = Slots
    BY <1>1 DEF FreeSlots, Quiet, Idle
  <2>2. IsFiniteSet(Slots) /\ Slots # {}
    BY AdminTabAssumption
  <2>3. Cardinality(Slots) \in Nat /\ Cardinality(Slots) # 0
    BY <2>2, FS_CardinalityType, FS_EmptySet
  <2>. QED BY <2>1, <2>3 DEF CanSend
<1>. HIDE DEF quiet
<1>3. page \in Pages \cup {"login"} /\ view = FreshView(page) /\ net = Mounted(quiet, page)
  BY DEF Init, quiet
<1>4. /\ net \in [Slots -> Request \cup {Idle}]
      /\ \A s \in Slots : \/ net[s] = Idle
                          \/ page = "candidate" /\ net[s] = FetchCandidate
                          \/ page \in {"candidates", "verifications"} /\ net[s] = FetchList
      /\ page = "candidate" => \E s \in Slots : net[s] = FetchCandidate
  BY <1>1, <1>2, <1>3, MountedPut
<1>5. \A s \in Slots : net[s].op \in {"none", "list", "candidate"} /\ net[s].answer = "none"
  BY <1>4, FetchType DEF Idle
<1>6. db \in Server /\ db.forms = {} /\ db.twins = FALSE /\ db.lost = FALSE
  BY DEF Init, FreshServer, Server, Verdicts
<1>7. Tab
  <2>1. presses \in 0..MaxPresses
    BY AdminTabAssumption DEF Init
  <2>2. ASSUME NEW s \in Slots PROVE Owned(net[s])
    <3>1. CASE net[s] = Idle
      BY <3>1 DEF Owned, Idle
    <3>2. CASE page = "candidate" /\ net[s] = FetchCandidate
      BY <3>2, FetchType DEF Owned, OpsOf
    <3>3. CASE page \in {"candidates", "verifications"} /\ net[s] = FetchList
      BY <3>3, FetchType DEF Owned, OpsOf
    <3>. QED BY <1>4, <3>1, <3>2, <3>3
  <2>. QED BY <1>3, <1>4, <1>6, <2>1, <2>2 DEF Tab
<1>8. Forms(db, net)
  BY <1>5, <1>6 DEF Forms, Unstored
<1>9. Shown
  <2>1. presses \in Nat
    BY DEF Init
  <2>2. \A s \in Slots : net[s].op # "none" /\ net[s].home => net[s].op \in {"list", "candidate"}
    BY <1>5
  <2>3. page = "candidate" => \E s \in Slots : net[s].op = "candidate" /\ net[s].answer = "none"
    BY <1>4, FetchType
  <2>. QED BY <2>1, <2>2, <2>3, <1>3, FreshShows DEF Shown
<1>. QED BY <1>7, <1>8, <1>9 DEF IInv

\* When a page is left, what writes is still carried out, and nobody hears of it.
LEMMA OpenedKeeps ==
    ASSUME IInv, NEW q \in Pages \cup {"login"}, Opened(q),
           presses' \in 0..MaxPresses, presses <= presses'
    PROVE  IInv'
<1>. DEFINE orphans == [s \in Slots |-> IF net[s].op \in Writes /\ net[s].answer = "none"
                                    THEN [net[s] EXCEPT !.home = FALSE] ELSE Idle]
<1>1. Tab /\ Forms(db, net)
  BY DEF IInv
<1>2. /\ CanSend(orphans, 1) /\ page' = q /\ view' = FreshView(q)
      /\ net' = Mounted(orphans, q) /\ db' = db
  BY DEF Opened
<1>3. ASSUME NEW s \in Slots
      PROVE  /\ orphans[s] \in Request \cup {Idle}
             /\ orphans[s] # Idle =>
                  /\ net[s].op \in Writes /\ net[s].answer = "none"
                  /\ orphans[s].op = net[s].op /\ orphans[s].answer = net[s].answer
                  /\ orphans[s].over = net[s].over /\ orphans[s].status = net[s].status
                  /\ orphans[s].home = FALSE
  <2>1. CASE net[s].op \in Writes /\ net[s].answer = "none"
    <3>1. net[s] \in Request
      BY <1>1, <2>1 DEF Tab, Idle, Writes, ParticipantWrites, CandidateWrites, Decisions
    <3>2. orphans[s] = [net[s] EXCEPT !.home = FALSE]
      BY <2>1
    <3>. QED BY <2>1, <3>1, <3>2 DEF Request
  <2>2. CASE ~(net[s].op \in Writes /\ net[s].answer = "none")
    BY <2>2
  <2>. QED BY <2>1, <2>2
<1>4. orphans \in [Slots -> Request \cup {Idle}]
  BY <1>3
<1>. HIDE DEF orphans
<1>5. /\ net' \in [Slots -> Request \cup {Idle}]
      /\ \A s \in Slots : \/ net'[s] = orphans[s]
                          \/ q = "candidate" /\ net'[s] = FetchCandidate
                          \/ q \in {"candidates", "verifications"} /\ net'[s] = FetchList
      /\ q = "candidate" => \E s \in Slots : net'[s] = FetchCandidate
  BY <1>2, <1>4, MountedPut
<1>6. Tab'
  <2>1. ASSUME NEW s \in Slots PROVE Owned(net[s])'
    <3>1. CASE net'[s] = Idle
      BY <3>1 DEF Owned, Idle
    <3>2. CASE q = "candidate" /\ net'[s] = FetchCandidate
      BY <3>2, <1>2, FetchType DEF Owned, OpsOf
    <3>3. CASE q \in {"candidates", "verifications"} /\ net'[s] = FetchList
      BY <3>3, <1>2, FetchType DEF Owned, OpsOf
    <3>4. CASE net'[s] = orphans[s] /\ orphans[s] # Idle
      <4>1. Owned(net[s])
        BY <1>1 DEF Tab
      <4>2. 1..presses \subseteq 1..presses'
        BY <1>1 DEF Tab
      <4>3. net[s].op # "candidate"
        BY <1>3, <3>4 DEF Writes, ParticipantWrites, CandidateWrites, Decisions
      <4>. QED BY <4>1, <4>2, <4>3, <3>4, <1>3 DEF Owned
    <3>. QED BY <1>5, <3>1, <3>2, <3>3, <3>4
  <2>. QED BY <1>1, <1>2, <1>5, <2>1 DEF Tab
<1>7. \A s \in Slots : /\ net'[s].op = "create" => net'[s] = orphans[s] /\ orphans[s] # Idle
                       /\ net'[s].answer = "none"
                       /\ net'[s].op # "none" /\ net'[s].home => net'[s].op \in {"list", "candidate"}
  <2>. SUFFICES ASSUME NEW s \in Slots
                PROVE  /\ net'[s].op = "create" => net'[s] = orphans[s] /\ orphans[s] # Idle
                       /\ net'[s].answer = "none"
                       /\ net'[s].op # "none" /\ net'[s].home => net'[s].op \in {"list", "candidate"}
    OBVIOUS
  <2>1. CASE net'[s] = FetchCandidate \/ net'[s] = FetchList
    BY <2>1, FetchType
  <2>2. CASE net'[s] = orphans[s] /\ orphans[s] = Idle
    BY <2>2 DEF Idle
  <2>3. CASE net'[s] = orphans[s] /\ orphans[s] # Idle
    BY <2>3, <1>3
  <2>. QED BY <1>5, <2>1, <2>2, <2>3
<1>8. Forms(db, net)'
  BY <1>1, <1>2, <1>3, <1>7, FormsKept DEF Unstored
<1>9. Shown'
  <2>1. presses' \in Nat
    OBVIOUS
  <2>2. q = "candidate" => \E s \in Slots : net'[s].op = "candidate" /\ net'[s].answer = "none"
    BY <1>5, FetchType
  <2>. QED BY <2>1, <2>2, <1>2, <1>7, FreshShows DEF Shown
<1>. QED BY <1>6, <1>8, <1>9 DEF IInv

-----------------------------------------------------------------------------
(* What the pages do to the network: they send, and they take an answer.   *)

\* What the page that is shown may ask for.
Asks(r) ==
    /\ r \in Request /\ r.home /\ r.answer = "none" /\ r.op \in OpsOf(page)
    /\ r.op = "verify" => r.status \in Verdicts
    /\ r.op = "create" => r.over \in 1..presses

LEMMA PagePut ==
    ASSUME Tab, Forms(db, net), NEW s \in Slots, NEW r, r = Idle \/ Asks(r),
           net' = [net EXCEPT ![s] = r], db' = db, page' = page,
           presses' \in 0..MaxPresses, presses <= presses'
    PROVE  /\ Tab' /\ \A t \in Slots : net'[t] = IF t = s THEN r ELSE net[t]
           /\ r.op # "create" => Forms(db, net)' /\ \A f : Spare(db, net, f) => Spare(db', net', f)
<1>1. Owned(r)'
  <2>1. CASE r = Idle
    BY <2>1 DEF Owned, Idle
  <2>2. CASE Asks(r)
    <3>1. r.op # "candidate" \/ r.answer # "ok"
      BY <2>2 DEF Asks
    <3>2. 1..presses \subseteq 1..presses'
      BY DEF Tab
    <3>. QED BY <2>2, <3>1, <3>2 DEF Owned, Asks
  <2>. QED BY <2>1, <2>2
<1>2. r \in Request \cup {Idle} /\ db' \in Server
  BY DEF Asks, Tab
<1>3. Tab' /\ \A t \in Slots : net'[t] = IF t = s THEN r ELSE net[t]
  BY <1>1, <1>2, PutTab
<1>4. ASSUME r.op # "create"
      PROVE  Forms(db, net)' /\ \A f : Spare(db, net, f) => Spare(db', net', f)
  BY <1>3, <1>4, FormsKept DEF Unstored
<1>. QED BY <1>3, <1>4

\* A request goes into a slot that was idle.
LEMMA SendPut ==
    ASSUME Tab, Forms(db, net), NEW r, Asks(r), CanSend(net, 1), net' = Sent(net, r),
           db' = db, page' = page, presses' \in 0..MaxPresses, presses <= presses'
    PROVE  \E s \in Slots :
              /\ net[s] = Idle /\ Tab' /\ \A t \in Slots : net'[t] = IF t = s THEN r ELSE net[t]
              /\ r.op # "create" =>
                    Forms(db, net)' /\ \A f : Spare(db, net, f) => Spare(db', net', f)
<1>1. net \in [Slots -> Request \cup {Idle}]
  BY DEF Tab
<1>2. PICK s \in Slots : net[s] = Idle /\ Sent(net, r) = [net EXCEPT ![s] = r]
  BY <1>1, SendFills
<1>. QED BY <1>2, PagePut

LEMMA Pressed == ASSUME Tab, Press PROVE presses' \in 0..MaxPresses /\ presses <= presses'
BY AdminTabAssumption DEF Tab, Press

\* A press that sends.
LEMMA SendsPut ==
    ASSUME IInv, NEW r, NEW v, Asks(r), Sends(r, v)
    PROVE  /\ view' = v /\ db' = db /\ page' = page
           /\ presses' \in 0..MaxPresses /\ presses <= presses'
           /\ \E s \in Slots :
                /\ net[s] = Idle /\ Tab' /\ \A t \in Slots : net'[t] = IF t = s THEN r ELSE net[t]
                /\ r.op # "create" =>
                      Forms(db, net)' /\ \A f : Spare(db, net, f) => Spare(db', net', f)
<1>1. Tab /\ Forms(db, net)
  BY DEF IInv
<1>2. view' = v /\ db' = db /\ page' = page /\ CanSend(net, 1) /\ net' = Sent(net, r)
  BY DEF Sends
<1>3. presses' \in 0..MaxPresses /\ presses <= presses'
  BY <1>1, Pressed DEF Sends
<1>. QED BY <1>1, <1>2, <1>3, SendPut

\* An answer is taken, with or without a request in turn.
LEMMA AnswerPut ==
    ASSUME IInv, NEW s \in Slots, NEW r, NEW v, r # Idle => Asks(r) /\ r.op # "create",
           (Receives(s, v) /\ r = Idle) \/ ReceivesAndAsks(s, v, r)
    PROVE  /\ view' = v /\ db' = db /\ page' = page
           /\ presses' \in 0..MaxPresses /\ presses <= presses'
           /\ Tab' /\ \A t \in Slots : net'[t] = IF t = s THEN r ELSE net[t]
           /\ Forms(db, net)' /\ \A f : Spare(db, net, f) => Spare(db', net', f)
<1>1. /\ view' = v /\ db' = db /\ page' = page /\ presses' = presses
      /\ net' = [net EXCEPT ![s] = r]
  BY DEF Receives, ReceivesAndAsks, Done
<1>2. Tab /\ Forms(db, net)
  BY DEF IInv
<1>3. presses' \in 0..MaxPresses /\ presses <= presses'
  BY <1>1, <1>2 DEF Tab
<1>4. r.op # "create"
  BY DEF Idle
<1>. QED BY <1>1, <1>2, <1>3, <1>4, PagePut

\* A press that only rearranges the page.
LEMMA RearrangedKeeps ==
    ASSUME IInv, NEW v, Rearranged(v)
    PROVE  /\ view' = v /\ db' = db /\ page' = page /\ net' = net /\ Tab' /\ Forms(db, net)'
           /\ presses' \in 0..MaxPresses /\ presses <= presses' /\ presses' = presses + 1
           /\ \A f : Spare(db, net, f) => Spare(db', net', f)
<1>1. view' = v /\ db' = db /\ page' = page /\ net' = net /\ presses' = presses + 1
  BY DEF Rearranged, Press
<1>2. Tab /\ Forms(db, net)
  BY DEF IInv
<1>3. presses' \in 0..MaxPresses /\ presses <= presses'
  BY <1>2, Pressed DEF Rearranged
<1>4. Tab'
  <2>1. 1..presses \subseteq 1..presses'
    BY <1>2, <1>3 DEF Tab
  <2>2. \A s \in Slots : Owned(net[s])'
    BY <1>1, <1>2, <2>1 DEF Tab, Owned
  <2>. QED BY <1>1, <1>2, <1>3, <2>2 DEF Tab
<1>5. Forms(db, net)' /\ \A f : Spare(db, net, f) => Spare(db', net', f)
  BY <1>1, <1>2, <1>3, FormsKept DEF Unstored
<1>. QED BY <1>1, <1>3, <1>4, <1>5

\* What a page has been answered is its own.
LEMMA CameOpen ==
    ASSUME Tab, NEW s \in Slots, NEW ops, "none" \notin ops, Came(s, ops)
    PROVE  net[s] \in Request /\ Open(net, s, ops) /\ (~Ok(s) => net[s].answer = "failed")
BY DEF Tab, Came, Idle, Open, Ok, Request

\* A slot that holds none of some requests before and after a step.
LEMMA AlikePut ==
    ASSUME NEW n, NEW m, NEW s \in Slots, NEW r, NEW ops, n[s].op \notin ops, r.op \notin ops,
           \A t \in Slots : m[t] = IF t = s THEN r ELSE n[t]
    PROVE  Alike(n, m, ops)
<1>. SUFFICES ASSUME NEW t \in Slots
              PROVE  /\ Open(m, t, ops) <=> Open(n, t, ops)
                     /\ Open(n, t, ops) => m[t].op = n[t].op /\ m[t].who = n[t].who
                                              /\ m[t].over = n[t].over
  BY DEF Alike
<1>1. CASE t = s
  BY <1>1 DEF Open
<1>2. CASE t # s
  BY <1>2 DEF Open
<1>. QED BY <1>1, <1>2

\* Two networks that are one.
LEMMA AlikeSame == ASSUME NEW n, NEW ops PROVE Alike(n, n, ops)
BY DEF Alike

-----------------------------------------------------------------------------
(* The entrance.                                                           *)

LEMMA LoginSteps ==
    ASSUME IInv, HandleSubmit \/ (\E s \in Slots : LoginRefused(s))
    PROVE  IInv'
<1>1. /\ Tab /\ page = "login" /\ LoginInv(view, net) /\ "login" \in OpsOf(page)
  BY DEF IInv, Shown, HandleSubmit, LoginForm, LoginRefused, OnLogin, OpsOf
<1>2. CASE HandleSubmit
  <2>. DEFINE r == Ask("login", {}, None)
              v == [loading |-> TRUE, errorMsg |-> FALSE]
  <2>1. r \in Request /\ r.op = "login" /\ r.home /\ r.answer = "none"
    BY DEF Ask, Request
  <2>2. v \in LoginType /\ v.loading /\ v.loading = TRUE
    BY DEF LoginType
  <2>3. Sends(r, v) /\ ~view.loading
    BY <1>2 DEF HandleSubmit, LoginForm
  <2>. HIDE DEF r, v
  <2>4. Asks(r)
    BY <1>1, <2>1 DEF Asks
  <2>5. PICK s \in Slots : /\ net[s] = Idle /\ Tab' /\ Forms(db, net)'
                           /\ \A t \in Slots : net'[t] = IF t = s THEN r ELSE net[t]
    BY <2>1, <2>3, <2>4, SendsPut
  <2>6. view' = v /\ page' = page
    BY <2>3 DEF Sends
  <2>7. Flag(net', v.loading, {"login"})
    <3>1. Open(net', s, {"login"})
      BY <2>1, <2>5 DEF Open
    <3>2. \A t \in Slots : ~Open(net, t, {"login"})
      BY <1>1, <2>3 DEF LoginInv, Flag
    <3>3. Flag(net', TRUE, {"login"})
      BY <2>5, <3>1, <3>2, FlagRaised
    <3>. QED BY <3>3, <2>2
  <2>. QED BY <1>1, <2>2, <2>5, <2>6, <2>7 DEF IInv, Shown, LoginInv
<1>3. ASSUME NEW s \in Slots, LoginRefused(s) PROVE IInv'
  <2>. DEFINE v == [loading |-> FALSE, errorMsg |-> TRUE]
  <2>1. Came(s, {"login"}) /\ Receives(s, v)
    BY <1>3 DEF LoginRefused
  <2>2. v \in LoginType /\ ~v.loading /\ v.loading = FALSE
    BY DEF LoginType
  <2>. HIDE DEF v
  <2>3. Open(net, s, {"login"})
    BY <1>1, <2>1, CameOpen
  <2>4. /\ view' = v /\ page' = page /\ Tab' /\ Forms(db, net)'
        /\ \A t \in Slots : net'[t] = IF t = s THEN Idle ELSE net[t]
    BY <2>1, AnswerPut
  <2>5. Flag(net', v.loading, {"login"})
    <3>1. ~Open(net', s, {"login"})
      BY <2>4 DEF Open, Idle
    <3>2. Flag(net', FALSE, {"login"})
      BY <1>1, <2>3, <2>4, <3>1, FlagLowered DEF LoginInv
    <3>. QED BY <3>2, <2>2
  <2>. QED BY <1>1, <2>2, <2>4, <2>5 DEF IInv, Shown, LoginInv
<1>. QED BY <1>2, <1>3

\* The pages are opened and left.
LEMMA LinkSteps ==
    ASSUME IInv, \/ HandleLogout \/ Expire \/ \E q \in Pages : Leave(q)
                 \/ \E s \in Slots : Enter(s)
    PROVE  IInv'
<1>1. Tab /\ presses \in 0..MaxPresses
  BY DEF IInv, Tab
<1>2. CASE HandleLogout
  BY <1>1, <1>2, Pressed, OpenedKeeps DEF HandleLogout
<1>3. CASE Expire
  <2>1. presses' \in 0..MaxPresses /\ presses <= presses'
    BY <1>1, <1>3 DEF Expire
  <2>. QED BY <2>1, <1>3, OpenedKeeps DEF Expire
<1>4. CASE \E q \in Pages : Leave(q)
  BY <1>1, <1>4, Pressed, OpenedKeeps DEF Leave
<1>5. CASE \E s \in Slots : Enter(s)
  <2>1. presses' \in 0..MaxPresses /\ presses <= presses'
    BY <1>1, <1>5 DEF Enter
  <2>. QED BY <2>1, <1>5, OpenedKeeps DEF Enter
<1>. QED BY <1>2, <1>3, <1>4, <1>5

-----------------------------------------------------------------------------
(* The participants.                                                       *)

DrawerOps == {"history", "resend", "save", "delete"}

\* Two states of the page that differ in nothing requests are about.
SameDrawer(v, w) ==
    /\ w \in ParticipantsType /\ (w.target = "one" => w.single \in People)
    /\ w.saving = v.saving /\ w.resending = v.resending /\ w.deleting = v.deleting
    /\ w.detail = v.detail /\ w.shown = v.shown /\ w.mailsOf = v.mailsOf
    /\ w.loadingLogs = v.loadingLogs /\ w.overlap = v.overlap

LEMMA ParticipantsFrame ==
    ASSUME NEW v, NEW w, NEW n, NEW m, ParticipantsInv(v, n), SameDrawer(v, w),
           Alike(n, m, DrawerOps)
    PROVE  ParticipantsInv(w, m)
<1>1. /\ Flag(m, v.saving, {"save"}) /\ Flag(m, v.resending, {"resend"})
      /\ Flag(m, v.deleting, {"delete"})
  <2>1. v.saving \in BOOLEAN /\ v.resending \in BOOLEAN /\ v.deleting \in BOOLEAN
    BY DEF ParticipantsInv, ParticipantsType
  <2>2. {"save"} \subseteq DrawerOps /\ {"resend"} \subseteq DrawerOps /\ {"delete"} \subseteq DrawerOps
    BY DEF DrawerOps
  <2>. QED BY <2>1, <2>2, FlagKept DEF ParticipantsInv
<1>2. DrawerIsOf(v, m)
  <2>1. \A s \in Slots : Open(m, s, {"history", "resend"})
                            => Open(n, s, {"history", "resend"}) /\ m[s].who = n[s].who
    BY DEF Alike, Open, DrawerOps
  <2>2. \A s \in Slots : Open(m, s, {"save"}) => Open(n, s, {"save"}) /\ m[s].over = n[s].over
    BY DEF Alike, Open, DrawerOps
  <2>. QED BY <2>1, <2>2 DEF ParticipantsInv, DrawerIsOf
<1>3. DrawerIsOf(w, m)
  BY <1>2 DEF DrawerIsOf, SameDrawer
<1>4. /\ Flag(m, w.saving, {"save"}) /\ Flag(m, w.resending, {"resend"})
      /\ Flag(m, w.deleting, {"delete"})
  BY <1>1 DEF SameDrawer
<1>. QED BY <1>3, <1>4 DEF ParticipantsInv, SameDrawer

LEMMA ParticipantsRearranged ==
    ASSUME IInv, OnParticipants, NEW w, Rearranged(w), SameDrawer(view, w)
    PROVE  IInv'
<1>1. ParticipantsInv(view, net) /\ page = "participants"
  BY DEF IInv, Shown, OnParticipants
<1>2. view' = w /\ page' = page /\ net' = net /\ Tab' /\ Forms(db, net)'
  BY RearrangedKeeps
<1>3. ParticipantsInv(w, net)
  BY <1>1, AlikeSame, ParticipantsFrame
<1>. QED BY <1>1, <1>2, <1>3 DEF IInv, Shown

\* Whatever list comes, and whenever it is asked for, the drawer is not touched.
LEMMA ParticipantsListed ==
    ASSUME IInv, OnParticipants, NEW s \in Slots, net[s].op \in {"none", "list"},
           NEW r, r.op \in {"none", "list"}, SameDrawer(view, view'), page' = page,
           \A t \in Slots : net'[t] = IF t = s THEN r ELSE net[t], Tab', Forms(db, net)'
    PROVE  IInv'
<1>1. ParticipantsInv(view, net) /\ page = "participants"
  BY DEF IInv, Shown, OnParticipants
<1>2. Alike(net, net', DrawerOps)
  <2>1. net[s].op \notin DrawerOps /\ r.op \notin DrawerOps
    BY DEF DrawerOps
  <2>. QED BY <2>1, AlikePut
<1>3. ParticipantsInv(view', net')
  BY <1>1, <1>2, ParticipantsFrame
<1>. QED BY <1>1, <1>3 DEF IInv, Shown

LEMMA ListAsked == ASSUME page \in {"participants", "candidates", "verifications"} PROVE Asks(FetchList)
BY FetchType DEF Asks, OpsOf

LEMMA ParticipantsPresses ==
    ASSUME IInv, \/ SetQuery \/ TurnPage \/ HandleSelectAll \/ AskBulkDelete \/ CancelDelete
                 \/ OpenMessages \/ CloseMessages \/ CancelEdit
                 \/ \E p \in People : HandleSelectRow(p) \/ AskDelete(p) \/ OpenEdit(p)
    PROVE  IInv'
<1>1. OnParticipants
  BY DEF SetQuery, TurnPage, HandleSelectAll, AskBulkDelete, CancelDelete, OpenMessages,
         CloseMessages, CancelEdit, HandleSelectRow, AskDelete, OpenEdit, Uncovered,
         BulkBar, DeleteDialog, EditForm, Row, Drawer
<1>2. view \in ParticipantsType /\ (view.target = "one" => view.single \in People)
  BY <1>1 DEF IInv, Shown, OnParticipants, ParticipantsInv
<1>3. CASE SetQuery
  <2>1. Rearranged([view EXCEPT !.ticked = {}, !.timer = TRUE])
    BY <1>3 DEF SetQuery
  <2>2. SameDrawer(view, [view EXCEPT !.ticked = {}, !.timer = TRUE])
    BY <1>2 DEF SameDrawer, ParticipantsType
  <2>. QED BY <2>1, <2>2, <1>1, ParticipantsRearranged
<1>4. CASE TurnPage
  <2>1. Rearranged([view EXCEPT !.timer = TRUE])
    BY <1>4 DEF TurnPage
  <2>2. SameDrawer(view, [view EXCEPT !.timer = TRUE])
    BY <1>2 DEF SameDrawer, ParticipantsType
  <2>. QED BY <2>1, <2>2, <1>1, ParticipantsRearranged
<1>5. CASE HandleSelectAll
  <2>1. Rearranged([view EXCEPT !.ticked = ToggledAll])
    BY <1>5 DEF HandleSelectAll
  <2>2. SameDrawer(view, [view EXCEPT !.ticked = ToggledAll])
    BY <1>2 DEF SameDrawer, ParticipantsType, ToggledAll
  <2>. QED BY <2>1, <2>2, <1>1, ParticipantsRearranged
<1>6. CASE AskBulkDelete
  <2>1. Rearranged(AskDeleteTicked)
    BY <1>6 DEF AskBulkDelete
  <2>2. SameDrawer(view, AskDeleteTicked)
    BY <1>2 DEF SameDrawer, ParticipantsType, AskDeleteTicked
  <2>. QED BY <2>1, <2>2, <1>1, ParticipantsRearranged
<1>7. CASE CancelDelete
  <2>1. Rearranged(DroppedTarget(view))
    BY <1>7 DEF CancelDelete
  <2>2. SameDrawer(view, DroppedTarget(view))
    BY <1>2 DEF SameDrawer, ParticipantsType, DroppedTarget
  <2>. QED BY <2>1, <2>2, <1>1, ParticipantsRearranged
<1>8. CASE OpenMessages
  <2>1. Rearranged([view EXCEPT !.messages = TRUE])
    BY <1>8 DEF OpenMessages
  <2>2. SameDrawer(view, [view EXCEPT !.messages = TRUE])
    BY <1>2 DEF SameDrawer, ParticipantsType
  <2>. QED BY <2>1, <2>2, <1>1, ParticipantsRearranged
<1>9. CASE CloseMessages
  <2>1. Rearranged([view EXCEPT !.messages = FALSE])
    BY <1>9 DEF CloseMessages
  <2>2. SameDrawer(view, [view EXCEPT !.messages = FALSE])
    BY <1>2 DEF SameDrawer, ParticipantsType
  <2>. QED BY <2>1, <2>2, <1>1, ParticipantsRearranged
<1>10. CASE CancelEdit
  <2>1. Rearranged([view EXCEPT !.edit = None])
    BY <1>10 DEF CancelEdit
  <2>2. SameDrawer(view, [view EXCEPT !.edit = None])
    BY <1>2 DEF SameDrawer, ParticipantsType
  <2>. QED BY <2>1, <2>2, <1>1, ParticipantsRearranged
<1>11. ASSUME NEW p \in People, HandleSelectRow(p) PROVE IInv'
  <2>1. Rearranged([view EXCEPT !.ticked = Toggled(p)])
    BY <1>11 DEF HandleSelectRow
  <2>2. SameDrawer(view, [view EXCEPT !.ticked = Toggled(p)])
    BY <1>2 DEF SameDrawer, ParticipantsType, Toggled
  <2>. QED BY <2>1, <2>2, <1>1, ParticipantsRearranged
<1>12. ASSUME NEW p \in People, AskDelete(p) PROVE IInv'
  <2>1. Rearranged(AskDeleteOne(p))
    BY <1>12 DEF AskDelete
  <2>2. SameDrawer(view, AskDeleteOne(p))
    BY <1>2 DEF SameDrawer, ParticipantsType, AskDeleteOne
  <2>. QED BY <2>1, <2>2, <1>1, ParticipantsRearranged
<1>13. ASSUME NEW p \in People, OpenEdit(p) PROVE IInv'
  <2>1. Rearranged([view EXCEPT !.edit = p])
    BY <1>13 DEF OpenEdit
  <2>2. SameDrawer(view, [view EXCEPT !.edit = p])
    BY <1>2 DEF SameDrawer, ParticipantsType
  <2>. QED BY <2>1, <2>2, <1>1, ParticipantsRearranged
<1>. QED BY <1>3, <1>4, <1>5, <1>6, <1>7, <1>8, <1>9, <1>10, <1>11, <1>12, <1>13

LEMMA ParticipantsLists ==
    ASSUME IInv, TimerFires \/ FetchData \/ \E s \in Slots : ListAnswered(s)
    PROVE  IInv'
<1>1. OnParticipants /\ Tab /\ Forms(db, net)
  BY DEF IInv, TimerFires, FetchData, ListAnswered, Uncovered
<1>2. view \in ParticipantsType /\ (view.target = "one" => view.single \in People)
  BY <1>1 DEF IInv, Shown, OnParticipants, ParticipantsInv
<1>3. Asks(FetchList) /\ FetchList.op = "list"
  BY <1>1, ListAsked, FetchType DEF OnParticipants
<1>4. CASE TimerFires
  <2>1. /\ CanSend(net, 1) /\ net' = Sent(net, FetchList) /\ db' = db /\ page' = page
        /\ view' = [view EXCEPT !.timer = FALSE, !.loading = TRUE] /\ presses' = presses
    BY <1>4 DEF TimerFires
  <2>2. SameDrawer(view, view')
    BY <2>1, <1>2 DEF SameDrawer, ParticipantsType
  <2>3. presses' \in 0..MaxPresses /\ presses <= presses'
    BY <2>1, <1>1 DEF Tab
  <2>4. PICK s \in Slots :
           /\ net[s] = Idle /\ Tab' /\ \A t \in Slots : net'[t] = IF t = s THEN FetchList ELSE net[t]
           /\ Forms(db, net)'
    BY <2>1, <2>3, <1>1, <1>3, SendPut
  <2>5. net[s].op = "none"
    BY <2>4 DEF Idle
  <2>. QED BY <2>1, <2>2, <2>4, <2>5, <1>1, <1>3, ParticipantsListed
<1>5. CASE FetchData
  <2>1. Sends(FetchList, [view EXCEPT !.loading = TRUE])
    BY <1>5 DEF FetchData
  <2>2. PICK s \in Slots :
           /\ net[s] = Idle /\ Tab' /\ \A t \in Slots : net'[t] = IF t = s THEN FetchList ELSE net[t]
           /\ Forms(db, net)'
    BY <2>1, <1>3, SendsPut
  <2>3. view' = [view EXCEPT !.loading = TRUE] /\ page' = page
    BY <2>1 DEF Sends
  <2>4. SameDrawer(view, view')
    BY <2>3, <1>2 DEF SameDrawer, ParticipantsType
  <2>5. net[s].op = "none" /\ page' = page
    BY <2>2, <2>3 DEF Idle
  <2>. QED BY <2>2, <2>4, <2>5, <1>1, <1>3, ParticipantsListed
<1>6. ASSUME NEW s \in Slots, ListAnswered(s) PROVE IInv'
  <2>. DEFINE w == IF Ok(s) THEN Filled(net[s]) ELSE [view EXCEPT !.loading = FALSE]
  <2>1. Came(s, {"list"}) /\ Receives(s, w)
    BY <1>6 DEF ListAnswered, ListCame
  <2>2. net[s] \in Request /\ net[s].op = "list"
    BY <2>1, <1>1, CameOpen DEF Open
  <2>3. net[s].rows \in SUBSET People
    BY <2>2 DEF Request
  <2>4. SameDrawer(view, w)
    BY <2>3, <1>2 DEF SameDrawer, ParticipantsType, Filled
  <2>. HIDE DEF w
  <2>5. /\ view' = w /\ page' = page /\ Tab' /\ Forms(db, net)'
        /\ \A t \in Slots : net'[t] = IF t = s THEN Idle ELSE net[t]
    BY <2>1, AnswerPut
  <2>6. Idle.op = "none"
    BY DEF Idle
  <2>. QED BY <2>2, <2>4, <2>5, <2>6, <1>1, ParticipantsListed
<1>. QED BY <1>4, <1>5, <1>6

\* The drawer is shut.
LEMMA DetailClosed == ASSUME IInv, CloseDetail PROVE IInv'
<1>. DEFINE w == [view EXCEPT !.detail = None, !.shown = None]
<1>1. page = "participants" /\ ParticipantsInv(view, net) /\ Rearranged(w)
  BY DEF IInv, Shown, CloseDetail, Drawer, OnParticipants
<1>2. /\ w \in ParticipantsType /\ (w.target = "one" => w.single \in People) /\ w.detail = None
      /\ w.saving = view.saving /\ w.resending = view.resending /\ w.deleting = view.deleting
  BY <1>1 DEF ParticipantsInv, ParticipantsType
<1>. HIDE DEF w
<1>3. view' = w /\ page' = page /\ net' = net /\ Tab' /\ Forms(db, net)'
  BY <1>1, RearrangedKeeps
<1>4. ParticipantsInv(w, net)
  BY <1>1, <1>2 DEF ParticipantsInv, DrawerIsOf
<1>. QED BY <1>1, <1>3, <1>4 DEF IInv, Shown

\* One request of the page is sent, or is answered: what it is about is right,
\* and the flags are right of it.
LEMMA ParticipantsPut ==
    ASSUME IInv, page = "participants", NEW s \in Slots, NEW r, page' = page, Tab', Forms(db, net)',
           \A t \in Slots : net'[t] = IF t = s THEN r ELSE net[t],
           view' \in ParticipantsType, view'.target = "one" => view'.single \in People,
           Flag(net', view'.saving, {"save"}), Flag(net', view'.resending, {"resend"}),
           Flag(net', view'.deleting, {"delete"}), DrawerIsOf(view', net')
    PROVE  IInv'
BY DEF IInv, Shown, ParticipantsInv

\* The flags that a slot has no part in.
LEMMA FlagAside ==
    ASSUME NEW n, NEW m, NEW s \in Slots, NEW r, NEW ops, n[s].op \notin ops, r.op \notin ops,
           \A t \in Slots : m[t] = IF t = s THEN r ELSE n[t],
           NEW held \in BOOLEAN, Flag(n, held, ops)
    PROVE  Flag(m, held, ops)
<1>1. Alike(n, m, ops)
  BY AlikePut
<1>. QED BY <1>1, FlagKept

\* The drawer is still about its participant when the request that was sent, or
\* the answer that was taken, is about that participant.
LEMMA DrawerPut ==
    ASSUME NEW v, NEW w, NEW n, NEW m, NEW s \in Slots, NEW r, DrawerIsOf(v, n),
           \A t \in Slots : m[t] = IF t = s THEN r ELSE n[t],
           w.detail = v.detail, w.overlap = v.overlap,
           v.detail # None /\ ~v.overlap =>
              /\ w.shown = w.detail /\ (w.loadingLogs \/ w.mailsOf = w.detail)
              /\ r.op \in {"history", "resend"} => r.who = {v.detail}
              /\ r.op = "save" => r.over = v.detail
    PROVE  DrawerIsOf(w, m)
<1>1. ASSUME v.detail # None, ~v.overlap, NEW t \in Slots
      PROVE  /\ Open(m, t, {"history", "resend"}) => m[t].who = {v.detail}
             /\ Open(m, t, {"save"}) => m[t].over = v.detail
  <2>1. CASE t = s
    BY <2>1, <1>1 DEF Open
  <2>2. CASE t # s
    BY <2>2, <1>1 DEF Open, DrawerIsOf
  <2>. QED BY <2>1, <2>2
<1>. QED BY <1>1 DEF DrawerIsOf

\* The flags that the slot has no part in.
LEMMA DrawerFlags ==
    ASSUME NEW v, NEW n, NEW m, NEW s \in Slots, NEW r, ParticipantsInv(v, n),
           \A t \in Slots : m[t] = IF t = s THEN r ELSE n[t]
    PROVE  /\ n[s].op # "save" /\ r.op # "save" => Flag(m, v.saving, {"save"})
           /\ n[s].op # "resend" /\ r.op # "resend" => Flag(m, v.resending, {"resend"})
           /\ n[s].op # "delete" /\ r.op # "delete" => Flag(m, v.deleting, {"delete"})
<1>1. ASSUME NEW op, NEW held \in BOOLEAN, n[s].op # op, r.op # op, Flag(n, held, {op})
      PROVE  Flag(m, held, {op})
  <2>1. n[s].op \notin {op} /\ r.op \notin {op}
    BY <1>1
  <2>. QED BY <2>1, <1>1, FlagAside
<1>2. /\ v.saving \in BOOLEAN /\ v.resending \in BOOLEAN /\ v.deleting \in BOOLEAN
      /\ Flag(n, v.saving, {"save"}) /\ Flag(n, v.resending, {"resend"})
      /\ Flag(n, v.deleting, {"delete"})
  BY DEF ParticipantsInv, ParticipantsType
<1>3. ASSUME n[s].op # "save", r.op # "save" PROVE Flag(m, v.saving, {"save"})
  BY <1>1, <1>2, <1>3
<1>4. ASSUME n[s].op # "resend", r.op # "resend" PROVE Flag(m, v.resending, {"resend"})
  BY <1>1, <1>2, <1>4
<1>5. ASSUME n[s].op # "delete", r.op # "delete" PROVE Flag(m, v.deleting, {"delete"})
  BY <1>1, <1>2, <1>5
<1>. QED BY <1>3, <1>4, <1>5

LEMMA NotOpen ==
    ASSUME NEW n, NEW held, NEW ops, Flag(n, held, ops), ~held
    PROVE  \A s \in Slots : ~Open(n, s, ops)
BY DEF Flag

LEMMA DetailOpened == ASSUME IInv, NEW p \in People, OpenDetail(p) PROVE IInv'
<1>. DEFINE r == Ask("history", {p}, None)
            v == DrawerOf(p)
<1>1. /\ page = "participants" /\ ParticipantsInv(view, net) /\ Sends(r, v) /\ Tab
  BY DEF IInv, Shown, OpenDetail, Row, Uncovered, OnParticipants
<1>2. /\ r \in Request /\ r.op = "history" /\ r.who = {p} /\ r.home /\ r.answer = "none"
  BY DEF Ask, Request, Reads
<1>3. /\ v \in ParticipantsType /\ (v.target = "one" => v.single \in People)
      /\ v.saving = view.saving /\ v.resending = view.resending /\ v.deleting = view.deleting
      /\ v.detail = p /\ v.shown = p /\ v.loadingLogs = TRUE
      /\ v.overlap = (Out({"history", "resend", "save"}) # {})
  BY <1>1 DEF DrawerOf, ParticipantsType, ParticipantsInv
<1>. HIDE DEF r, v
<1>4. Asks(r)
  BY <1>1, <1>2 DEF Asks, OpsOf
<1>5. PICK s \in Slots : /\ net[s] = Idle /\ Tab' /\ Forms(db, net)'
                         /\ \A t \in Slots : net'[t] = IF t = s THEN r ELSE net[t]
  BY <1>1, <1>2, <1>4, SendsPut
<1>6. view' = v /\ page' = page
  BY <1>1 DEF Sends
<1>7. /\ Flag(net', view.saving, {"save"}) /\ Flag(net', view.resending, {"resend"})
      /\ Flag(net', view.deleting, {"delete"})
  <2>1. net[s].op = "none" /\ r.op = "history"
    BY <1>2, <1>5 DEF Idle
  <2>. QED BY <2>1, <1>1, <1>5, DrawerFlags
<1>8. DrawerIsOf(v, net')
  <2>. SUFFICES ASSUME ~v.overlap
                PROVE  /\ v.shown = v.detail /\ (v.loadingLogs \/ v.mailsOf = v.detail)
                       /\ \A t \in Slots : Open(net', t, {"history", "resend"}) => net'[t].who = {v.detail}
                       /\ \A t \in Slots : Open(net', t, {"save"}) => net'[t].over = v.detail
    BY DEF DrawerIsOf
  <2>1. \A t \in Slots : ~Open(net, t, {"history", "resend", "save"})
    BY <1>1, <1>3 DEF Out, Pending, Open, Tab
  <2>2. \A t \in Slots : t # s => ~Open(net', t, {"history", "resend"}) /\ ~Open(net', t, {"save"})
    BY <2>1, <1>5 DEF Open
  <2>3. net'[s].who = {v.detail} /\ ~Open(net', s, {"save"})
    BY <1>2, <1>3, <1>5 DEF Open
  <2>. QED BY <2>2, <2>3, <1>3
<1>9. /\ Flag(net', v.saving, {"save"}) /\ Flag(net', v.resending, {"resend"})
      /\ Flag(net', v.deleting, {"delete"})
  BY <1>3, <1>7
<1>. QED BY <1>1, <1>3, <1>5, <1>6, <1>8, <1>9, ParticipantsPut

LEMMA LogsCame == ASSUME IInv, NEW s \in Slots, LogsAnswered(s) PROVE IInv'
<1>1. /\ page = "participants" /\ ParticipantsInv(view, net) /\ Tab /\ Came(s, {"history"})
  BY DEF IInv, Shown, LogsAnswered, OnParticipants
<1>2. PICK p \in net[s].who : Receives(s, [view EXCEPT !.mailsOf = p, !.loadingLogs = FALSE])
  BY DEF LogsAnswered
<1>3. net[s] \in Request /\ Open(net, s, {"history"})
  BY <1>1, CameOpen
<1>4. p \in People
  BY <1>3 DEF Request
<1>. DEFINE v == [view EXCEPT !.mailsOf = p, !.loadingLogs = FALSE]
<1>5. /\ v \in ParticipantsType /\ (v.target = "one" => v.single \in People)
      /\ v.saving = view.saving /\ v.resending = view.resending /\ v.deleting = view.deleting
      /\ v.detail = view.detail /\ v.shown = view.shown /\ v.mailsOf = p
      /\ v.overlap = view.overlap
  BY <1>1, <1>4 DEF ParticipantsType, ParticipantsInv
<1>6. Receives(s, v)
  BY <1>2
<1>. HIDE DEF v
<1>7. /\ view' = v /\ page' = page /\ Tab' /\ Forms(db, net)'
      /\ \A t \in Slots : net'[t] = IF t = s THEN Idle ELSE net[t]
  BY <1>6, AnswerPut
<1>8. /\ Flag(net', v.saving, {"save"}) /\ Flag(net', v.resending, {"resend"})
      /\ Flag(net', v.deleting, {"delete"})
  <2>1. /\ Flag(net', view.saving, {"save"}) /\ Flag(net', view.resending, {"resend"})
        /\ Flag(net', view.deleting, {"delete"})
    <3>1. net[s].op = "history" /\ Idle.op = "none"
      BY <1>3 DEF Open, Idle
    <3>. QED BY <3>1, <1>1, <1>7, DrawerFlags
  <2>. QED BY <2>1, <1>5
<1>9. DrawerIsOf(v, net')
  <2>1. ASSUME view.detail # None, ~view.overlap
        PROVE  v.shown = v.detail /\ v.mailsOf = v.detail
    <3>1. net[s].who = {view.detail}
      BY <1>1, <1>3, <2>1 DEF ParticipantsInv, DrawerIsOf, Open
    <3>2. p = view.detail
      BY <1>2, <3>1
    <3>. QED BY <3>2, <2>1, <1>1, <1>5 DEF ParticipantsInv, DrawerIsOf
  <2>. QED BY <2>1, <1>1, <1>5, <1>7, DrawerPut DEF ParticipantsInv, Idle
<1>. QED BY <1>1, <1>5, <1>7, <1>8, <1>9, ParticipantsPut

LEMMA ResendSent == ASSUME IInv, HandleResendEmail PROVE IInv'
<1>. DEFINE r == Ask("resend", {view.detail}, None)
            v == [view EXCEPT !.resending = TRUE]
<1>1. /\ page = "participants" /\ ParticipantsInv(view, net) /\ Sends(r, v) /\ Tab
      /\ view.detail # None /\ ~view.resending /\ view \in ParticipantsType
  BY DEF IInv, Shown, HandleResendEmail, Drawer, OnParticipants, ParticipantsInv
<1>2. /\ r \in Request /\ r.op = "resend" /\ r.who = {view.detail} /\ r.home /\ r.answer = "none"
  <2>1. {view.detail} \in SUBSET People
    BY <1>1 DEF ParticipantsType
  <2>. QED BY <2>1 DEF Ask, Request, Writes, ParticipantWrites
<1>3. /\ v \in ParticipantsType /\ (v.target = "one" => v.single \in People)
      /\ v.saving = view.saving /\ v.resending = TRUE /\ v.deleting = view.deleting
      /\ v.detail = view.detail /\ v.shown = view.shown /\ v.overlap = view.overlap
      /\ v.loadingLogs = view.loadingLogs /\ v.mailsOf = view.mailsOf
  BY <1>1 DEF ParticipantsType, ParticipantsInv
<1>. PICK q, w : q = r /\ w = v
  OBVIOUS
<1>. HIDE DEF r, v
<1>4. Asks(q) /\ Sends(q, w)
  BY <1>1, <1>2 DEF Asks, OpsOf
<1>5. PICK s \in Slots : /\ net[s] = Idle /\ Tab' /\ Forms(db, net)'
                         /\ \A t \in Slots : net'[t] = IF t = s THEN q ELSE net[t]
  BY <1>2, <1>4, SendsPut
<1>6. view' = w /\ page' = page /\ net[s].op = "none"
  BY <1>4, <1>5 DEF Sends, Idle
<1>7. /\ Flag(net', w.saving, {"save"}) /\ Flag(net', w.resending, {"resend"})
      /\ Flag(net', w.deleting, {"delete"})
  <2>1. Flag(net', view.saving, {"save"}) /\ Flag(net', view.deleting, {"delete"})
    BY <1>1, <1>2, <1>5, <1>6, DrawerFlags
  <2>2. \A t \in Slots : ~Open(net, t, {"resend"})
    BY <1>1, NotOpen DEF ParticipantsInv
  <2>3. Open(net', s, {"resend"})
    BY <1>2, <1>5 DEF Open
  <2>4. Flag(net', TRUE, {"resend"})
    BY <1>5, <2>2, <2>3, FlagRaised
  <2>. QED BY <2>1, <2>4, <1>3
<1>8. DrawerIsOf(w, net')
  <2>1. view.detail # None /\ ~view.overlap =>
           /\ w.shown = w.detail /\ (w.loadingLogs \/ w.mailsOf = w.detail)
           /\ q.who = {view.detail} /\ q.op # "save"
    BY <1>1, <1>2, <1>3 DEF ParticipantsInv, DrawerIsOf
  <2>2. DrawerIsOf(view, net)
    BY <1>1 DEF ParticipantsInv
  <2>3. w.detail = view.detail /\ w.overlap = view.overlap
    BY <1>3
  <2>4. \A t \in Slots : net'[t] = IF t = s THEN q ELSE net[t]
    BY <1>5
  <2>. QED BY <2>1, <2>2, <2>3, <2>4, DrawerPut
<1>. QED BY <1>1, <1>3, <1>5, <1>6, <1>7, <1>8, ParticipantsPut

LEMMA ResendCame == ASSUME IInv, NEW s \in Slots, ResendAnswered(s) PROVE IInv'
<1>1. /\ page = "participants" /\ ParticipantsInv(view, net) /\ Tab /\ Came(s, {"resend"})
  BY DEF IInv, Shown, ResendAnswered, OnParticipants
<1>2. PICK p \in net[s].who :
        Receives(s, [view EXCEPT !.resending = FALSE, !.mailsOf = IF Ok(s) THEN p ELSE @])
  BY DEF ResendAnswered
<1>3. net[s] \in Request /\ Open(net, s, {"resend"}) /\ net[s].op = "resend" /\ Idle.op = "none"
  BY <1>1, CameOpen DEF Open, Idle
<1>4. p \in People
  BY <1>3 DEF Request
<1>. DEFINE v == [view EXCEPT !.resending = FALSE, !.mailsOf = IF Ok(s) THEN p ELSE @]
<1>5. /\ v \in ParticipantsType /\ (v.target = "one" => v.single \in People)
      /\ v.saving = view.saving /\ v.resending = FALSE /\ v.deleting = view.deleting
      /\ v.detail = view.detail /\ v.shown = view.shown /\ v.overlap = view.overlap
      /\ v.loadingLogs = view.loadingLogs /\ v.mailsOf \in {p, view.mailsOf}
  BY <1>1, <1>4 DEF ParticipantsType, ParticipantsInv
<1>6. Receives(s, v)
  BY <1>2
<1>. HIDE DEF v
<1>7. /\ view' = v /\ page' = page /\ Tab' /\ Forms(db, net)'
      /\ \A t \in Slots : net'[t] = IF t = s THEN Idle ELSE net[t]
  BY <1>6, AnswerPut
<1>8. /\ Flag(net', v.saving, {"save"}) /\ Flag(net', v.resending, {"resend"})
      /\ Flag(net', v.deleting, {"delete"})
  <2>1. Flag(net', view.saving, {"save"}) /\ Flag(net', view.deleting, {"delete"})
    BY <1>1, <1>3, <1>7, DrawerFlags
  <2>2. ~Open(net', s, {"resend"})
    BY <1>3, <1>7 DEF Open
  <2>3. Flag(net', FALSE, {"resend"})
    BY <1>1, <1>3, <1>7, <2>2, FlagLowered DEF ParticipantsInv
  <2>. QED BY <2>1, <2>3, <1>5
<1>9. DrawerIsOf(v, net')
  <2>1. ASSUME view.detail # None, ~view.overlap
        PROVE  v.shown = v.detail /\ (v.loadingLogs \/ v.mailsOf = v.detail)
    <3>1. net[s].who = {view.detail}
      BY <1>1, <1>3, <2>1 DEF ParticipantsInv, DrawerIsOf, Open
    <3>2. p = view.detail
      BY <1>2, <3>1
    <3>. QED BY <3>2, <2>1, <1>1, <1>5 DEF ParticipantsInv, DrawerIsOf
  <2>. QED BY <2>1, <1>1, <1>3, <1>5, <1>7, DrawerPut DEF ParticipantsInv
<1>. QED BY <1>1, <1>5, <1>7, <1>8, <1>9, ParticipantsPut

LEMMA EditSent == ASSUME IInv, HandleSaveEdit PROVE IInv'
<1>. DEFINE r == Ask("save", {view.edit}, view.detail)
            v == [view EXCEPT !.saving = TRUE]
<1>1. /\ page = "participants" /\ ParticipantsInv(view, net) /\ Sends(r, v) /\ Tab
      /\ view.edit # None /\ ~view.saving /\ view \in ParticipantsType
  BY DEF IInv, Shown, HandleSaveEdit, EditForm, OnParticipants, ParticipantsInv
<1>2. /\ r \in Request /\ r.op = "save" /\ r.over = view.detail /\ r.home /\ r.answer = "none"
  <2>1. {view.edit} \in SUBSET People /\ view.detail \in People \cup {None}
    BY <1>1 DEF ParticipantsType
  <2>. QED BY <2>1 DEF Ask, Request, Writes, ParticipantWrites
<1>3. /\ v \in ParticipantsType /\ (v.target = "one" => v.single \in People)
      /\ v.saving = TRUE /\ v.resending = view.resending /\ v.deleting = view.deleting
      /\ v.detail = view.detail /\ v.shown = view.shown /\ v.overlap = view.overlap
      /\ v.loadingLogs = view.loadingLogs /\ v.mailsOf = view.mailsOf
  BY <1>1 DEF ParticipantsType, ParticipantsInv
<1>. PICK q, w : q = r /\ w = v
  OBVIOUS
<1>. HIDE DEF r, v
<1>4. Asks(q) /\ Sends(q, w)
  BY <1>1, <1>2 DEF Asks, OpsOf
<1>5. PICK s \in Slots : /\ net[s] = Idle /\ Tab' /\ Forms(db, net)'
                         /\ \A t \in Slots : net'[t] = IF t = s THEN q ELSE net[t]
  BY <1>2, <1>4, SendsPut
<1>6. view' = w /\ page' = page /\ net[s].op = "none"
  BY <1>4, <1>5 DEF Sends, Idle
<1>7. /\ Flag(net', w.saving, {"save"}) /\ Flag(net', w.resending, {"resend"})
      /\ Flag(net', w.deleting, {"delete"})
  <2>1. Flag(net', view.resending, {"resend"}) /\ Flag(net', view.deleting, {"delete"})
    BY <1>1, <1>2, <1>5, <1>6, DrawerFlags
  <2>2. \A t \in Slots : ~Open(net, t, {"save"})
    BY <1>1, NotOpen DEF ParticipantsInv
  <2>3. Open(net', s, {"save"})
    BY <1>2, <1>5 DEF Open
  <2>4. Flag(net', TRUE, {"save"})
    BY <1>5, <2>2, <2>3, FlagRaised
  <2>. QED BY <2>1, <2>4, <1>3
<1>8. DrawerIsOf(w, net')
  <2>1. view.detail # None /\ ~view.overlap =>
           /\ w.shown = w.detail /\ (w.loadingLogs \/ w.mailsOf = w.detail)
           /\ q.over = view.detail /\ q.op \notin {"history", "resend"}
    BY <1>1, <1>2, <1>3 DEF ParticipantsInv, DrawerIsOf
  <2>. QED BY <2>1, <1>1, <1>3, <1>5, DrawerPut DEF ParticipantsInv
<1>. QED BY <1>1, <1>3, <1>5, <1>6, <1>7, <1>8, ParticipantsPut

LEMMA EditCame == ASSUME IInv, NEW s \in Slots, SaveAnswered(s) PROVE IInv'
<1>1. /\ page = "participants" /\ ParticipantsInv(view, net) /\ Tab /\ Came(s, {"save"})
  BY DEF IInv, Shown, SaveAnswered, OnParticipants
<1>2. net[s] \in Request /\ Open(net, s, {"save"}) /\ net[s].op = "save" /\ Idle.op = "none"
  BY <1>1, CameOpen DEF Open, Idle
<1>3. Asks(FetchList) /\ FetchList.op = "list"
  BY <1>1, ListAsked, FetchType
<1>4. PICK r, v :
        /\ (r = Idle /\ Receives(s, v)) \/ (r = FetchList /\ ReceivesAndAsks(s, v, r))
        /\ v \in ParticipantsType /\ (v.target = "one" => v.single \in People)
        /\ v.saving = FALSE /\ v.resending = view.resending /\ v.deleting = view.deleting
        /\ v.detail = view.detail /\ v.overlap = view.overlap
        /\ v.loadingLogs = view.loadingLogs /\ v.mailsOf = view.mailsOf
        /\ \/ v.shown = view.shown
           \/ net[s].over = v.shown
  <2>1. CASE ~Ok(s)
    <3>1. Receives(s, [view EXCEPT !.saving = FALSE])
      BY <2>1 DEF SaveAnswered
    <3>. WITNESS Idle, [view EXCEPT !.saving = FALSE]
    <3>. QED BY <3>1, <1>1 DEF ParticipantsType, ParticipantsInv
  <2>2. CASE Ok(s)
    <3>1. PICK p \in net[s].who :
            ReceivesAndAsks(s,
               [view EXCEPT !.saving = FALSE, !.edit = None, !.loading = TRUE,
                  !.shown = IF net[s].over = p /\ view.detail # None THEN p ELSE @], FetchList)
      BY <2>2 DEF SaveAnswered
    <3>2. p \in People
      BY <1>2 DEF Request
    <3>. DEFINE shown == IF net[s].over = p /\ view.detail # None THEN p ELSE view.shown
                w == [view EXCEPT !.saving = FALSE, !.edit = None, !.loading = TRUE,
                                  !.shown = shown]
    <3>3. view \in ParticipantsType /\ (view.target = "one" => view.single \in People)
      BY <1>1 DEF ParticipantsInv
    <3>4. shown \in People \cup {None} /\ (shown = view.shown \/ net[s].over = shown)
      BY <3>2, <3>3 DEF ParticipantsType
    <3>5. ReceivesAndAsks(s, w, FetchList)
      BY <3>1
    <3>. HIDE DEF shown
    <3>6. /\ w \in ParticipantsType /\ (w.target = "one" => w.single \in People)
          /\ w.saving = FALSE /\ w.resending = view.resending /\ w.deleting = view.deleting
          /\ w.detail = view.detail /\ w.overlap = view.overlap
          /\ w.loadingLogs = view.loadingLogs /\ w.mailsOf = view.mailsOf /\ w.shown = shown
      BY <3>3, <3>4 DEF ParticipantsType
    <3>. HIDE DEF w
    <3>. QED BY <3>4, <3>5, <3>6
  <2>. QED BY <2>1, <2>2
<1>5. /\ view' = v /\ page' = page /\ Tab' /\ Forms(db, net)'
      /\ \A t \in Slots : net'[t] = IF t = s THEN r ELSE net[t]
  BY <1>2, <1>3, <1>4, AnswerPut
<1>6. r.op \in {"none", "list"}
  BY <1>2, <1>3, <1>4
<1>7. /\ Flag(net', v.saving, {"save"}) /\ Flag(net', v.resending, {"resend"})
      /\ Flag(net', v.deleting, {"delete"})
  <2>1. Flag(net', view.resending, {"resend"}) /\ Flag(net', view.deleting, {"delete"})
    BY <1>1, <1>2, <1>5, <1>6, DrawerFlags
  <2>2. ~Open(net', s, {"save"})
    BY <1>5, <1>6 DEF Open
  <2>3. Flag(net', FALSE, {"save"})
    BY <1>1, <1>2, <1>5, <2>2, FlagLowered DEF ParticipantsInv
  <2>. QED BY <2>1, <2>3, <1>4
<1>8. DrawerIsOf(v, net')
  <2>1. ASSUME view.detail # None, ~view.overlap
        PROVE  v.shown = v.detail /\ (v.loadingLogs \/ v.mailsOf = v.detail)
    <3>1. net[s].over = view.detail
      BY <1>1, <1>2, <2>1 DEF ParticipantsInv, DrawerIsOf
    <3>. QED BY <3>1, <2>1, <1>1, <1>4 DEF ParticipantsInv, DrawerIsOf
  <2>. QED BY <2>1, <1>1, <1>4, <1>5, <1>6, DrawerPut DEF ParticipantsInv
<1>. QED BY <1>1, <1>4, <1>5, <1>7, <1>8, ParticipantsPut

LEMMA DeleteSent == ASSUME IInv, HandleExecuteDelete PROVE IInv'
<1>. DEFINE r == Ask("delete", Doomed, None)
            v == [view EXCEPT !.deleting = TRUE]
<1>1. /\ page = "participants" /\ ParticipantsInv(view, net) /\ Sends(r, v) /\ Tab
      /\ view.target # "nobody" /\ ~view.deleting /\ view \in ParticipantsType
  BY DEF IInv, Shown, HandleExecuteDelete, ExecuteDelete, OnParticipants, ParticipantsInv
<1>2. r \in Request /\ r.op = "delete" /\ r.home /\ r.answer = "none"
  <2>1. Doomed \in SUBSET People
    BY <1>1 DEF Doomed, ParticipantsType, ParticipantsInv
  <2>. QED BY <2>1 DEF Ask, Request, Writes, ParticipantWrites
<1>3. /\ v \in ParticipantsType /\ (v.target = "one" => v.single \in People)
      /\ v.saving = view.saving /\ v.resending = view.resending /\ v.deleting = TRUE
      /\ v.detail = view.detail /\ v.shown = view.shown /\ v.overlap = view.overlap
      /\ v.loadingLogs = view.loadingLogs /\ v.mailsOf = view.mailsOf
  BY <1>1 DEF ParticipantsType, ParticipantsInv
<1>. PICK q, w : q = r /\ w = v
  OBVIOUS
<1>. HIDE DEF r, v
<1>4. Asks(q) /\ Sends(q, w)
  BY <1>1, <1>2 DEF Asks, OpsOf
<1>5. PICK s \in Slots : /\ net[s] = Idle /\ Tab' /\ Forms(db, net)'
                         /\ \A t \in Slots : net'[t] = IF t = s THEN q ELSE net[t]
  BY <1>2, <1>4, SendsPut
<1>6. view' = w /\ page' = page /\ net[s].op = "none"
  BY <1>4, <1>5 DEF Sends, Idle
<1>7. /\ Flag(net', w.saving, {"save"}) /\ Flag(net', w.resending, {"resend"})
      /\ Flag(net', w.deleting, {"delete"})
  <2>1. Flag(net', view.saving, {"save"}) /\ Flag(net', view.resending, {"resend"})
    BY <1>1, <1>2, <1>5, <1>6, DrawerFlags
  <2>2. \A t \in Slots : ~Open(net, t, {"delete"})
    BY <1>1, NotOpen DEF ParticipantsInv
  <2>3. Open(net', s, {"delete"})
    BY <1>2, <1>5 DEF Open
  <2>4. Flag(net', TRUE, {"delete"})
    BY <1>5, <2>2, <2>3, FlagRaised
  <2>. QED BY <2>1, <2>4, <1>3
<1>8. DrawerIsOf(w, net')
  <2>1. view.detail # None /\ ~view.overlap =>
           /\ w.shown = w.detail /\ (w.loadingLogs \/ w.mailsOf = w.detail)
           /\ q.op \notin {"history", "resend", "save"}
    BY <1>1, <1>2, <1>3 DEF ParticipantsInv, DrawerIsOf
  <2>. QED BY <2>1, <1>1, <1>3, <1>5, DrawerPut DEF ParticipantsInv
<1>. QED BY <1>1, <1>3, <1>5, <1>6, <1>7, <1>8, ParticipantsPut

LEMMA DeleteAnswer == ASSUME IInv, NEW s \in Slots, DeleteAnswered(s) PROVE IInv'
<1>1. /\ page = "participants" /\ ParticipantsInv(view, net) /\ Tab /\ Came(s, {"delete"})
      /\ DeleteCame(s)
  BY DEF IInv, Shown, DeleteAnswered, DeleteCame, OnParticipants
<1>2. net[s] \in Request /\ Open(net, s, {"delete"}) /\ net[s].op = "delete" /\ Idle.op = "none"
  BY <1>1, CameOpen DEF Open, Idle
<1>3. Asks(FetchList) /\ FetchList.op = "list"
  BY <1>1, ListAsked, FetchType
<1>4. PICK r, v :
        /\ (r = Idle /\ Receives(s, v)) \/ (r = FetchList /\ ReceivesAndAsks(s, v, r))
        /\ v \in ParticipantsType /\ (v.target = "one" => v.single \in People)
        /\ v.saving = view.saving /\ v.resending = view.resending /\ v.deleting = FALSE
        /\ v.detail = view.detail /\ v.overlap = view.overlap /\ v.shown = view.shown
        /\ v.loadingLogs = view.loadingLogs /\ v.mailsOf = view.mailsOf
  <2>1. CASE ~Ok(s)
    <3>1. Receives(s, [view EXCEPT !.deleting = FALSE])
      BY <2>1, <1>1 DEF DeleteCame
    <3>. WITNESS Idle, [view EXCEPT !.deleting = FALSE]
    <3>. QED BY <3>1, <1>1 DEF ParticipantsType, ParticipantsInv
  <2>2. CASE Ok(s)
    <3>. DEFINE left == IF view.target = "bulk" THEN {} ELSE view.ticked
    <3>. DEFINE w == [view EXCEPT !.deleting = FALSE, !.loading = TRUE, !.ticked = left,
                                  !.target = "nobody", !.single = None]
    <3>1. view \in ParticipantsType
      BY <1>1 DEF ParticipantsInv
    <3>2. ReceivesAndAsks(s, w, FetchList)
      BY <2>2, <1>1, <3>1 DEF DeleteCame, DroppedTarget, ParticipantsType
    <3>3. left \in SUBSET People
      BY <3>1 DEF ParticipantsType
    <3>. HIDE DEF left
    <3>4. /\ w \in ParticipantsType /\ (w.target = "one" => w.single \in People)
          /\ w.saving = view.saving /\ w.resending = view.resending /\ w.deleting = FALSE
          /\ w.detail = view.detail /\ w.overlap = view.overlap /\ w.shown = view.shown
          /\ w.loadingLogs = view.loadingLogs /\ w.mailsOf = view.mailsOf
      BY <3>1, <3>3 DEF ParticipantsType
    <3>. HIDE DEF w
    <3>. QED BY <3>2, <3>4
  <2>. QED BY <2>1, <2>2
<1>5. /\ view' = v /\ page' = page /\ Tab' /\ Forms(db, net)'
      /\ \A t \in Slots : net'[t] = IF t = s THEN r ELSE net[t]
  BY <1>2, <1>3, <1>4, AnswerPut
<1>6. r.op \in {"none", "list"}
  BY <1>2, <1>3, <1>4
<1>7. /\ Flag(net', v.saving, {"save"}) /\ Flag(net', v.resending, {"resend"})
      /\ Flag(net', v.deleting, {"delete"})
  <2>1. Flag(net', view.resending, {"resend"}) /\ Flag(net', view.saving, {"save"})
    BY <1>1, <1>2, <1>5, <1>6, DrawerFlags
  <2>2. ~Open(net', s, {"delete"})
    BY <1>5, <1>6 DEF Open
  <2>3. Flag(net', FALSE, {"delete"})
    BY <1>1, <1>2, <1>5, <2>2, FlagLowered DEF ParticipantsInv
  <2>. QED BY <2>1, <2>3, <1>4
<1>8. DrawerIsOf(v, net')
  <2>1. view.detail # None /\ ~view.overlap =>
           v.shown = v.detail /\ (v.loadingLogs \/ v.mailsOf = v.detail)
    BY <1>1, <1>4 DEF ParticipantsInv, DrawerIsOf
  <2>. QED BY <2>1, <1>1, <1>4, <1>5, <1>6, DrawerPut DEF ParticipantsInv
<1>. QED BY <1>1, <1>4, <1>5, <1>7, <1>8, ParticipantsPut

LEMMA ParticipantsSteps == ASSUME IInv, ParticipantsNext PROVE IInv'
BY ParticipantsPresses, ParticipantsLists, DetailClosed, DetailOpened, LogsCame, ResendSent,
   ResendCame, EditSent, EditCame, DeleteSent, DeleteAnswer DEF ParticipantsNext

-----------------------------------------------------------------------------
(* The candidates.                                                         *)

FormOps == {"delete", "create", "photo"}

\* Two states of the page that differ in nothing requests are about.
SameForm(v, w) ==
    /\ w \in CandidatesType /\ (w.target = "one" => w.single \in People)
    /\ w.deleting = v.deleting /\ w.creating = v.creating /\ w.form = v.form

\* A form stays spare while what is out stays the same.
LEMMA SpareAlike ==
    ASSUME NEW v, NEW w, NEW d, NEW n, NEW m, FormIsSpare(v, d, n), w.form = v.form,
           Alike(n, m, {"create", "photo"}), \A f : Spare(d, n, f) => Spare(d, m, f)
    PROVE  FormIsSpare(w, d, m)
BY DEF FormIsSpare, Alike

LEMMA CandidatesFrame ==
    ASSUME NEW v, NEW w, NEW d, NEW n, NEW m, NEW k \in Nat, NEW j \in Nat, k <= j,
           CandidatesInv(v, d, n, k), SameForm(v, w), Alike(n, m, FormOps),
           \A f : Spare(d, n, f) => Spare(d, m, f)
    PROVE  CandidatesInv(w, d, m, j)
<1>1. Flag(m, v.deleting, {"delete"}) /\ Flag(m, v.creating, {"create", "photo"})
  <2>1. v.deleting \in BOOLEAN /\ v.creating \in BOOLEAN
    BY DEF CandidatesInv, CandidatesType
  <2>2. {"delete"} \subseteq FormOps /\ {"create", "photo"} \subseteq FormOps
    BY DEF FormOps
  <2>. QED BY <2>1, <2>2, FlagKept DEF CandidatesInv
<1>2. Alike(n, m, {"create", "photo"})
  BY DEF Alike, Open, FormOps
<1>3. FormIsSpare(w, d, m)
  BY <1>2, SpareAlike DEF CandidatesInv, SameForm
<1>4. w.form <= j
  BY DEF CandidatesInv, SameForm, CandidatesType
<1>5. Flag(m, w.deleting, {"delete"}) /\ Flag(m, w.creating, {"create", "photo"})
  BY <1>1 DEF SameForm
<1>. QED BY <1>3, <1>4, <1>5 DEF CandidatesInv, SameForm

LEMMA CandidatesRearranged ==
    ASSUME IInv, OnCandidates, NEW w, Rearranged(w), SameForm(view, w)
    PROVE  IInv'
<1>1. CandidatesInv(view, db, net, presses) /\ page = "candidates"
  BY DEF IInv, Shown, OnCandidates
<1>2. /\ view' = w /\ page' = page /\ net' = net /\ db' = db /\ Tab' /\ Forms(db, net)'
      /\ presses' \in Nat /\ presses <= presses' /\ presses \in Nat
  BY RearrangedKeeps DEF IInv, Tab
<1>3. CandidatesInv(w, db, net, presses')
  BY <1>1, <1>2, AlikeSame, CandidatesFrame
<1>. QED BY <1>1, <1>2, <1>3 DEF IInv, Shown

LEMMA CandidatesPresses ==
    ASSUME IInv, \/ TickAllCandidates \/ AskDeleteCandidates \/ CancelDeleteCandidates
                 \/ OpenForm \/ CancelForm \/ \E p \in People : TickCandidate(p)
    PROVE  IInv'
<1>1. OnCandidates
  BY DEF TickAllCandidates, AskDeleteCandidates, CancelDeleteCandidates, OpenForm, CancelForm,
         TickCandidate, ListUncovered, CreateForm
<1>2. view \in CandidatesType /\ (view.target = "one" => view.single \in People)
  BY <1>1 DEF IInv, Shown, OnCandidates, CandidatesInv
<1>3. CASE TickAllCandidates
  <2>1. Rearranged([view EXCEPT !.ticked = ToggledAll])
    BY <1>3 DEF TickAllCandidates
  <2>2. SameForm(view, [view EXCEPT !.ticked = ToggledAll])
    BY <1>2 DEF SameForm, CandidatesType, ToggledAll
  <2>. QED BY <2>1, <2>2, <1>1, CandidatesRearranged
<1>4. CASE AskDeleteCandidates
  <2>1. CASE Rearranged(AskDeleteTicked)
    <3>1. SameForm(view, AskDeleteTicked)
      BY <1>2 DEF SameForm, CandidatesType, AskDeleteTicked
    <3>. QED BY <3>1, <2>1, <1>1, CandidatesRearranged
  <2>2. ASSUME NEW p \in Rows, Rearranged(AskDeleteOne(p)) PROVE IInv'
    <3>1. p \in People
      BY <1>2 DEF Rows, CandidatesType
    <3>2. SameForm(view, AskDeleteOne(p))
      BY <1>2, <3>1 DEF SameForm, CandidatesType, AskDeleteOne
    <3>. QED BY <3>2, <2>2, <1>1, CandidatesRearranged
  <2>. QED BY <2>1, <2>2, <1>4 DEF AskDeleteCandidates
<1>5. CASE CancelDeleteCandidates
  <2>1. Rearranged(DroppedTarget(view))
    BY <1>5 DEF CancelDeleteCandidates
  <2>2. SameForm(view, DroppedTarget(view))
    BY <1>2 DEF SameForm, CandidatesType, DroppedTarget
  <2>. QED BY <2>1, <2>2, <1>1, CandidatesRearranged
<1>6. CASE OpenForm
  <2>1. Rearranged([view EXCEPT !.showForm = TRUE])
    BY <1>6 DEF OpenForm
  <2>2. SameForm(view, [view EXCEPT !.showForm = TRUE])
    BY <1>2 DEF SameForm, CandidatesType
  <2>. QED BY <2>1, <2>2, <1>1, CandidatesRearranged
<1>7. CASE CancelForm
  <2>1. Rearranged([view EXCEPT !.showForm = FALSE])
    BY <1>7 DEF CancelForm
  <2>2. SameForm(view, [view EXCEPT !.showForm = FALSE])
    BY <1>2 DEF SameForm, CandidatesType
  <2>. QED BY <2>1, <2>2, <1>1, CandidatesRearranged
<1>8. ASSUME NEW p \in People, TickCandidate(p) PROVE IInv'
  <2>1. Rearranged([view EXCEPT !.ticked = Toggled(p)])
    BY <1>8 DEF TickCandidate
  <2>2. SameForm(view, [view EXCEPT !.ticked = Toggled(p)])
    BY <1>2 DEF SameForm, CandidatesType, Toggled
  <2>. QED BY <2>1, <2>2, <1>1, CandidatesRearranged
<1>. QED BY <1>3, <1>4, <1>5, <1>6, <1>7, <1>8

\* A form that is filled in has a number no form had before.
LEMMA FilledIn == ASSUME IInv, FillIn PROVE IInv'
<1>. DEFINE w == [view EXCEPT !.form = presses + 1]
<1>1. page = "candidates" /\ CandidatesInv(view, db, net, presses) /\ Tab /\ Forms(db, net)
      /\ Rearranged(w)
  BY DEF IInv, Shown, FillIn, CreateForm, OnCandidates
<1>2. presses \in Nat
  BY <1>1 DEF Tab
<1>3. /\ w \in CandidatesType /\ (w.target = "one" => w.single \in People)
      /\ w.deleting = view.deleting /\ w.creating = view.creating /\ w.form = presses + 1
  BY <1>1, <1>2 DEF CandidatesInv, CandidatesType
<1>. HIDE DEF w
<1>4. /\ view' = w /\ page' = page /\ net' = net /\ db' = db /\ Tab' /\ Forms(db, net)'
      /\ presses' = presses + 1
  BY <1>1, RearrangedKeeps
<1>5. Spare(db, net, presses + 1)
  <2>1. presses + 1 \notin 1..presses
    BY <1>2
  <2>2. presses + 1 \notin db.forms
    BY <2>1, <1>1 DEF Forms
  <2>3. \A s \in Slots : Unstored(net, s) => net[s].over \in 1..presses
    BY <1>1 DEF Tab, Owned, Unstored
  <2>. QED BY <2>1, <2>2, <2>3 DEF Spare
<1>6. CandidatesInv(w, db, net, presses')
  <2>1. w.form <= presses'
    BY <1>2, <1>3, <1>4
  <2>. QED BY <1>1, <1>3, <1>5, <2>1 DEF CandidatesInv, FormIsSpare
<1>. QED BY <1>1, <1>4, <1>6 DEF IInv, Shown

\* A list that is asked for, or comes, leaves the form alone.
LEMMA CandidatesPut ==
    ASSUME IInv, OnCandidates, NEW s \in Slots, net[s].op \in {"none", "list"},
           NEW r, r.op \in {"none", "list"}, SameForm(view, view'), page' = page, db' = db,
           \A t \in Slots : net'[t] = IF t = s THEN r ELSE net[t], Tab', Forms(db, net)',
           \A f : Spare(db, net, f) => Spare(db', net', f), presses' \in Nat, presses <= presses'
    PROVE  IInv'
<1>1. CandidatesInv(view, db, net, presses) /\ page = "candidates" /\ presses \in Nat
  BY DEF IInv, Shown, OnCandidates, Tab
<1>2. Alike(net, net', FormOps)
  <2>1. net[s].op \notin FormOps /\ r.op \notin FormOps
    BY DEF FormOps
  <2>. QED BY <2>1, AlikePut
<1>3. CandidatesInv(view', db', net', presses')
  BY <1>1, <1>2, CandidatesFrame
<1>. QED BY <1>1, <1>3 DEF IInv, Shown

LEMMA CandidatesLists ==
    ASSUME IInv, SetFilter \/ Refresh \/ \E s \in Slots : CandidatesListed(s)
    PROVE  IInv'
<1>1. OnCandidates /\ Tab /\ Forms(db, net)
  BY DEF IInv, SetFilter, Refresh, CandidatesListed, ListUncovered
<1>2. view \in CandidatesType /\ (view.target = "one" => view.single \in People)
  BY <1>1 DEF IInv, Shown, OnCandidates, CandidatesInv
<1>3. Asks(FetchList) /\ FetchList.op = "list"
  BY <1>1, ListAsked, FetchType DEF OnCandidates
<1>4. CASE SetFilter \/ Refresh
  <2>1. Sends(FetchList, [view EXCEPT !.loading = TRUE])
    BY <1>4 DEF SetFilter, Refresh
  <2>2. view' = [view EXCEPT !.loading = TRUE]
    BY <2>1 DEF Sends
  <2>3. SameForm(view, view')
    BY <2>2, <1>2 DEF SameForm, CandidatesType
  <2>4. PICK s \in Slots :
           /\ net[s] = Idle /\ Tab' /\ \A t \in Slots : net'[t] = IF t = s THEN FetchList ELSE net[t]
           /\ Forms(db, net)' /\ \A f : Spare(db, net, f) => Spare(db', net', f)
    BY <2>1, <1>3, SendsPut
  <2>5. presses' \in Nat /\ presses <= presses' /\ page' = page /\ db' = db
    BY <2>1, <1>3, SendsPut
  <2>6. net[s].op = "none"
    BY <2>4 DEF Idle
  <2>. QED BY <2>3, <2>4, <2>5, <2>6, <1>1, <1>3, CandidatesPut
<1>5. ASSUME NEW s \in Slots, CandidatesListed(s) PROVE IInv'
  <2>. DEFINE w == IF Ok(s) THEN Filled(net[s]) ELSE [view EXCEPT !.loading = FALSE]
  <2>1. Came(s, {"list"}) /\ Receives(s, w)
    BY <1>5 DEF CandidatesListed, ListCame
  <2>2. net[s] \in Request /\ net[s].op = "list"
    BY <2>1, <1>1, CameOpen DEF Open
  <2>3. net[s].rows \in SUBSET People
    BY <2>2 DEF Request
  <2>4. SameForm(view, w)
    BY <2>3, <1>2 DEF SameForm, CandidatesType, Filled
  <2>. HIDE DEF w
  <2>5. /\ view' = w /\ page' = page /\ db' = db /\ Tab' /\ Forms(db, net)'
        /\ \A t \in Slots : net'[t] = IF t = s THEN Idle ELSE net[t]
        /\ \A f : Spare(db, net, f) => Spare(db', net', f)
    BY <2>1, AnswerPut
  <2>6. Idle.op = "none"
    BY DEF Idle
  <2>7. presses' \in Nat /\ presses <= presses'
    BY <2>1, <1>1 DEF Receives, Tab
  <2>. QED BY <2>2, <2>4, <2>5, <2>6, <2>7, <1>1, CandidatesPut
<1>. QED BY <1>4, <1>5

\* The flag a slot has no part in.
LEMMA FormFlags ==
    ASSUME NEW v, NEW d, NEW n, NEW m, NEW k, NEW s \in Slots, NEW r, CandidatesInv(v, d, n, k),
           \A t \in Slots : m[t] = IF t = s THEN r ELSE n[t]
    PROVE  /\ n[s].op # "delete" /\ r.op # "delete" => Flag(m, v.deleting, {"delete"})
           /\ n[s].op \notin {"create", "photo"} /\ r.op \notin {"create", "photo"}
                 => Flag(m, v.creating, {"create", "photo"}) /\ Alike(n, m, {"create", "photo"})
<1>1. /\ v.deleting \in BOOLEAN /\ v.creating \in BOOLEAN
      /\ Flag(n, v.deleting, {"delete"}) /\ Flag(n, v.creating, {"create", "photo"})
  BY DEF CandidatesInv, CandidatesType
<1>2. ASSUME NEW ops, NEW held \in BOOLEAN, n[s].op \notin ops, r.op \notin ops, Flag(n, held, ops)
      PROVE  Flag(m, held, ops)
  BY <1>2, FlagAside
<1>3. ASSUME n[s].op # "delete", r.op # "delete" PROVE Flag(m, v.deleting, {"delete"})
  <2>1. n[s].op \notin {"delete"} /\ r.op \notin {"delete"}
    BY <1>3
  <2>. QED BY <1>1, <1>2, <2>1
<1>4. ASSUME n[s].op \notin {"create", "photo"}, r.op \notin {"create", "photo"}
      PROVE  Flag(m, v.creating, {"create", "photo"}) /\ Alike(n, m, {"create", "photo"})
  <2>1. Flag(m, v.creating, {"create", "photo"})
    BY <1>1, <1>2, <1>4
  <2>2. Alike(n, m, {"create", "photo"})
    BY <1>4, AlikePut
  <2>. QED BY <2>1, <2>2
<1>. QED BY <1>3, <1>4

LEMMA CandidatesDeleteSent == ASSUME IInv, DeleteCandidates PROVE IInv'
<1>. DEFINE r == Ask("delete", Doomed, None)
            v == [view EXCEPT !.deleting = TRUE]
<1>1. /\ page = "candidates" /\ CandidatesInv(view, db, net, presses) /\ Sends(r, v) /\ Tab
      /\ view.target # "nobody" /\ ~view.deleting /\ view \in CandidatesType
  BY DEF IInv, Shown, DeleteCandidates, ExecuteDelete, OnCandidates, CandidatesInv
<1>2. r \in Request /\ r.op = "delete" /\ r.home /\ r.answer = "none"
  <2>1. Doomed \in SUBSET People
    BY <1>1 DEF Doomed, CandidatesType, CandidatesInv
  <2>. QED BY <2>1 DEF Ask, Request, Writes, ParticipantWrites
<1>3. /\ v \in CandidatesType /\ (v.target = "one" => v.single \in People)
      /\ v.creating = view.creating /\ v.deleting = TRUE /\ v.form = view.form
  BY <1>1 DEF CandidatesType, CandidatesInv
<1>. PICK q, w : q = r /\ w = v
  OBVIOUS
<1>. HIDE DEF r, v
<1>4. Asks(q) /\ Sends(q, w)
  BY <1>1, <1>2 DEF Asks, OpsOf
<1>5. PICK s \in Slots : /\ net[s] = Idle /\ Tab' /\ Forms(db, net)'
                         /\ \A t \in Slots : net'[t] = IF t = s THEN q ELSE net[t]
                         /\ \A f : Spare(db, net, f) => Spare(db', net', f)
  BY <1>2, <1>4, SendsPut
<1>6. /\ view' = w /\ page' = page /\ db' = db /\ net[s].op = "none"
      /\ presses' \in Nat /\ presses <= presses' /\ presses \in Nat
  BY <1>1, <1>4, <1>5, SendsPut DEF Idle, Tab
<1>7. /\ Flag(net', w.deleting, {"delete"}) /\ Flag(net', w.creating, {"create", "photo"})
      /\ Alike(net, net', {"create", "photo"})
  <2>1. /\ Flag(net', view.creating, {"create", "photo"})
        /\ Alike(net, net', {"create", "photo"})
    BY <1>1, <1>2, <1>5, <1>6, FormFlags
  <2>2. \A t \in Slots : ~Open(net, t, {"delete"})
    BY <1>1, NotOpen DEF CandidatesInv
  <2>3. Open(net', s, {"delete"})
    BY <1>2, <1>5 DEF Open
  <2>4. Flag(net', TRUE, {"delete"})
    BY <1>5, <2>2, <2>3, FlagRaised
  <2>. QED BY <2>1, <2>4, <1>3
<1>8. FormIsSpare(w, db', net')
  BY <1>1, <1>3, <1>5, <1>6, <1>7, SpareAlike DEF CandidatesInv
<1>9. w.form <= presses'
  BY <1>1, <1>3, <1>6 DEF CandidatesInv, CandidatesType
<1>. QED BY <1>1, <1>3, <1>5, <1>6, <1>7, <1>8, <1>9 DEF IInv, Shown, CandidatesInv

LEMMA CandidatesDeleteCame == ASSUME IInv, NEW s \in Slots, CandidatesDeleted(s) PROVE IInv'
<1>1. /\ page = "candidates" /\ CandidatesInv(view, db, net, presses) /\ Tab
      /\ Came(s, {"delete"}) /\ DeleteCame(s) /\ view \in CandidatesType
      /\ (view.target = "one" => view.single \in People)
  BY DEF IInv, Shown, CandidatesDeleted, DeleteCame, OnCandidates, CandidatesInv
<1>2. net[s] \in Request /\ Open(net, s, {"delete"}) /\ net[s].op = "delete" /\ Idle.op = "none"
  BY <1>1, CameOpen DEF Open, Idle
<1>3. Asks(FetchList) /\ FetchList.op = "list"
  BY <1>1, ListAsked, FetchType
<1>4. PICK r, v :
        /\ (r = Idle /\ Receives(s, v)) \/ (r = FetchList /\ ReceivesAndAsks(s, v, r))
        /\ v \in CandidatesType /\ (v.target = "one" => v.single \in People)
        /\ v.deleting = FALSE /\ v.creating = view.creating /\ v.form = view.form
  <2>1. CASE ~Ok(s)
    <3>1. Receives(s, [view EXCEPT !.deleting = FALSE])
      BY <2>1, <1>1 DEF DeleteCame
    <3>. WITNESS Idle, [view EXCEPT !.deleting = FALSE]
    <3>. QED BY <3>1, <1>1 DEF CandidatesType
  <2>2. CASE Ok(s)
    <3>. DEFINE left == IF view.target = "bulk" THEN {} ELSE view.ticked
    <3>. DEFINE w == [view EXCEPT !.deleting = FALSE, !.loading = TRUE, !.ticked = left,
                                  !.target = "nobody", !.single = None]
    <3>1. ReceivesAndAsks(s, w, FetchList)
      BY <2>2, <1>1 DEF DeleteCame, DroppedTarget, CandidatesType
    <3>2. left \in SUBSET People
      BY <1>1 DEF CandidatesType
    <3>. HIDE DEF left
    <3>3. /\ w \in CandidatesType /\ (w.target = "one" => w.single \in People)
          /\ w.deleting = FALSE /\ w.creating = view.creating /\ w.form = view.form
      BY <1>1, <3>2 DEF CandidatesType
    <3>. HIDE DEF w
    <3>. QED BY <3>1, <3>3
  <2>. QED BY <2>1, <2>2
<1>5. /\ view' = v /\ page' = page /\ db' = db /\ Tab' /\ Forms(db, net)'
      /\ \A t \in Slots : net'[t] = IF t = s THEN r ELSE net[t]
      /\ \A f : Spare(db, net, f) => Spare(db', net', f)
  BY <1>2, <1>3, <1>4, AnswerPut
<1>6. r.op \in {"none", "list"} /\ presses' = presses
  BY <1>2, <1>3, <1>4 DEF Receives, ReceivesAndAsks
<1>7. /\ Flag(net', v.deleting, {"delete"}) /\ Flag(net', v.creating, {"create", "photo"})
      /\ Alike(net, net', {"create", "photo"})
  <2>1. /\ Flag(net', view.creating, {"create", "photo"})
        /\ Alike(net, net', {"create", "photo"})
    BY <1>1, <1>2, <1>5, <1>6, FormFlags
  <2>2. ~Open(net', s, {"delete"})
    BY <1>5, <1>6 DEF Open
  <2>3. Flag(net', FALSE, {"delete"})
    BY <1>1, <1>2, <1>5, <2>2, FlagLowered DEF CandidatesInv
  <2>. QED BY <2>1, <2>3, <1>4
<1>8. FormIsSpare(v, db', net')
  BY <1>1, <1>4, <1>5, <1>7, SpareAlike DEF CandidatesInv
<1>9. v.form <= presses'
  BY <1>1, <1>4, <1>6 DEF CandidatesInv
<1>. QED BY <1>1, <1>4, <1>5, <1>7, <1>8, <1>9 DEF IInv, Shown, CandidatesInv

\* The form that is sent is the only one that is out, and was stored by none.
LEMMA FormSent == ASSUME IInv, HandleCreateCandidate PROVE IInv'
<1>. DEFINE r == Ask("create", {}, view.form)
            v == [view EXCEPT !.creating = TRUE]
<1>1. /\ page = "candidates" /\ CandidatesInv(view, db, net, presses) /\ Sends(r, v)
      /\ Tab /\ Forms(db, net)
      /\ view.form # 0 /\ ~view.creating /\ view \in CandidatesType
  BY DEF IInv, Shown, HandleCreateCandidate, CreateForm, OnCandidates, CandidatesInv
<1>2. view.form \in 1..presses /\ view.form \in 0..MaxPresses
  <2>1. view.form \in Nat /\ view.form <= presses
    BY <1>1 DEF CandidatesInv, CandidatesType
  <2>2. presses \in 0..MaxPresses /\ MaxPresses \in Nat
    BY <1>1, AdminTabAssumption DEF Tab
  <2>. QED BY <2>1, <2>2, <1>1
<1>3. r \in Request /\ r.op = "create" /\ r.over = view.form /\ r.home /\ r.answer = "none"
  BY <1>2 DEF Ask, Request, Writes, CandidateWrites
<1>4. /\ v \in CandidatesType /\ (v.target = "one" => v.single \in People)
      /\ v.creating = TRUE /\ v.deleting = view.deleting /\ v.form = view.form
  BY <1>1 DEF CandidatesType, CandidatesInv
<1>. PICK q, w : q = r /\ w = v
  OBVIOUS
<1>. HIDE DEF r, v
<1>5. Asks(q) /\ Sends(q, w)
  BY <1>1, <1>2, <1>3 DEF Asks, OpsOf
<1>6. PICK s \in Slots : /\ net[s] = Idle /\ Tab'
                         /\ \A t \in Slots : net'[t] = IF t = s THEN q ELSE net[t]
  BY <1>3, <1>5, SendsPut
<1>7. /\ view' = w /\ page' = page /\ db' = db /\ net[s].op = "none"
      /\ presses' \in Nat /\ presses <= presses' /\ presses \in Nat
  BY <1>1, <1>5, <1>6, SendsPut DEF Idle, Tab
<1>8. \A t \in Slots : ~Open(net, t, {"create", "photo"})
  BY <1>1, NotOpen DEF CandidatesInv
<1>9. Spare(db, net, q.over) \/ db.lost
  BY <1>1, <1>3, <1>8 DEF CandidatesInv, FormIsSpare
<1>10. Forms(db, net)'
  <2>1. db'.forms \subseteq 1..presses'
    BY <1>1, <1>7 DEF Forms
  <2>2. ASSUME ~db.lost
        PROVE  /\ ~db.twins
               /\ \A t \in Slots : Unstored(net', t) => net'[t].over \notin db.forms
               /\ \A t, u \in Slots : Unstored(net', t) /\ Unstored(net', u)
                                         /\ net'[t].over = net'[u].over => t = u
               /\ \A t \in Slots : net'[t].op = "create" => net'[t].answer # "failed"
    <3>1. ~db.twins
      BY <1>1, <2>2 DEF Forms
    <3>2. \A t \in Slots : t # s /\ Unstored(net', t)
             => Unstored(net, t) /\ net'[t].over = net[t].over /\ net[t].over # q.over
      BY <1>6, <1>9, <2>2 DEF Unstored, Spare
    <3>3. \A t \in Slots : Unstored(net', t) => net'[t].over \notin db.forms
      BY <1>1, <1>6, <1>9, <2>2, <3>2 DEF Forms, Spare
    <3>4. \A t, u \in Slots : Unstored(net', t) /\ Unstored(net', u)
                                         /\ net'[t].over = net'[u].over => t = u
      BY <1>1, <1>6, <2>2, <3>2 DEF Forms
    <3>5. ASSUME NEW t \in Slots, net'[t].op = "create" PROVE net'[t].answer # "failed"
      <4>1. CASE t = s
        BY <4>1, <1>3, <1>6
      <4>2. CASE t # s
        <5>1. net'[t] = net[t] /\ Owned(net[t])
          BY <1>1, <1>6, <4>2 DEF Tab
        <5>2. ~net[t].home
          BY <3>5, <5>1, <1>8 DEF Open
        <5>. QED BY <3>5, <5>1, <5>2 DEF Owned
      <4>. QED BY <4>1, <4>2
    <3>. QED BY <3>1, <3>3, <3>4, <3>5
  <2>. QED BY <2>1, <2>2, <1>7 DEF Forms
<1>11. Flag(net', w.deleting, {"delete"}) /\ Flag(net', w.creating, {"create", "photo"})
  <2>1. Flag(net', view.deleting, {"delete"})
    BY <1>1, <1>3, <1>6, <1>7, FormFlags
  <2>2. Open(net', s, {"create", "photo"})
    BY <1>3, <1>6 DEF Open
  <2>3. Flag(net', TRUE, {"create", "photo"})
    BY <1>6, <1>8, <2>2, FlagRaised
  <2>. QED BY <2>1, <2>3, <1>4
<1>12. FormIsSpare(w, db', net')
  <2>1. Open(net', s, {"create", "photo"}) /\ net'[s].over = w.form
    BY <1>3, <1>4, <1>6 DEF Open
  <2>. QED BY <2>1 DEF FormIsSpare
<1>13. w.form <= presses'
  BY <1>2, <1>4, <1>7
<1>. QED BY <1>1, <1>4, <1>6, <1>7, <1>10, <1>11, <1>12, <1>13 DEF IInv, Shown, CandidatesInv

\* The form is stored and the photo is sent.
LEMMA PhotoSent ==
    ASSUME IInv, OnCandidates, NEW s \in Slots, Came(s, {"create"}),
           ReceivesAndAsks(s, view, Ask("photo", {}, net[s].over))
    PROVE  IInv'
<1>. DEFINE r == Ask("photo", {}, net[s].over)
<1>1. page = "candidates" /\ CandidatesInv(view, db, net, presses) /\ Tab
  BY DEF IInv, Shown, OnCandidates
<1>2. net[s] \in Request /\ Open(net, s, {"create", "photo"}) /\ net[s].op = "create"
  BY <1>1, CameOpen DEF Open
<1>3. r \in Request /\ r.op = "photo" /\ r.over = net[s].over /\ r.home /\ r.answer = "none"
  BY <1>2 DEF Ask, Request, Writes, CandidateWrites
<1>. PICK q : q = r
  OBVIOUS
<1>. HIDE DEF r
<1>4. Asks(q) /\ ReceivesAndAsks(s, view, q)
  BY <1>1, <1>3 DEF Asks, OpsOf, r
<1>. PICK v : v = view
  OBVIOUS
<1>5. /\ view' = v /\ page' = page /\ db' = db /\ Tab' /\ Forms(db, net)'
      /\ \A t \in Slots : net'[t] = IF t = s THEN q ELSE net[t]
      /\ \A f : Spare(db, net, f) => Spare(db', net', f)
  BY <1>3, <1>4, AnswerPut
<1>6. presses' = presses
  BY DEF ReceivesAndAsks
<1>7. Flag(net', v.deleting, {"delete"}) /\ Flag(net', v.creating, {"create", "photo"})
  <2>1. Flag(net', view.deleting, {"delete"})
    BY <1>1, <1>2, <1>3, <1>5, FormFlags
  <2>2. \A t \in Slots : Open(net', t, {"create", "photo"}) <=> Open(net, t, {"create", "photo"})
    BY <1>2, <1>3, <1>5 DEF Open
  <2>3. Flag(net', view.creating, {"create", "photo"})
    BY <1>1, <2>2 DEF CandidatesInv, Flag
  <2>. QED BY <2>1, <2>3
<1>8. FormIsSpare(v, db', net')
  <2>1. \A t \in Slots : Open(net, t, {"create", "photo"})
                            => Open(net', t, {"create", "photo"}) /\ net'[t].over = net[t].over
    BY <1>2, <1>3, <1>5 DEF Open
  <2>. QED BY <1>1, <1>5, <2>1 DEF CandidatesInv, FormIsSpare
<1>. QED BY <1>1, <1>5, <1>6, <1>7, <1>8 DEF IInv, Shown, CandidatesInv

\* The form is blank again, or it was not stored and may be sent again.
LEMMA FormSettled ==
    ASSUME IInv, NEW s \in Slots, CreateAnswered(s) \/ PhotoAnswered(s)
    PROVE  IInv'
<1>1. /\ page = "candidates" /\ CandidatesInv(view, db, net, presses) /\ Tab /\ Forms(db, net)
      /\ Came(s, {"create", "photo"}) /\ OnCandidates /\ view \in CandidatesType
      /\ (view.target = "one" => view.single \in People)
  BY DEF IInv, Shown, CreateAnswered, PhotoAnswered, Came, OnCandidates, CandidatesInv
<1>2. /\ net[s] \in Request /\ Open(net, s, {"create", "photo"}) /\ Idle.op = "none"
      /\ net[s].op \in {"create", "photo"} /\ (~Ok(s) => net[s].answer = "failed")
  BY <1>1, CameOpen DEF Open, Idle
<1>3. Asks(FetchList) /\ FetchList.op = "list"
  BY <1>1, ListAsked, FetchType
<1>4. CASE Came(s, {"create"}) /\ ReceivesAndAsks(s, view, Ask("photo", {}, net[s].over))
  BY <1>1, <1>4, PhotoSent
<1>5. ASSUME NEW r, NEW v,
             (r = Idle /\ Receives(s, v)) \/ (r = FetchList /\ ReceivesAndAsks(s, v, r)),
             v \in CandidatesType, v.target = "one" => v.single \in People,
             v.deleting = view.deleting, v.creating = FALSE,
             v.form = 0 \/ (v.form = view.form /\ net[s].op = "create" /\ net[s].answer = "failed")
      PROVE  IInv'
  <2>1. /\ view' = v /\ page' = page /\ db' = db /\ Tab' /\ Forms(db, net)'
        /\ \A t \in Slots : net'[t] = IF t = s THEN r ELSE net[t]
        /\ \A f : Spare(db, net, f) => Spare(db', net', f)
    BY <1>2, <1>3, <1>5, AnswerPut
  <2>2. r.op \in {"none", "list"} /\ presses' = presses /\ presses \in Nat
    BY <1>1, <1>2, <1>3, <1>5 DEF Receives, ReceivesAndAsks, Tab
  <2>3. Flag(net', v.deleting, {"delete"}) /\ Flag(net', v.creating, {"create", "photo"})
    <3>1. Flag(net', view.deleting, {"delete"})
      BY <1>1, <1>2, <2>1, <2>2, FormFlags
    <3>2. ~Open(net', s, {"create", "photo"})
      BY <2>1, <2>2 DEF Open
    <3>3. Flag(net', FALSE, {"create", "photo"})
      BY <1>1, <1>2, <2>1, <3>2, FlagLowered DEF CandidatesInv
    <3>. QED BY <3>1, <3>3, <1>5
  <2>4. FormIsSpare(v, db', net')
    <3>1. ASSUME v.form = view.form, net[s].op = "create", net[s].answer = "failed",
                 ~db.lost, v.form # 0
          PROVE  Spare(db, net, v.form)
      <4>1. Spare(db, net, net[s].over)
        BY <1>1, <3>1 DEF Forms
      <4>2. ASSUME NEW t \in Slots, Open(net, t, {"create", "photo"}), net[t].over = view.form
            PROVE  Spare(db, net, view.form)
        <5>1. t = s
          BY <1>1, <1>2, <4>2 DEF CandidatesInv, Flag
        <5>. QED BY <5>1, <4>1, <4>2
      <4>. QED BY <1>1, <3>1, <4>2 DEF CandidatesInv, FormIsSpare
    <3>. QED BY <3>1, <1>5, <2>1 DEF FormIsSpare
  <2>5. v.form <= presses'
    BY <1>1, <1>5, <2>2 DEF CandidatesInv
  <2>. QED BY <1>1, <1>5, <2>1, <2>3, <2>4, <2>5 DEF IInv, Shown, CandidatesInv
<1>6. CASE CreateAnswered(s) /\ ~Ok(s)
  <2>. DEFINE v == [view EXCEPT !.creating = FALSE]
  <2>1. net[s].op = "create" /\ Receives(s, v)
    BY <1>6 DEF CreateAnswered, Came, FormAfter
  <2>2. /\ v \in CandidatesType /\ (v.target = "one" => v.single \in People)
        /\ v.deleting = view.deleting /\ v.creating = FALSE /\ v.form = view.form
    BY <1>1 DEF CandidatesType
  <2>. HIDE DEF v
  <2>. QED BY <1>2, <1>5, <1>6, <2>1, <2>2
<1>7. CASE ReceivesAndAsks(s, [FormAfter(s) EXCEPT !.loading = TRUE], FetchList)
              /\ (Ok(s) \/ net[s].op = "photo")
  <2>. DEFINE v == [view EXCEPT !.creating = FALSE, !.showForm = FALSE, !.form = 0,
                                !.loading = TRUE]
  <2>1. ReceivesAndAsks(s, v, FetchList)
    BY <1>7 DEF FormAfter
  <2>2. /\ v \in CandidatesType /\ (v.target = "one" => v.single \in People)
        /\ v.deleting = view.deleting /\ v.creating = FALSE /\ v.form = 0
    BY <1>1 DEF CandidatesType
  <2>. HIDE DEF v
  <2>. QED BY <1>5, <2>1, <2>2
<1>. QED BY <1>4, <1>6, <1>7 DEF CreateAnswered, PhotoAnswered, Came

LEMMA CandidatesSteps == ASSUME IInv, CandidatesNext PROVE IInv'
BY CandidatesPresses, FilledIn, CandidatesLists, CandidatesDeleteSent, CandidatesDeleteCame,
   FormSent, FormSettled DEF CandidatesNext

-----------------------------------------------------------------------------
(* The applicants.                                                         *)

\* Two states of the page with the same window, and a reason that is in order.
SameWindow(v, w) ==
    /\ w \in VerificationsType /\ w.acting = v.acting /\ w.selected = v.selected
    /\ w.dataOf = v.dataOf /\ w.stray = v.stray /\ w.overtaken = v.overtaken
    /\ w.reasonOf \in {None, w.reject} \/ w.kept

LEMMA VerificationsRearranged ==
    ASSUME IInv, OnVerifications, NEW w, Rearranged(w), SameWindow(view, w)
    PROVE  IInv'
<1>1. VerificationsInv(view, net) /\ page = "verifications"
  BY DEF IInv, Shown, OnVerifications
<1>2. view' = w /\ page' = page /\ net' = net /\ Tab' /\ Forms(db, net)'
  BY RearrangedKeeps
<1>3. VerificationsInv(w, net)
  <2>1. WindowIsOf(w, net)
    BY <1>1 DEF VerificationsInv, WindowIsOf, SameWindow
  <2>. QED BY <1>1, <2>1 DEF VerificationsInv, SameWindow
<1>. QED BY <1>1, <1>2, <1>3 DEF IInv, Shown

LEMMA VerificationsPresses ==
    ASSUME IInv, CloseWindow \/ TypeReason \/ CancelReject \/ \E p \in People : OpenReject(p)
    PROVE  IInv'
<1>1. OnVerifications
  BY DEF CloseWindow, TypeReason, CancelReject, OpenReject, Window, RejectForm, Applicants,
         QueueUncovered
<1>2. /\ view \in VerificationsType /\ page = "verifications" /\ VerificationsInv(view, net)
      /\ view.reasonOf \in {None, view.reject} \/ view.kept
  BY <1>1 DEF IInv, Shown, OnVerifications, VerificationsInv
<1>3. CASE CloseWindow
  <2>. DEFINE w == WindowClosed(view)
  <2>1. Rearranged(w)
    BY <1>3 DEF CloseWindow
  <2>2. /\ w \in VerificationsType /\ w.acting = view.acting /\ w.selected = None
        /\ w.dataOf = None /\ w.reasonOf = view.reasonOf /\ w.reject = view.reject
        /\ w.kept = view.kept
    BY <1>2 DEF WindowClosed, VerificationsType
  <2>. HIDE DEF w
  <2>3. view' = w /\ page' = page /\ net' = net /\ Tab' /\ Forms(db, net)'
    BY <2>1, RearrangedKeeps
  <2>4. VerificationsInv(w, net)
    BY <1>2, <2>2 DEF VerificationsInv, WindowIsOf
  <2>. QED BY <1>2, <2>3, <2>4 DEF IInv, Shown
<1>4. CASE TypeReason
  <2>1. Rearranged([view EXCEPT !.reasonOf = view.reject, !.kept = FALSE])
    BY <1>4 DEF TypeReason
  <2>2. SameWindow(view, [view EXCEPT !.reasonOf = view.reject, !.kept = FALSE])
    BY <1>2 DEF SameWindow, VerificationsType
  <2>. QED BY <2>1, <2>2, <1>1, VerificationsRearranged
<1>5. CASE CancelReject
  <2>1. Rearranged([view EXCEPT !.reject = None, !.kept = view.reasonOf # None])
    BY <1>5 DEF CancelReject
  <2>2. SameWindow(view, [view EXCEPT !.reject = None, !.kept = view.reasonOf # None])
    BY <1>2 DEF SameWindow, VerificationsType
  <2>. QED BY <2>1, <2>2, <1>1, VerificationsRearranged
<1>6. ASSUME NEW p \in People, OpenReject(p) PROVE IInv'
  <2>1. Rearranged([view EXCEPT !.reject = p])
    BY <1>6 DEF OpenReject
  <2>2. view.reject = None
    BY <1>6 DEF OpenReject, Applicants, QueueUncovered, Window
  <2>3. SameWindow(view, [view EXCEPT !.reject = p])
    BY <1>2, <2>2 DEF SameWindow, VerificationsType
  <2>. QED BY <2>1, <2>3, <1>1, VerificationsRearranged
<1>. QED BY <1>3, <1>4, <1>5, <1>6

\* The window is still about its applicant when what was sent is about that
\* applicant or about none.
LEMMA WindowPut ==
    ASSUME NEW v, NEW w, NEW n, NEW m, NEW s \in Slots, NEW r, WindowIsOf(v, n),
           \A t \in Slots : m[t] = IF t = s THEN r ELSE n[t], r.op # "detail",
           w.selected = v.selected, w.overtaken = v.overtaken, w.dataOf = v.dataOf,
           w.stray = v.stray
    PROVE  WindowIsOf(w, m)
<1>1. \A t \in Slots : Open(m, t, {"detail"}) => Open(n, t, {"detail"}) /\ m[t].who = n[t].who
  BY DEF Open
<1>. QED BY <1>1 DEF WindowIsOf

\* The flag a slot has no part in.
LEMMA ActingKept ==
    ASSUME NEW v, NEW n, NEW m, NEW s \in Slots, NEW r, VerificationsInv(v, n),
           n[s].op \notin {"approve", "reject"}, r.op \notin {"approve", "reject"},
           \A t \in Slots : m[t] = IF t = s THEN r ELSE n[t]
    PROVE  Flag(m, v.acting, {"approve", "reject"})
<1>1. ASSUME NEW ops, NEW held \in BOOLEAN, n[s].op \notin ops, r.op \notin ops, Flag(n, held, ops)
      PROVE  Flag(m, held, ops)
  BY <1>1, FlagAside
<1>2. v.acting \in BOOLEAN /\ Flag(n, v.acting, {"approve", "reject"})
  BY DEF VerificationsInv, VerificationsType
<1>. QED BY <1>1, <1>2

LEMMA VerificationsLists ==
    ASSUME IInv, FetchVerifications \/ \E s \in Slots : QueueAnswered(s)
    PROVE  IInv'
<1>1. OnVerifications /\ Tab /\ Forms(db, net)
  BY DEF IInv, FetchVerifications, QueueAnswered, QueueUncovered
<1>2. view \in VerificationsType /\ page = "verifications" /\ VerificationsInv(view, net)
  BY <1>1 DEF IInv, Shown, OnVerifications, VerificationsInv
<1>3. Asks(FetchList) /\ FetchList.op = "list"
  BY <1>2, ListAsked, FetchType
<1>4. ASSUME NEW s \in Slots, net[s].op \in {"none", "list"}, NEW r, r.op \in {"none", "list"},
             SameWindow(view, view'), page' = page, Tab', Forms(db, net)',
             \A t \in Slots : net'[t] = IF t = s THEN r ELSE net[t]
      PROVE  IInv'
  <2>1. Flag(net', view.acting, {"approve", "reject"})
    <3>1. net[s].op \notin {"approve", "reject"} /\ r.op \notin {"approve", "reject"}
      BY <1>4
    <3>. QED BY <1>2, <1>4, <3>1, ActingKept
  <2>2. WindowIsOf(view', net')
    BY <1>2, <1>4, WindowPut DEF VerificationsInv, SameWindow
  <2>3. VerificationsInv(view', net')
    BY <1>4, <2>1, <2>2 DEF VerificationsInv, SameWindow
  <2>. QED BY <1>2, <1>4, <2>3 DEF IInv, Shown
<1>5. CASE FetchVerifications
  <2>1. Sends(FetchList, [view EXCEPT !.loading = TRUE])
    BY <1>5 DEF FetchVerifications
  <2>2. view' = [view EXCEPT !.loading = TRUE]
    BY <2>1 DEF Sends
  <2>3. SameWindow(view, view')
    BY <2>2, <1>2 DEF SameWindow, VerificationsType, VerificationsInv
  <2>4. PICK s \in Slots :
           /\ net[s] = Idle /\ Tab' /\ \A t \in Slots : net'[t] = IF t = s THEN FetchList ELSE net[t]
           /\ Forms(db, net)'
    BY <2>1, <1>3, SendsPut
  <2>5. page' = page /\ net[s].op = "none"
    BY <2>1, <2>4 DEF Sends, Idle
  <2>. QED BY <2>3, <2>4, <2>5, <1>3, <1>4
<1>6. ASSUME NEW s \in Slots, QueueAnswered(s) PROVE IInv'
  <2>. DEFINE rows == IF Ok(s) THEN net[s].rows ELSE view.rows
              w == [view EXCEPT !.loading = FALSE, !.rows = rows]
  <2>1. Came(s, {"list"}) /\ Receives(s, w)
    BY <1>6, <1>2 DEF QueueAnswered, VerificationsType
  <2>2. net[s] \in Request /\ net[s].op = "list"
    BY <2>1, <1>1, CameOpen DEF Open
  <2>3. rows \in SUBSET People
    BY <2>2, <1>2 DEF Request, VerificationsType
  <2>. HIDE DEF rows
  <2>4. SameWindow(view, w)
    BY <2>3, <1>2 DEF SameWindow, VerificationsType, VerificationsInv
  <2>. HIDE DEF w
  <2>5. /\ view' = w /\ page' = page /\ Tab' /\ Forms(db, net)'
        /\ \A t \in Slots : net'[t] = IF t = s THEN Idle ELSE net[t]
    BY <2>1, AnswerPut
  <2>6. Idle.op = "none"
    BY DEF Idle
  <2>. QED BY <2>2, <2>4, <2>5, <2>6, <1>4
<1>. QED BY <1>5, <1>6

LEMMA WindowOpened == ASSUME IInv, NEW p \in People, HandleOpenDetail(p) PROVE IInv'
<1>. DEFINE r == Ask("detail", {p}, None)
            v == [view EXCEPT !.selected = p, !.loadingDetail = TRUE,
                              !.overtaken = view.stray \/ Out({"detail"}) # {}]
<1>1. /\ page = "verifications" /\ VerificationsInv(view, net) /\ Tab /\ Sends(r, v)
      /\ view.selected = None /\ view \in VerificationsType
  BY DEF IInv, Shown, HandleOpenDetail, Applicants, QueueUncovered, OnVerifications,
         VerificationsInv
<1>2. r \in Request /\ r.op = "detail" /\ r.who = {p} /\ r.home /\ r.answer = "none"
  BY DEF Ask, Request, Reads
<1>3. /\ v \in VerificationsType /\ v.acting = view.acting /\ v.selected = p
      /\ v.dataOf = view.dataOf /\ v.stray = view.stray /\ v.reject = view.reject
      /\ v.reasonOf = view.reasonOf /\ v.kept = view.kept
      /\ v.overtaken = (view.stray \/ Out({"detail"}) # {})
  BY <1>1 DEF VerificationsType
<1>. PICK q, w : q = r /\ w = v
  OBVIOUS
<1>. HIDE DEF r, v
<1>4. Asks(q) /\ Sends(q, w)
  BY <1>1, <1>2 DEF Asks, OpsOf
<1>5. PICK s \in Slots : /\ net[s] = Idle /\ Tab' /\ Forms(db, net)'
                         /\ \A t \in Slots : net'[t] = IF t = s THEN q ELSE net[t]
  BY <1>2, <1>4, SendsPut
<1>6. view' = w /\ page' = page /\ net[s].op = "none"
  BY <1>4, <1>5 DEF Sends, Idle
<1>7. Flag(net', w.acting, {"approve", "reject"})
  <2>1. net[s].op \notin {"approve", "reject"} /\ q.op \notin {"approve", "reject"}
    BY <1>2, <1>6
  <2>2. Flag(net', view.acting, {"approve", "reject"})
    BY <1>1, <1>5, <2>1, ActingKept
  <2>. QED BY <2>2, <1>3
<1>8. WindowIsOf(w, net')
  <2>1. ~view.stray => view.dataOf = None
    BY <1>1 DEF VerificationsInv, WindowIsOf
  <2>2. ASSUME ~w.overtaken
        PROVE  ~w.stray /\ \A t \in Slots : Open(net', t, {"detail"}) => net'[t].who = {p}
    <3>1. ~view.stray /\ \A t \in Slots : ~Open(net, t, {"detail"})
      BY <2>2, <1>1, <1>3 DEF Out, Pending, Open, Tab
    <3>2. \A t \in Slots : t # s => ~Open(net', t, {"detail"})
      BY <3>1, <1>5 DEF Open
    <3>3. net'[s].who = {p}
      BY <1>2, <1>5
    <3>. QED BY <3>1, <3>2, <3>3, <1>3
  <2>. QED BY <2>1, <2>2, <1>3 DEF WindowIsOf
<1>. QED BY <1>1, <1>3, <1>5, <1>6, <1>7, <1>8 DEF IInv, Shown, VerificationsInv

LEMMA WindowCame == ASSUME IInv, NEW s \in Slots, DetailAnswered(s) PROVE IInv'
<1>1. /\ page = "verifications" /\ VerificationsInv(view, net) /\ Tab /\ Came(s, {"detail"})
      /\ view \in VerificationsType
  BY DEF IInv, Shown, DetailAnswered, OnVerifications, VerificationsInv
<1>2. net[s] \in Request /\ Open(net, s, {"detail"}) /\ net[s].op = "detail" /\ Idle.op = "none"
  BY <1>1, CameOpen DEF Open, Idle
<1>3. PICK p \in net[s].who :
        Receives(s, [view EXCEPT !.loadingDetail = FALSE, !.dataOf = IF Ok(s) THEN p ELSE @,
                                 !.stray = IF Ok(s) THEN p # view.selected ELSE @])
  BY DEF DetailAnswered
<1>4. p \in People
  BY <1>2 DEF Request
<1>5. PICK v :
        /\ Receives(s, v) /\ v \in VerificationsType /\ v.acting = view.acting
        /\ v.selected = view.selected /\ v.overtaken = view.overtaken
        /\ v.reject = view.reject /\ v.reasonOf = view.reasonOf /\ v.kept = view.kept
        /\ \/ v.dataOf = p /\ v.stray = (p # view.selected)
           \/ v.dataOf = view.dataOf /\ v.stray = view.stray
  <2>1. CASE Ok(s)
    <3>. DEFINE v == [view EXCEPT !.loadingDetail = FALSE, !.dataOf = p,
                                  !.stray = p # view.selected]
    <3>1. Receives(s, v)
      BY <1>3, <2>1
    <3>2. /\ v \in VerificationsType /\ v.acting = view.acting
          /\ v.selected = view.selected /\ v.overtaken = view.overtaken
          /\ v.reject = view.reject /\ v.reasonOf = view.reasonOf /\ v.kept = view.kept
          /\ v.dataOf = p /\ v.stray = (p # view.selected)
      BY <1>1, <1>4 DEF VerificationsType
    <3>. HIDE DEF v
    <3>. QED BY <3>1, <3>2
  <2>2. CASE ~Ok(s)
    <3>. DEFINE v == [view EXCEPT !.loadingDetail = FALSE, !.dataOf = view.dataOf,
                                  !.stray = view.stray]
    <3>1. Receives(s, v)
      BY <1>1, <1>3, <2>2 DEF VerificationsType
    <3>2. /\ v \in VerificationsType /\ v.acting = view.acting
          /\ v.selected = view.selected /\ v.overtaken = view.overtaken
          /\ v.reject = view.reject /\ v.reasonOf = view.reasonOf /\ v.kept = view.kept
          /\ v.dataOf = view.dataOf /\ v.stray = view.stray
      BY <1>1 DEF VerificationsType
    <3>. HIDE DEF v
    <3>. QED BY <3>1, <3>2
  <2>. QED BY <2>1, <2>2
<1>6. /\ view' = v /\ page' = page /\ Tab' /\ Forms(db, net)'
      /\ \A t \in Slots : net'[t] = IF t = s THEN Idle ELSE net[t]
  BY <1>5, AnswerPut
<1>7. Flag(net', v.acting, {"approve", "reject"})
  <2>1. net[s].op \notin {"approve", "reject"} /\ Idle.op \notin {"approve", "reject"}
    BY <1>2
  <2>2. Flag(net', view.acting, {"approve", "reject"})
    <3>1. VerificationsInv(view, net)
      BY <1>1
    <3>. QED BY <3>1, <1>6, <2>1, ActingKept
  <2>. QED BY <2>2, <1>5
<1>8. WindowIsOf(v, net')
  <2>1. \A t \in Slots : Open(net', t, {"detail"}) => Open(net, t, {"detail"}) /\ net'[t].who = net[t].who
    BY <1>2, <1>6 DEF Open
  <2>2. ~v.stray => v.dataOf \in {v.selected, None}
    BY <1>1, <1>5 DEF VerificationsInv, WindowIsOf
  <2>3. ASSUME v.selected # None, ~v.overtaken
        PROVE  ~v.stray /\ \A t \in Slots : Open(net', t, {"detail"}) => net'[t].who = {v.selected}
    <3>1. ~view.stray /\ \A t \in Slots : Open(net, t, {"detail"}) => net[t].who = {view.selected}
      BY <2>3, <1>1, <1>5 DEF VerificationsInv, WindowIsOf
    <3>2. p = view.selected
      BY <3>1, <1>2, <1>3
    <3>. QED BY <3>1, <3>2, <2>1, <1>5
  <2>. QED BY <2>2, <2>3 DEF WindowIsOf
<1>. QED BY <1>1, <1>5, <1>6, <1>7, <1>8 DEF IInv, Shown, VerificationsInv

LEMMA DecisionSent ==
    ASSUME IInv, HandleRejectSubmit \/ \E p \in People : HandleApprove(p)
    PROVE  IInv'
<1>. DEFINE v == [view EXCEPT !.acting = TRUE]
<1>1. /\ page = "verifications" /\ VerificationsInv(view, net) /\ Tab /\ ~view.acting
      /\ view \in VerificationsType /\ WindowIsOf(view, net)
  BY DEF IInv, Shown, HandleRejectSubmit, HandleApprove, Applicants, QueueUncovered, Window,
         RejectForm, OnVerifications, VerificationsInv
<1>2. PICK q : q \in Request /\ q.op \in {"approve", "reject"} /\ q.home /\ q.answer = "none"
               /\ Sends(q, v)
  <2>1. CASE HandleRejectSubmit
    <3>1. {view.reject} \in SUBSET People /\ view.selected \in People \cup {None}
      BY <1>1, <2>1 DEF HandleRejectSubmit, RejectForm, VerificationsType
    <3>2. /\ Ask("reject", {view.reject}, view.selected) \in Request
          /\ Ask("reject", {view.reject}, view.selected).op = "reject"
          /\ Ask("reject", {view.reject}, view.selected).home
          /\ Ask("reject", {view.reject}, view.selected).answer = "none"
      BY <3>1 DEF Ask, Request, Writes, Decisions
    <3>. QED BY <3>2, <2>1 DEF HandleRejectSubmit
  <2>2. ASSUME NEW p \in People, HandleApprove(p)
        PROVE  \E q : q \in Request /\ q.op \in {"approve", "reject"} /\ q.home
                         /\ q.answer = "none" /\ Sends(q, v)
    <3>1. view.selected \in People \cup {None}
      BY <1>1 DEF VerificationsType
    <3>2. /\ Ask("approve", {p}, view.selected) \in Request
          /\ Ask("approve", {p}, view.selected).op = "approve"
          /\ Ask("approve", {p}, view.selected).home
          /\ Ask("approve", {p}, view.selected).answer = "none"
      BY <3>1 DEF Ask, Request, Writes, Decisions
    <3>. QED BY <3>2, <2>2 DEF HandleApprove
  <2>. QED BY <2>1, <2>2
<1>3. /\ v \in VerificationsType /\ v.acting = TRUE /\ v.selected = view.selected
      /\ v.dataOf = view.dataOf /\ v.stray = view.stray /\ v.overtaken = view.overtaken
      /\ v.reject = view.reject /\ v.reasonOf = view.reasonOf /\ v.kept = view.kept
  BY <1>1 DEF VerificationsType
<1>. PICK w : w = v
  OBVIOUS
<1>. HIDE DEF v
<1>4. Asks(q)
  BY <1>1, <1>2 DEF Asks, OpsOf
<1>5. PICK s \in Slots : /\ net[s] = Idle /\ Tab' /\ Forms(db, net)'
                         /\ \A t \in Slots : net'[t] = IF t = s THEN q ELSE net[t]
  BY <1>2, <1>4, SendsPut
<1>6. view' = w /\ page' = page
  BY <1>2 DEF Sends
<1>7. Flag(net', w.acting, {"approve", "reject"})
  <2>1. \A t \in Slots : ~Open(net, t, {"approve", "reject"})
    BY <1>1, NotOpen DEF VerificationsInv
  <2>2. Open(net', s, {"approve", "reject"})
    BY <1>2, <1>5 DEF Open
  <2>3. Flag(net', TRUE, {"approve", "reject"})
    BY <1>5, <2>1, <2>2, FlagRaised
  <2>. QED BY <2>3, <1>3
<1>8. WindowIsOf(w, net')
  BY <1>1, <1>2, <1>3, <1>5, WindowPut
<1>. QED BY <1>1, <1>3, <1>5, <1>6, <1>7, <1>8 DEF IInv, Shown, VerificationsInv

LEMMA DecisionCame == ASSUME IInv, NEW s \in Slots, DecisionAnswered(s) PROVE IInv'
<1>1. /\ page = "verifications" /\ VerificationsInv(view, net) /\ Tab /\ Came(s, Decisions)
      /\ view \in VerificationsType /\ WindowIsOf(view, net)
      /\ view.reasonOf \in {None, view.reject} \/ view.kept
  BY DEF IInv, Shown, DecisionAnswered, OnVerifications, VerificationsInv
<1>2. /\ net[s] \in Request /\ Open(net, s, {"approve", "reject"})
      /\ net[s].op \in {"approve", "reject"} /\ Idle.op = "none"
  BY <1>1, CameOpen DEF Open, Idle, Decisions
<1>3. Asks(FetchList) /\ FetchList.op = "list"
  BY <1>1, ListAsked, FetchType
<1>. DEFINE settled == [view EXCEPT !.acting = FALSE]
            formed == IF net[s].op = "reject" THEN FormEmptied(settled) ELSE settled
            closed == IF net[s].over \in net[s].who THEN WindowClosed(formed) ELSE formed
            fetching == [closed EXCEPT !.loading = TRUE]
<1>4. (Receives(s, settled)) \/ ReceivesAndAsks(s, fetching, FetchList)
  BY DEF DecisionAnswered
<1>5. /\ settled \in VerificationsType /\ settled.acting = FALSE
      /\ settled.selected = view.selected /\ settled.dataOf = view.dataOf
      /\ settled.stray = view.stray /\ settled.overtaken = view.overtaken
      /\ settled.reasonOf = view.reasonOf /\ settled.reject = view.reject
      /\ settled.kept = view.kept
  BY <1>1 DEF VerificationsType
<1>. HIDE DEF settled
<1>6. /\ formed \in VerificationsType /\ formed.acting = FALSE
      /\ formed.selected = view.selected /\ formed.dataOf = view.dataOf
      /\ formed.stray = view.stray /\ formed.overtaken = view.overtaken
      /\ formed.reasonOf \in {None, formed.reject} \/ formed.kept
  <2>1. /\ FormEmptied(settled) \in VerificationsType /\ FormEmptied(settled).acting = FALSE
        /\ FormEmptied(settled).selected = view.selected
        /\ FormEmptied(settled).dataOf = view.dataOf
        /\ FormEmptied(settled).stray = view.stray
        /\ FormEmptied(settled).overtaken = view.overtaken
        /\ FormEmptied(settled).reasonOf = None
    BY <1>5 DEF VerificationsType, FormEmptied
  <2>2. formed = FormEmptied(settled) \/ formed = settled
    OBVIOUS
  <2>. HIDE DEF formed
  <2>3. CASE formed = settled
    BY <2>3, <1>1, <1>5
  <2>4. CASE formed = FormEmptied(settled)
    BY <2>1, <2>4
  <2>. QED BY <2>2, <2>3, <2>4
<1>. HIDE DEF formed
<1>7. /\ closed \in VerificationsType /\ closed.acting = FALSE
      /\ closed.reasonOf \in {None, closed.reject} \/ closed.kept
      /\ closed.overtaken = view.overtaken
      /\ \/ closed.selected = view.selected /\ closed.dataOf = view.dataOf
               /\ closed.stray = view.stray
         \/ closed.selected = None /\ closed.dataOf = None
  BY <1>6 DEF VerificationsType, WindowClosed
<1>. HIDE DEF closed
<1>8. /\ fetching \in VerificationsType /\ fetching.acting = FALSE
      /\ fetching.reasonOf \in {None, fetching.reject} \/ fetching.kept
      /\ fetching.overtaken = view.overtaken
      /\ \/ fetching.selected = view.selected /\ fetching.dataOf = view.dataOf
               /\ fetching.stray = view.stray
         \/ fetching.selected = None /\ fetching.dataOf = None
  BY <1>7 DEF VerificationsType
<1>. HIDE DEF fetching
<1>9. PICK r, v :
        /\ (r = Idle /\ Receives(s, v)) \/ (r = FetchList /\ ReceivesAndAsks(s, v, r))
        /\ v \in VerificationsType /\ v.acting = FALSE
        /\ v.reasonOf \in {None, v.reject} \/ v.kept
        /\ v.overtaken = view.overtaken
        /\ \/ v.selected = view.selected /\ v.dataOf = view.dataOf /\ v.stray = view.stray
           \/ v.selected = None /\ v.dataOf = None
  BY <1>1, <1>4, <1>5, <1>8
<1>10. /\ view' = v /\ page' = page /\ Tab' /\ Forms(db, net)'
       /\ \A t \in Slots : net'[t] = IF t = s THEN r ELSE net[t]
  BY <1>2, <1>3, <1>9, AnswerPut
<1>11. r.op \in {"none", "list"}
  BY <1>2, <1>3, <1>9
<1>12. Flag(net', v.acting, {"approve", "reject"})
  <2>1. ~Open(net', s, {"approve", "reject"})
    BY <1>10, <1>11 DEF Open
  <2>2. Flag(net', FALSE, {"approve", "reject"})
    BY <1>1, <1>2, <1>10, <2>1, FlagLowered DEF VerificationsInv
  <2>. QED BY <2>2, <1>9
<1>13. WindowIsOf(v, net')
  <2>1. CASE v.selected = view.selected /\ v.dataOf = view.dataOf /\ v.stray = view.stray
    BY <1>1, <1>9, <1>10, <1>11, <2>1, WindowPut
  <2>2. CASE v.selected = None /\ v.dataOf = None
    BY <2>2 DEF WindowIsOf
  <2>. QED BY <1>9, <2>1, <2>2
<1>. QED BY <1>1, <1>9, <1>10, <1>12, <1>13 DEF IInv, Shown, VerificationsInv

LEMMA VerificationsSteps == ASSUME IInv, VerificationsNext PROVE IInv'
BY VerificationsPresses, VerificationsLists, WindowOpened, WindowCame, DecisionSent, DecisionCame
   DEF VerificationsNext

-----------------------------------------------------------------------------
(* One candidate.                                                          *)

\* A request is sent while the flag it needs is down, or needs none.
Turns(r, held, new, ops) ==
    \/ r.op \notin ops /\ new = held
    \/ r.op \in ops /\ ~held /\ new = TRUE

LEMMA SentFlag ==
    ASSUME NEW n, NEW m, NEW s \in Slots, NEW r, NEW ops, n[s].op = "none", "none" \notin ops,
           \A t \in Slots : m[t] = IF t = s THEN r ELSE n[t], r.home,
           NEW held \in BOOLEAN, NEW new \in BOOLEAN, Flag(n, held, ops),
           Turns(r, held, new, ops)
    PROVE  Flag(m, new, ops)
<1>1. CASE r.op \notin ops /\ new = held
  <2>1. n[s].op \notin ops /\ r.op \notin ops
    BY <1>1
  <2>2. Flag(m, held, ops)
    BY <2>1, FlagAside
  <2>. QED BY <2>2, <1>1
<1>2. CASE r.op \in ops /\ ~held /\ new = TRUE
  <2>1. \A t \in Slots : ~Open(n, t, ops)
    BY <1>2, NotOpen
  <2>2. Open(m, s, ops)
    BY <1>2 DEF Open
  <2>3. Flag(m, TRUE, ops)
    BY <2>1, <2>2, FlagRaised
  <2>. QED BY <2>3, <1>2
<1>. QED BY <1>1, <1>2 DEF Turns

\* A handler takes back its own flag.
Releases(op, held, new, ops) == IF op \in ops THEN new = FALSE ELSE new = held

LEMMA ReleasedFlag ==
    ASSUME NEW n, NEW m, NEW s \in Slots, NEW r, NEW ops, n[s].home, r.op \notin ops,
           \A t \in Slots : m[t] = IF t = s THEN r ELSE n[t],
           NEW held \in BOOLEAN, NEW new \in BOOLEAN, Flag(n, held, ops),
           Releases(n[s].op, held, new, ops)
    PROVE  Flag(m, new, ops)
<1>1. CASE n[s].op \notin ops
  <2>1. new = held
    BY <1>1 DEF Releases
  <2>2. Flag(m, held, ops)
    BY <1>1, FlagAside
  <2>. QED BY <2>1, <2>2
<1>2. CASE n[s].op \in ops
  <2>1. Open(n, s, ops) /\ ~Open(m, s, ops)
    BY <1>2 DEF Open
  <2>2. Flag(m, FALSE, ops)
    BY <2>1, FlagLowered
  <2>3. new = FALSE
    BY <1>2 DEF Releases
  <2>. QED BY <2>2, <2>3
<1>. QED BY <1>1, <1>2

PubOps == {"publish", "unpublish", "settings"}

\* Two states of the page that show the same candidate.
SameCandidate(v, w) ==
    /\ w \in CandidateType /\ (w.got => w.verdict \in Verdicts)
    /\ w.status = v.status /\ w.public = v.public /\ w.overtaken = v.overtaken

LEMMA CandidateRearranged ==
    ASSUME IInv, OnCandidate, NEW w, Rearranged(w), SameCandidate(view, w), w.behind = view.behind,
           w.verifying = view.verifying, w.uploading = view.uploading,
           w.savingPub = view.savingPub
    PROVE  IInv'
<1>1. CandidateInv(view, db, net) /\ page = "candidate"
  BY DEF IInv, Shown, OnCandidate
<1>2. view' = w /\ page' = page /\ net' = net /\ db' = db /\ Tab' /\ Forms(db, net)'
  BY RearrangedKeeps
<1>3. CandidateInv(w, db, net)
  <2>1. Shows(view, db, net) => Shows(w, db, net)
    BY DEF Shows, SameCandidate
  <2>2. /\ Flag(net, w.verifying, {"verify"}) /\ Flag(net, w.uploading, {"photo"})
        /\ Flag(net, w.savingPub, {"publish", "unpublish", "settings"})
    BY <1>1 DEF CandidateInv
  <2>. QED BY <1>1, <2>1, <2>2 DEF CandidateInv, SameCandidate
<1>. QED BY <1>1, <1>2, <1>3 DEF IInv, Shown

LEMMA CandidatePresses ==
    ASSUME IInv, \/ OpenEditModal \/ CloseEditModal \/ OpenDocument \/ CloseDocument
                 \/ \E st \in Verdicts : ChooseVerdict(st)
    PROVE  IInv'
<1>1. OnCandidate
  BY DEF OpenEditModal, CloseEditModal, OpenDocument, CloseDocument, ChooseVerdict, Panels,
         EditModal, DocumentWindow, Drawn
<1>2. view \in CandidateType /\ (view.got => view.verdict \in Verdicts)
  BY <1>1 DEF IInv, Shown, OnCandidate, CandidateInv
<1>3. ASSUME NEW b \in BOOLEAN, Rearranged([view EXCEPT !.editing = b]) PROVE IInv'
  <2>. DEFINE w == [view EXCEPT !.editing = b]
  <2>1. /\ SameCandidate(view, w) /\ w.behind = view.behind /\ w.verifying = view.verifying
        /\ w.uploading = view.uploading /\ w.savingPub = view.savingPub
    BY <1>2 DEF SameCandidate, CandidateType
  <2>. QED BY <1>1, <1>3, <2>1, CandidateRearranged
<1>4. ASSUME NEW b \in BOOLEAN, Rearranged([view EXCEPT !.review = b]) PROVE IInv'
  <2>. DEFINE w == [view EXCEPT !.review = b]
  <2>1. /\ SameCandidate(view, w) /\ w.behind = view.behind /\ w.verifying = view.verifying
        /\ w.uploading = view.uploading /\ w.savingPub = view.savingPub
    BY <1>2 DEF SameCandidate, CandidateType
  <2>. QED BY <1>1, <1>4, <2>1, CandidateRearranged
<1>5. ASSUME NEW st \in Verdicts, Rearranged([view EXCEPT !.verdict = st]) PROVE IInv'
  <2>. DEFINE w == [view EXCEPT !.verdict = st]
  <2>1. /\ SameCandidate(view, w) /\ w.behind = view.behind /\ w.verifying = view.verifying
        /\ w.uploading = view.uploading /\ w.savingPub = view.savingPub
    BY <1>2 DEF SameCandidate, CandidateType
  <2>. QED BY <1>1, <1>5, <2>1, CandidateRearranged
<1>. QED BY <1>3, <1>4, <1>5 DEF OpenEditModal, CloseEditModal, OpenDocument, CloseDocument,
                                 ChooseVerdict

\* What is sent mends nothing unless it is a fetch, and breaks nothing.
LEMMA CandidateSent ==
    ASSUME IInv, OnCandidate, NEW r, NEW w, Sends(r, w), Asks(r), r.op # "create",
           SameCandidate(view, w),
           \/ r.op # "candidate" /\ w.behind = view.behind
           \/ r.op = "candidate" /\ ~w.behind,
           Turns(r, view.verifying, w.verifying, {"verify"}),
           Turns(r, view.uploading, w.uploading, {"photo"}),
           Turns(r, view.savingPub, w.savingPub, PubOps)
    PROVE  IInv'
<1>1. CandidateInv(view, db, net) /\ page = "candidate" /\ Tab
  BY DEF IInv, Shown, OnCandidate
<1>2. PICK s \in Slots : /\ net[s] = Idle /\ Tab' /\ Forms(db, net)'
                         /\ \A t \in Slots : net'[t] = IF t = s THEN r ELSE net[t]
  BY SendsPut
<1>3. view' = w /\ page' = page /\ db' = db /\ net[s].op = "none"
  BY <1>2 DEF Sends, Idle
<1>4. r.home /\ r.answer = "none"
  BY DEF Asks
<1>5. ASSUME NEW ops, "none" \notin ops, NEW held \in BOOLEAN, NEW new \in BOOLEAN,
             Flag(net, held, ops), Turns(r, held, new, ops)
      PROVE  Flag(net', new, ops)
  BY <1>2, <1>3, <1>4, <1>5, SentFlag
<1>6. Flag(net', w.verifying, {"verify"})
  <2>1. Flag(net, view.verifying, {"verify"}) /\ view.verifying \in BOOLEAN /\ w.verifying \in BOOLEAN
    BY <1>1 DEF CandidateInv, CandidateType, SameCandidate
  <2>. QED BY <2>1, <1>5
<1>7. Flag(net', w.uploading, {"photo"})
  <2>1. Flag(net, view.uploading, {"photo"}) /\ view.uploading \in BOOLEAN /\ w.uploading \in BOOLEAN
    BY <1>1 DEF CandidateInv, CandidateType, SameCandidate
  <2>. QED BY <2>1, <1>5
<1>8. Flag(net', w.savingPub, PubOps)
  <2>1. Flag(net, view.savingPub, PubOps) /\ view.savingPub \in BOOLEAN /\ w.savingPub \in BOOLEAN
    BY <1>1 DEF CandidateInv, CandidateType, SameCandidate, PubOps
  <2>2. "none" \notin PubOps
    BY DEF PubOps
  <2>. QED BY <2>1, <2>2, <1>5
<1>9. ASSUME ~w.behind PROVE Shows(w, db, net') \/ \E t \in Slots : Mends(db, net', t)
  <2>1. CASE r.op = "candidate"
    <3>1. Mends(db, net', s)
      BY <2>1, <1>2, <1>4 DEF Mends
    <3>. QED BY <3>1
  <2>2. CASE r.op # "candidate" /\ w.behind = view.behind
    <3>1. Shows(view, db, net) => Shows(w, db, net')
      BY <2>2, <1>2 DEF Shows, SameCandidate
    <3>2. ASSUME NEW t \in Slots, Mends(db, net, t) PROVE Mends(db, net', t)
      <4>1. t # s
        BY <3>2, <1>3 DEF Mends, Open, Writes, ParticipantWrites, CandidateWrites, Decisions
      <4>. QED BY <4>1, <3>2, <1>2 DEF Mends, Open
    <3>. QED BY <1>1, <1>9, <2>2, <3>1, <3>2 DEF CandidateInv
  <2>. QED BY <2>1, <2>2
<1>10. CandidateInv(w, db, net')
  BY <1>6, <1>7, <1>8, <1>9 DEF CandidateInv, SameCandidate, PubOps
<1>. QED BY <1>1, <1>2, <1>3, <1>10 DEF IInv, Shown

LEMMA CandidateSends ==
    ASSUME IInv, \/ Segarkan \/ HandleVerifyCandidate \/ HandlePublishToggle
                 \/ HandleSavePubSettings \/ HandlePhotoUpload \/ HandleSaveEditCandidate
                 \/ HandleVerifyDocument
    PROVE  IInv'
<1>1. OnCandidate /\ page = "candidate" /\ view.got
  BY DEF Segarkan, HandleVerifyCandidate, HandlePublishToggle, HandleSavePubSettings,
         HandlePhotoUpload, HandleSaveEditCandidate, HandleVerifyDocument, VerdictPanel,
         PublishPanel, SettingsPanel, Panels, EditModal, DocumentWindow, Drawn, OnCandidate
<1>2. view \in CandidateType /\ view.verdict \in Verdicts
  BY <1>1 DEF IInv, Shown, CandidateInv
<1>3. ASSUME NEW op \in OpsOf("candidate")
      PROVE  /\ Ask(op, {}, None) \in Request /\ Ask(op, {}, None).op = op
             /\ Asks(Ask(op, {}, None)) \/ op = "verify"
             /\ op # "create"
  <2>1. /\ Ask(op, {}, None) \in Request /\ Ask(op, {}, None).op = op
        /\ Ask(op, {}, None).home /\ Ask(op, {}, None).answer = "none"
    BY DEF Ask, Request, OpsOf, Writes, ParticipantWrites, CandidateWrites, Decisions, Reads
  <2>2. op # "create"
    BY DEF OpsOf
  <2>3. Asks(Ask(op, {}, None)) \/ op = "verify"
    BY <1>1, <2>1, <2>2 DEF Asks
  <2>. QED BY <2>1, <2>2, <2>3
<1>4. CASE Segarkan
  <2>. DEFINE w == Fetching(view)
  <2>1. /\ SameCandidate(view, w) /\ w.behind = FALSE /\ w.verifying = view.verifying
        /\ w.uploading = view.uploading /\ w.savingPub = view.savingPub
    BY <1>2 DEF SameCandidate, CandidateType, Fetching
  <2>2. Sends(FetchCandidate, w)
    BY <1>4 DEF Segarkan
  <2>3. Asks(FetchCandidate) /\ FetchCandidate.op = "candidate"
    BY <1>1, FetchType DEF Asks, OpsOf
  <2>4. /\ Turns(FetchCandidate, view.verifying, w.verifying, {"verify"})
        /\ Turns(FetchCandidate, view.uploading, w.uploading, {"photo"})
        /\ Turns(FetchCandidate, view.savingPub, w.savingPub, PubOps)
    BY <2>1, <2>3 DEF Turns, PubOps
  <2>. HIDE DEF w
  <2>. QED BY <1>1, <2>1, <2>2, <2>3, <2>4, CandidateSent
<1>5. CASE HandleVerifyCandidate
  <2>. DEFINE r == [Ask("verify", {}, None) EXCEPT !.status = view.verdict]
              w == [view EXCEPT !.verifying = TRUE]
  <2>1. /\ SameCandidate(view, w) /\ w.behind = view.behind /\ w.verifying = TRUE
        /\ w.uploading = view.uploading /\ w.savingPub = view.savingPub
    BY <1>2 DEF SameCandidate, CandidateType
  <2>2. Sends(r, w) /\ ~view.verifying
    BY <1>5 DEF HandleVerifyCandidate, VerdictPanel
  <2>3. Asks(r) /\ r.op = "verify"
    BY <1>1, <1>2 DEF Asks, OpsOf, Ask, Request, Writes, CandidateWrites
  <2>. HIDE DEF r
  <2>4. /\ Turns(r, view.verifying, w.verifying, {"verify"})
        /\ Turns(r, view.uploading, w.uploading, {"photo"})
        /\ Turns(r, view.savingPub, w.savingPub, PubOps)
    BY <2>1, <2>2, <2>3 DEF Turns, PubOps
  <2>. HIDE DEF w
  <2>. QED BY <1>1, <2>1, <2>2, <2>3, <2>4, CandidateSent
<1>6. ASSUME NEW op \in PubOps, Sends(Ask(op, {}, None), [view EXCEPT !.savingPub = TRUE]),
             ~view.savingPub
      PROVE  IInv'
  <2>. DEFINE w == [view EXCEPT !.savingPub = TRUE]
  <2>1. /\ SameCandidate(view, w) /\ w.behind = view.behind /\ w.verifying = view.verifying
        /\ w.uploading = view.uploading /\ w.savingPub = TRUE
    BY <1>2 DEF SameCandidate, CandidateType
  <2>. PICK r : r = Ask(op, {}, None)
    OBVIOUS
  <2>2. Sends(r, w)
    BY <1>6
  <2>3. Asks(r) /\ r.op = op /\ op \notin {"verify", "photo", "candidate", "create"}
    BY <1>3, <1>6 DEF OpsOf, PubOps
  <2>4. /\ Turns(r, view.verifying, w.verifying, {"verify"})
        /\ Turns(r, view.uploading, w.uploading, {"photo"})
        /\ Turns(r, view.savingPub, w.savingPub, PubOps)
    BY <1>6, <2>1, <2>3 DEF Turns
  <2>. HIDE DEF w
  <2>. QED BY <1>1, <2>1, <2>2, <2>3, <2>4, CandidateSent
<1>7. CASE HandlePublishToggle \/ HandleSavePubSettings
  BY <1>6, <1>7 DEF HandlePublishToggle, HandleSavePubSettings, PublishPanel, SettingsPanel, PubOps
<1>8. CASE HandlePhotoUpload
  <2>. DEFINE w == [view EXCEPT !.uploading = TRUE]
  <2>1. /\ SameCandidate(view, w) /\ w.behind = view.behind /\ w.verifying = view.verifying
        /\ w.uploading = TRUE /\ w.savingPub = view.savingPub
    BY <1>2 DEF SameCandidate, CandidateType
  <2>. PICK r : r = Ask("photo", {}, None)
    OBVIOUS
  <2>2. Sends(r, w) /\ ~view.uploading
    BY <1>8 DEF HandlePhotoUpload
  <2>3. Asks(r) /\ r.op = "photo"
    BY <1>3 DEF OpsOf
  <2>4. /\ Turns(r, view.verifying, w.verifying, {"verify"})
        /\ Turns(r, view.uploading, w.uploading, {"photo"})
        /\ Turns(r, view.savingPub, w.savingPub, PubOps)
    BY <2>1, <2>2, <2>3 DEF Turns, PubOps
  <2>. HIDE DEF w
  <2>. QED BY <1>1, <2>1, <2>2, <2>3, <2>4, CandidateSent
<1>9. ASSUME NEW op \in {"save", "document"}, NEW b \in BOOLEAN,
             Sends(Ask(op, {}, None), [view EXCEPT !.saving = b])
      PROVE  IInv'
  <2>. DEFINE w == [view EXCEPT !.saving = b]
  <2>1. /\ SameCandidate(view, w) /\ w.behind = view.behind /\ w.verifying = view.verifying
        /\ w.uploading = view.uploading /\ w.savingPub = view.savingPub
    BY <1>2 DEF SameCandidate, CandidateType
  <2>. PICK r : r = Ask(op, {}, None)
    OBVIOUS
  <2>2. Sends(r, w)
    BY <1>9
  <2>3. Asks(r) /\ r.op \in {"save", "document"}
    BY <1>3, <1>9 DEF OpsOf
  <2>4. /\ Turns(r, view.verifying, w.verifying, {"verify"})
        /\ Turns(r, view.uploading, w.uploading, {"photo"})
        /\ Turns(r, view.savingPub, w.savingPub, PubOps)
    BY <2>1, <2>3 DEF Turns, PubOps
  <2>. HIDE DEF w
  <2>. QED BY <1>1, <2>1, <2>2, <2>3, <2>4, CandidateSent
<1>10. CASE HandleSaveEditCandidate
  BY <1>9, <1>10 DEF HandleSaveEditCandidate
<1>11. CASE HandleVerifyDocument
  <2>1. Sends(Ask("document", {}, None), view)
    BY <1>11 DEF HandleVerifyDocument
  <2>2. view = [view EXCEPT !.saving = view.saving] /\ view.saving \in BOOLEAN
    BY <1>2 DEF CandidateType
  <2>. QED BY <1>9, <2>1, <2>2
<1>. QED BY <1>4, <1>5, <1>7, <1>8, <1>10, <1>11

\* Another officer: the page may be behind.
LEMMA OfficerChanges == ASSUME IInv, OtherOfficer PROVE IInv'
<1>1. /\ page = "candidate" /\ page' = page /\ Tab /\ Forms(db, net) /\ Shown /\ net' = net
      /\ view' = [view EXCEPT !.behind = TRUE]
  BY DEF IInv, OtherOfficer, OnCandidate, Behind
<1>2. /\ db' \in Server /\ db'.forms = db.forms /\ db'.twins = db.twins /\ db'.lost = db.lost
  <2>1. db \in Server
    BY <1>1 DEF Tab
  <2>2. ASSUME NEW st \in Verdicts, db' = [db EXCEPT !.status = st]
        PROVE  /\ db' \in Server /\ db'.forms = db.forms /\ db'.twins = db.twins /\ db'.lost = db.lost
    BY <2>1, <2>2 DEF Server
  <2>3. CASE db' = [db EXCEPT !.public = FALSE]
    BY <2>1, <2>3 DEF Server
  <2>. QED BY <2>2, <2>3 DEF OtherOfficer
<1>3. presses' \in 0..MaxPresses /\ presses <= presses'
  BY <1>1, Pressed DEF OtherOfficer
<1>4. Tab'
  <2>1. 1..presses \subseteq 1..presses'
    BY <1>1, <1>3 DEF Tab
  <2>2. \A s \in Slots : Owned(net[s])'
    BY <1>1, <2>1 DEF Tab, Owned
  <2>. QED BY <1>1, <1>2, <1>3, <2>2 DEF Tab
<1>5. Forms(db, net)'
  BY <1>1, <1>2, <1>3, FormsKept DEF Unstored
<1>6. Shown'
  BY <1>1, AlikeSame, BehindKeeps
<1>. QED BY <1>4, <1>5, <1>6 DEF IInv

\* The candidate came: what was fetched before is late, whatever it says.
LEMMA LateKeeps ==
    ASSUME Tab, NEW t \in Slots, net[t].op = "candidate"
    PROVE  LET x == [net[t] EXCEPT !.late = TRUE] IN
           /\ x \in Request /\ x.op = "candidate" /\ x.who = net[t].who /\ x.over = net[t].over
           /\ x.home = net[t].home /\ x.answer = net[t].answer /\ x.status = net[t].status
           /\ x.public = net[t].public /\ x.late
<1>1. net[t] \in Request
  BY DEF Tab, Idle
<1>. QED BY <1>1 DEF Request

LEMMA CameLate ==
    ASSUME Tab, NEW s \in Slots, CandidateAnswered(s)
    PROVE  /\ net'[s] = Idle /\ db' = db /\ page' = page /\ presses' = presses
           /\ \A t \in Slots : t # s => net'[t].op = net[t].op /\ net'[t].answer = net[t].answer
           /\ \A t \in Slots : t # s /\ net[t].op # "candidate" => net'[t] = net[t]
           /\ \A t \in Slots : t # s /\ net[t].op = "candidate" =>
                 /\ net'[t] \in Request /\ net'[t].who = net[t].who /\ net'[t].over = net[t].over
                 /\ net'[t].home = net[t].home /\ net'[t].status = net[t].status
                 /\ net'[t].public = net[t].public /\ net'[t].late
           /\ net' \in [Slots -> Request \cup {Idle}]
<1>. DEFINE rest == [t \in Slots |-> IF net[t].op = "candidate" THEN [net[t] EXCEPT !.late = TRUE]
                                     ELSE net[t]]
<1>1. net' = [rest EXCEPT ![s] = Idle] /\ db' = db /\ page' = page /\ presses' = presses
  BY DEF CandidateAnswered, Done
<1>2. \A t \in Slots : net'[t] = IF t = s THEN Idle ELSE rest[t]
  BY <1>1
<1>3. DOMAIN net' = Slots /\ net' = [t \in Slots |-> net'[t]]
  BY <1>1
<1>4. ASSUME NEW t \in Slots, t # s, net[t].op # "candidate" PROVE net'[t] = net[t]
  BY <1>2, <1>4
<1>5. ASSUME NEW t \in Slots, t # s, net[t].op = "candidate"
      PROVE  /\ net'[t] \in Request /\ net'[t].op = net[t].op /\ net'[t].answer = net[t].answer
             /\ net'[t].who = net[t].who /\ net'[t].over = net[t].over
             /\ net'[t].home = net[t].home /\ net'[t].status = net[t].status
             /\ net'[t].public = net[t].public /\ net'[t].late
  <2>1. net'[t] = [net[t] EXCEPT !.late = TRUE]
    BY <1>2, <1>5
  <2>. QED BY <2>1, <1>5, LateKeeps
<1>6. net'[s] = Idle
  BY <1>2
<1>7. \A t \in Slots : net'[t] \in Request \cup {Idle}
  <2>. SUFFICES ASSUME NEW t \in Slots PROVE net'[t] \in Request \cup {Idle}
    OBVIOUS
  <2>1. net[t] \in Request \cup {Idle}
    BY DEF Tab
  <2>. QED BY <1>4, <1>5, <1>6, <2>1
<1>8. net' \in [Slots -> Request \cup {Idle}]
  BY <1>3, <1>7
<1>. HIDE DEF rest
<1>9. \A t \in Slots : t # s => net'[t].op = net[t].op /\ net'[t].answer = net[t].answer
  BY <1>4, <1>5
<1>. QED BY <1>1, <1>4, <1>5, <1>6, <1>8, <1>9

LEMMA CandidateCame ==
    ASSUME IInv, NEW s \in Slots, CandidateAnswered(s)
    PROVE  IInv'
<1>. DEFINE r == net[s]
<1>1. /\ Tab /\ Forms(db, net) /\ CandidateInv(view, db, net) /\ page = "candidate"
      /\ r.op = "candidate" /\ r.home /\ r \in Request
  BY DEF IInv, Shown, CandidateAnswered, OnCandidate, Came, Tab, Idle
<1>2. /\ net'[s] = Idle /\ db' = db /\ page' = page /\ presses' = presses
      /\ \A t \in Slots : t # s => net'[t].op = net[t].op /\ net'[t].answer = net[t].answer
      /\ \A t \in Slots : t # s /\ net[t].op # "candidate" => net'[t] = net[t]
      /\ \A t \in Slots : t # s /\ net[t].op = "candidate" =>
            /\ net'[t] \in Request /\ net'[t].who = net[t].who /\ net'[t].over = net[t].over
            /\ net'[t].home = net[t].home /\ net'[t].status = net[t].status
            /\ net'[t].public = net[t].public /\ net'[t].late
      /\ net' \in [Slots -> Request \cup {Idle}]
  BY <1>1, CameLate
<1>3. Tab'
  <2>1. ASSUME NEW t \in Slots PROVE Owned(net[t])'
    <3>1. Owned(net[t])
      BY <1>1 DEF Tab
    <3>2. CASE t = s
      BY <1>2, <3>2 DEF Owned, Idle
    <3>3. CASE t # s /\ net[t].op # "candidate"
      BY <1>2, <3>1, <3>3 DEF Owned
    <3>4. CASE t # s /\ net[t].op = "candidate"
      <4>1. /\ net'[t].op = "candidate" /\ net'[t].home = net[t].home
            /\ net'[t].answer = net[t].answer /\ net'[t].status = net[t].status
        BY <1>2, <3>4
      <4>. QED BY <1>2, <3>1, <3>4, <4>1 DEF Owned
    <3>. QED BY <3>2, <3>3, <3>4
  <2>2. db' \in Server /\ presses' \in 0..MaxPresses
    BY <1>1, <1>2 DEF Tab
  <2>. QED BY <1>1, <1>2, <2>1, <2>2 DEF Tab
<1>4. Forms(db, net)'
  <2>1. ASSUME NEW t \in Slots, net'[t].op = "create" PROVE net'[t] = net[t]
    BY <1>2, <2>1 DEF Idle
  <2>2. presses' \in 0..MaxPresses /\ presses <= presses'
    BY <1>1, <1>2 DEF Tab
  <2>. QED BY <1>1, <1>2, <2>1, <2>2, FormsKept DEF Unstored
<1>5. ASSUME NEW ops, "none" \notin ops, "candidate" \notin ops, NEW held \in BOOLEAN,
             Flag(net, held, ops)
      PROVE  Flag(net', held, ops)
  <2>1. ASSUME NEW t \in Slots PROVE Open(net', t, ops) <=> Open(net, t, ops)
    <3>1. CASE t = s
      <4>1. net'[t].op = "none" /\ net[t].op = "candidate"
        BY <1>1, <1>2, <3>1 DEF Idle
      <4>. QED BY <4>1, <1>5 DEF Open
    <3>2. CASE t # s /\ net[t].op = "candidate"
      <4>1. net'[t].op = "candidate"
        BY <1>2, <3>2
      <4>. QED BY <4>1, <3>2, <1>5 DEF Open
    <3>3. CASE t # s /\ net[t].op # "candidate"
      <4>1. net'[t] = net[t]
        BY <1>2, <3>3
      <4>. QED BY <4>1 DEF Open
    <3>. QED BY <3>1, <3>2, <3>3
  <2>. QED BY <2>1, <1>5 DEF Flag
<1>6. Ok(s) => r.status \in Verdicts
  BY <1>1 DEF Ok, Tab, Owned
<1>7. /\ view' \in CandidateType /\ (view'.got => view'.verdict \in Verdicts)
      /\ view'.verifying = view.verifying /\ view'.uploading = view.uploading
      /\ view'.savingPub = view.savingPub /\ view'.behind = view.behind
      /\ Ok(s) => view'.status = r.status /\ view'.public = r.public /\ view'.overtaken = r.late
      /\ ~Ok(s) => view'.overtaken
  <2>1. view \in CandidateType /\ (view.got => view.verdict \in Verdicts)
    BY <1>1 DEF CandidateInv
  <2>2. r.public \in BOOLEAN /\ r.late \in BOOLEAN
    BY <1>1 DEF Request
  <2>3. CASE Ok(s)
    <3>1. view' = [view EXCEPT !.loading = FALSE, !.got = TRUE, !.status = r.status,
                               !.verdict = r.status, !.public = r.public, !.overtaken = r.late]
      BY <2>3 DEF CandidateAnswered
    <3>. QED BY <2>1, <2>2, <2>3, <3>1, <1>6 DEF CandidateType
  <2>4. CASE ~Ok(s)
    <3>1. view' = [view EXCEPT !.loading = FALSE, !.overtaken = TRUE]
      BY <2>4 DEF CandidateAnswered
    <3>. QED BY <2>1, <2>4, <3>1 DEF CandidateType
  <2>. QED BY <2>3, <2>4
<1>8. \A t \in Slots : net'[t].op = "candidate" => net'[t].late
  BY <1>2 DEF Idle
<1>9. ASSUME ~view'.behind PROVE Shows(view', db', net') \/ \E t \in Slots : Mends(db', net', t)
  <2>1. CASE ~Ok(s)
    BY <2>1, <1>7, <1>8 DEF Shows
  <2>2. CASE Ok(s) /\ ((r.status = db.status /\ r.public = db.public) \/ r.late)
    BY <2>2, <1>2, <1>7, <1>8 DEF Shows
  <2>3. CASE Ok(s) /\ ~((r.status = db.status /\ r.public = db.public) \/ r.late)
    <3>1. ~Shows(view, db, net)
      BY <2>3, <1>1 DEF Shows, Ok
    <3>2. ~Mends(db, net, s)
      BY <2>3, <1>1 DEF Mends, Ok, Open, Writes, ParticipantWrites, CandidateWrites, Decisions
    <3>3. PICK t \in Slots : Mends(db, net, t)
      BY <3>1, <1>1, <1>7, <1>9 DEF CandidateInv
    <3>4. t # s
      BY <3>2, <3>3
    <3>5. Mends(db', net', t)
      <4>1. CASE net[t].op = "candidate"
        BY <4>1, <3>3, <3>4, <1>2 DEF Mends, Open
      <4>2. CASE net[t].op # "candidate"
        BY <4>2, <3>3, <3>4, <1>2 DEF Mends, Open
      <4>. QED BY <4>1, <4>2
    <3>. QED BY <3>5
  <2>. QED BY <2>1, <2>2, <2>3
<1>10. /\ Flag(net', view'.verifying, {"verify"}) /\ Flag(net', view'.uploading, {"photo"})
       /\ Flag(net', view'.savingPub, {"publish", "unpublish", "settings"})
  <2>1. /\ Flag(net, view.verifying, {"verify"}) /\ Flag(net, view.uploading, {"photo"})
        /\ Flag(net, view.savingPub, {"publish", "unpublish", "settings"})
        /\ view.verifying \in BOOLEAN /\ view.uploading \in BOOLEAN /\ view.savingPub \in BOOLEAN
    BY <1>1 DEF CandidateInv, CandidateType
  <2>2. /\ Flag(net', view.verifying, {"verify"}) /\ Flag(net', view.uploading, {"photo"})
        /\ Flag(net', view.savingPub, {"publish", "unpublish", "settings"})
    BY <2>1, <1>5
  <2>. QED BY <2>2, <1>7
<1>11. CandidateInv(view', db', net')
  BY <1>7, <1>9, <1>10 DEF CandidateInv
<1>. QED BY <1>1, <1>2, <1>3, <1>4, <1>11 DEF IInv, Shown

\* A change was answered: its flag is down, and after a success the candidate is
\* asked for again, which mends what the page shows.
LEMMA ChangePut ==
    ASSUME IInv, OnCandidate, NEW s \in Slots, NEW r, NEW w, Came(s, Writes),
           r # Idle => Asks(r) /\ r.op = "candidate",
           (Receives(s, w) /\ r = Idle) \/ ReceivesAndAsks(s, w, r),
           SameCandidate(view, w), r = Idle => w.behind = view.behind /\ ~Ok(s),
           Releases(net[s].op, view.verifying, w.verifying, {"verify"}),
           Releases(net[s].op, view.uploading, w.uploading, {"photo"}),
           Releases(net[s].op, view.savingPub, w.savingPub, PubOps)
    PROVE  IInv'
<1>1. /\ Tab /\ CandidateInv(view, db, net) /\ page = "candidate"
      /\ net[s].home /\ net[s].op \in Writes
  BY DEF IInv, Shown, OnCandidate, Came
<1>2. /\ view' = w /\ db' = db /\ page' = page /\ Tab' /\ Forms(db, net)'
      /\ \A t \in Slots : net'[t] = IF t = s THEN r ELSE net[t]
  BY AnswerPut
<1>3. r.op \in {"none", "candidate"}
  BY DEF Idle
<1>4. ASSUME NEW ops, "none" \notin ops, "candidate" \notin ops, NEW held \in BOOLEAN,
             NEW new \in BOOLEAN, Flag(net, held, ops), Releases(net[s].op, held, new, ops)
      PROVE  Flag(net', new, ops)
  <2>1. r.op \notin ops /\ net[s].home
    BY <1>1, <1>3, <1>4
  <2>2. \A t \in Slots : net'[t] = IF t = s THEN r ELSE net[t]
    BY <1>2
  <2>. QED BY <2>1, <2>2, <1>4, ReleasedFlag
<1>5. Flag(net', w.verifying, {"verify"})
  <2>1. Flag(net, view.verifying, {"verify"}) /\ view.verifying \in BOOLEAN /\ w.verifying \in BOOLEAN
    BY <1>1 DEF CandidateInv, CandidateType, SameCandidate
  <2>. QED BY <2>1, <1>4
<1>6. Flag(net', w.uploading, {"photo"})
  <2>1. Flag(net, view.uploading, {"photo"}) /\ view.uploading \in BOOLEAN /\ w.uploading \in BOOLEAN
    BY <1>1 DEF CandidateInv, CandidateType, SameCandidate
  <2>. QED BY <2>1, <1>4
<1>7. Flag(net', w.savingPub, PubOps)
  <2>1. Flag(net, view.savingPub, PubOps) /\ view.savingPub \in BOOLEAN /\ w.savingPub \in BOOLEAN
    BY <1>1 DEF CandidateInv, CandidateType, SameCandidate, PubOps
  <2>2. "none" \notin PubOps /\ "candidate" \notin PubOps
    BY DEF PubOps
  <2>. QED BY <2>1, <2>2, <1>4
<1>8. ASSUME ~w.behind PROVE Shows(w, db, net') \/ \E t \in Slots : Mends(db, net', t)
  <2>1. CASE r # Idle
    <3>1. Mends(db, net', s)
      BY <2>1, <1>2 DEF Mends, Asks
    <3>. QED BY <3>1
  <2>2. CASE r = Idle
    <3>1. Shows(view, db, net) => Shows(w, db, net')
      BY <2>2, <1>2 DEF Shows, SameCandidate, Idle
    <3>2. ASSUME NEW t \in Slots, Mends(db, net, t) PROVE Mends(db, net', t)
      <4>1. t # s
        BY <3>2, <2>2, <1>1 DEF Mends, Open, Ok, Writes, ParticipantWrites, CandidateWrites, Decisions
      <4>. QED BY <4>1, <3>2, <1>2 DEF Mends, Open
    <3>. QED BY <1>1, <1>8, <2>2, <3>1, <3>2 DEF CandidateInv
  <2>. QED BY <2>1, <2>2
<1>9. CandidateInv(w, db, net')
  BY <1>5, <1>6, <1>7, <1>8 DEF CandidateInv, SameCandidate, PubOps
<1>. QED BY <1>1, <1>2, <1>9 DEF IInv, Shown

\* A page that is as it was, but for the flag of the handler that was called.
Took(op, w) ==
    /\ SameCandidate(view, w)
    /\ Releases(op, view.verifying, w.verifying, {"verify"})
    /\ Releases(op, view.uploading, w.uploading, {"photo"})
    /\ Releases(op, view.savingPub, w.savingPub, PubOps)

LEMMA TakesBack ==
    ASSUME NEW held \in BOOLEAN, NEW op, NEW ops
    PROVE  \E new \in BOOLEAN : new = (held /\ op \notin ops) /\ Releases(op, held, new, ops)
BY DEF Releases

LEMMA OneFlag ==
    ASSUME NEW v \in CandidateType, NEW b \in BOOLEAN
    PROVE  /\ [v EXCEPT !.verifying = b] \in CandidateType /\ [v EXCEPT !.savingPub = b] \in CandidateType
           /\ [v EXCEPT !.uploading = b] \in CandidateType /\ [v EXCEPT !.saving = b] \in CandidateType
BY DEF CandidateType

\* The page with other flags, and waiting for the candidate with other windows.
Flagged(v, b1, b2, b3, b4) ==
    [v EXCEPT !.verifying = b1, !.savingPub = b2, !.uploading = b3, !.saving = b4]
Refetched(v, b, c) == [Fetching(v) EXCEPT !.editing = b, !.review = c]

\* w is v with these flags.
FlagsOnly(v, w, b1, b2, b3) ==
    /\ w \in CandidateType /\ w.got = v.got /\ w.verdict = v.verdict
    /\ w.status = v.status /\ w.public = v.public /\ w.overtaken = v.overtaken
    /\ w.behind = v.behind
    /\ w.verifying = b1 /\ w.savingPub = b2 /\ w.uploading = b3

LEMMA FlagsType ==
    ASSUME NEW v \in CandidateType, NEW b1 \in BOOLEAN, NEW b2 \in BOOLEAN, NEW b3 \in BOOLEAN,
           NEW b4 \in BOOLEAN
    PROVE  FlagsOnly(v, Flagged(v, b1, b2, b3, b4), b1, b2, b3)
<1>. PICK w : w = Flagged(v, b1, b2, b3, b4)
  OBVIOUS
<1>. DEFINE x == [v EXCEPT !.verifying = b1]
            y == [x EXCEPT !.savingPub = b2]
            z == [y EXCEPT !.uploading = b3]
<1>1. x \in CandidateType
  BY OneFlag
<1>2. y \in CandidateType
  BY <1>1, OneFlag
<1>3. z \in CandidateType
  BY <1>2, OneFlag
<1>4. w = [z EXCEPT !.saving = b4]
  BY Zenon DEF Flagged
<1>5. w \in CandidateType
  BY <1>3, <1>4, OneFlag
<1>6. w.got = v.got /\ w.verdict = v.verdict /\ w.status = v.status /\ w.public = v.public
  BY DEF CandidateType, Flagged
<1>7. w.overtaken = v.overtaken /\ w.behind = v.behind
  BY DEF CandidateType, Flagged
<1>8. w.verifying = b1 /\ w.savingPub = b2 /\ w.uploading = b3
  BY DEF CandidateType, Flagged
<1>. QED BY <1>5, <1>6, <1>7, <1>8 DEF FlagsOnly

LEMMA ReleasedType ==
    ASSUME view \in CandidateType, view.got => view.verdict \in Verdicts, NEW op
    PROVE  /\ Took(op, Released(op)) /\ Released(op).behind = view.behind
           /\ Released(op) \in CandidateType
<1>1. /\ view.verifying \in BOOLEAN /\ view.uploading \in BOOLEAN /\ view.savingPub \in BOOLEAN
      /\ view.saving \in BOOLEAN
  BY DEF CandidateType
<1>2. PICK b1 \in BOOLEAN : /\ b1 = (view.verifying /\ op \notin {"verify"})
                            /\ Releases(op, view.verifying, b1, {"verify"})
  BY <1>1, TakesBack
<1>3. PICK b2 \in BOOLEAN : /\ b2 = (view.savingPub /\ op \notin PubOps)
                            /\ Releases(op, view.savingPub, b2, PubOps)
  BY <1>1, TakesBack
<1>4. PICK b3 \in BOOLEAN : /\ b3 = (view.uploading /\ op \notin {"photo"})
                            /\ Releases(op, view.uploading, b3, {"photo"})
  BY <1>1, TakesBack
<1>5. PICK b4 \in BOOLEAN : b4 = (view.saving /\ op \notin {"save"})
  BY <1>1, TakesBack
<1>a. PICK w : w = Flagged(view, b1, b2, b3, b4)
  OBVIOUS
<1>6. w = Released(op)
  <2>1. /\ b1 = (view.verifying /\ op # "verify")
        /\ b2 = (view.savingPub /\ op \notin {"publish", "unpublish", "settings"})
        /\ b3 = (view.uploading /\ op # "photo") /\ b4 = (view.saving /\ op # "save")
    BY <1>2, <1>3, <1>4, <1>5 DEF PubOps
  <2>. QED BY <1>a, <2>1, Zenon DEF Released, Flagged
<1>7. FlagsOnly(view, w, b1, b2, b3)
  <2>1. b1 \in BOOLEAN /\ b2 \in BOOLEAN /\ b3 \in BOOLEAN /\ b4 \in BOOLEAN
    BY <1>2, <1>3, <1>4, <1>5
  <2>2. FlagsOnly(view, Flagged(view, b1, b2, b3, b4), b1, b2, b3)
    BY <2>1, FlagsType
  <2>. QED BY <1>a, <2>2
<1>8. SameCandidate(view, w)
  BY <1>7 DEF SameCandidate, FlagsOnly
<1>9. Took(op, w)
  BY <1>2, <1>3, <1>4, <1>7, <1>8 DEF Took, FlagsOnly
<1>. QED BY <1>6, <1>7, <1>9 DEF FlagsOnly

LEMMA FetchingType ==
    ASSUME NEW op, NEW v \in CandidateType, Took(op, v), NEW b \in BOOLEAN, NEW c \in BOOLEAN,
           NEW w, w = Refetched(v, b, c)
    PROVE  Took(op, w)
<1>1. w = [v EXCEPT !.loading = TRUE, !.behind = FALSE, !.editing = b, !.review = c]
  BY DEF Fetching, CandidateType, Refetched
<1>2. /\ w \in CandidateType /\ w.got = v.got /\ w.verdict = v.verdict /\ w.status = v.status
      /\ w.public = v.public /\ w.overtaken = v.overtaken
      /\ w.verifying = v.verifying /\ w.uploading = v.uploading /\ w.savingPub = v.savingPub
  BY <1>1 DEF CandidateType
<1>3. SameCandidate(view, w)
  BY <1>2 DEF SameCandidate, Took
<1>4. Took(op, w)
  BY <1>2, <1>3 DEF Took
<1>. QED BY <1>4

LEMMA ChangeCame ==
    ASSUME IInv, NEW s \in Slots, ChangeAnswered(s)
    PROVE  IInv'
<1>1. /\ Came(s, Writes) /\ OnCandidate /\ view \in CandidateType
      /\ view.got => view.verdict \in Verdicts
  BY DEF ChangeAnswered, IInv, Shown, OnCandidate, CandidateInv
<1>2. Refetches(net[s].op)
  BY <1>1 DEF Refetches, Came
<1>. PICK v : v = Released(net[s].op)
  OBVIOUS
<1>3. Took(net[s].op, v) /\ v.behind = view.behind /\ v \in CandidateType
  BY <1>1, ReleasedType
<1>4. CASE ~Ok(s)
  <2>1. Receives(s, v)
    BY <1>4 DEF ChangeAnswered
  <2>. QED BY <1>1, <1>3, <1>4, <2>1, ChangePut DEF Took
<1>5. CASE Ok(s)
  <2>c. PICK w : w = [Fetching(v) EXCEPT !.editing = @ /\ net[s].op # "save",
                                         !.review = @ /\ net[s].op # "document"]
    OBVIOUS
  <2>1. ReceivesAndAsks(s, w, FetchCandidate)
    BY <1>2, <1>5, <2>c DEF ChangeAnswered
  <2>2. Fetching(v).editing \in BOOLEAN /\ Fetching(v).review \in BOOLEAN
    BY <1>3 DEF Fetching, CandidateType
  <2>a. PICK b \in BOOLEAN : b = (Fetching(v).editing /\ net[s].op \notin {"save"})
    BY <2>2, TakesBack
  <2>b. PICK c \in BOOLEAN : c = (Fetching(v).review /\ net[s].op \notin {"document"})
    BY <2>2, TakesBack
  <2>3. w = Refetched(v, b, c)
    BY <2>a, <2>b, <2>c, Zenon DEF Refetched
  <2>5. Took(net[s].op, w)
    <3>1. /\ Took(net[s].op, v) /\ v \in CandidateType /\ b \in BOOLEAN /\ c \in BOOLEAN
      BY <1>3, <2>a, <2>b
    <3>. QED BY <2>3, <3>1, FetchingType
  <2>4. FetchCandidate # Idle /\ Asks(FetchCandidate) /\ FetchCandidate.op = "candidate"
    BY <1>1, FetchType DEF Asks, OpsOf, OnCandidate, Idle
  <2>. QED BY <1>1, <2>1, <2>4, <2>5, ChangePut DEF Took
<1>. QED BY <1>4, <1>5

LEMMA CandidateSteps == ASSUME IInv, CandidateNext PROVE IInv'
BY CandidatePresses, CandidateSends, CandidateCame, ChangeCame, OfficerChanges DEF CandidateNext

-----------------------------------------------------------------------------
(* What holds of the console.                                              *)

LEMMA StepKeeps == ASSUME IInv, [Next]_vars PROVE IInv'
<1>1. CASE UNCHANGED vars
  BY <1>1 DEF vars, IInv, Tab, Forms, Shown, Owned
<1>2. ASSUME NEW s \in Slots, Serve(s) PROVE IInv'
  BY <1>2, ReadKeeps, WriteKeeps, ErrorKeeps DEF Serve
<1>3. CASE ParticipantsNext \/ CandidatesNext \/ VerificationsNext \/ CandidateNext
  BY <1>3, ParticipantsSteps, CandidatesSteps, VerificationsSteps, CandidateSteps
<1>. QED BY <1>1, <1>2, <1>3, LoginServed, LoginSteps, LinkSteps DEF Next

\* The fields of a page's state are those it is mounted with.
LEMMA ViewDomain == ASSUME IInv PROVE DOMAIN view = DOMAIN FreshView(page)
<1>1. page \in Pages \cup {"login"} /\ Shown
  BY DEF IInv, Tab
<1>2. CASE page = "login"
  <2>1. view \in LoginType /\ FreshLogin \in LoginType
    BY <1>1, <1>2 DEF Shown, LoginInv, FreshLogin, LoginType
  <2>. QED BY <1>2, <2>1 DEF FreshView, LoginType
<1>3. CASE page = "participants"
  <2>1. view \in ParticipantsType /\ FreshParticipants \in ParticipantsType
    BY <1>1, <1>3, FreshTypes DEF Shown, ParticipantsInv
  <2>. QED BY <1>3, <2>1 DEF FreshView, ParticipantsType
<1>4. CASE page = "candidates"
  <2>1. view \in CandidatesType /\ FreshCandidates \in CandidatesType
    BY <1>1, <1>4, FreshTypes DEF Shown, CandidatesInv
  <2>. QED BY <1>4, <2>1 DEF FreshView, CandidatesType
<1>5. CASE page = "verifications"
  <2>1. view \in VerificationsType
    BY <1>1, <1>5 DEF Shown, VerificationsInv
  <2>2. FreshVerifications \in VerificationsType
    BY DEF FreshVerifications, VerificationsType
  <2>. QED BY <1>5, <2>1, <2>2 DEF FreshView, VerificationsType
<1>6. CASE page = "candidate"
  <2>1. view \in CandidateType
    BY <1>1, <1>6 DEF Shown, CandidateInv
  <2>2. FreshCandidate \in CandidateType
    BY DEF FreshCandidate, CandidateType
  <2>. QED BY <1>6, <2>1, <2>2 DEF FreshView, CandidateType
<1>. QED BY <1>1, <1>2, <1>3, <1>4, <1>5, <1>6 DEF Pages

LEMMA TypesHold == IInv => TypeOK
<1>. SUFFICES ASSUME IInv PROVE TypeOK
  OBVIOUS
<1>1. Tab /\ Shown
  BY DEF IInv
<1>2. db.people \subseteq People /\ db.status \in Verdicts
  BY <1>1 DEF Tab, Server
<1>3. DOMAIN view = DOMAIN FreshView(page)
  BY ViewDomain
<1>4. page = "login" => Cardinality(Out({"login"})) = IF view.loading THEN 1 ELSE 0
  BY <1>1, FlagCounts DEF Shown, LoginInv, LoginType
<1>5. page = "participants" =>
         /\ Cardinality(Out({"save"})) = IF view.saving THEN 1 ELSE 0
         /\ Cardinality(Out({"resend"})) = IF view.resending THEN 1 ELSE 0
         /\ Cardinality(Out({"delete"})) = IF view.deleting THEN 1 ELSE 0
  BY <1>1, FlagCounts DEF Shown, ParticipantsInv, ParticipantsType
<1>6. page = "candidates" =>
         /\ Cardinality(Out({"delete"})) = IF view.deleting THEN 1 ELSE 0
         /\ Cardinality(Out({"create", "photo"})) = IF view.creating THEN 1 ELSE 0
  BY <1>1, FlagCounts DEF Shown, CandidatesInv, CandidatesType
<1>7. page = "verifications" =>
         Cardinality(Out({"approve", "reject"})) = IF view.acting THEN 1 ELSE 0
  BY <1>1, FlagCounts DEF Shown, VerificationsInv, VerificationsType
<1>8. page = "candidate" =>
         /\ Cardinality(Out({"verify"})) = IF view.verifying THEN 1 ELSE 0
         /\ Cardinality(Out({"photo"})) = IF view.uploading THEN 1 ELSE 0
         /\ Cardinality(Out({"publish", "unpublish", "settings"})) =
               IF view.savingPub THEN 1 ELSE 0
  BY <1>1, FlagCounts DEF Shown, CandidateInv, CandidateType
<1>. QED BY <1>1, <1>2, <1>3, <1>4, <1>5, <1>6, <1>7, <1>8 DEF TypeOK, Tab

LEMMA WindowsHold == IInv => DetailIsOnePerson
<1>. SUFFICES ASSUME IInv PROVE DetailIsOnePerson
  OBVIOUS
<1>1. page = "participants" => DrawerIsOf(view, net)
  BY DEF IInv, Shown, ParticipantsInv
<1>2. page = "verifications" => WindowIsOf(view, net)
  BY DEF IInv, Shown, VerificationsInv
<1>. QED BY <1>1, <1>2 DEF DetailIsOnePerson, DrawerIsOf, WindowIsOf

\* A page with nothing out is mended by nothing, so it shows the tables.
LEMMA SettledHolds == IInv => SettledShowsCandidate
<1>. SUFFICES ASSUME IInv, page = "candidate", Out(Reads \cup Writes) = {},
                     ~view.behind, ~view.overtaken
              PROVE  view.status = db.status /\ view.public = db.public
  BY DEF SettledShowsCandidate
<1>1. Tab /\ CandidateInv(view, db, net)
  BY DEF IInv, Shown
<1>2. ASSUME NEW s \in Slots PROVE ~Mends(db, net, s)
  <2>1. ~(net[s].op \in Reads \cup Writes /\ net[s].home)
    BY <1>1 DEF Out, Pending, Tab
  <2>2. net[s].op = "candidate" => net[s].home
    BY <1>1 DEF Tab, Owned, Writes, ParticipantWrites, CandidateWrites, Decisions
  <2>. QED BY <2>1, <2>2 DEF Mends, Open, Reads
<1>3. Shows(view, db, net)
  BY <1>1, <1>2 DEF CandidateInv
<1>. QED BY <1>3 DEF Shows

\* The invariant is inductive: every handler, answer, act of the server and link
\* keeps what the tab, its requests and the tables owe one another.
THEOREM Inductive == Spec => []IInv
BY InitHolds, StepKeeps, PTL DEF Spec

\* The tab always shows one page with that page's state, and a flag that holds a
\* button back (saving, deleting, creating, ...) stands for one request that is out.
THEOREM TypeCorrect == Spec => []TypeOK
BY Inductive, TypesHold, PTL

\* A drawer of a participant, or window of an applicant, that was opened while no
\* answer about somebody else was out shows nobody else's name, e-mails or data,
\* whatever is sent and answered until it is closed.  One that was opened over such
\* an answer may be overwritten by it, and nothing is claimed of it.
THEOREM DetailOfOne == Spec => []DetailIsOnePerson
BY Inductive, WindowsHold, PTL

\* A form filled in once makes one candidate, however often it is sent again,
\* unless the server stored one and the page heard an error.
THEOREM FormMakesOne == Spec => []OneCandidatePerForm
<1>1. IInv => OneCandidatePerForm
  BY DEF IInv, Forms, OneCandidatePerForm
<1>. QED BY <1>1, Inductive, PTL

\* The reason for a rejection was typed for the applicant who is rejected, or left
\* behind in the form of another that was not sent.
THEOREM ReasonIsTheirs == Spec => []ReasonIsForApplicant
<1>1. IInv => ReasonIsForApplicant
  BY DEF IInv, Shown, VerificationsInv, ReasonIsForApplicant
<1>. QED BY <1>1, Inductive, PTL

\* The candidate's page, when all is answered, shows the verdict and publication
\* that the tables hold, whatever handlers and links came in between; it is behind
\* only of what others did, of an error, or of an answer that was overtaken.
THEOREM SettledCandidate == Spec => []SettledShowsCandidate
BY Inductive, SettledHolds, PTL
=============================================================================
