------------------------------- MODULE AdminTab -------------------------------
(***************************************************************************)
(* One browser tab of the committee's console.  It shows one page at a     *)
(* time; what the page knows is gone when the page is left, while what it  *)
(* has sent may still be carried out.  This module holds what the pages    *)
(* share: the tab, its requests, the server as far as the pages change it, *)
(* and the list with ticks and a deletion dialog that two of them have.    *)
(***************************************************************************)
EXTENDS Requests

CONSTANTS People,     \* registrations, and candidates
          None,       \* nobody
          Slots,      \* bound: requests out at once
          MaxPresses  \* bound: what the officer does after the page has loaded

ASSUME AdminTabAssumption ==
    /\ None \notin People /\ IsFiniteSet(People)
    /\ Slots # {} /\ IsFiniteSet(Slots)   \* a page may ask for what it shows
    /\ MaxPresses \in Nat

VARIABLES db,      \* the tables, as far as the pages change them
          page,    \* the page on the tab
          view,    \* the state of that page
          net,     \* the requests of the tab
          presses  \* how often the officer pressed something

vars == <<db, page, view, net, presses>>

Verdicts == {"Draft", "Submitted", "Under Review", "Revision Required", "Verified", "Rejected"}

FreshServer ==
    [people |-> People,           \* rows that were not deleted
     forms |-> {},                \* creation forms stored as a candidate
     twins |-> FALSE,             \* one form was stored twice
     lost |-> FALSE,              \* a form was stored and the answer lost
     status |-> "Under Review",   \* the candidate of the detail page
     public |-> FALSE]

\* A request says who it is about and the part of the page that its handler
\* closed over; its answer carries rows, or the candidate.
Ask(op, who, over) ==
    [op |-> op, who |-> who, over |-> over, home |-> TRUE, late |-> FALSE,
     rows |-> {}, status |-> "none", public |-> FALSE, answer |-> "none"]

ParticipantWrites == {"save", "resend", "delete"}
CandidateWrites == {"save", "delete", "create", "photo", "verify", "publish",
                    "unpublish", "settings", "document"}
Decisions == {"approve", "reject"}
Writes == ParticipantWrites \cup CandidateWrites \cup Decisions
Reads == {"list", "history", "detail", "candidate"}

Press == presses < MaxPresses /\ presses' = presses + 1

Out(ops) == {s \in Pending(net, ops) : net[s].home}
Came(s, ops) == net[s].op \in ops /\ net[s].home /\ net[s].answer # "none"
Ok(s) == net[s].answer = "ok"

\* A press that only rearranges the page.
Rearranged(v) == Press /\ view' = v /\ UNCHANGED <<db, page, net>>

\* A press that sends a request.
Sends(r, v) ==
    /\ Press /\ CanSend(net, 1)
    /\ view' = v /\ net' = Sent(net, r) /\ UNCHANGED <<db, page>>

\* An answer comes, and the page does nothing more than change its state, or
\* asks for something in turn.
Receives(s, v) ==
    /\ view' = v /\ net' = Done(net, s) /\ UNCHANGED <<db, page, presses>>
ReceivesAndAsks(s, v, r) ==
    /\ view' = v /\ net' = [net EXCEPT ![s] = r] /\ UNCHANGED <<db, page, presses>>

FetchList == Ask("list", {}, None)

-----------------------------------------------------------------------------
(* A list with ticks: candidates/page.tsx and participants/page.tsx.       *)

\* The fields of two records.
Joined(f, g) ==
    [x \in DOMAIN f \cup DOMAIN g |-> IF x \in DOMAIN f THEN f[x] ELSE g[x]]

FreshList ==
    [loading |-> TRUE, rows |-> {},
     ticked |-> {},         \* selectedIds
     target |-> "nobody",   \* deleteTarget: "nobody", "one" or "bulk"
     single |-> None,       \* whom it names
     deleting |-> FALSE]

Rows == IF view.loading THEN {} ELSE view.rows

\* What the page holds once a list has come: ticks are not compared with it.
Filled(r) == [view EXCEPT !.loading = FALSE, !.rows = r.rows]

ListCame(s) ==
    /\ Came(s, {"list"})
    /\ Receives(s, IF Ok(s) THEN Filled(net[s]) ELSE [view EXCEPT !.loading = FALSE])

Toggled(p) == IF p \in view.ticked THEN view.ticked \ {p} ELSE view.ticked \cup {p}

\* Whether the box over all rows shows a tick, and so what pressing it does.
IsAllSelected == view.rows # {} /\ view.rows \subseteq view.ticked
ToggledAll == IF IsAllSelected THEN {} ELSE view.rows

AskDeleteOne(p) == [view EXCEPT !.target = "one", !.single = p]
AskDeleteTicked == [view EXCEPT !.target = "bulk"]
DroppedTarget(v) == [v EXCEPT !.target = "nobody", !.single = None]

\* The ticks of now are sent, not those of the moment the dialog was opened.
Doomed == IF view.target = "bulk" THEN view.ticked ELSE {view.single}

ExecuteDelete ==
    /\ view.target # "nobody" /\ ~view.deleting
    /\ Sends(Ask("delete", Doomed, None), [view EXCEPT !.deleting = TRUE])

DeleteCame(s) ==
    /\ Came(s, {"delete"})
    /\ LET settled == [view EXCEPT !.deleting = FALSE] IN
       \/ ~Ok(s) /\ Receives(s, settled)
       \/ /\ Ok(s)
          /\ ReceivesAndAsks(s, DroppedTarget([settled EXCEPT !.loading = TRUE,
                 !.ticked = IF view.target = "bulk" THEN {} ELSE @]), FetchList)

-----------------------------------------------------------------------------
(* The server.                                                             *)

\* Verified and Rejected are final, and no verdict is Draft or Submitted, which only
\* the candidate's own steps lead to; what is submitted must be reviewed first.
Accepts(from, to) ==
    /\ from \notin {"Verified", "Rejected"} /\ to \notin {"Draft", "Submitted"}
    /\ from = "Submitted" => to = "Under Review"
    /\ from = "Under Review" => to \in {"Verified", "Rejected", "Revision Required"}

Refused(r) ==
    \/ r.op = "verify" /\ ~Accepts(db.status, r.status)
    \/ r.op = "publish" /\ db.status # "Verified"

\* What a request that writes leaves in the tables.
Effect(r) ==
    CASE r.op = "delete" -> [db EXCEPT !.people = @ \ r.who]
      [] r.op = "create" -> [db EXCEPT !.forms = @ \cup {r.over},
                                       !.twins = @ \/ r.over \in db.forms]
      [] r.op = "verify" -> [db EXCEPT !.status = r.status]
      [] r.op = "publish" -> [db EXCEPT !.public = TRUE]
      [] r.op = "unpublish" -> [db EXCEPT !.public = FALSE]
      [] OTHER -> db

\* A search, a filter or a page of the list may hold any of the rows.
ServeRead(s) ==
    /\ Unserved(net, s) /\ net[s].op \in Reads
    /\ \E rows \in IF net[s].op = "list" THEN SUBSET db.people ELSE {{}} :
          net' = [net EXCEPT ![s].answer = "ok", ![s].rows = rows,
                             ![s].status = db.status, ![s].public = db.public]
    /\ UNCHANGED <<db, page, view, presses>>

\* Observed: the candidate's page is behind of what it has not heard of.
Behind == IF page = "candidate" THEN [view EXCEPT !.behind = TRUE] ELSE view

ServeWrite(s) ==
    /\ Unserved(net, s) /\ net[s].op \in Writes /\ ~Refused(net[s])
    /\ db' = Effect(net[s])
    /\ \/ /\ net[s].home
          /\ net' = [net EXCEPT ![s].answer = "ok"] /\ UNCHANGED view
       \/ /\ ~net[s].home
          /\ net' = Done(net, s) /\ view' = Behind
    /\ UNCHANGED <<page, presses>>

\* Carried out, and the answer is lost.
ServeAndLose(s) ==
    /\ Unserved(net, s) /\ net[s].op \in Writes /\ ~Refused(net[s]) /\ net[s].home
    /\ db' = [Effect(net[s]) EXCEPT !.lost = @ \/ net[s].op = "create"]
    /\ net' = [net EXCEPT ![s].answer = "failed"]
    /\ view' = Behind
    /\ UNCHANGED <<page, presses>>

\* Refused, or lost on the way.
ServeError(s) ==
    /\ Unserved(net, s)
    /\ net' = IF net[s].home THEN [net EXCEPT ![s].answer = "failed"] ELSE Done(net, s)
    /\ UNCHANGED <<db, page, view, presses>>

Serve(s) == ServeRead(s) \/ ServeWrite(s) \/ ServeAndLose(s) \/ ServeError(s)
=============================================================================
