--------------------------------- MODULE Hall --------------------------------
(***************************************************************************)
(* What the two pages of the entrance share: the attendance register of    *)
(* the server and the requests that are out.  Each request is one atomic   *)
(* step of the server here; what it does inside is Attendance's subject.   *)
(***************************************************************************)
EXTENDS Requests

CONSTANTS People,  \* approved participants
          None,    \* nobody
          Slots,   \* bound: requests of both pages out at once
          MaxPresses \* bound: what the two officers do, in all

ASSUME HallAssumption ==
    /\ None \notin People /\ MaxPresses \in Nat
    /\ IsFiniteSet(Slots) /\ Slots # {}

VARIABLES attendance, \* "none", "active" or "undone", at the server
          net,        \* the requests of both pages
          presses     \* what the officers did so far

hallVars == <<attendance, net, presses>>

HallInit ==
    /\ attendance = [p \in People |-> "none"]
    /\ presses = 0

Press == presses < MaxPresses /\ presses' = presses + 1

Present(p) == attendance[p] = "active"

\* A request says which page sent it, whom it is about, and, for a list, with
\* which filter it was asked; an answered list carries the rows it holds.
Ask(page, op, who, filter) ==
    [page |-> page, op |-> op, who |-> who, filter |-> filter,
     rows |-> <<>>, overtaken |-> FALSE, answer |-> "none"]

Filters == {"ALL", "PRESENT", "ABSENT"}

\* The rows a list shows: the people the filter admits, as they are now.
Rows(filter) ==
    [p \in {q \in People : \/ filter = "ALL"
                           \/ filter = "PRESENT" /\ Present(q)
                           \/ filter = "ABSENT" /\ ~Present(q)} |-> Present(p)]

Reply(s, a) == net' = [net EXCEPT ![s].answer = a]

\* A row that was undone stays and the insert does nothing: not new.
ServeCheckIn(s) ==
    /\ Unserved(net, s) /\ net[s].op = "checkin"
    /\ \E p \in net[s].who :
          /\ attendance' = [attendance EXCEPT ![p] = IF @ = "none" THEN "active" ELSE @]
          /\ Reply(s, IF attendance[p] = "none" THEN "new" ELSE "old")
    /\ UNCHANGED presses

ServeUndo(s) ==
    /\ Unserved(net, s) /\ net[s].op = "undo"
    /\ LET hit == {p \in net[s].who : Present(p)} IN
          /\ hit # {}
          /\ attendance' = [p \in People |-> IF p \in hit THEN "undone" ELSE attendance[p]]
    /\ Reply(s, "ok")
    /\ UNCHANGED presses

ServeList(s) ==
    /\ Unserved(net, s) /\ net[s].op = "list"
    /\ net' = [net EXCEPT ![s].answer = "ok", ![s].rows = Rows(net[s].filter)]
    /\ UNCHANGED <<attendance, presses>>

\* Refused, timed out or lost on the way.
ServeError(s) ==
    /\ Unserved(net, s)
    /\ Reply(s, "failed")
    /\ UNCHANGED <<attendance, presses>>

Serve(s) == ServeCheckIn(s) \/ ServeUndo(s) \/ ServeList(s) \/ ServeError(s)
=============================================================================
