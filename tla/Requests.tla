------------------------------- MODULE Requests ------------------------------
(***************************************************************************)
(* What a page of the frontend has asked the API and not heard of yet.     *)
(* A handler of a page is an async function: it sends a request, gives the *)
(* browser back, and goes on when the answer comes.  Until then the person *)
(* at the page may press anything that is enabled, so several requests may *)
(* be out, be carried out by the server in any order and be answered in    *)
(* any order.  A network is a function from slots, whose number bounds the *)
(* requests out at once, to requests; a request is a record with a field   *)
(* op, and with a field answer that is "none" until the server has acted.  *)
(***************************************************************************)
EXTENDS Naturals, FiniteSets

Idle == [op |-> "none", answer |-> "none"]

Quiet(slots) == [s \in slots |-> Idle]

FreeSlots(net) == {s \in DOMAIN net : net[s].op = "none"}
Pending(net, ops) == {s \in DOMAIN net : net[s].op \in ops}
Unserved(net, s) == net[s].op # "none" /\ net[s].answer = "none"
Answered(net, s, op) == net[s].op = op /\ net[s].answer # "none"

CanSend(net, n) == Cardinality(FreeSlots(net)) >= n

\* Which of the free slots takes a request is of no consequence.
Sent(net, r) == [net EXCEPT ![CHOOSE s \in FreeSlots(net) : TRUE] = r]

Done(net, s) == [net EXCEPT ![s] = Idle]
=============================================================================
