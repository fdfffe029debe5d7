------------------------------- MODULE LoginPage -------------------------------
(***************************************************************************)
(* The entrance of the console, admin/login/page.tsx.  Nothing else is     *)
(* shown without the cookie that a login sets (middleware.ts): a logout,   *)
(* and an answer 401 to any request of the tab, remove it and load this    *)
(* page.  A wrong password is answered 401 too; it leaves the page alone.  *)
(***************************************************************************)
EXTENDS AdminTab

OnLogin == page = "login"

FreshLogin == [loading |-> FALSE, errorMsg |-> FALSE]

LoginForm == OnLogin /\ ~view.loading

HandleSubmit ==
    /\ LoginForm
    /\ Sends(Ask("login", {}, None), [loading |-> TRUE, errorMsg |-> FALSE])

ServeLogin(s) ==
    /\ Unserved(net, s) /\ net[s].op = "login"
    /\ net' = [net EXCEPT ![s].answer = "ok"]
    /\ UNCHANGED <<db, page, view, presses>>

LoginRefused(s) ==
    /\ OnLogin /\ Came(s, {"login"}) /\ ~Ok(s)
    /\ Receives(s, [loading |-> FALSE, errorMsg |-> TRUE])

LoginAccepted(s) == OnLogin /\ Came(s, {"login"}) /\ Ok(s)

\* Any request but the login itself may be answered 401.
Denied == \E s \in Slots : Came(s, Reads \cup Writes) /\ net[s].answer = "failed"
=============================================================================
