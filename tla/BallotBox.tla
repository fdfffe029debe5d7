------------------------------ MODULE BallotBox ------------------------------
(***************************************************************************)
(* What the election promises, with no tables, snapshots or sessions read  *)
(* twice: a box that is open or not, a roll of the people the desk has     *)
(* admitted, a slate of the candidates that have stood, and one anonymous  *)
(* ballot for each person marked off.  Roll, slate, marks and ballots only *)
(* grow.  A voter takes a slip while the box is open and may drop it in    *)
(* after it closes: that much the code allows, and no more.                *)
(***************************************************************************)
EXTENDS Naturals, Sequences, FiniteSets

CONSTANTS People, Standing, Slips

VARIABLES open,    \* whether slips are handed out
          roll,    \* people admitted by the desk
          onSlate, \* candidates that have stood
          held,    \* slips handed out and not yet returned
          marked,  \* people whose ballot is in the box
          box      \* the ballots

boxVars == <<open, roll, onSlate, held, marked, box>>

Init ==
    /\ open = FALSE
    /\ roll = {}
    /\ onSlate \subseteq Standing
    /\ held = {}
    /\ marked = {}
    /\ box = <<>>

OpenOrClose ==
    /\ open' = ~open
    /\ UNCHANGED <<roll, onSlate, held, marked, box>>

Enrol(p) ==
    /\ roll' = roll \cup {p}
    /\ UNCHANGED <<open, onSlate, held, marked, box>>

Stand(c) ==
    /\ onSlate' = onSlate \cup {c}
    /\ UNCHANGED <<open, roll, held, marked, box>>

TakeSlip(s) ==
    /\ open
    /\ held' = held \cup {s}
    /\ UNCHANGED <<open, roll, onSlate, marked, box>>

SpoilSlip(s) ==
    /\ held' = held \ {s}
    /\ UNCHANGED <<open, roll, onSlate, marked, box>>

Drop(s, p, c) ==
    /\ s \in held
    /\ p \in roll \ marked
    /\ c \in onSlate
    /\ held' = held \ {s}
    /\ marked' = marked \cup {p}
    /\ box' = Append(box, c)
    /\ UNCHANGED <<open, roll, onSlate>>

Next ==
    \/ OpenOrClose
    \/ \E p \in People : Enrol(p)
    \/ \E c \in Standing : Stand(c)
    \/ \E s \in Slips : TakeSlip(s) \/ SpoilSlip(s)
    \/ \E s \in Slips, p \in People, c \in Standing : Drop(s, p, c)

Spec == Init /\ [][Next]_boxVars
=============================================================================
