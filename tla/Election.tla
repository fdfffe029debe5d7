------------------------------- MODULE Election ------------------------------
(***************************************************************************)
(* Election day: the committee's edits, the check-in desks and voting run  *)
(* against the same tables, each request of each at its own pace.          *)
(***************************************************************************)
EXTENDS Attendance, Voting

vars == <<committeeVars, desk, votingVars>>

TypeOK == CommitteeTypeOK /\ DeskTypeOK /\ VotingTypeOK

Init == CommitteeInit /\ DeskInit /\ VotingInit

Next ==
    \/ CommitteeNext /\ UNCHANGED <<desk, votingVars>>
    \/ AttendanceNext /\ UNCHANGED votingVars
    \/ VotingNext /\ UNCHANGED desk

Spec == Init /\ [][Next]_vars

\* A request that has begun is carried on by its goroutine; nobody is obliged
\* to send one, and no error is obliged to happen.
Fairness ==
    /\ \A r \in Requests : WF_vars(VoteStep(r) /\ UNCHANGED desk)
    /\ \A d \in Desks : WF_vars(DeskStep(d) /\ UNCHANGED votingVars)
    /\ \A a \in Admins : WF_vars(WriteSession(a) /\ UNCHANGED desk)

FairSpec == Spec /\ Fairness

-----------------------------------------------------------------------------
(* Safety.                                                                 *)

\* Whoever the desk has admitted: an attendance row, undone or not, and an
\* approved snapshot.  Nothing takes either away.
Admitted(p) == attendance[p] # "none" /\ participants[p] \in ApprovedStatuses

\* Receipts and ballots are two tables with no key between them, kept in step
\* only by CastVote's transaction: whatever requests race for one voter, there
\* are exactly as many ballots as voters with a receipt.
BallotsMatchReceipts == Len(ballots) = Cardinality(receipts)

\* Whoever has a receipt was checked in at some time and has an approved
\* snapshot, whatever was edited, undone or deleted between the eligibility
\* read and the insert.
ReceiptsAreOfAdmitted == \A p \in receipts : Admitted(p)

\* A ballot names a candidate that has been votable, even one that was
\* delisted or deleted between the candidate read and the insert.
BallotsAreForSlate == \A i \in DOMAIN ballots : ballots[i] \in slate

\* The summary can only fall short of the receipts by ballots of candidates
\* taken off the slate: while all of them are still votable, the published
\* counts add up to the number of voters.
SummaryAccountsForReceipts ==
    (\A c \in slate : IsCandidateValid(c)) => VotesCast = Cardinality(receipts)

\* No step withdraws or rewrites a vote: not undoing a check-in, deleting a
\* registration or a candidate, nor reopening the session.
VotesAreKept ==
    [][/\ receipts \subseteq receipts'
       /\ Len(ballots) <= Len(ballots')
       /\ \A i \in DOMAIN ballots : ballots'[i] = ballots[i]]_vars

\* The ballots that arrive while the session is not RUNNING were all on their
\* way when it stopped: their number never exceeds the requests then in flight.
LateBallotsWereInFlight ==
    [][(session # "RUNNING" /\ session' # "RUNNING") =>
          Len(ballots') + Cardinality(InFlight') <= Len(ballots) + Cardinality(InFlight)]_vars

\* The detailed election implements the ballot box: a slip is an in-flight
\* CastVote call, the roll is whoever has an attendance row and an approved
\* snapshot, and the slate is the candidates votable so far.
Box == INSTANCE BallotBox WITH
           People <- Participants, Standing <- Candidates, Slips <- Requests,
           open <- session = "RUNNING",
           roll <- {p \in Participants : Admitted(p)},
           onSlate <- slate, held <- InFlight, marked <- receipts, box <- ballots

ImplementsBallotBox == Box!Spec

-----------------------------------------------------------------------------
(* Liveness.                                                               *)

\* Once the session has left RUNNING for good the count settles: every request
\* in flight is carried through or refused, even one that lost the race for
\* its voter's receipt.
CountSettles == <>[](session # "RUNNING") => <>[](InFlight = {})

-----------------------------------------------------------------------------
(* What documents and comments of the repository say, and the code does not do. *)

\* docs/20-state-diagram.md:32: a CLOSED session cannot become active again.
ClosedNeverRunsAgain == [][session = "CLOSED" => session' # "RUNNING"]_vars

\* docs/01-product/business-rules.md:23: voting only while the session is RUNNING.
BallotsOnlyWhileRunning == [][ballots' # ballots => session = "RUNNING"]_vars

\* docs/01-product/business-rules.md:24: only verified delegates who have
\* checked in are eligible to vote.
EligibleAreVerified ==
    \A p \in Participants : IsParticipantEligible(p) => registrations[p] \in ApprovedStatuses

\* 018_update_attendance_undo.sql:10: uniqueness is for active check-ins only,
\* so a check-in after an undo creates an active row again.
CheckInAfterUndo ==
    [][\A d \in Desks :
          (CheckInTx(d) /\ attendance[desk[d].p] = "undone") => attendance'[desk[d].p] = "active"]_vars
=============================================================================
