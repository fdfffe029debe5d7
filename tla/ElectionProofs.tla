---------------------------- MODULE ElectionProofs ---------------------------
(***************************************************************************)
(* Proofs about Election, for every set of participants, candidates,       *)
(* request slots, desks and admins and every bound on edits.               *)
(*                                                                         *)
(* The inductive invariant adds to the invariants what a request that is   *)
(* past a check still knows when it commits: the checks of CastVote are    *)
(* reads made outside its transaction, so the proof has to show that what  *)
(* matters of their answers cannot be undone.                              *)
(***************************************************************************)
EXTENDS Election, FiniteSetTheorems, TLAPS

\* A request past the eligibility read is for somebody the desk has admitted,
\* and one past the candidate read is for a candidate on the slate.
ChecksStand ==
    /\ \A r \in Requests : vote[r].pc \in {"voted", "candidate", "cast"} => Admitted(vote[r].p)
    /\ \A r \in Requests : vote[r].pc = "cast" => vote[r].c \in slate

ListedAreOnSlate == \A c \in Candidates : candidates[c] = "listed" => c \in slate

IInv ==
    /\ TypeOK
    /\ BallotsMatchReceipts
    /\ ReceiptsAreOfAdmitted
    /\ BallotsAreForSlate
    /\ ChecksStand
    /\ ListedAreOnSlate

-----------------------------------------------------------------------------
(* Types, one component at a time.                                         *)

LEMMA CommitteeStepType ==
    ASSUME CommitteeTypeOK, CommitteeNext
    PROVE  CommitteeTypeOK'
<1>0. MaxEdits \in Nat
  BY CommitteeAssumption
<1>1. ASSUME NEW S \in SUBSET Participants, NEW s \in RegStatuses, SetRegistrationStatus(S, s)
      PROVE  CommitteeTypeOK'
  BY <1>0, <1>1 DEF CommitteeTypeOK, SetRegistrationStatus, Edit
<1>2. ASSUME NEW p \in Participants, ApproveAndProvision(p)
      PROVE  CommitteeTypeOK'
  BY <1>0, <1>2 DEF CommitteeTypeOK, ApproveAndProvision, Edit, RegStatuses, ApprovedStatuses
<1>3. ASSUME NEW S \in SUBSET Participants, DeleteRegistrations(S)
      PROVE  CommitteeTypeOK'
  BY <1>0, <1>3 DEF CommitteeTypeOK, DeleteRegistrations, Edit
<1>4. ASSUME NEW c \in Candidates, ListCandidate(c)
      PROVE  CommitteeTypeOK'
  BY <1>0, <1>4 DEF CommitteeTypeOK, ListCandidate, Edit
<1>5. ASSUME NEW c \in Candidates, UnlistCandidate(c)
      PROVE  CommitteeTypeOK'
  BY <1>0, <1>5 DEF CommitteeTypeOK, UnlistCandidate, Edit
<1>6. ASSUME NEW c \in Candidates, DeleteCandidate(c)
      PROVE  CommitteeTypeOK'
  BY <1>0, <1>6 DEF CommitteeTypeOK, DeleteCandidate, Edit
<1> QED
  BY <1>1, <1>2, <1>3, <1>4, <1>5, <1>6 DEF CommitteeNext

LEMMA DeskStepType ==
    ASSUME CommitteeTypeOK, DeskTypeOK, AttendanceNext
    PROVE  CommitteeTypeOK' /\ DeskTypeOK'
<1>1. ASSUME NEW d \in Desks, NEW p \in Participants, BeginCheckIn(d, p)
      PROVE  CommitteeTypeOK' /\ DeskTypeOK'
  BY <1>1 DEF CommitteeTypeOK, DeskTypeOK, BeginCheckIn, committeeVars
<1>2. ASSUME NEW d \in Desks, CheckInTx(d)
      PROVE  CommitteeTypeOK' /\ DeskTypeOK'
  <2>1. desk[d].p \in Participants
    BY <1>2 DEF DeskTypeOK, CheckInTx
  <2>2. Provisioned(desk[d].p) \in RegStatuses \cup {"absent"}
    BY <2>1 DEF CommitteeTypeOK, Provisioned
  <2>3. CommitteeTypeOK'
    BY <1>2, <2>1, <2>2 DEF CommitteeTypeOK, CheckInTx, AttendanceRows
  <2>4. DeskTypeOK'
    BY <1>2 DEF DeskTypeOK, CheckInTx, IdleDesk
  <2> QED
    BY <2>3, <2>4
<1>3. ASSUME NEW d \in Desks, CheckInFails(d)
      PROVE  CommitteeTypeOK' /\ DeskTypeOK'
  BY <1>3 DEF CommitteeTypeOK, DeskTypeOK, CheckInFails, IdleDesk, committeeVars
<1>4. ASSUME NEW S \in SUBSET Participants, UndoCheckIn(S)
      PROVE  CommitteeTypeOK' /\ DeskTypeOK'
  BY <1>4 DEF CommitteeTypeOK, DeskTypeOK, UndoCheckIn, AttendanceRows
<1> QED
  BY <1>1, <1>2, <1>3, <1>4 DEF AttendanceNext, DeskStep

\* A check of CastVote moves one request and nothing else.
LEMMA CheckType ==
    ASSUME VotingTypeOK, NEW r \in Requests, NEW here, NEW ok \in BOOLEAN, NEW next \in Steps,
           here # "idle", Check(r, here, ok, next)
    PROVE  VotingTypeOK'
BY DEF VotingTypeOK, Check, IdleVote

LEMMA VotingStepType ==
    ASSUME VotingTypeOK, VotingNext
    PROVE  VotingTypeOK'
<1>1. ASSUME NEW r \in Requests, NEW p \in Participants, NEW c \in Candidates, SubmitVote(r, p, c)
      PROVE  VotingTypeOK'
  BY <1>1 DEF VotingTypeOK, SubmitVote, Steps
<1>2. ASSUME NEW r \in Requests, CheckEligible(r)
      PROVE  VotingTypeOK'
  BY <1>2, CheckType DEF CheckEligible, IsParticipantEligible, Steps
<1>3. ASSUME NEW r \in Requests, CheckHasVoted(r)
      PROVE  VotingTypeOK'
  BY <1>3, CheckType DEF CheckHasVoted, Steps
<1>4. ASSUME NEW r \in Requests, CheckCandidate(r)
      PROVE  VotingTypeOK'
  BY <1>4, CheckType DEF CheckCandidate, IsCandidateValid, Steps
<1>5. ASSUME NEW r \in Requests, CastVoteTx(r)
      PROVE  VotingTypeOK'
  <2>1. vote[r].p \in Participants /\ vote[r].c \in Candidates
    BY <1>5 DEF VotingTypeOK, CastVoteTx
  <2>2. receipts' \subseteq Participants
    BY <1>5, <2>1 DEF VotingTypeOK, CastVoteTx
  <2>3. ballots' \in Seq(Candidates)
    BY <1>5, <2>1 DEF VotingTypeOK, CastVoteTx
  <2> QED
    BY <1>5, <2>2, <2>3 DEF VotingTypeOK, CastVoteTx, IdleVote
<1>6. ASSUME NEW r \in Requests, VoteFails(r)
      PROVE  VotingTypeOK'
  BY <1>6 DEF VotingTypeOK, VoteFails, IdleVote
<1>7. ASSUME NEW a \in Admins, NEW action \in DOMAIN Transitions, BeginUpdate(a, action)
      PROVE  VotingTypeOK'
  <2>1. SessionReads \subseteq Statuses
    BY DEF VotingTypeOK, SessionReads, Statuses
  <2> QED
    BY <1>7, <2>1 DEF VotingTypeOK, BeginUpdate
<1>8. ASSUME NEW a \in Admins, WriteSession(a)
      PROVE  VotingTypeOK'
  BY <1>8 DEF VotingTypeOK, WriteSession, IdleUpdate, Statuses
<1>9. ASSUME NEW a \in Admins, UpdateFails(a)
      PROVE  VotingTypeOK'
  BY <1>9 DEF VotingTypeOK, UpdateFails, IdleUpdate, Statuses
<1>10. ASSUME ReopenSession
       PROVE  VotingTypeOK'
  BY <1>10 DEF VotingTypeOK, ReopenSession, Statuses
<1> QED
  BY <1>1, <1>2, <1>3, <1>4, <1>5, <1>6, <1>7, <1>8, <1>9, <1>10 DEF VotingNext, VoteStep

\* Voting writes none of the committee's tables.
LEMMA VotingLeavesCommittee ==
    ASSUME VotingNext
    PROVE  UNCHANGED committeeVars
BY DEF VotingNext, VoteStep, SubmitVote, CheckEligible, CheckHasVoted, CheckCandidate, Check,
       CastVoteTx, VoteFails, BeginUpdate, WriteSession, UpdateFails, ReopenSession

LEMMA TypeInit == Init => TypeOK
<1> SUFFICES ASSUME Init PROVE TypeOK
  OBVIOUS
<1>1. CommitteeTypeOK
  BY CommitteeAssumption
     DEF Init, CommitteeInit, CommitteeTypeOK, RegStatuses, ApprovedStatuses, AttendanceRows
<1>2. DeskTypeOK
  BY DEF Init, DeskInit, DeskTypeOK, IdleDesk
<1>3. VotingTypeOK
  BY DEF Init, VotingInit, VotingTypeOK, IdleVote, IdleUpdate, Statuses
<1> QED
  BY <1>1, <1>2, <1>3 DEF TypeOK

LEMMA TypeStep == TypeOK /\ [Next]_vars => TypeOK'
<1> SUFFICES ASSUME TypeOK, [Next]_vars PROVE TypeOK'
  OBVIOUS
<1>1. CASE CommitteeNext /\ UNCHANGED <<desk, votingVars>>
  <2>1. CommitteeTypeOK'
    BY <1>1, CommitteeStepType DEF TypeOK
  <2>2. DeskTypeOK' /\ VotingTypeOK'
    BY <1>1 DEF TypeOK, DeskTypeOK, VotingTypeOK, votingVars
  <2> QED
    BY <2>1, <2>2 DEF TypeOK
<1>2. CASE AttendanceNext /\ UNCHANGED votingVars
  <2>1. CommitteeTypeOK' /\ DeskTypeOK'
    BY <1>2, DeskStepType DEF TypeOK
  <2>2. VotingTypeOK'
    BY <1>2 DEF TypeOK, VotingTypeOK, votingVars
  <2> QED
    BY <2>1, <2>2 DEF TypeOK
<1>3. CASE VotingNext /\ UNCHANGED desk
  <2>1. VotingTypeOK'
    BY <1>3, VotingStepType DEF TypeOK
  <2>2. CommitteeTypeOK' /\ DeskTypeOK'
    BY <1>3, VotingLeavesCommittee DEF TypeOK, CommitteeTypeOK, DeskTypeOK, committeeVars
  <2> QED
    BY <2>1, <2>2 DEF TypeOK
<1>4. CASE UNCHANGED vars
  BY <1>4 DEF TypeOK, CommitteeTypeOK, DeskTypeOK, VotingTypeOK, vars, committeeVars, votingVars
<1> QED
  BY <1>1, <1>2, <1>3, <1>4 DEF Next

-----------------------------------------------------------------------------
(* What the tables never take back.                                        *)

\* The only writers of a snapshot are the approval, which writes an approved
\* status, and the check-in, which keeps a row that is there; no action removes
\* an attendance row.
LEMMA AdmissionStays ==
    ASSUME TypeOK, [Next]_vars, NEW p \in Participants
    PROVE  /\ participants[p] \in ApprovedStatuses => participants'[p] \in ApprovedStatuses
           /\ attendance[p] # "none" => attendance'[p] # "none"
<1>1. CASE CommitteeNext
  BY <1>1 DEF TypeOK, CommitteeTypeOK, CommitteeNext, SetRegistrationStatus, ApproveAndProvision,
              DeleteRegistrations, ListCandidate, UnlistCandidate, DeleteCandidate, ApprovedStatuses
<1>2. CASE AttendanceNext
  <2>1. ASSUME NEW d \in Desks, CheckInTx(d)
        PROVE  /\ participants[p] \in ApprovedStatuses => participants'[p] \in ApprovedStatuses
               /\ attendance[p] # "none" => attendance'[p] # "none"
    BY <2>1 DEF TypeOK, CommitteeTypeOK, DeskTypeOK, CheckInTx, Provisioned, Conflict,
                ApprovedStatuses
  <2>2. ASSUME NEW S \in SUBSET Participants, UndoCheckIn(S)
        PROVE  /\ participants[p] \in ApprovedStatuses => participants'[p] \in ApprovedStatuses
               /\ attendance[p] # "none" => attendance'[p] # "none"
    BY <2>2 DEF TypeOK, CommitteeTypeOK, UndoCheckIn
  <2>3. ASSUME NEW d \in Desks,
               CheckInFails(d) \/ \E q \in Participants : BeginCheckIn(d, q)
        PROVE  UNCHANGED <<participants, attendance>>
    BY <2>3 DEF CheckInFails, BeginCheckIn, committeeVars
  <2> QED
    BY <1>2, <2>1, <2>2, <2>3 DEF AttendanceNext, DeskStep
<1>3. CASE VotingNext
  BY <1>3, VotingLeavesCommittee DEF committeeVars
<1>4. CASE UNCHANGED vars
  BY <1>4 DEF vars, committeeVars
<1> QED
  BY <1>1, <1>2, <1>3, <1>4 DEF Next

LEMMA SlateStays ==
    ASSUME TypeOK, ListedAreOnSlate, [Next]_vars
    PROVE  slate \subseteq slate' /\ ListedAreOnSlate'
<1>1. CASE CommitteeNext
  BY <1>1 DEF TypeOK, CommitteeTypeOK, ListedAreOnSlate, CommitteeNext, SetRegistrationStatus,
              ApproveAndProvision, DeleteRegistrations, ListCandidate, UnlistCandidate,
              DeleteCandidate
<1>2. CASE AttendanceNext
  BY <1>2 DEF ListedAreOnSlate, AttendanceNext, DeskStep, BeginCheckIn, CheckInTx, CheckInFails,
              UndoCheckIn, committeeVars
<1>3. CASE VotingNext
  BY <1>3, VotingLeavesCommittee DEF ListedAreOnSlate, committeeVars
<1>4. CASE UNCHANGED vars
  BY <1>4 DEF ListedAreOnSlate, vars, committeeVars
<1> QED
  BY <1>1, <1>2, <1>3, <1>4 DEF Next

\* A step that leaves voting alone preserves what the invariant says of votes,
\* because admission and the slate only grow.
LEMMA OtherStepsKeepInv ==
    ASSUME IInv, [Next]_vars, UNCHANGED votingVars
    PROVE  IInv'
<1> USE DEF IInv
<1>1. TypeOK'
  BY TypeStep
<1>2. \A p \in Participants : Admitted(p) => Admitted(p)'
  BY AdmissionStays DEF Admitted
<1>3. slate \subseteq slate' /\ ListedAreOnSlate'
  BY SlateStays
<1>4. BallotsMatchReceipts'
  BY DEF BallotsMatchReceipts, votingVars
<1>5. ReceiptsAreOfAdmitted'
  BY <1>2 DEF ReceiptsAreOfAdmitted, votingVars, TypeOK, VotingTypeOK
<1>6. BallotsAreForSlate'
  BY <1>3 DEF BallotsAreForSlate, votingVars
<1>7. ChecksStand'
  BY <1>2, <1>3 DEF ChecksStand, votingVars, TypeOK, VotingTypeOK
<1> QED
  BY <1>1, <1>3, <1>4, <1>5, <1>6, <1>7

-----------------------------------------------------------------------------
(* The steps of voting.                                                    *)

\* The commit of CastVote either records one receipt and one ballot, for an
\* admitted voter and a candidate on the slate, or records nothing.
LEMMA CastVoteKeepsInv ==
    ASSUME IInv, TypeOK', NEW r \in Requests, CastVoteTx(r)
    PROVE  BallotsMatchReceipts' /\ ReceiptsAreOfAdmitted' /\ BallotsAreForSlate'
<1> DEFINE p == vote[r].p
           c == vote[r].c
<1>1. /\ p \in Participants /\ c \in Candidates
      /\ Admitted(p) /\ c \in slate
      /\ ballots \in Seq(Candidates) /\ receipts \subseteq Participants
  BY DEF IInv, TypeOK, VotingTypeOK, CastVoteTx, ChecksStand
<1>2. UNCHANGED <<participants, attendance, slate>>
  BY DEF CastVoteTx, committeeVars
<1>3. CASE UNCHANGED <<receipts, ballots>>
  BY <1>2, <1>3 DEF IInv, BallotsMatchReceipts, ReceiptsAreOfAdmitted, BallotsAreForSlate, Admitted
<1>4. CASE p \notin receipts /\ receipts' = receipts \cup {p} /\ ballots' = Append(ballots, c)
  <2>1. IsFiniteSet(receipts)
    BY <1>1, CommitteeAssumption, FS_Subset
  <2>2. Cardinality(receipts') = Cardinality(receipts) + 1
    BY <1>4, <2>1, FS_AddElement
  <2>3. Len(ballots') = Len(ballots) + 1
    BY <1>1, <1>4
  <2>4. BallotsMatchReceipts'
    BY <2>2, <2>3 DEF IInv, BallotsMatchReceipts
  <2>5. ReceiptsAreOfAdmitted'
    BY <1>1, <1>2, <1>4 DEF IInv, ReceiptsAreOfAdmitted, Admitted
  <2>6. BallotsAreForSlate'
    BY <1>1, <1>2, <1>4 DEF IInv, BallotsAreForSlate
  <2> QED
    BY <2>4, <2>5, <2>6
<1> QED
  BY <1>3, <1>4 DEF CastVoteTx

\* A request enters its later steps only through the check that answers for them.
LEMMA ChecksKeepStanding ==
    ASSUME IInv, VotingNext
    PROVE  ChecksStand'
<1> USE DEF IInv
<1>0. UNCHANGED <<participants, attendance, candidates, slate>>
  BY VotingLeavesCommittee DEF committeeVars
<1>1. ASSUME NEW r \in Requests, NEW p \in Participants, NEW c \in Candidates, SubmitVote(r, p, c)
      PROVE  ChecksStand'
  BY <1>0, <1>1 DEF ChecksStand, Admitted, SubmitVote, TypeOK, VotingTypeOK
<1>2. ASSUME NEW r \in Requests, CheckEligible(r)
      PROVE  ChecksStand'
  BY <1>0, <1>2 DEF ChecksStand, Admitted, CheckEligible, Check, IsParticipantEligible, IdleVote,
                    TypeOK, VotingTypeOK
<1>3. ASSUME NEW r \in Requests, CheckHasVoted(r)
      PROVE  ChecksStand'
  BY <1>0, <1>3 DEF ChecksStand, Admitted, CheckHasVoted, Check, IdleVote, TypeOK, VotingTypeOK
<1>4. ASSUME NEW r \in Requests, CheckCandidate(r)
      PROVE  ChecksStand'
  BY <1>0, <1>4 DEF ChecksStand, ListedAreOnSlate, Admitted, CheckCandidate, Check,
                    IsCandidateValid, IdleVote, TypeOK, VotingTypeOK
<1>5. ASSUME NEW r \in Requests, CastVoteTx(r) \/ VoteFails(r)
      PROVE  ChecksStand'
  <2>1. vote' = [vote EXCEPT ![r] = IdleVote]
    BY <1>5 DEF CastVoteTx, VoteFails
  <2> QED
    BY <1>0, <2>1 DEF ChecksStand, Admitted, IdleVote, TypeOK, VotingTypeOK
<1>6. ASSUME UNCHANGED vote
      PROVE  ChecksStand'
  BY <1>0, <1>6 DEF ChecksStand, Admitted
<1> QED
  BY <1>1, <1>2, <1>3, <1>4, <1>5, <1>6
     DEF VotingNext, VoteStep, BeginUpdate, WriteSession, UpdateFails, ReopenSession

LEMMA VotingKeepsInv ==
    ASSUME IInv, VotingNext, [Next]_vars
    PROVE  IInv'
<1>1. TypeOK'
  BY TypeStep DEF IInv
<1>2. ChecksStand'
  BY ChecksKeepStanding
<1>3. ListedAreOnSlate'
  BY SlateStays DEF IInv
<1>4. ASSUME NEW r \in Requests, CastVoteTx(r)
      PROVE  BallotsMatchReceipts' /\ ReceiptsAreOfAdmitted' /\ BallotsAreForSlate'
  BY <1>1, <1>4, CastVoteKeepsInv
<1>5. ASSUME UNCHANGED <<receipts, ballots>>
      PROVE  BallotsMatchReceipts' /\ ReceiptsAreOfAdmitted' /\ BallotsAreForSlate'
  BY <1>5, VotingLeavesCommittee
     DEF IInv, BallotsMatchReceipts, ReceiptsAreOfAdmitted, BallotsAreForSlate, Admitted,
         committeeVars
<1>6. (\E r \in Requests : CastVoteTx(r)) \/ UNCHANGED <<receipts, ballots>>
  BY DEF VotingNext, VoteStep, SubmitVote, CheckEligible, CheckHasVoted, CheckCandidate, Check,
         VoteFails, BeginUpdate, WriteSession, UpdateFails, ReopenSession
<1> QED
  BY <1>1, <1>2, <1>3, <1>4, <1>5, <1>6 DEF IInv

LEMMA InvInit == Init => IInv
<1> SUFFICES ASSUME Init PROVE IInv
  OBVIOUS
<1>1. TypeOK
  BY TypeInit
<1>2. BallotsMatchReceipts
  BY FS_EmptySet DEF Init, VotingInit, BallotsMatchReceipts
<1>3. ReceiptsAreOfAdmitted /\ BallotsAreForSlate /\ ChecksStand
  BY DEF Init, VotingInit, ReceiptsAreOfAdmitted, BallotsAreForSlate, ChecksStand, IdleVote
<1>4. ListedAreOnSlate
  BY DEF Init, CommitteeInit, ListedAreOnSlate
<1> QED
  BY <1>1, <1>2, <1>3, <1>4 DEF IInv

LEMMA InvStep == IInv /\ [Next]_vars => IInv'
<1> SUFFICES ASSUME IInv, [Next]_vars PROVE IInv'
  OBVIOUS
<1>1. CASE VotingNext
  BY <1>1, VotingKeepsInv
<1>2. CASE UNCHANGED votingVars
  BY <1>2, OtherStepsKeepInv
<1> QED
  BY <1>1, <1>2 DEF Next, vars

-----------------------------------------------------------------------------
(* The theorems.                                                           *)

\* Every reachable state satisfies the inductive invariant.
THEOREM Invariance == Spec => []IInv
BY InvInit, InvStep, PTL DEF Spec

\* The variables keep their types.
THEOREM TypeCorrect == Spec => []TypeOK
<1>1. IInv => TypeOK
  BY DEF IInv
<1> QED
  BY <1>1, Invariance, PTL

\* However the requests of CastVote interleave, there is exactly one ballot for
\* each receipt.
THEOREM OneBallotPerReceipt == Spec => []BallotsMatchReceipts
<1>1. IInv => BallotsMatchReceipts
  BY DEF IInv
<1> QED
  BY <1>1, Invariance, PTL

\* Only people whom a desk admitted have a receipt, although CastVote reads
\* their eligibility before its transaction and never again.
THEOREM OnlyAdmittedVote == Spec => []ReceiptsAreOfAdmitted
<1>1. IInv => ReceiptsAreOfAdmitted
  BY DEF IInv
<1> QED
  BY <1>1, Invariance, PTL

\* Every ballot names a candidate that was votable when its request read it.
THEOREM OnlySlateIsVoted == Spec => []BallotsAreForSlate
<1>1. IInv => BallotsAreForSlate
  BY DEF IInv
<1> QED
  BY <1>1, Invariance, PTL

\* The published counts add up to the number of voters for as long as no
\* candidate of the slate has been delisted or deleted.
THEOREM SummaryAddsUp == Spec => []SummaryAccountsForReceipts
<1>1. IInv => SummaryAccountsForReceipts
  <2> SUFFICES ASSUME IInv, \A c \in slate : IsCandidateValid(c)
               PROVE  VotesCast = Cardinality(receipts)
    BY DEF SummaryAccountsForReceipts
  <2>1. ballots \in Seq(Candidates)
    BY DEF IInv, TypeOK, VotingTypeOK
  <2>2. {i \in DOMAIN ballots : IsCandidateValid(ballots[i])} = 1..Len(ballots)
    BY <2>1 DEF IInv, BallotsAreForSlate
  <2>3. Len(ballots) \in Nat
    BY <2>1
  <2>4. ASSUME NEW n \in Nat
        PROVE  Cardinality(1..n) = n
    <3>1. Cardinality(1..n) = IF 1 > n THEN 0 ELSE n - 1 + 1
      BY FS_Interval
    <3> QED
      BY <3>1
  <2> QED
    BY <2>2, <2>3, <2>4 DEF VotesCast, IInv, BallotsMatchReceipts
<1> QED
  BY <1>1, Invariance, PTL

\* No step takes a receipt away or changes a ballot.
THEOREM VotesStay == Spec => VotesAreKept
<1> DEFINE Kept == /\ receipts \subseteq receipts'
                   /\ Len(ballots) <= Len(ballots')
                   /\ \A i \in DOMAIN ballots : ballots'[i] = ballots[i]
<1>1. IInv /\ [Next]_vars => [Kept]_vars
  <2> SUFFICES ASSUME IInv, Next PROVE Kept
    OBVIOUS
  <2>1. ballots \in Seq(Candidates)
    BY DEF IInv, TypeOK, VotingTypeOK
  <2>2. CASE UNCHANGED <<receipts, ballots>>
    BY <2>1, <2>2
  <2>3. ASSUME NEW r \in Requests, CastVoteTx(r)
        PROVE  Kept
    <3>1. vote[r].c \in Candidates
      BY <2>3 DEF IInv, TypeOK, VotingTypeOK, CastVoteTx
    <3>2. CASE ballots' = Append(ballots, vote[r].c) /\ receipts \subseteq receipts'
      BY <2>1, <3>1, <3>2
    <3> QED
      BY <2>1, <2>2, <2>3, <3>2 DEF CastVoteTx
  <2>4. (\E r \in Requests : CastVoteTx(r)) \/ UNCHANGED <<receipts, ballots>>
    BY DEF Next, VotingNext, VoteStep, SubmitVote, CheckEligible, CheckHasVoted, CheckCandidate,
           Check, VoteFails, BeginUpdate, WriteSession, UpdateFails, ReopenSession, votingVars
  <2> QED
    BY <2>2, <2>3, <2>4
<1> QED
  BY <1>1, Invariance, PTL DEF Spec, VotesAreKept

\* Outside RUNNING no request is admitted, so each late ballot uses up a request
\* that was in flight.
THEOREM LateBallotsAreCounted == Spec => LateBallotsWereInFlight
<1> DEFINE Bounded == (session # "RUNNING" /\ session' # "RUNNING") =>
              Len(ballots') + Cardinality(InFlight') <= Len(ballots) + Cardinality(InFlight)
<1>1. IInv /\ [Next]_vars => [Bounded]_vars
  <2> SUFFICES ASSUME IInv, Next, session # "RUNNING" PROVE Bounded
    OBVIOUS
  <2>1. ballots \in Seq(Candidates) /\ Len(ballots) \in Nat
    BY DEF IInv, TypeOK, VotingTypeOK
  <2>2. IsFiniteSet(InFlight) /\ Cardinality(InFlight) \in Nat
    BY VotingAssumption, FS_Subset, FS_CardinalityType DEF InFlight
  <2>3. ASSUME InFlight' \subseteq InFlight, ballots' = ballots
        PROVE  Bounded
    <3>1. Cardinality(InFlight') <= Cardinality(InFlight) /\ Cardinality(InFlight') \in Nat
      BY <2>2, <2>3, FS_Subset, FS_CardinalityType
    <3> QED
      BY <2>1, <2>2, <2>3, <3>1
  <2>4. ASSUME NEW r \in Requests, CastVoteTx(r), ballots' = Append(ballots, vote[r].c)
        PROVE  Bounded
    <3>1. r \in InFlight /\ InFlight' = InFlight \ {r}
      BY <2>4 DEF IInv, TypeOK, VotingTypeOK, InFlight, IdleVote, CastVoteTx
    <3>2. Cardinality(InFlight') = Cardinality(InFlight) - 1
      BY <2>2, <3>1, FS_RemoveElement
    <3>3. Len(ballots') = Len(ballots) + 1
      BY <2>1, <2>4 DEF IInv, TypeOK, VotingTypeOK, CastVoteTx
    <3> QED
      BY <2>1, <2>2, <3>2, <3>3
  <2>5. ASSUME NEW r \in Requests, vote' = [vote EXCEPT ![r] = IdleVote]
        PROVE  InFlight' \subseteq InFlight
    BY <2>5 DEF IInv, TypeOK, VotingTypeOK, InFlight, IdleVote
  <2>6. ASSUME NEW r \in Requests, CastVoteTx(r) \/ VoteFails(r)
        PROVE  Bounded
    BY <2>3, <2>4, <2>5, <2>6 DEF CastVoteTx, VoteFails
  <2>7. ASSUME NEW r \in Requests, CheckEligible(r) \/ CheckHasVoted(r) \/ CheckCandidate(r)
        PROVE  Bounded
    <3>1. InFlight' \subseteq InFlight
      BY <2>7 DEF IInv, TypeOK, VotingTypeOK, InFlight, CheckEligible, CheckHasVoted,
                  CheckCandidate, Check, IdleVote
    <3>2. ballots' = ballots
      BY <2>7 DEF CheckEligible, CheckHasVoted, CheckCandidate, Check
    <3> QED
      BY <2>3, <3>1, <3>2
  <2>8. ASSUME UNCHANGED <<ballots, vote>>
        PROVE  Bounded
    BY <2>3, <2>8 DEF InFlight
  <2> QED
    BY <2>6, <2>7, <2>8
       DEF Next, VotingNext, VoteStep, SubmitVote, BeginUpdate, WriteSession, UpdateFails,
           ReopenSession, votingVars
<1> QED
  BY <1>1, Invariance, PTL DEF Spec, LateBallotsWereInFlight

-----------------------------------------------------------------------------
(* Refinement.                                                             *)

LEMMA BoxInit == Init => Box!Init
<1> SUFFICES ASSUME Init PROVE Box!Init
  OBVIOUS
<1>1. InFlight = {}
  BY DEF Init, VotingInit, IdleVote, InFlight
<1>2. {p \in Participants : Admitted(p)} = {}
  BY DEF Init, CommitteeInit, Admitted
<1>3. slate \subseteq Candidates
  BY DEF Init, CommitteeInit
<1>4. session # "RUNNING" /\ receipts = {} /\ ballots = <<>>
  BY DEF Init, VotingInit
<1> QED
  BY <1>1, <1>2, <1>3, <1>4 DEF Box!Init

\* Without a vote in the step, the box sees an enrolment, a candidacy or nothing.
LEMMA TablesRefineBox ==
    ASSUME IInv, [Next]_vars, CommitteeNext \/ AttendanceNext, UNCHANGED votingVars
    PROVE  [Box!Next]_(Box!boxVars)
<1> DEFINE Roll == {p \in Participants : Admitted(p)}
<1>0. UNCHANGED <<session, InFlight, receipts, ballots>>
  BY DEF votingVars, InFlight
<1>1. ASSUME NEW p \in Participants, Roll' = Roll \cup {p}, slate' = slate
      PROVE  [Box!Next]_(Box!boxVars)
  BY <1>0, <1>1 DEF Box!Next, Box!Enrol
<1>2. ASSUME NEW c \in Candidates, slate' = slate \cup {c}, Roll' = Roll
      PROVE  [Box!Next]_(Box!boxVars)
  BY <1>0, <1>2 DEF Box!Next, Box!Stand
<1>3. ASSUME slate' = slate, Roll' = Roll
      PROVE  [Box!Next]_(Box!boxVars)
  BY <1>0, <1>3 DEF Box!boxVars
<1>4. ASSUME UNCHANGED <<participants, attendance>>
      PROVE  Roll' = Roll
  BY <1>4 DEF Admitted
<1>5. ASSUME NEW p \in Participants, ApproveAndProvision(p)
      PROVE  [Box!Next]_(Box!boxVars)
  <2>1. slate' = slate /\ (Roll' = Roll \/ Roll' = Roll \cup {p})
    BY <1>5 DEF IInv, TypeOK, CommitteeTypeOK, ApproveAndProvision, Admitted, ApprovedStatuses
  <2> QED
    BY <1>1, <1>3, <2>1
<1>6. ASSUME NEW d \in Desks, CheckInTx(d)
      PROVE  [Box!Next]_(Box!boxVars)
  <2>1. PICK p \in Participants : p = desk[d].p
    BY <1>6 DEF IInv, TypeOK, DeskTypeOK, CheckInTx
  <2>2. \A q \in Participants \ {p} : participants'[q] = participants[q] /\ attendance'[q] = attendance[q]
    BY <1>6, <2>1 DEF IInv, TypeOK, CommitteeTypeOK, CheckInTx
  <2>3. Admitted(p) => Admitted(p)'
    BY <2>1, AdmissionStays DEF IInv, Admitted
  <2>4. Roll' = Roll \/ Roll' = Roll \cup {p}
    BY <2>1, <2>2, <2>3 DEF Admitted
  <2>5. slate' = slate
    BY <1>6 DEF CheckInTx
  <2> QED
    BY <1>1, <1>3, <2>1, <2>4, <2>5
<1>7. ASSUME NEW S \in SUBSET Participants, UndoCheckIn(S)
      PROVE  [Box!Next]_(Box!boxVars)
  <2>1. Roll' = Roll /\ slate' = slate
    BY <1>7 DEF IInv, TypeOK, CommitteeTypeOK, UndoCheckIn, Admitted
  <2> QED
    BY <1>3, <2>1
<1>8. ASSUME NEW c \in Candidates, ListCandidate(c)
      PROVE  [Box!Next]_(Box!boxVars)
  <2>1. slate' = slate \cup {c} /\ UNCHANGED <<participants, attendance>>
    BY <1>8 DEF ListCandidate
  <2> QED
    BY <1>2, <1>4, <2>1
<1>9. ASSUME UNCHANGED <<participants, attendance, slate>>
      PROVE  [Box!Next]_(Box!boxVars)
  BY <1>3, <1>4, <1>9
<1> QED
  BY <1>5, <1>6, <1>7, <1>8, <1>9
     DEF CommitteeNext, AttendanceNext, DeskStep, SetRegistrationStatus, DeleteRegistrations,
         UnlistCandidate, DeleteCandidate, BeginCheckIn, CheckInFails, committeeVars

\* A CastVote call takes a slip, returns it, or drops it in the box.
LEMMA VotingRefinesBox ==
    ASSUME IInv, VotingNext
    PROVE  [Box!Next]_(Box!boxVars)
<1> DEFINE Roll == {p \in Participants : Admitted(p)}
<1>0. Roll' = Roll /\ slate' = slate
  BY VotingLeavesCommittee DEF committeeVars, Admitted
<1>1. ASSUME NEW r \in Requests, NEW p \in Participants, NEW c \in Candidates, SubmitVote(r, p, c)
      PROVE  [Box!Next]_(Box!boxVars)
  <2>1. InFlight' = InFlight \cup {r}
    BY <1>1 DEF IInv, TypeOK, VotingTypeOK, SubmitVote, InFlight
  <2> QED
    BY <1>0, <1>1, <2>1 DEF SubmitVote, Box!Next, Box!TakeSlip
<1>2. ASSUME NEW r \in Requests, vote' = [vote EXCEPT ![r] = IdleVote],
             UNCHANGED <<session, receipts, ballots>>
      PROVE  [Box!Next]_(Box!boxVars)
  <2>1. InFlight' = InFlight \ {r}
    BY <1>2 DEF IInv, TypeOK, VotingTypeOK, InFlight, IdleVote
  <2> QED
    BY <1>0, <1>2, <2>1 DEF Box!Next, Box!SpoilSlip
<1>3. ASSUME UNCHANGED <<session, InFlight, receipts, ballots>>
      PROVE  [Box!Next]_(Box!boxVars)
  BY <1>0, <1>3 DEF Box!boxVars
<1>4. ASSUME NEW r \in Requests, NEW here \in Steps, NEW ok \in BOOLEAN, NEW next \in Steps,
             Check(r, here, ok, next)
      PROVE  [Box!Next]_(Box!boxVars)
  <2>1. CASE ok
    <3>1. InFlight' = InFlight
      BY <1>4, <2>1 DEF IInv, TypeOK, VotingTypeOK, Check, InFlight, Steps
    <3> QED
      BY <1>3, <1>4, <3>1 DEF Check
  <2>2. CASE ~ok
    BY <1>2, <1>4, <2>2 DEF Check
  <2> QED
    BY <2>1, <2>2
<1>5. ASSUME NEW r \in Requests, CheckEligible(r) \/ CheckHasVoted(r) \/ CheckCandidate(r)
      PROVE  [Box!Next]_(Box!boxVars)
  BY <1>4, <1>5 DEF CheckEligible, CheckHasVoted, CheckCandidate, IsParticipantEligible,
                    IsCandidateValid, Steps
<1>6. ASSUME NEW r \in Requests, CastVoteTx(r)
      PROVE  [Box!Next]_(Box!boxVars)
  <2>1. CASE UNCHANGED <<receipts, ballots>>
    BY <1>2, <1>6, <2>1 DEF CastVoteTx
  <2>2. CASE /\ vote[r].p \notin receipts
             /\ receipts' = receipts \cup {vote[r].p}
             /\ ballots' = Append(ballots, vote[r].c)
    <3>1. vote[r].p \in Participants /\ vote[r].c \in Candidates
      BY <1>6 DEF IInv, TypeOK, VotingTypeOK, CastVoteTx
    <3>2. Admitted(vote[r].p) /\ vote[r].c \in slate
      BY <1>6 DEF IInv, ChecksStand, CastVoteTx
    <3>3. r \in InFlight /\ InFlight' = InFlight \ {r}
      BY <1>6 DEF IInv, TypeOK, VotingTypeOK, InFlight, IdleVote, CastVoteTx
    <3>4. session' = session
      BY <1>6 DEF CastVoteTx
    <3>5. Box!Drop(r, vote[r].p, vote[r].c)
      BY <1>0, <2>2, <3>1, <3>2, <3>3, <3>4 DEF Box!Drop
    <3> QED
      BY <3>1, <3>5 DEF Box!Next
  <2> QED
    BY <1>6, <2>1, <2>2 DEF CastVoteTx
<1>7. ASSUME NEW r \in Requests, VoteFails(r)
      PROVE  [Box!Next]_(Box!boxVars)
  BY <1>2, <1>7 DEF VoteFails
<1>8. ASSUME UNCHANGED <<receipts, ballots, vote>>
      PROVE  [Box!Next]_(Box!boxVars)
  <2>1. InFlight' = InFlight
    BY <1>8 DEF InFlight
  <2>2. CASE (session' = "RUNNING") = (session = "RUNNING")
    BY <1>0, <1>8, <2>1, <2>2 DEF Box!boxVars
  <2>3. CASE (session' = "RUNNING") = ~(session = "RUNNING")
    BY <1>0, <1>8, <2>1, <2>3 DEF Box!Next, Box!OpenOrClose
  <2> QED
    BY <2>2, <2>3
<1> QED
  BY <1>1, <1>5, <1>6, <1>7, <1>8
     DEF VotingNext, VoteStep, BeginUpdate, WriteSession, UpdateFails, ReopenSession

\* The election, with its tables read at different times, implements the ballot
\* box: one ballot per person on the roll, for a candidate of the slate, from a
\* slip handed out while voting was open.
THEOREM Refinement == Spec => ImplementsBallotBox
<1>1. IInv /\ [Next]_vars => [Box!Next]_(Box!boxVars)
  <2> SUFFICES ASSUME IInv, [Next]_vars PROVE [Box!Next]_(Box!boxVars)
    OBVIOUS
  <2>1. CASE UNCHANGED vars
    BY <2>1 DEF vars, committeeVars, votingVars, Box!boxVars, InFlight, Admitted
  <2> QED
    BY <2>1, TablesRefineBox, VotingRefinesBox DEF Next
<1> QED
  BY <1>1, BoxInit, Invariance, PTL DEF Spec, ImplementsBallotBox, Box!Spec
=============================================================================
