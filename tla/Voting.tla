-------------------------------- MODULE Voting -------------------------------
(***************************************************************************)
(* The voting module.  CastVote makes four separate reads (session,        *)
(* eligibility, receipt, candidate) and then one transaction that inserts  *)
(* a receipt and an anonymous ballot; each is a step here.  The session    *)
(* status is one row of system_configurations, changed by an admin handler *)
(* that reads it, decides, and then writes it unconditionally, and by the  *)
(* super admin's reopen, which locks the row.                              *)
(***************************************************************************)
EXTENDS Committee, Sequences

CONSTANTS Requests,       \* bound: CastVote calls in flight at once
          Admins,         \* bound: session updates in flight at once
          ReadsMayFail,   \* whether a read of the session row may return an error
          Blank           \* the candidate of an idle request

ASSUME VotingAssumption ==
    /\ IsFiniteSet(Requests)
    /\ ReadsMayFail \in BOOLEAN

VARIABLES session,   \* settings->>'status' of the voting_session row
          receipts,  \* voter_receipts: who voted
          ballots,   \* ballots in insertion order; the order is not stored
          vote,      \* the CastVote call of each request
          update     \* the UpdateSessionStatus call of each admin

votingVars == <<session, receipts, ballots, vote, update>>

Statuses == {"NOT_STARTED", "RUNNING", "PAUSED", "CLOSED"}
Steps == {"eligible", "voted", "candidate", "cast"}

IdleVote == [pc |-> "idle", p |-> Nobody, c |-> Blank]
IdleUpdate == [pc |-> "idle", to |-> "NOT_STARTED"]

VotingTypeOK ==
    /\ session \in Statuses
    /\ receipts \subseteq Participants
    /\ ballots \in Seq(Candidates)
    /\ vote \in [Requests -> [pc : Steps \cup {"idle"},
                              p : Participants \cup {Nobody},
                              c : Candidates \cup {Blank}]]
    /\ \A r \in Requests :
          vote[r].pc # "idle" => vote[r].p \in Participants /\ vote[r].c \in Candidates
    /\ update \in [Admins -> [pc : {"idle", "write"}, to : Statuses]]

VotingInit ==
    /\ session = "NOT_STARTED"
    /\ receipts = {}
    /\ ballots = <<>>
    /\ vote = [r \in Requests |-> IdleVote]
    /\ update = [a \in Admins |-> IdleUpdate]

-----------------------------------------------------------------------------
(* What the queries of the repository answer.                              *)

\* Slips: either half of the eligibility query dropped, and the status filter
\* of the candidate query dropped.
IsParticipantEligibleByAttendance(p) == attendance[p] = "active"
IsParticipantEligibleBySnapshot(p) == participants[p] \in ApprovedStatuses
IsCandidateValidIfPresent(c) == candidates[c] # "deleted"

\* participants JOIN attendance: the snapshot's status and an active row; the
\* registration itself is not consulted.
IsParticipantEligible(p) ==
    participants[p] \in ApprovedStatuses /\ attendance[p] = "active"

IsCandidateValid(c) == candidates[c] = "listed"

\* GetResults counts ballots per candidate votable now, and GetSummary adds the
\* counts up: a ballot whose candidate was delisted or deleted is in no row.
VotesCast == Cardinality({i \in DOMAIN ballots : IsCandidateValid(ballots[i])})

InFlight == {r \in Requests : vote[r].pc # "idle"}

-----------------------------------------------------------------------------
(* CastVote.                                                               *)

\* Slip: only a closed session refuses votes.
SubmitVoteUnlessClosed(r, p, c) ==
    /\ vote[r].pc = "idle"
    /\ session # "CLOSED"
    /\ vote' = [vote EXCEPT ![r] = [pc |-> "eligible", p |-> p, c |-> c]]
    /\ UNCHANGED <<session, receipts, ballots, update>>
    /\ UNCHANGED committeeVars

\* A request arrives and finds the session RUNNING.
SubmitVote(r, p, c) ==
    /\ vote[r].pc = "idle"
    /\ session = "RUNNING"
    /\ vote' = [vote EXCEPT ![r] = [pc |-> "eligible", p |-> p, c |-> c]]
    /\ UNCHANGED <<session, receipts, ballots, update>>
    /\ UNCHANGED committeeVars

\* A check of CastVote: go on to the next read, or return its error.
Check(r, here, ok, next) ==
    /\ vote[r].pc = here
    /\ vote' = [vote EXCEPT ![r] = IF ok THEN [pc |-> next, p |-> @.p, c |-> @.c] ELSE IdleVote]
    /\ UNCHANGED <<session, receipts, ballots, update>>
    /\ UNCHANGED committeeVars

CheckEligible(r) == Check(r, "eligible", IsParticipantEligible(vote[r].p), "voted")
CheckHasVoted(r) == Check(r, "voted", vote[r].p \notin receipts, "candidate")
CheckCandidate(r) == Check(r, "candidate", IsCandidateValid(vote[r].c), "cast")

\* Slips: the unique constraint is dropped and HasVoted trusted; the receipt
\* commits without the ballot; the unique violation is waited out, not returned.
CastVoteTxTrustingCheck(r) ==
    /\ vote[r].pc = "cast"
    /\ vote' = [vote EXCEPT ![r] = IdleVote]
    /\ receipts' = receipts \cup {vote[r].p}
    /\ ballots' = Append(ballots, vote[r].c)
    /\ UNCHANGED <<session, update>>
    /\ UNCHANGED committeeVars
CastVoteTxInTwoCommits(r) ==
    /\ vote[r].pc = "cast"
    /\ vote' = [vote EXCEPT ![r] = IdleVote]
    /\ vote[r].p \notin receipts
    /\ receipts' = receipts \cup {vote[r].p}
    /\ ballots' \in {ballots, Append(ballots, vote[r].c)}
    /\ UNCHANGED <<session, update>>
    /\ UNCHANGED committeeVars
CastVoteTxRetryingDuplicate(r) ==
    /\ vote[r].p \notin receipts
    /\ CastVoteTxTrustingCheck(r)

\* The transaction: the receipt's unique constraint serialises it against any
\* other vote of the participant, and the loser gets ErrAlreadyVoted.
CastVoteTx(r) ==
    /\ vote[r].pc = "cast"
    /\ vote' = [vote EXCEPT ![r] = IdleVote]
    /\ \/ /\ vote[r].p \notin receipts
          /\ receipts' = receipts \cup {vote[r].p}
          /\ ballots' = Append(ballots, vote[r].c)
       \/ /\ vote[r].p \in receipts
          /\ UNCHANGED <<receipts, ballots>>
    /\ UNCHANGED <<session, update>>
    /\ UNCHANGED committeeVars

\* A read or the transaction returns an error, or the request is cancelled: the
\* call ends and the deferred rollback leaves no trace.
VoteFails(r) ==
    /\ vote[r].pc # "idle"
    /\ vote' = [vote EXCEPT ![r] = IdleVote]
    /\ UNCHANGED <<session, receipts, ballots, update>>
    /\ UNCHANGED committeeVars

VoteStep(r) == CheckEligible(r) \/ CheckHasVoted(r) \/ CheckCandidate(r) \/ CastVoteTx(r)

-----------------------------------------------------------------------------
(* The session.                                                            *)

\* What the handler takes for the current status: a failed read counts as a
\* session that was never started.
SessionReads == {session} \cup (IF ReadsMayFail THEN {"NOT_STARTED"} ELSE {})

\* The status a given action leads to, for each status it is accepted in.
Transitions == [start  |-> {<<"NOT_STARTED", "RUNNING">>},
                pause  |-> {<<"RUNNING", "PAUSED">>},
                resume |-> {<<"PAUSED", "RUNNING">>},
                close  |-> {<<"RUNNING", "CLOSED">>, <<"PAUSED", "CLOSED">>}]

\* UpdateSessionStatus up to its switch: read, validate, choose the new status.
\* What was read is not kept: the upsert does not compare it with the row.
BeginUpdate(a, action) ==
    /\ update[a].pc = "idle"
    /\ \E seen \in SessionReads, to \in Statuses :
          /\ <<seen, to>> \in Transitions[action]
          /\ update' = [update EXCEPT ![a] = [pc |-> "write", to |-> to]]
    /\ UNCHANGED <<session, receipts, ballots, vote>>
    /\ UNCHANGED committeeVars

\* The upsert, whatever the row holds by then.
WriteSession(a) ==
    /\ update[a].pc = "write"
    /\ session' = update[a].to
    /\ update' = [update EXCEPT ![a] = IdleUpdate]
    /\ UNCHANGED <<receipts, ballots, vote>>
    /\ UNCHANGED committeeVars

UpdateFails(a) ==
    /\ update[a].pc = "write"
    /\ update' = [update EXCEPT ![a] = IdleUpdate]
    /\ UNCHANGED <<session, receipts, ballots, vote>>
    /\ UNCHANGED committeeVars

\* Slip: reopening starts the count afresh.
ReopenSessionAfresh ==
    /\ session = "CLOSED"
    /\ session' = "NOT_STARTED"
    /\ receipts' = {} /\ ballots' = <<>>
    /\ UNCHANGED <<vote, update>>
    /\ UNCHANGED committeeVars

\* ReopenSession: SELECT ... FOR UPDATE, the write and the audit row commit
\* together.  Receipts and ballots of the closed session are kept.
ReopenSession ==
    /\ session = "CLOSED"
    /\ session' = "NOT_STARTED"
    /\ UNCHANGED <<receipts, ballots, vote, update>>
    /\ UNCHANGED committeeVars

VotingNext ==
    \/ \E r \in Requests :
          \/ \E p \in Participants, c \in Candidates : SubmitVote(r, p, c)
          \/ VoteStep(r)
          \/ VoteFails(r)
    \/ \E a \in Admins :
          \/ \E action \in DOMAIN Transitions : BeginUpdate(a, action)
          \/ WriteSession(a)
          \/ UpdateFails(a)
    \/ ReopenSession
=============================================================================
