------------------------------ MODULE Committee ------------------------------
(***************************************************************************)
(* The tables the committee edits and the election reads: registrations,   *)
(* the participants snapshot, attendance rows and candidates.              *)
(*                                                                         *)
(* A registration and its participants row share one id.  The registration *)
(* is the row every admin screen edits; the participants row is a snapshot *)
(* taken when a registration is approved through the participant module or *)
(* when the person is checked in, and it is the row voting looks at.       *)
(*                                                                         *)
(* Only what the election can tell apart is kept of a row: its status.     *)
(* "Approved" and "Verified" are read alike everywhere but in one early    *)
(* return of participant.UpdateStatus, which compares the exact spelling;  *)
(* "APPROVED" is what the verification and registration modules write and  *)
(* "Verified" what the participant module writes.                          *)
(***************************************************************************)
EXTENDS Naturals, FiniteSets

CONSTANTS Participants,  \* ids of registrations, one per delegate
          Candidates,    \* ids of candidates
          Nobody,        \* the participant of an idle request
          MaxEdits       \* bound: committee edits in one behaviour

ASSUME CommitteeAssumption ==
    /\ IsFiniteSet(Participants)
    /\ MaxEdits \in Nat

VARIABLES registrations, \* status of each registration, or "deleted" (hard delete)
          participants,  \* status of each snapshot row, or "absent"
          attendance,    \* the attendance row of each participant, if any
          candidates,    \* whether voting reads a candidate's row as votable
          slate,         \* history: candidates that have been votable so far
          edits          \* committee edits made, for the bound MaxEdits

committeeVars == <<registrations, participants, attendance, candidates, slate, edits>>

ApprovedStatuses == {"APPROVED", "Verified"}
RegStatuses == ApprovedStatuses \cup {"PENDING", "REJECTED"}

\* One row per participant at most, since uq_attendance_participant covers
\* undone rows too.
AttendanceRows == {"none", "active", "undone"}

CommitteeTypeOK ==
    /\ registrations \in [Participants -> RegStatuses \cup {"deleted"}]
    /\ participants \in [Participants -> RegStatuses \cup {"absent"}]
    /\ attendance \in [Participants -> AttendanceRows]
    /\ candidates \in [Candidates -> {"unlisted", "listed", "deleted"}]
    /\ slate \subseteq Candidates
    /\ edits \in 0..MaxEdits

\* Election day starts with registrations and candidates already entered and
\* nobody checked in.
CommitteeInit ==
    /\ registrations \in [Participants -> {"PENDING", "APPROVED"}]
    /\ participants = [p \in Participants |-> "absent"]
    /\ attendance = [p \in Participants |-> "none"]
    /\ candidates \in [Candidates -> {"unlisted", "listed"}]
    /\ slate = {c \in Candidates : candidates[c] = "listed"}
    /\ edits = 0

Edit == edits < MaxEdits /\ edits' = edits + 1

Registered(S) == \A p \in S : registrations[p] # "deleted"

-----------------------------------------------------------------------------
(* Registrations.                                                          *)

\* Every path that writes registrations alone: verification.VerifyParticipant,
\* registration.AdminUpdateRegistrationStatus, participant.UpdateStatus for a
\* status other than Verified/Approved, and BulkUpdateStatus for any status.
\* None re-reads the row in its UPDATE, so any stored status may be replaced.
SetRegistrationStatus(S, status) ==
    /\ S # {} /\ Registered(S)
    /\ Edit
    /\ registrations' = [p \in Participants |-> IF p \in S THEN status ELSE registrations[p]]
    /\ UNCHANGED <<participants, attendance, candidates, slate>>

\* participant.UpdateStatus(Verified): one transaction writes the registration
\* and upserts the snapshot.  A registration that already reads "Verified" is
\* left as it is, snapshot included.
ApproveAndProvision(p) ==
    /\ Registered({p})
    /\ registrations[p] # "Verified"
    /\ Edit
    /\ registrations' = [registrations EXCEPT ![p] = "Verified"]
    /\ participants' = [participants EXCEPT ![p] = "Verified"]
    /\ UNCHANGED <<attendance, candidates, slate>>

\* participant.Delete and BulkDelete: a hard DELETE of the registrations; the
\* snapshots, attendance rows and receipts stay.
DeleteRegistrations(S) ==
    /\ S # {} /\ Registered(S)
    /\ Edit
    /\ registrations' = [p \in Participants |-> IF p \in S THEN "deleted" ELSE registrations[p]]
    /\ UNCHANGED <<participants, attendance, candidates, slate>>

-----------------------------------------------------------------------------
(* Candidates.                                                             *)

\* A write of candidates.status to a status voting accepts (Verified).
ListCandidate(c) ==
    /\ candidates[c] = "unlisted"
    /\ Edit
    /\ candidates' = [candidates EXCEPT ![c] = "listed"]
    /\ slate' = slate \cup {c}
    /\ UNCHANGED <<registrations, participants, attendance>>

\* A write of candidates.status to any other status.
UnlistCandidate(c) ==
    /\ candidates[c] = "listed"
    /\ Edit
    /\ candidates' = [candidates EXCEPT ![c] = "unlisted"]
    /\ UNCHANGED <<registrations, participants, attendance, slate>>

\* AdminDeleteCandidate: a soft delete; ballots keep their foreign key.
DeleteCandidate(c) ==
    /\ candidates[c] # "deleted"
    /\ Edit
    /\ candidates' = [candidates EXCEPT ![c] = "deleted"]
    /\ UNCHANGED <<registrations, participants, attendance, slate>>

CommitteeNext ==
    \/ \E S \in SUBSET Participants, s \in RegStatuses : SetRegistrationStatus(S, s)
    \/ \E p \in Participants : ApproveAndProvision(p)
    \/ \E S \in SUBSET Participants : DeleteRegistrations(S)
    \/ \E c \in Candidates : ListCandidate(c) \/ UnlistCandidate(c) \/ DeleteCandidate(c)
=============================================================================
