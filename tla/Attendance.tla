------------------------------ MODULE Attendance -----------------------------
(***************************************************************************)
(* The check-in desks (attendance.service).  A check-in reads the          *)
(* registration's status outside its transaction and then, in one          *)
(* transaction, provisions the participants snapshot and inserts the       *)
(* attendance row.  The two steps are separate here; the committee or      *)
(* another desk may act between them.                                      *)
(***************************************************************************)
EXTENDS Committee

CONSTANTS Desks    \* bound: check-in requests in flight at once

VARIABLE desk      \* the check-in request of each desk

IdleDesk == [pc |-> "idle", p |-> Nobody]

DeskTypeOK ==
    /\ desk \in [Desks -> [pc : {"idle", "insert"}, p : Participants \cup {Nobody}]]
    /\ \A d \in Desks : desk[d].pc = "insert" => desk[d].p \in Participants

DeskInit == desk = [d \in Desks |-> IdleDesk]

\* CheckIn up to the status test: the registration is read by id, and only an
\* approved one goes on.
BeginCheckIn(d, p) ==
    /\ desk[d].pc = "idle"
    /\ registrations[p] \in ApprovedStatuses
    /\ desk' = [desk EXCEPT ![d] = [pc |-> "insert", p |-> p]]
    /\ UNCHANGED committeeVars

\* Slip: a status carried over from the earlier read is kept when the registration
\* is gone.
ProvisionedFromStaleRead(p) ==
    IF participants[p] = "absent" THEN registrations[p] ELSE participants[p]

\* The snapshot CreateAttendance leaves: a row already there is kept (ON
\* CONFLICT DO NOTHING), otherwise the registration is copied as it reads now;
\* a registration deleted meanwhile has nothing to copy.
Provisioned(p) ==
    IF participants[p] = "absent" /\ registrations[p] # "deleted"
    THEN registrations[p]
    ELSE participants[p]

\* The row conflicts with the insert: uq_attendance_participant is a full
\* unique constraint, so the ON CONFLICT arbiter meets undone rows as well.
Conflict(p) == attendance[p] # "none"

\* The transaction of CheckIn.  Without a snapshot the insert would break the
\* foreign key to participants, and the transaction rolls back.
CheckInTx(d) ==
    LET p == desk[d].p IN
    /\ desk[d].pc = "insert"
    /\ Conflict(p) \/ Provisioned(p) # "absent"
    /\ participants' = [participants EXCEPT ![p] = Provisioned(p)]
    /\ attendance' = [attendance EXCEPT ![p] = IF Conflict(p) THEN @ ELSE "active"]
    /\ desk' = [desk EXCEPT ![d] = IdleDesk]
    /\ UNCHANGED <<registrations, candidates, slate, edits>>

\* The foreign key failure above, or any database error: nothing is written.
CheckInFails(d) ==
    /\ desk[d].pc = "insert"
    /\ desk' = [desk EXCEPT ![d] = IdleDesk]
    /\ UNCHANGED committeeVars

\* UndoCheckIn and BulkUndoCheckIn: every active row of S is marked undone and
\* at least one must be.
UndoCheckIn(S) ==
    /\ \E p \in S : attendance[p] = "active"
    /\ attendance' = [p \in Participants |->
                        IF p \in S /\ attendance[p] = "active" THEN "undone" ELSE attendance[p]]
    /\ UNCHANGED <<registrations, participants, candidates, slate, edits, desk>>

DeskStep(d) == CheckInTx(d) \/ CheckInFails(d)

AttendanceNext ==
    \/ \E d \in Desks : (\E p \in Participants : BeginCheckIn(d, p)) \/ DeskStep(d)
    \/ \E S \in SUBSET Participants : UndoCheckIn(S)
=============================================================================
