--------------------------- MODULE RegistrationProofs --------------------------
(***************************************************************************)
(* Proofs about Registration, for every finite set of registrations,       *)
(* visitors and officers, every limit and capacity and every pool size.    *)
(*                                                                         *)
(* Inductive invariants, one for each thing that is protected: the         *)
(* numbers, the quota, the waiting list and the pool of connections.       *)
(* Each says what a request in flight may still rely on when it goes on.   *)
(***************************************************************************)
EXTENDS Registration, FiniteSetTheorems, TLAPS

-----------------------------------------------------------------------------
(* Numbers of the series.                                                  *)

LEMMA OfficialNumbers ==
    ASSUME TypeOK
    PROVE  Official \subseteq Nat
BY RegistrationAssumption DEF TypeOK, Official, Numbers

LEMMA CountsAreNumbers ==
    ASSUME NEW S \in SUBSET Ids
    PROVE  IsFiniteSet(S) /\ Cardinality(S) \in Nat
BY RegistrationAssumption, FS_Subset, FS_CardinalityType

\* What NextNumber returns is a number, and none only for verification.
LEMMA NextNumberType ==
    ASSUME TypeOK, NEW o \in Officers, NEW last \in Last
    PROVE  NextNumber(officer[o].via, officer[o].seen, last) \in Numbers
<1>1. last \in Nat
  BY OfficialNumbers DEF Last
<1>2. NumberCount \in Nat
  BY CountsAreNumbers DEF NumberCount
<1> QED
  BY <1>1, <1>2 DEF NextNumber, TypeOK, Numbers

-----------------------------------------------------------------------------
(* Types, one group of actions at a time.                                  *)

TablesType ==
    /\ status \in [Ids -> RegStatuses \cup {"none", "deleted"}]
    /\ number \in [Ids -> Numbers]
    /\ email \in [Ids -> Emails \cup {Nobody}]
    /\ writer \in [Ids -> Handlers]
    /\ badge \in [Ids -> Numbers]

LEMMA InsertType ==
    ASSUME TypeOK, NEW i \in Ids, NEW s \in RegStatuses, NEW n \in Numbers,
           NEW e \in Emails \cup {Nobody}, NEW by \in Handlers, Insert(i, s, n, e, by)
    PROVE  TablesType'
BY DEF TypeOK, TablesType, Insert

LEMMA VisitStepType ==
    ASSUME TypeOK, NEW v \in Visitors, VisitStep(v) \/ VisitFails(v)
    PROVE  TypeOK'
<1>0. visit[v] \in [pc : VisitSteps \cup {"idle"}, e : Emails \cup {Nobody}, m : Modes \cup {"CLOSE"}]
  BY DEF TypeOK
<1>1. ASSUME NEW next \in VisitSteps, Goto(v, next)
      PROVE  visit' \in [Visitors -> [pc : VisitSteps \cup {"idle"}, e : Emails \cup {Nobody},
                                      m : Modes \cup {"CLOSE"}]]
  BY <1>0, <1>1 DEF TypeOK, Goto
<1>2. ASSUME Leave(v)
      PROVE  visit' \in [Visitors -> [pc : VisitSteps \cup {"idle"}, e : Emails \cup {Nobody},
                                      m : Modes \cup {"CLOSE"}]]
  BY <1>2 DEF TypeOK, Leave, IdleVisit
<1>3. CASE FindByEmail(v)
  BY <1>1, <1>2, <1>3 DEF FindByEmail, TypeOK, tables, VisitSteps
<1>4. CASE GetCapacitySettings(v)
  BY <1>0, <1>4 DEF GetCapacitySettings, TypeOK, tables, VisitSteps
<1>5. CASE BeginVisit(v)
  BY <1>1, <1>5 DEF BeginVisit, TypeOK, tables, VisitSteps
<1>6. CASE LockCapacity(v)
  BY <1>1, <1>6 DEF LockCapacity, TypeOK, tables, VisitSteps, Counting
<1>7. CASE CountMain(v)
  BY <1>1, <1>2, <1>7 DEF CountMain, TypeOK, tables, VisitSteps, Counting
<1>8. CASE CountWaiting(v)
  BY <1>1, <1>2, <1>8 DEF CountWaiting, TypeOK, tables, VisitSteps, Counting
<1>9. CASE DoRegister(v)
  <2>1. TablesType'
    <3>1. PICK i \in Free :
             \/ Insert(i, "WAITING", 0, visit[v].e, "public")
             \/ Insert(i, "PENDING", Temp, visit[v].e, "public")
      BY <1>9 DEF DoRegister
    <3> QED
      BY <1>0, <3>1, InsertType DEF Free, RegStatuses, Numbers, Handlers
  <2> QED
    BY <1>1, <1>2, <1>9, <2>1 DEF DoRegister, TypeOK, TablesType, VisitSteps, Counting
<1>10. CASE CommitVisit(v)
  BY <1>2, <1>10 DEF CommitVisit, TypeOK, tables
<1>11. CASE VisitFails(v)
  BY <1>2, <1>11 DEF VisitFails, TypeOK, tables
<1> QED
  BY <1>3, <1>4, <1>5, <1>6, <1>7, <1>8, <1>9, <1>10, <1>11 DEF VisitStep

OfficerType ==
    /\ officer \in [Officers -> [pc : OfficerSteps \cup {"idle"},
                                 via : {"verification", "participant", "registration"},
                                 id : Ids \cup {Nobody},
                                 to : RegStatuses,
                                 seen : Numbers, next : Numbers]]
    /\ \A o \in Officers : officer[o].pc # "idle" => officer[o].id \in Ids

LEMMA TakeType ==
    ASSUME TypeOK, NEW o \in Officers, NEW i \in Ids, NEW to \in RegStatuses,
           NEW via \in {"verification", "participant", "registration"},
           NEW pc \in OfficerSteps, Take(o, via, pc, i, to)
    PROVE  TypeOK'
<1>1. OfficerType'
  BY DEF TypeOK, OfficerType, Take, Numbers
<1>2. count' \in [requests : 0..MaxRequests, edits : 0..MaxEdits]
  BY RegistrationAssumption DEF TypeOK, Take, Request
<1> QED
  BY <1>1, <1>2 DEF TypeOK, OfficerType, Take, tables

LEMMA AdvanceType ==
    ASSUME TypeOK, NEW o \in Officers, NEW pc \in OfficerSteps, NEW next \in Numbers,
           officer[o].pc # "idle", Advance(o, pc, next)
    PROVE  OfficerType'
<1>1. officer[o] \in [pc : OfficerSteps \cup {"idle"},
                      via : {"verification", "participant", "registration"},
                      id : Ids \cup {Nobody}, to : RegStatuses, seen : Numbers, next : Numbers]
  BY DEF TypeOK
<1> QED
  BY <1>1 DEF TypeOK, OfficerType, Advance

LEMMA FinishType ==
    ASSUME TypeOK, NEW o \in Officers, Finish(o)
    PROVE  OfficerType'
BY DEF TypeOK, OfficerType, Finish, IdleOfficer, Numbers, RegStatuses

LEMMA CommittedType ==
    ASSUME TypeOK, NEW o \in Officers, officer[o].pc # "idle", Committed(officer[o])
    PROVE  TablesType'
<1>1. /\ officer[o].id \in Ids /\ officer[o].to \in RegStatuses
      /\ officer[o].next \in Numbers /\ officer[o].via \in Handlers
  BY DEF TypeOK, Handlers
<1> QED
  BY <1>1 DEF Committed, TypeOK, TablesType

LEMMA OfficerStepType ==
    ASSUME TypeOK, NEW o \in Officers, OfficerStep(o) \/ OfficerFails(o)
    PROVE  TypeOK'
<1>0. 0 \in Numbers
  BY DEF Numbers
<1>1. CASE BeginOfficer(o)
  BY <1>0, <1>1, AdvanceType DEF BeginOfficer, TypeOK, OfficerType, tables, OfficerSteps
<1>2. CASE Quota(o)
  BY <1>0, <1>2, AdvanceType, FinishType DEF Quota, TypeOK, OfficerType, tables, OfficerSteps
<1>3. CASE ChooseNumber(o)
  BY <1>3, AdvanceType, NextNumberType DEF ChooseNumber, TypeOK, OfficerType, tables, OfficerSteps
<1>4. CASE Write(o)
  <2>1. officer[o].next \in Numbers
    BY DEF TypeOK
  <2>2. OfficerType'
    BY <1>4, <2>1, FinishType, AdvanceType DEF Write, OfficerSteps
  <2>3. CASE Committed(officer[o])
    <3>1. TablesType'
      BY <1>4, <2>3, CommittedType DEF Write
    <3> QED
      BY <1>4, <2>2, <3>1 DEF Write, TypeOK, TablesType, OfficerType
  <2>4. CASE UNCHANGED tables
    BY <1>4, <2>2, <2>4 DEF Write, TypeOK, OfficerType, tables
  <2> QED
    BY <1>4, <2>3, <2>4 DEF Write
<1>6. CASE LockRow(o)
  <2>1. officer[o].id \in Ids
    BY <1>6 DEF LockRow, TypeOK
  <2>2. number[officer[o].id] \in Numbers
    BY <2>1 DEF TypeOK
  <2>3. OfficerType'
    <3>1. CASE Finish(o)
      BY <3>1, FinishType
    <3>2. CASE officer' = [officer EXCEPT ![o].pc = "number", ![o].seen = number[officer[o].id]]
      <4>1. officer'[o] = [pc |-> "number", via |-> officer[o].via, id |-> officer[o].id,
                           to |-> officer[o].to, seen |-> number[officer[o].id],
                           next |-> officer[o].next]
        BY <3>2 DEF TypeOK
      <4>2. DOMAIN officer' = Officers /\ officer' = [p \in Officers |-> officer'[p]]
            /\ \A p \in Officers \ {o} : officer'[p] = officer[p]
        BY <3>2 DEF TypeOK
      <4>3. officer'[o] \in [pc : OfficerSteps \cup {"idle"},
                             via : {"verification", "participant", "registration"},
                             id : Ids \cup {Nobody}, to : RegStatuses,
                             seen : Numbers, next : Numbers]
        BY <2>1, <2>2, <4>1 DEF TypeOK, OfficerSteps
      <4>4. ASSUME NEW p \in Officers \ {o}
            PROVE  /\ officer'[p] \in [pc : OfficerSteps \cup {"idle"},
                             via : {"verification", "participant", "registration"},
                             id : Ids \cup {Nobody}, to : RegStatuses,
                             seen : Numbers, next : Numbers]
                   /\ officer'[p].pc # "idle" => officer'[p].id \in Ids
        BY <4>2 DEF TypeOK
      <4>5. officer'[o].pc # "idle" => officer'[o].id \in Ids
        BY <2>1, <4>1
      <4> QED
        BY <4>2, <4>3, <4>4, <4>5 DEF OfficerType
    <3> QED
      BY <1>6, <3>1, <3>2 DEF LockRow
  <2> QED
    BY <1>6, <2>3 DEF LockRow, TypeOK, OfficerType, tables
<1>7. CASE QueueNotificationTx(o)
  <2>1. OfficerType' /\ TablesType'
    BY <1>7, FinishType, CommittedType DEF QueueNotificationTx
  <2> QED
    BY <1>7, <2>1 DEF QueueNotificationTx, TypeOK, TablesType, OfficerType
<1>5. CASE OfficerFails(o)
  BY <1>5, FinishType DEF OfficerFails, TypeOK, OfficerType, tables
<1> QED
  BY <1>1, <1>2, <1>3, <1>4, <1>5, <1>6, <1>7 DEF OfficerStep

LEMMA EditType ==
    ASSUME TypeOK, Edit
    PROVE  count' \in [requests : 0..MaxRequests, edits : 0..MaxEdits]
BY RegistrationAssumption DEF TypeOK, Edit

LEMMA RequestType ==
    ASSUME TypeOK, Request
    PROVE  count' \in [requests : 0..MaxRequests, edits : 0..MaxEdits]
BY RegistrationAssumption DEF TypeOK, Request

\* The type invariant: every step leaves the tables, the requests in flight and
\* the configuration with values the handlers know.
THEOREM TypeCorrect == Spec => []TypeOK
<1>1. Init => TypeOK
  BY RegistrationAssumption
  DEF Init, TypeOK, IdleVisit, IdleOfficer, Numbers, RegStatuses, ApprovedStatuses, Handlers
<1>2. ASSUME TypeOK, [Next]_vars
      PROVE  TypeOK'
  <2>1. ASSUME NEW v \in Visitors, NEW e \in Emails, Arrive(v, e)
        PROVE  TypeOK'
    BY <1>2, <2>1, RequestType DEF Arrive, TypeOK, tables, VisitSteps
  <2>2. ASSUME NEW v \in Visitors, VisitStep(v) \/ VisitFails(v)
        PROVE  TypeOK'
    BY <1>2, <2>2, VisitStepType
  <2>3. ASSUME NEW o \in Officers, NEW i \in Ids, NEW to \in RegStatuses,
               VerifyParticipant(o, i, to) \/ AdminUpdateRegistrationStatus(o, i, to)
        PROVE  TypeOK'
    BY <1>2, <2>3, TakeType DEF VerifyParticipant, AdminUpdateRegistrationStatus, OfficerSteps
  <2>4. ASSUME NEW o \in Officers, NEW i \in Ids, UpdateStatus(o, i)
        PROVE  TypeOK'
    BY <1>2, <2>4, TakeType DEF UpdateStatus, OfficerSteps, RegStatuses, ApprovedStatuses
  <2>5. ASSUME NEW o \in Officers, OfficerStep(o) \/ OfficerFails(o)
        PROVE  TypeOK'
    BY <1>2, <2>5, OfficerStepType
  <2>6. ASSUME NEW e \in Emails, RegisterParticipant(e)
        PROVE  TypeOK'
    <3>1. TablesType'
      BY <1>2, <2>6, InsertType DEF RegisterParticipant, Free, RegStatuses, Numbers, Handlers
    <3> QED
      BY <1>2, <2>6, <3>1, EditType DEF RegisterParticipant, TypeOK, TablesType
  <2>7. ASSUME NEW e \in Emails, NEW s \in RegStatuses,
               NEW n \in {Temp} \cup {last + 1 : last \in Last}, Create(e, s, n)
        PROVE  TypeOK'
    <3>1. n \in Numbers
      BY <1>2, <2>7, OfficialNumbers DEF Last, Numbers
    <3>2. TablesType'
      BY <1>2, <2>7, <3>1, InsertType DEF Create, Free, Handlers
    <3> QED
      BY <1>2, <2>7, <3>2, EditType DEF Create, TypeOK, TablesType
  <2>8. ASSUME NEW S \in SUBSET Ids, NEW s \in RegStatuses, BulkUpdateStatus(S, s)
        PROVE  TypeOK'
    BY <1>2, <2>8, EditType DEF BulkUpdateStatus, TypeOK, Handlers
  <2>9. ASSUME NEW S \in SUBSET Ids, DeleteRegistrations(S)
        PROVE  TypeOK'
    BY <1>2, <2>9, EditType DEF DeleteRegistrations, TypeOK, Numbers
  <2>10. ASSUME NEW m \in Modes, UpdateCapacityMode(m)
         PROVE  TypeOK'
    BY <1>2, <2>10, EditType DEF UpdateCapacityMode, TypeOK, tables
  <2>11. CASE UNCHANGED vars
    BY <1>2, <2>11 DEF TypeOK, vars
  <2> QED
    BY <1>2, <2>1, <2>2, <2>3, <2>4, <2>5, <2>6, <2>7, <2>8, <2>9, <2>10, <2>11 DEF Next
<1> QED
  BY <1>1, <1>2, PTL DEF Spec

-----------------------------------------------------------------------------
(* What a step does to the registrations and to the approvals in flight.   *)

\* Neither is touched.
Quiet == UNCHANGED <<tables, officer>>

\* A registration is added, by a handler that approves nothing.
Added(i, s, n, by) ==
    /\ i \in Free
    /\ s \in RegStatuses
    /\ n \in {0, Temp} \cup {last + 1 : last \in Last}
    /\ by \in {"public", "register", "create"}
    /\ \E e \in Emails \cup {Nobody} : Insert(i, s, n, e, by)
    /\ NumberHolders(n) = {}
    /\ UNCHANGED officer

\* An approval begins.
Begins(o, via, pc, i, to) ==
    /\ \/ via = "verification" /\ pc = "begin" /\ to \in {"APPROVED", "REJECTED"}
       \/ via = "registration" /\ pc = "begin" /\ to \in {"PENDING", "APPROVED", "REJECTED"}
       \/ via = "participant" /\ pc = "row" /\ to = "Verified"
    /\ Take(o, via, pc, i, to)

LEMMA StepShapes ==
    ASSUME TypeOK, [Next]_vars
    PROVE  \/ Quiet
           \/ \E i \in Ids, s \in RegStatuses, n \in Numbers, by \in Handlers : Added(i, s, n, by)
           \/ \E S \in SUBSET Ids, s \in RegStatuses : BulkUpdateStatus(S, s)
           \/ \E S \in SUBSET Ids : DeleteRegistrations(S)
           \/ \E o \in Officers, i \in Ids, via \in {"verification", "participant", "registration"},
                 pc \in OfficerSteps, to \in RegStatuses : Begins(o, via, pc, i, to)
           \/ \E o \in Officers : OfficerStep(o)
           \/ \E o \in Officers : OfficerFails(o)
<1>1. ASSUME NEW v \in Visitors, NEW e \in Emails, Arrive(v, e)
      PROVE  Quiet
  BY <1>1 DEF Arrive, Quiet, tables
<1>2. ASSUME NEW v \in Visitors, DoRegister(v)
      PROVE  \E i \in Ids, s \in RegStatuses, n \in Numbers, by \in Handlers : Added(i, s, n, by)
  <2>1. PICK i \in Free :
           \/ Insert(i, "WAITING", 0, visit[v].e, "public")
           \/ Insert(i, "PENDING", Temp, visit[v].e, "public")
    BY <1>2 DEF DoRegister
  <2>2. i \in Ids /\ visit[v].e \in Emails \cup {Nobody}
    BY <2>1 DEF Free, TypeOK
  <2>3. UNCHANGED officer
    BY <1>2 DEF DoRegister
  <2>4. Added(i, "WAITING", 0, "public") \/ Added(i, "PENDING", Temp, "public")
    BY <2>1, <2>2, <2>3, RegistrationAssumption DEF Added, RegStatuses, NumberHolders
  <2>5. /\ "WAITING" \in RegStatuses /\ "PENDING" \in RegStatuses
        /\ 0 \in Numbers /\ Temp \in Numbers /\ "public" \in Handlers
    BY DEF RegStatuses, Numbers, Handlers
  <2> QED
    BY <2>2, <2>4, <2>5
<1>3. ASSUME NEW v \in Visitors, VisitStep(v) \/ VisitFails(v), ~DoRegister(v)
      PROVE  Quiet
  BY <1>3 DEF VisitStep, VisitFails, FindByEmail, GetCapacitySettings, BeginVisit, LockCapacity,
              CountMain, CountWaiting, CommitVisit, Quiet, tables
<1>4. ASSUME NEW o \in Officers, NEW i \in Ids, NEW to \in RegStatuses,
             VerifyParticipant(o, i, to) \/ AdminUpdateRegistrationStatus(o, i, to)
      PROVE  Begins(o, "verification", "begin", i, to) \/ Begins(o, "registration", "begin", i, to)
  BY <1>4 DEF VerifyParticipant, AdminUpdateRegistrationStatus, Begins
<1>5. ASSUME NEW o \in Officers, NEW i \in Ids, UpdateStatus(o, i)
      PROVE  Begins(o, "participant", "row", i, "Verified")
  BY <1>5 DEF UpdateStatus, Begins
<1>6. ASSUME NEW e \in Emails, RegisterParticipant(e)
      PROVE  \E i \in Ids, s \in RegStatuses, n \in Numbers, by \in Handlers : Added(i, s, n, by)
  <2>1. PICK i \in Free : Insert(i, "PENDING", 0, e, "register")
    BY <1>6 DEF RegisterParticipant
  <2>2. Added(i, "PENDING", 0, "register")
    BY <1>6, <2>1 DEF RegisterParticipant, Added, RegStatuses, NumberHolders
  <2> QED
    BY <2>1, <2>2 DEF Free, RegStatuses, Numbers, Handlers
<1>7. ASSUME NEW e \in Emails, NEW s \in RegStatuses,
             NEW n \in {Temp} \cup {last + 1 : last \in Last}, Create(e, s, n)
      PROVE  \E i \in Ids, t \in RegStatuses, m \in Numbers, by \in Handlers : Added(i, t, m, by)
  <2>1. PICK i \in Free : Insert(i, s, n, e, "create")
    BY <1>7 DEF Create
  <2>2. Added(i, s, n, "create")
    BY <1>7, <2>1 DEF Create, Added
  <2>3. n \in Numbers
    BY OfficialNumbers DEF Last, Numbers
  <2> QED
    BY <2>1, <2>2, <2>3 DEF Free, Handlers
<1>8. ASSUME NEW m \in Modes, UpdateCapacityMode(m)
      PROVE  Quiet
  BY <1>8 DEF UpdateCapacityMode, Quiet, tables
<1>9. ASSUME UNCHANGED vars
      PROVE  Quiet
  BY <1>9 DEF vars, Quiet, tables
<1>10. "begin" \in OfficerSteps /\ "row" \in OfficerSteps /\ "Verified" \in RegStatuses
  BY DEF OfficerSteps, RegStatuses, ApprovedStatuses
<1> QED
  BY <1>1, <1>2, <1>3, <1>4, <1>5, <1>6, <1>7, <1>8, <1>9, <1>10 DEF Next

-----------------------------------------------------------------------------
(* The numbers.                                                            *)

\* A row that is not there has no number.
Unused == \A i \in Ids : ~Registered(i) => number[i] = 0

\* Rows an approval has read were there; they may be deleted, never unmade.
ReadsWereThere == \A o \in Officers : officer[o].pc # "idle" => status[officer[o].id] # "none"

\* Which handlers lock what, by the steps they pass through.
Protocols ==
    \A o \in Officers :
        /\ officer[o].pc \in {"begin", "quota"} => officer[o].via # "participant"
        /\ officer[o].pc \in {"begin", "quota"} => officer[o].to # "Verified"
        /\ officer[o].pc \in {"row", "template"} => officer[o].via = "participant"
        /\ officer[o].pc # "idle" /\ officer[o].via = "verification" => officer[o].to # "Verified"

\* A number that was seen may be replaced, never taken away, while the row lives.
SeenStays ==
    \A o \in Officers :
        (officer[o].pc # "idle" /\ officer[o].seen # 0 /\ Registered(officer[o].id)) =>
            number[officer[o].id] # 0

\* participant.UpdateStatus has the row locked: what it read is what is there.
LockedReads ==
    \A o \in Officers :
        (officer[o].via = "participant" /\ officer[o].pc \in {"number", "write", "template"}) =>
            officer[o].seen = number[officer[o].id]

\* What is about to be written: the number that was seen, or none, if there was
\* one; and a number for every approval of a registration that had none.
Chosen ==
    \A o \in Officers :
        officer[o].pc \in {"write", "template"} =>
            /\ officer[o].seen # 0 => officer[o].next \in {0, officer[o].seen}
            /\ officer[o].to \in ApprovedStatuses /\ officer[o].seen = 0 => officer[o].next # 0

\* A registration is locked by one approval at a time.
OneRowHolder == \A i \in Ids : \A o, p \in RowHolders(i) : o = p

\* An approval that has written and not committed: its row is still there, and
\* nobody has got, or written, the number it wrote.
Reserved ==
    \A o \in Officers :
        officer[o].pc = "template" =>
            /\ Registered(officer[o].id)
            /\ ~NumberTaken(officer[o].id, officer[o].next)
            /\ NumberHolders(officer[o].next) \subseteq {o}

NumbersInv ==
    /\ Unused
    /\ NumbersDistinct
    /\ ApprovedCarryNumber
    /\ ReadsWereThere
    /\ Protocols
    /\ SeenStays
    /\ LockedReads
    /\ Chosen
    /\ OneRowHolder
    /\ Reserved

\* The next of the series is nobody's.
LEMMA NextOfSeriesIsFree ==
    ASSUME TypeOK, NEW last \in Last, NEW i \in Ids
    PROVE  last + 1 \in Nat \ {0} /\ number[i] # last + 1
<1>1. last \in Nat
  BY OfficialNumbers DEF Last
<1>2. CASE number[i] \in Nat
  <2>1. number[i] \in Official
    BY <1>2, RegistrationAssumption DEF Official
  <2> QED
    BY <1>1, <1>2, <2>1 DEF Last
<1>3. CASE number[i] = Temp
  BY <1>1, <1>3, RegistrationAssumption
<1> QED
  BY <1>1, <1>2, <1>3 DEF TypeOK, Numbers

LEMMA NumbersQuiet ==
    ASSUME NumbersInv, Quiet
    PROVE  NumbersInv'
<1>1. UNCHANGED <<status, number, writer, officer>>
  BY DEF Quiet, tables
<1> QED
  BY <1>1 DEF NumbersInv, Unused, NumbersDistinct, ApprovedCarryNumber, ReadsWereThere, Protocols,
              SeenStays, LockedReads, Chosen, OneRowHolder, Reserved, RowHolders, NumberHolders,
              NumberTaken, Registered, Approved

\* Approvals that hold no row and no number more than before.
LEMMA HoldersFrame ==
    ASSUME OneRowHolder, \A i \in Ids : RowHolders(i)' \subseteq RowHolders(i)
    PROVE  OneRowHolder'
BY DEF OneRowHolder

LEMMA NumbersAdded ==
    ASSUME TypeOK, NumbersInv, NEW i \in Ids, NEW s \in RegStatuses, NEW n \in Numbers,
           NEW by \in Handlers, Added(i, s, n, by)
    PROVE  NumbersInv'
<1>1. /\ status[i] = "none"
      /\ status' = [status EXCEPT ![i] = s]
      /\ number' = [number EXCEPT ![i] = n]
      /\ writer' = [writer EXCEPT ![i] = by]
      /\ UNCHANGED officer
  BY DEF Added, Insert, Free
<1>2. Unused'
  BY <1>1 DEF NumbersInv, Unused, Registered, TypeOK
<1>3. NumbersDistinct'
  <2>1. ASSUME n # 0, n # Temp, NEW j \in Ids
        PROVE  number[j] # n
    BY <2>1, NextOfSeriesIsFree DEF Added
  <2> QED
    BY <1>1, <2>1 DEF NumbersInv, NumbersDistinct, TypeOK
<1>4. ApprovedCarryNumber'
  BY <1>1 DEF NumbersInv, ApprovedCarryNumber, Approved, TypeOK, Added
<1>5. ASSUME NEW o \in Officers, officer[o].pc # "idle"
      PROVE  officer[o].id \in Ids /\ officer[o].id # i
  BY <1>1, <1>5 DEF NumbersInv, ReadsWereThere, TypeOK
<1>6. ReadsWereThere' /\ SeenStays' /\ LockedReads'
  BY <1>1, <1>5 DEF NumbersInv, ReadsWereThere, SeenStays, LockedReads, Registered, TypeOK
<1>7. Protocols' /\ Chosen'
  BY <1>1 DEF NumbersInv, Protocols, Chosen
<1>8. OneRowHolder'
  BY <1>1 DEF NumbersInv, OneRowHolder, RowHolders
<1>9. ASSUME NEW o \in Officers, officer[o].pc = "template"
      PROVE  /\ Registered(officer[o].id)'
             /\ ~NumberTaken(officer[o].id, officer[o].next)'
  <2>1. officer[o].next \in Nat \ {0} => n # officer[o].next
    BY <1>9 DEF Added, NumberHolders
  <2>2. officer[o].id \in Ids /\ officer[o].id # i
    BY <1>5, <1>9
  <2>3. Registered(officer[o].id) /\ ~NumberTaken(officer[o].id, officer[o].next)
    BY <1>9 DEF NumbersInv, Reserved
  <2> QED
    BY <1>1, <2>1, <2>2, <2>3 DEF Registered, NumberTaken, TypeOK
<1>10. Reserved'
  BY <1>1, <1>9 DEF NumbersInv, Reserved, NumberHolders
<1> QED
  BY <1>2, <1>3, <1>4, <1>6, <1>7, <1>8, <1>10 DEF NumbersInv

LEMMA NumbersBulk ==
    ASSUME TypeOK, NumbersInv, NEW S \in SUBSET Ids, NEW s \in RegStatuses, BulkUpdateStatus(S, s)
    PROVE  NumbersInv'
<1>1. /\ \A i \in S : Registered(i)
      /\ status' = [i \in Ids |-> IF i \in S THEN s ELSE status[i]]
      /\ writer' = [i \in Ids |-> IF i \in S THEN "bulk" ELSE writer[i]]
      /\ UNCHANGED <<number, officer>>
  BY DEF BulkUpdateStatus
<1>2. \A i \in Ids : Registered(i)' <=> Registered(i)
  BY <1>1 DEF Registered
<1>3. Unused' /\ NumbersDistinct'
  BY <1>1, <1>2 DEF NumbersInv, Unused, NumbersDistinct
<1>4. ApprovedCarryNumber'
  BY <1>1 DEF NumbersInv, ApprovedCarryNumber, Approved
<1>5. ReadsWereThere'
  BY <1>1 DEF NumbersInv, ReadsWereThere, TypeOK, RegStatuses, ApprovedStatuses
<1>6. SeenStays' /\ LockedReads' /\ Protocols' /\ Chosen'
  BY <1>1, <1>2 DEF NumbersInv, SeenStays, LockedReads, Protocols, Chosen, TypeOK
<1>7. OneRowHolder' /\ Reserved'
  BY <1>1, <1>2 DEF NumbersInv, OneRowHolder, Reserved, RowHolders, NumberHolders, NumberTaken, TypeOK
<1> QED
  BY <1>3, <1>4, <1>5, <1>6, <1>7 DEF NumbersInv

LEMMA NumbersDeleted ==
    ASSUME TypeOK, NumbersInv, NEW S \in SUBSET Ids, DeleteRegistrations(S)
    PROVE  NumbersInv'
<1>1. /\ \A i \in S : RowHolders(i) = {}
      /\ status' = [i \in Ids |-> IF i \in S THEN "deleted" ELSE status[i]]
      /\ number' = [i \in Ids |-> IF i \in S THEN 0 ELSE number[i]]
      /\ UNCHANGED <<writer, officer>>
  BY DEF DeleteRegistrations
<1>2. \A i \in S : ~Registered(i)'
  BY <1>1 DEF Registered, RegStatuses, ApprovedStatuses
<1>3. Unused' /\ NumbersDistinct'
  BY <1>1, <1>2 DEF NumbersInv, Unused, NumbersDistinct, Registered
<1>4. ApprovedCarryNumber'
  BY <1>1 DEF NumbersInv, ApprovedCarryNumber, Approved, ApprovedStatuses
<1>5. ReadsWereThere'
  BY <1>1 DEF NumbersInv, ReadsWereThere, TypeOK
<1>6. SeenStays'
  BY <1>1, <1>2 DEF NumbersInv, SeenStays, Registered, TypeOK
<1>7. LockedReads'
  BY <1>1 DEF NumbersInv, LockedReads, RowHolders, TypeOK
<1>8. Protocols' /\ Chosen' /\ OneRowHolder'
  BY <1>1 DEF NumbersInv, Protocols, Chosen, OneRowHolder, RowHolders
<1>9. ASSUME NEW o \in Officers, officer[o].pc = "template"
      PROVE  /\ Registered(officer[o].id)'
             /\ ~NumberTaken(officer[o].id, officer[o].next)'
  <2>1. officer[o].id \in Ids \ S
    BY <1>1, <1>9 DEF NumbersInv, Protocols, RowHolders, TypeOK
  <2>2. Registered(officer[o].id) /\ ~NumberTaken(officer[o].id, officer[o].next)
    BY <1>9 DEF NumbersInv, Reserved
  <2> QED
    BY <1>1, <2>1, <2>2 DEF Registered, NumberTaken
<1>10. Reserved'
  BY <1>1, <1>9 DEF NumbersInv, Reserved, NumberHolders
<1> QED
  BY <1>3, <1>4, <1>5, <1>6, <1>7, <1>8, <1>10 DEF NumbersInv

LEMMA NumbersBegins ==
    ASSUME TypeOK, NumbersInv, NEW o \in Officers, NEW i \in Ids,
           NEW via \in {"verification", "participant", "registration"},
           NEW pc \in OfficerSteps, NEW to \in RegStatuses, Begins(o, via, pc, i, to)
    PROVE  NumbersInv'
<1>1. /\ Registered(i)
      /\ officer' = [officer EXCEPT ![o] = [pc |-> pc, via |-> via, id |-> i, to |-> to,
                                            seen |-> number[i], next |-> 0]]
      /\ UNCHANGED <<status, number, writer>>
  BY DEF Begins, Take, tables
<1>2. Unused' /\ NumbersDistinct' /\ ApprovedCarryNumber'
  BY <1>1 DEF NumbersInv, Unused, NumbersDistinct, ApprovedCarryNumber, Registered, Approved
<1>3. ReadsWereThere'
  BY <1>1 DEF NumbersInv, ReadsWereThere, Registered, RegStatuses, ApprovedStatuses, TypeOK
<1>4. SeenStays' /\ LockedReads'
  BY <1>1 DEF NumbersInv, SeenStays, LockedReads, Registered, TypeOK
<1>5. pc \in {"begin", "row"}
  BY DEF Begins
<1>6. Protocols' /\ Chosen'
  BY <1>1, <1>5 DEF NumbersInv, Protocols, Chosen, Begins, TypeOK
<1>7. OneRowHolder'
  BY <1>1, <1>5, HoldersFrame DEF NumbersInv, RowHolders, TypeOK
<1>8. Reserved'
  BY <1>1, <1>5 DEF NumbersInv, Reserved, NumberHolders, NumberTaken, Registered, TypeOK
<1> QED
  BY <1>2, <1>3, <1>4, <1>6, <1>7, <1>8 DEF NumbersInv

\* An approval that ends without having committed.
LEMMA NumbersGivenUp ==
    ASSUME TypeOK, NumbersInv, NEW o \in Officers, Finish(o), UNCHANGED <<status, number, writer>>
    PROVE  NumbersInv'
<1>1. officer' = [officer EXCEPT ![o] = IdleOfficer]
  BY DEF Finish
<1>2. Unused' /\ NumbersDistinct' /\ ApprovedCarryNumber'
  BY DEF NumbersInv, Unused, NumbersDistinct, ApprovedCarryNumber, Registered, Approved
<1>3. ReadsWereThere' /\ Protocols' /\ SeenStays' /\ LockedReads' /\ Chosen'
  BY <1>1 DEF NumbersInv, ReadsWereThere, Protocols, SeenStays, LockedReads, Chosen, IdleOfficer,
              Registered, TypeOK
<1>4. OneRowHolder'
  BY <1>1, HoldersFrame DEF NumbersInv, RowHolders, IdleOfficer, TypeOK
<1>5. Reserved'
  BY <1>1 DEF NumbersInv, Reserved, NumberHolders, NumberTaken, Registered, IdleOfficer, TypeOK
<1> QED
  BY <1>2, <1>3, <1>4, <1>5 DEF NumbersInv

\* The row is locked and read, by the one approval that holds it from then on.
LEMMA NumbersLockRow ==
    ASSUME TypeOK, NumbersInv, NEW o \in Officers, LockRow(o)
    PROVE  NumbersInv'
<1>0. PICK i \in Ids : i = officer[o].id
  BY DEF LockRow, TypeOK
<1>1. /\ officer[o].pc = "row" /\ RowHolders(i) = {}
      /\ UNCHANGED <<status, number, writer>>
  BY <1>0 DEF LockRow, tables
<1>2. CASE Finish(o)
  BY <1>1, <1>2, NumbersGivenUp
<1>3. CASE officer' = [officer EXCEPT ![o].pc = "number", ![o].seen = number[i]]
  <2>1. Unused' /\ NumbersDistinct' /\ ApprovedCarryNumber'
    BY <1>1 DEF NumbersInv, Unused, NumbersDistinct, ApprovedCarryNumber, Registered, Approved
  <2>2. ReadsWereThere' /\ SeenStays' /\ LockedReads'
    BY <1>0, <1>1, <1>3 DEF NumbersInv, ReadsWereThere, SeenStays, LockedReads, Registered, TypeOK
  <2>3. Protocols' /\ Chosen'
    BY <1>0, <1>1, <1>3 DEF NumbersInv, Protocols, Chosen, TypeOK
  <2>4. /\ RowHolders(i)' \subseteq {o}
        /\ \A j \in Ids \ {i} : RowHolders(j)' \subseteq RowHolders(j)
    BY <1>0, <1>1, <1>3 DEF RowHolders, TypeOK
  <2>5. OneRowHolder'
    BY <2>4 DEF NumbersInv, OneRowHolder
  <2>6. Reserved'
    BY <1>0, <1>1, <1>3 DEF NumbersInv, Reserved, NumberHolders, NumberTaken, Registered, TypeOK
  <2> QED
    BY <2>1, <2>2, <2>3, <2>5, <2>6 DEF NumbersInv
<1> QED
  BY <1>0, <1>2, <1>3 DEF LockRow

\* An approval that moves on without writing keeps what it read.
LEMMA NumbersMoves ==
    ASSUME TypeOK, NumbersInv, NEW o \in Officers, BeginOfficer(o) \/ Quota(o) \/ ChooseNumber(o)
    PROVE  NumbersInv'
<1>1. UNCHANGED <<status, number, writer>>
  BY DEF BeginOfficer, Quota, ChooseNumber, tables
<1>2. Unused' /\ NumbersDistinct' /\ ApprovedCarryNumber'
  BY <1>1 DEF NumbersInv, Unused, NumbersDistinct, ApprovedCarryNumber, Registered, Approved
<1>3. CASE Finish(o)
  BY <1>1, <1>3, NumbersGivenUp
<1>4. ASSUME NEW pc \in {"quota", "number", "write"}, NEW next \in Numbers, Advance(o, pc, next),
             officer[o].pc # "idle",
             pc = "quota" => officer[o].pc = "begin",
             officer[o].via = "participant" => officer[o].pc = "number",
             pc = "write" =>
                 /\ officer[o].seen # 0 => next \in {0, officer[o].seen}
                 /\ officer[o].to \in ApprovedStatuses /\ officer[o].seen = 0 => next # 0
      PROVE  NumbersInv'
  <2>1. officer' = [officer EXCEPT ![o] = [pc |-> pc, via |-> officer[o].via, id |-> officer[o].id,
                                           to |-> officer[o].to, seen |-> officer[o].seen,
                                           next |-> next]]
    BY <1>4 DEF Advance
  <2>2. ReadsWereThere' /\ SeenStays'
    BY <1>1, <1>4, <2>1 DEF NumbersInv, ReadsWereThere, SeenStays, Registered, TypeOK
  <2>3. LockedReads'
    BY <1>1, <1>4, <2>1 DEF NumbersInv, LockedReads, TypeOK
  <2>4. Protocols'
    BY <1>4, <2>1 DEF NumbersInv, Protocols, TypeOK
  <2>5. Chosen'
    BY <1>4, <2>1 DEF NumbersInv, Chosen, TypeOK
  <2>6. OneRowHolder'
    BY <1>4, <2>1, HoldersFrame DEF NumbersInv, RowHolders, TypeOK
  <2>7. Reserved'
    BY <1>1, <1>4, <2>1 DEF NumbersInv, Reserved, NumberHolders, NumberTaken, Registered, TypeOK
  <2> QED
    BY <1>2, <2>2, <2>3, <2>4, <2>5, <2>6, <2>7 DEF NumbersInv
<1>5. CASE BeginOfficer(o)
  <2>1. officer[o].to \in ApprovedStatuses => officer[o].to = "APPROVED"
    BY <1>5 DEF BeginOfficer, NumbersInv, Protocols, ApprovedStatuses
  <2>2. officer[o].via # "participant"
    BY <1>5 DEF BeginOfficer, NumbersInv, Protocols
  <2>3. 0 \in Numbers
    BY DEF Numbers
  <2> QED
    BY <1>4, <1>5, <2>1, <2>2, <2>3 DEF BeginOfficer
<1>6. CASE Quota(o)
  <2>1. officer[o].via # "participant" /\ 0 \in Numbers
    BY <1>6 DEF Quota, NumbersInv, Protocols, Numbers
  <2> QED
    BY <1>3, <1>4, <1>6, <2>1 DEF Quota
<1>7. CASE ChooseNumber(o)
  <2>1. PICK last \in Last :
           Advance(o, "write", NextNumber(officer[o].via, officer[o].seen, last))
    BY <1>7 DEF ChooseNumber
  <2>2. last \in Nat /\ NumberCount \in Nat
    BY OfficialNumbers, CountsAreNumbers DEF Last, NumberCount
  <2>3. officer[o].via \in {"verification", "participant", "registration"}
    BY DEF TypeOK
  <2>4. /\ officer[o].seen # 0 =>
             NextNumber(officer[o].via, officer[o].seen, last) \in {0, officer[o].seen}
        /\ officer[o].seen = 0 => NextNumber(officer[o].via, officer[o].seen, last) # 0
    BY <2>2, <2>3 DEF NextNumber
  <2> QED
    BY <1>4, <1>7, <2>1, <2>4, NextNumberType DEF ChooseNumber
<1> QED
  BY <1>5, <1>6, <1>7

\* A commit: the row is there, nobody else has it locked, and nobody else has
\* got, or written, the number.
LEMMA NumbersCommit ==
    ASSUME TypeOK, NumbersInv, NEW o \in Officers, officer[o].pc \in {"write", "template"},
           RowHolders(officer[o].id) \subseteq {o}, NumberHolders(officer[o].next) \subseteq {o},
           Registered(officer[o].id), ~NumberTaken(officer[o].id, officer[o].next),
           Committed(officer[o]), Finish(o)
    PROVE  NumbersInv'
<1> DEFINE i == officer[o].id
           n == IF officer[o].next = 0 THEN number[i] ELSE officer[o].next
<1>1. /\ i \in Ids /\ officer[o].to \in RegStatuses /\ officer[o].next \in Numbers
      /\ status' = [status EXCEPT ![i] = officer[o].to]
      /\ number' = [number EXCEPT ![i] = n]
      /\ writer' = [writer EXCEPT ![i] = officer[o].via]
      /\ officer' = [officer EXCEPT ![o] = IdleOfficer]
  BY DEF Committed, Finish, TypeOK
<1>2. /\ \A j \in Ids : Registered(j)' <=> Registered(j)
      /\ \A j \in Ids : number'[j] = IF j = i THEN n ELSE number[j]
  BY <1>1 DEF Registered, TypeOK
<1>3. Unused'
  BY <1>1, <1>2 DEF NumbersInv, Unused
<1>4. NumbersDistinct'
  <2>1. ASSUME NEW j \in Ids \ {i}, n # 0, n # Temp
        PROVE  number[j] # n
    BY <1>1, <2>1 DEF NumbersInv, NumbersDistinct, NumberTaken, Numbers
  <2> QED
    BY <1>1, <1>2, <2>1 DEF NumbersInv, NumbersDistinct
<1>5. officer[o].to \in ApprovedStatuses => n # 0
  BY <1>1 DEF NumbersInv, Chosen, SeenStays
<1>6. ApprovedCarryNumber'
  BY <1>1, <1>2, <1>5 DEF NumbersInv, ApprovedCarryNumber, Approved, TypeOK
<1>7. number[i] # 0 => n # 0
  OBVIOUS
<1>8. ReadsWereThere'
  BY <1>1 DEF NumbersInv, ReadsWereThere, IdleOfficer, RegStatuses, ApprovedStatuses, TypeOK
<1>9. SeenStays'
  BY <1>1, <1>2, <1>7 DEF NumbersInv, SeenStays, IdleOfficer, TypeOK
<1>10. LockedReads'
  BY <1>1, <1>2 DEF NumbersInv, LockedReads, RowHolders, IdleOfficer, TypeOK
<1>11. Protocols' /\ Chosen'
  BY <1>1 DEF NumbersInv, Protocols, Chosen, IdleOfficer, TypeOK
<1>12. OneRowHolder'
  BY <1>1, HoldersFrame DEF NumbersInv, RowHolders, IdleOfficer, TypeOK
<1>13. ASSUME NEW p \in Officers, officer'[p].pc = "template"
       PROVE  /\ Registered(officer[p].id)'
              /\ ~NumberTaken(officer[p].id, officer[p].next)'
              /\ NumberHolders(officer[p].next)' \subseteq {p}
  <2>1. p # o /\ officer'[p] = officer[p] /\ officer[p].pc = "template"
    BY <1>1, <1>13 DEF IdleOfficer, TypeOK
  <2>2. /\ Registered(officer[p].id) /\ ~NumberTaken(officer[p].id, officer[p].next)
        /\ NumberHolders(officer[p].next) \subseteq {p}
    BY <2>1 DEF NumbersInv, Reserved
  <2>3. officer[p].id \in Ids
    BY <2>1 DEF TypeOK
  <2>4. officer[p].next \in Nat \ {0} => officer[o].next # officer[p].next
    BY <2>1 DEF NumberHolders
  <2>5. officer[p].next \in Nat \ {0} =>
            \A j \in Ids \ {officer[p].id} : number'[j] # officer[p].next
    BY <1>2, <2>2, <2>4 DEF NumberTaken
  <2>6. ~NumberTaken(officer[p].id, officer[p].next)'
    BY <2>1, <2>5 DEF NumberTaken
  <2>7. NumberHolders(officer[p].next)' \subseteq NumberHolders(officer[p].next)
    BY <1>1, <2>1 DEF NumberHolders, IdleOfficer, TypeOK
  <2> QED
    BY <1>2, <2>1, <2>2, <2>3, <2>6, <2>7
<1>14. Reserved'
  BY <1>13 DEF Reserved
<1> QED
  BY <1>3, <1>4, <1>6, <1>8, <1>9, <1>10, <1>11, <1>12, <1>14 DEF NumbersInv

LEMMA NumbersWrite ==
    ASSUME TypeOK, NumbersInv, NEW o \in Officers, Write(o)
    PROVE  NumbersInv'
<1>1. /\ officer[o].pc = "write"
      /\ RowHolders(officer[o].id) \subseteq {o} /\ NumberHolders(officer[o].next) = {}
  BY DEF Write
<1>2. CASE Writable(officer[o]) /\ Committed(officer[o]) /\ Finish(o)
  BY <1>1, <1>2, NumbersCommit DEF Writable
<1>3. CASE UNCHANGED tables /\ Finish(o)
  BY <1>3, NumbersGivenUp DEF tables
<1>4. CASE /\ Writable(officer[o]) /\ officer[o].via = "participant"
           /\ UNCHANGED tables /\ Advance(o, "template", officer[o].next)
  <2>1. /\ officer' = [officer EXCEPT ![o] = [pc |-> "template", via |-> officer[o].via,
                          id |-> officer[o].id, to |-> officer[o].to, seen |-> officer[o].seen,
                          next |-> officer[o].next]]
        /\ UNCHANGED <<status, number, writer>>
    BY <1>4 DEF Advance, tables
  <2>2. Unused' /\ NumbersDistinct' /\ ApprovedCarryNumber'
    BY <2>1 DEF NumbersInv, Unused, NumbersDistinct, ApprovedCarryNumber, Registered, Approved
  <2>3. ReadsWereThere' /\ SeenStays'
    BY <1>1, <2>1 DEF NumbersInv, ReadsWereThere, SeenStays, Registered, TypeOK
  <2>4. LockedReads' /\ Chosen'
    BY <1>1, <2>1 DEF NumbersInv, LockedReads, Chosen, TypeOK
  <2>5. Protocols'
    BY <1>1, <1>4, <2>1 DEF NumbersInv, Protocols, TypeOK
  <2>6. OneRowHolder'
    BY <1>1, <1>4, <2>1, HoldersFrame DEF NumbersInv, RowHolders, TypeOK
  <2>7. ASSUME NEW p \in Officers, officer'[p].pc = "template"
        PROVE  /\ Registered(officer[p].id)'
               /\ ~NumberTaken(officer[p].id, officer[p].next)'
               /\ NumberHolders(officer[p].next)' \subseteq {p}
    <3>1. CASE p = o
      <4>1. officer'[p].id = officer[o].id /\ officer'[p].next = officer[o].next
        BY <2>1, <3>1 DEF TypeOK
      <4>2. NumberHolders(officer[o].next)' \subseteq {o}
        BY <1>1, <2>1 DEF NumberHolders, TypeOK
      <4> QED
        BY <1>4, <2>1, <3>1, <4>1, <4>2 DEF Writable, Registered, NumberTaken, NumberHolders
    <3>2. CASE p # o
      <4>1. officer'[p] = officer[p] /\ officer[p].pc = "template"
        BY <2>1, <2>7, <3>2 DEF TypeOK
      <4>2. /\ Registered(officer[p].id) /\ ~NumberTaken(officer[p].id, officer[p].next)
            /\ NumberHolders(officer[p].next) \subseteq {p}
        BY <4>1 DEF NumbersInv, Reserved
      <4>3. officer[p].next \in Nat \ {0} => officer[o].next # officer[p].next
        BY <1>1, <4>1 DEF NumberHolders
      <4>4. NumberHolders(officer[p].next)' \subseteq {p}
        BY <2>1, <4>1, <4>2, <4>3 DEF NumberHolders, TypeOK
      <4> QED
        BY <2>1, <4>1, <4>2, <4>4 DEF Registered, NumberTaken
    <3> QED
      BY <3>1, <3>2
  <2>8. Reserved'
    BY <2>7 DEF Reserved
  <2> QED
    BY <2>2, <2>3, <2>4, <2>5, <2>6, <2>8 DEF NumbersInv
<1> QED
  BY <1>2, <1>3, <1>4 DEF Write

LEMMA NumbersQueue ==
    ASSUME TypeOK, NumbersInv, NEW o \in Officers, QueueNotificationTx(o)
    PROVE  NumbersInv'
<1>1. /\ officer[o].pc = "template" /\ officer[o].id \in Ids
      /\ Committed(officer[o]) /\ Finish(o)
  BY DEF QueueNotificationTx, TypeOK
<1>2. /\ Registered(officer[o].id) /\ ~NumberTaken(officer[o].id, officer[o].next)
      /\ NumberHolders(officer[o].next) \subseteq {o}
  BY <1>1 DEF NumbersInv, Reserved
<1>3. RowHolders(officer[o].id) \subseteq {o}
  BY <1>1 DEF NumbersInv, OneRowHolder, Protocols, RowHolders
<1> QED
  BY <1>1, <1>2, <1>3, NumbersCommit

LEMMA NumbersFails ==
    ASSUME TypeOK, NumbersInv, NEW o \in Officers, OfficerFails(o)
    PROVE  NumbersInv'
BY NumbersGivenUp DEF OfficerFails, tables

LEMMA NumbersInductive ==
    ASSUME TypeOK, NumbersInv, [Next]_vars
    PROVE  NumbersInv'
BY StepShapes, NumbersQuiet, NumbersAdded, NumbersBulk, NumbersDeleted, NumbersBegins, NumbersMoves,
   NumbersLockRow, NumbersWrite, NumbersQueue, NumbersFails
DEF OfficerStep

LEMMA NumbersInvariant == Spec => [](TypeOK /\ NumbersInv)
<1>1. Init => NumbersInv
  BY DEF Init, NumbersInv, Unused, NumbersDistinct, ApprovedCarryNumber, ReadsWereThere, Protocols,
         SeenStays, LockedReads, Chosen, OneRowHolder, Reserved, RowHolders, Registered, RegStatuses,
         Approved, ApprovedStatuses, IdleOfficer
<1> QED
  BY <1>1, NumbersInductive, TypeCorrect, PTL DEF Spec

\* Two registrations never carry the same official number, whichever of the
\* approval handlers interleave: those that chose the same one, only one commits.
THEOREM NumbersDistinctCorrect == Spec => []NumbersDistinct
<1>1. NumbersInv => NumbersDistinct
  BY DEF NumbersInv
<1> QED
  BY <1>1, NumbersInvariant, PTL

\* Nobody is approved by verification, participant or registration without a
\* number, even where the number was looked at outside any lock.
THEOREM ApprovedCarryNumberCorrect == Spec => []ApprovedCarryNumber
<1>1. NumbersInv => ApprovedCarryNumber
  BY DEF NumbersInv
<1> QED
  BY <1>1, NumbersInvariant, PTL

\* A number is replaced only by an approval that read the row, without a lock,
\* before the number was there.
THEOREM GivenNumbersStandCorrect == Spec => GivenNumbersStand
<1>1. ASSUME TypeOK, NumbersInv, [Next]_vars, NEW i \in Ids, number[i] # 0,
             number'[i] # number[i], status'[i] # "deleted"
      PROVE  \E o \in Officers : /\ officer[o].id = i /\ officer[o].pc = "write"
                                 /\ officer[o].seen # number[i]
                                 /\ officer[o].via # "participant"
  <2>1. ~Quiet
    BY <1>1 DEF Quiet, tables
  <2>2. ASSUME NEW j \in Ids, NEW s \in RegStatuses, NEW n \in Numbers, NEW by \in Handlers,
               Added(j, s, n, by)
        PROVE  FALSE
    <3>1. status[j] = "none" /\ number' = [number EXCEPT ![j] = n]
      BY <2>2 DEF Added, Insert, Free
    <3>2. number[j] = 0
      BY <1>1, <3>1 DEF NumbersInv, Unused, Registered, RegStatuses, ApprovedStatuses
    <3> QED
      BY <1>1, <3>1, <3>2 DEF TypeOK
  <2>3. ASSUME NEW S \in SUBSET Ids, NEW s \in RegStatuses, BulkUpdateStatus(S, s)
        PROVE  FALSE
    BY <1>1, <2>3 DEF BulkUpdateStatus
  <2>4. ASSUME NEW S \in SUBSET Ids, DeleteRegistrations(S)
        PROVE  FALSE
    BY <1>1, <2>4 DEF DeleteRegistrations
  <2>5. ASSUME NEW o \in Officers, NEW j \in Ids, NEW via, NEW pc, NEW to, Begins(o, via, pc, j, to)
        PROVE  FALSE
    BY <1>1, <2>5 DEF Begins, Take, tables
  <2>6. ASSUME NEW o \in Officers,
               \/ OfficerFails(o) \/ BeginOfficer(o) \/ LockRow(o) \/ Quota(o) \/ ChooseNumber(o)
        PROVE  FALSE
    BY <1>1, <2>6 DEF OfficerFails, BeginOfficer, LockRow, Quota, ChooseNumber, tables
  <2>7. ASSUME NEW o \in Officers, Write(o)
        PROVE  /\ officer[o].id = i /\ officer[o].pc = "write"
               /\ officer[o].seen # number[i]
               /\ officer[o].via # "participant"
    <3>1. /\ officer[o].pc = "write" /\ officer[o].via # "participant"
          /\ number' = [number EXCEPT ![officer[o].id] =
                            IF officer[o].next = 0 THEN @ ELSE officer[o].next]
      BY <1>1, <2>7 DEF Write, Committed, tables
    <3>2. officer[o].id = i /\ officer[o].next # 0 /\ officer[o].next # number[i]
      BY <1>1, <3>1 DEF TypeOK
    <3>3. officer[o].seen # number[i]
      BY <1>1, <3>1, <3>2 DEF NumbersInv, Chosen
    <3> QED
      BY <3>1, <3>2, <3>3
  <2>8. ASSUME NEW o \in Officers, QueueNotificationTx(o)
        PROVE  FALSE
    <3>1. /\ officer[o].pc = "template"
          /\ number' = [number EXCEPT ![officer[o].id] =
                            IF officer[o].next = 0 THEN @ ELSE officer[o].next]
      BY <2>8 DEF QueueNotificationTx, Committed
    <3>2. officer[o].id = i /\ officer[o].next # 0 /\ officer[o].next # number[i]
      BY <1>1, <3>1 DEF TypeOK
    <3>3. officer[o].seen = number[i]
      BY <1>1, <3>1, <3>2 DEF NumbersInv, Protocols, LockedReads
    <3> QED
      BY <1>1, <3>1, <3>2, <3>3 DEF NumbersInv, Chosen
  <2> QED
    BY <1>1, <2>1, <2>2, <2>3, <2>4, <2>5, <2>6, <2>7, <2>8, StepShapes DEF OfficerStep
<1>2. TypeOK /\ NumbersInv /\ [Next]_vars =>
        [\A i \in Ids :
          (number[i] # 0 /\ number'[i] # number[i] /\ status'[i] # "deleted") =>
             \E o \in Officers : /\ officer[o].id = i /\ officer[o].pc = "write"
                                 /\ officer[o].seen # number[i]
                                 /\ officer[o].via # "participant"]_vars
  BY <1>1
<1> QED
  BY <1>2, NumbersInvariant, PTL DEF Spec, GivenNumbersStand

-----------------------------------------------------------------------------
(* The quota.                                                              *)

LEMMA FewerIds ==
    ASSUME NEW T \in SUBSET Ids, NEW S \in SUBSET T
    PROVE  Cardinality(S) \in Nat /\ Cardinality(T) \in Nat /\ Cardinality(S) <= Cardinality(T)
BY CountsAreNumbers, FS_Subset

LEMMA OneIdMore ==
    ASSUME NEW T \in SUBSET Ids, NEW i \in Ids, NEW S \in SUBSET (T \cup {i})
    PROVE  Cardinality(S) <= Cardinality(T) + 1
<1>1. IsFiniteSet(T) /\ Cardinality(T) \in Nat
  BY CountsAreNumbers
<1>2. Cardinality(T \cup {i}) = IF i \in T THEN Cardinality(T) ELSE Cardinality(T) + 1
  BY <1>1, FS_AddElement
<1>3. /\ Cardinality(S) \in Nat /\ Cardinality(T \cup {i}) \in Nat
      /\ Cardinality(S) <= Cardinality(T \cup {i})
  BY FewerIds
<1> QED
  BY <1>1, <1>2, <1>3

Verified == {i \in Approved : writer[i] = "verification"}

\* An approval past the count holds the configuration's row, alone, and the
\* place it counted is still free when it writes.
QuotaInv ==
    Limit > 0 =>
        /\ Cardinality(Verified) <= Limit
        /\ \A o \in ConfigHolders : ConfigHolders = {o} /\ Cardinality(Verified) < Limit

\* What lets no approval past the count and approves nobody by verification
\* keeps the quota.
LEMMA QuotaFrame ==
    ASSUME QuotaInv, Verified' \subseteq Verified, ConfigHolders' \subseteq ConfigHolders
    PROVE  QuotaInv'
<1>0. Limit \in Nat
  BY RegistrationAssumption
<1>1. Verified \in SUBSET Ids
  BY DEF Verified, Approved
<1>2. /\ Cardinality(Verified') \in Nat /\ Cardinality(Verified) \in Nat
      /\ Cardinality(Verified') <= Cardinality(Verified)
  BY <1>1, FewerIds
<1>3. ASSUME Limit > 0, NEW o \in ConfigHolders'
      PROVE  ConfigHolders' = {o} /\ Cardinality(Verified') < Limit
  <2>1. ConfigHolders = {o} /\ Cardinality(Verified) < Limit
    BY <1>3 DEF QuotaInv
  <2> QED
    BY <1>0, <1>2, <1>3, <2>1
<1> QED
  BY <1>0, <1>2, <1>3 DEF QuotaInv

LEMMA QuotaInductive ==
    ASSUME TypeOK, NumbersInv, QuotaInv, [Next]_vars
    PROVE  QuotaInv'
<1>1. CASE Quiet
  <2>1. Verified' = Verified /\ ConfigHolders' = ConfigHolders
    BY <1>1 DEF Quiet, tables, Verified, Approved, ConfigHolders
  <2> QED
    BY <2>1, QuotaFrame
<1>2. ASSUME NEW i \in Ids, NEW s \in RegStatuses, NEW n \in Numbers, NEW by \in Handlers,
             Added(i, s, n, by)
      PROVE  QuotaInv'
  <2>1. /\ status' = [status EXCEPT ![i] = s] /\ writer' = [writer EXCEPT ![i] = by]
        /\ by # "verification" /\ UNCHANGED officer
    BY <1>2 DEF Added, Insert
  <2>2. Verified' \subseteq Verified /\ ConfigHolders' = ConfigHolders
    BY <2>1 DEF Verified, Approved, ConfigHolders, TypeOK
  <2> QED
    BY <2>2, QuotaFrame
<1>3. ASSUME NEW S \in SUBSET Ids, NEW s \in RegStatuses, BulkUpdateStatus(S, s)
      PROVE  QuotaInv'
  <2>1. Verified' \subseteq Verified /\ ConfigHolders' = ConfigHolders
    BY <1>3 DEF BulkUpdateStatus, Verified, Approved, ConfigHolders
  <2> QED
    BY <2>1, QuotaFrame
<1>4. ASSUME NEW S \in SUBSET Ids, DeleteRegistrations(S)
      PROVE  QuotaInv'
  <2>1. Verified' \subseteq Verified /\ ConfigHolders' = ConfigHolders
    BY <1>4 DEF DeleteRegistrations, Verified, Approved, ApprovedStatuses, ConfigHolders
  <2> QED
    BY <2>1, QuotaFrame
<1>5. ASSUME NEW o \in Officers, NEW i \in Ids,
             NEW via \in {"verification", "participant", "registration"},
             NEW pc \in OfficerSteps, NEW to \in RegStatuses, Begins(o, via, pc, i, to)
      PROVE  QuotaInv'
  <2>1. Verified' = Verified
    BY <1>5 DEF Begins, Take, tables, Verified, Approved
  <2>2. ConfigHolders' \subseteq ConfigHolders
    BY <1>5 DEF Begins, Take, ConfigHolders, TypeOK
  <2> QED
    BY <2>1, <2>2, QuotaFrame
<1>6. ASSUME NEW o \in Officers,
             BeginOfficer(o) \/ LockRow(o) \/ ChooseNumber(o) \/ OfficerFails(o)
      PROVE  QuotaInv'
  <2>1. Verified' = Verified
    BY <1>6 DEF BeginOfficer, LockRow, ChooseNumber, OfficerFails, tables, Verified, Approved
  <2>2. CASE LockRow(o)
    <3>1. officer[o].via = "participant"
      BY <2>2 DEF LockRow, NumbersInv, Protocols
    <3>2. ConfigHolders' \subseteq ConfigHolders
      BY <2>2, <3>1 DEF LockRow, Finish, IdleOfficer, ConfigHolders, TypeOK
    <3> QED
      BY <2>1, <3>2, QuotaFrame
  <2>3. CASE BeginOfficer(o) \/ ChooseNumber(o) \/ OfficerFails(o)
    <3>1. ConfigHolders' \subseteq ConfigHolders
      BY <2>3 DEF BeginOfficer, ChooseNumber, OfficerFails, Advance, Finish, IdleOfficer,
                  ConfigHolders, TypeOK
    <3> QED
      BY <2>1, <3>1, QuotaFrame
  <2> QED
    BY <1>6, <2>2, <2>3
<1>7. ASSUME NEW o \in Officers, Quota(o)
      PROVE  QuotaInv'
  <2>1. Verified' = Verified
    BY <1>7 DEF Quota, tables, Verified, Approved
  <2>2. CASE Finish(o)
    <3>1. ConfigHolders' \subseteq ConfigHolders
      BY <2>2 DEF Finish, IdleOfficer, ConfigHolders, TypeOK
    <3> QED
      BY <2>1, <3>1, QuotaFrame
  <2>3. CASE Advance(o, "number", 0) /\ (Limit > 0 => ~(Cardinality(Approved) >= Limit))
    <3>1. ConfigHolders = {}
      BY <1>7 DEF Quota
    <3>2. ConfigHolders' \subseteq {o}
      BY <2>3, <3>1 DEF Advance, ConfigHolders, TypeOK
    <3>3. Cardinality(Verified) <= Cardinality(Approved) /\ Cardinality(Approved) \in Nat
          /\ Cardinality(Verified) \in Nat
      BY FewerIds DEF Verified, Approved
    <3>4. Limit \in Nat
      BY RegistrationAssumption
    <3>5. Limit > 0 => Cardinality(Verified') < Limit
      BY <2>1, <2>3, <3>3, <3>4
    <3> QED
      BY <2>1, <3>2, <3>3, <3>4, <3>5 DEF QuotaInv
  <2> QED
    BY <1>7, <2>2, <2>3 DEF Quota
<1>8. ASSUME NEW o \in Officers, Write(o)
      PROVE  QuotaInv'
  <2>1. ConfigHolders' = ConfigHolders \ {o}
    BY <1>8 DEF Write, Finish, Advance, IdleOfficer, ConfigHolders, TypeOK
  <2>2. CASE UNCHANGED tables
    <3>1. Verified' = Verified
      BY <2>2 DEF tables, Verified, Approved
    <3> QED
      BY <2>1, <3>1, QuotaFrame
  <2>3. CASE Committed(officer[o])
    <3> DEFINE i == officer[o].id
    <3>1. /\ officer[o].pc = "write" /\ i \in Ids
          /\ status' = [status EXCEPT ![i] = officer[o].to]
          /\ writer' = [writer EXCEPT ![i] = officer[o].via]
      BY <1>8, <2>3 DEF Write, Committed, TypeOK
    <3>2. CASE o \notin ConfigHolders
      <4>1. ~(officer[o].to \in ApprovedStatuses /\ officer[o].via = "verification")
        BY <3>1, <3>2 DEF ConfigHolders, NumbersInv, Protocols, ApprovedStatuses
      <4>2. Verified' \subseteq Verified
        BY <3>1, <4>1 DEF Verified, Approved, TypeOK
      <4> QED
        BY <2>1, <4>2, QuotaFrame
    <3>3. CASE o \in ConfigHolders
      <4>1. Verified' \in SUBSET (Verified \cup {i})
        BY <3>1 DEF Verified, Approved, TypeOK
      <4>2. Verified \in SUBSET Ids /\ Verified' \in SUBSET Ids
        BY <3>1, <4>1 DEF Verified, Approved
      <4>3. Cardinality(Verified') <= Cardinality(Verified) + 1
        BY <3>1, <4>1, <4>2, OneIdMore
      <4>4. Cardinality(Verified) \in Nat /\ Cardinality(Verified') \in Nat /\ Limit \in Nat
        BY <4>2, CountsAreNumbers, RegistrationAssumption
      <4>5. Limit > 0 => ConfigHolders' = {} /\ Cardinality(Verified) < Limit
        BY <2>1, <3>3 DEF QuotaInv
      <4>6. Limit > 0 => Cardinality(Verified') <= Limit
        BY <4>3, <4>4, <4>5
      <4> QED
        BY <4>5, <4>6 DEF QuotaInv
    <3> QED
      BY <3>2, <3>3
  <2> QED
    BY <1>8, <2>2, <2>3 DEF Write
<1>9. ASSUME NEW o \in Officers, QueueNotificationTx(o)
      PROVE  QuotaInv'
  <2>1. /\ officer[o].via = "participant" /\ officer[o].id \in Ids
        /\ status' = [status EXCEPT ![officer[o].id] = officer[o].to]
        /\ writer' = [writer EXCEPT ![officer[o].id] = officer[o].via]
    BY <1>9 DEF QueueNotificationTx, Committed, NumbersInv, Protocols, TypeOK
  <2>2. Verified' \subseteq Verified
    BY <2>1 DEF Verified, Approved, TypeOK
  <2>3. ConfigHolders' \subseteq ConfigHolders
    BY <1>9 DEF QueueNotificationTx, Finish, IdleOfficer, ConfigHolders, TypeOK
  <2> QED
    BY <2>2, <2>3, QuotaFrame
<1> QED
  BY StepShapes, <1>1, <1>2, <1>3, <1>4, <1>5, <1>6, <1>7, <1>8, <1>9 DEF OfficerStep

\* Verification approves nobody past participant_limit, whatever the number of
\* officers and whoever else writes registrations meanwhile.
THEOREM QuotaCorrect == Spec => []QuotaHolds
<1>1. Init => QuotaInv
  <2>1. ASSUME Init
        PROVE  QuotaInv
    <3>1. Verified = {} /\ ConfigHolders = {}
      BY <2>1 DEF Init, Verified, Approved, ApprovedStatuses, ConfigHolders, IdleOfficer
    <3>2. Cardinality(Verified) = 0
      BY <3>1, FS_EmptySet
    <3>3. Limit \in Nat
      BY RegistrationAssumption
    <3> QED
      BY <3>1, <3>2, <3>3 DEF QuotaInv
  <2> QED
    BY <2>1
<1>2. QuotaInv => QuotaHolds
  BY DEF QuotaInv, QuotaHolds, Verified
<1> QED
  BY <1>1, <1>2, QuotaInductive, NumbersInvariant, PTL DEF Spec

-----------------------------------------------------------------------------
(* The waiting list.                                                       *)

Queued == {i \in WaitingList : writer[i] = "public"}

\* The advisory lock is one visitor's at a time, and the place that visitor
\* counted is still free when its row is inserted, although the insert commits
\* on another connection.
WaitingInv ==
    /\ \A u, v \in Visitors : visit[u].pc \in Counting /\ visit[v].pc \in Counting => u = v
    /\ WaitCapacity > 0 =>
          /\ Cardinality(Queued) <= WaitCapacity
          /\ \A v \in Visitors : visit[v].pc = "createWaiting" => Cardinality(Queued) < WaitCapacity

\* What queues nobody and lets no visitor into the lock keeps the waiting list.
LEMMA WaitingFrame ==
    ASSUME WaitingInv, Queued' \subseteq Queued,
           \A v \in Visitors : visit'[v].pc \in Counting => visit[v].pc \in Counting,
           \A v \in Visitors : visit'[v].pc = "createWaiting" => visit[v].pc = "createWaiting"
    PROVE  WaitingInv'
<1>0. WaitCapacity \in Nat
  BY RegistrationAssumption
<1>1. Queued \in SUBSET Ids
  BY DEF Queued, WaitingList
<1>2. /\ Cardinality(Queued') \in Nat /\ Cardinality(Queued) \in Nat
      /\ Cardinality(Queued') <= Cardinality(Queued)
  BY <1>1, FewerIds
<1>3. \A u, v \in Visitors : visit'[u].pc \in Counting /\ visit'[v].pc \in Counting => u = v
  BY DEF WaitingInv
<1>4. Counting' = Counting
  BY DEF Counting
<1>5. ASSUME WaitCapacity > 0
      PROVE  /\ Cardinality(Queued') <= WaitCapacity
             /\ \A v \in Visitors :
                   visit'[v].pc = "createWaiting" => Cardinality(Queued') < WaitCapacity
  BY <1>0, <1>2, <1>5 DEF WaitingInv
<1> QED
  BY <1>3, <1>4, <1>5 DEF WaitingInv

\* Steps of a visitor that write no registration.
LEMMA WaitingVisitor ==
    ASSUME TypeOK, WaitingInv, NEW v \in Visitors, VisitStep(v) \/ VisitFails(v), ~DoRegister(v)
    PROVE  WaitingInv'
<1>1. UNCHANGED <<status, writer>>
  BY DEF VisitStep, VisitFails, FindByEmail, GetCapacitySettings, BeginVisit, LockCapacity,
         CountMain, CountWaiting, CommitVisit, tables
<1>2. Queued' = Queued
  BY <1>1 DEF Queued, WaitingList
<1>3. ASSUME NEW next \in VisitSteps \cup {"idle"},
             \A u \in Visitors : visit'[u].pc = IF u = v THEN next ELSE visit[u].pc,
             next \in Counting => visit[v].pc \in Counting, next # "createWaiting"
      PROVE  WaitingInv'
  BY <1>2, <1>3, WaitingFrame
<1>4. ASSUME Leave(v)
      PROVE  WaitingInv'
  <2>1. \A u \in Visitors : visit'[u].pc = IF u = v THEN "idle" ELSE visit[u].pc
    BY <1>4 DEF Leave, IdleVisit, TypeOK
  <2>2. "idle" \notin Counting
    BY DEF Counting
  <2> QED
    BY <1>3, <2>1, <2>2
<1>5. ASSUME NEW next \in VisitSteps, Goto(v, next)
      PROVE  \A u \in Visitors : visit'[u].pc = IF u = v THEN next ELSE visit[u].pc
  BY <1>5 DEF Goto, TypeOK
<1>6. CASE FindByEmail(v)
  BY <1>3, <1>4, <1>5, <1>6 DEF FindByEmail, VisitSteps, Counting
<1>7. CASE GetCapacitySettings(v)
  <2>1. PICK next \in {"create", "begin"} :
           \A u \in Visitors : visit'[u].pc = IF u = v THEN next ELSE visit[u].pc
    BY <1>7 DEF GetCapacitySettings, TypeOK
  <2> QED
    BY <1>3, <2>1 DEF VisitSteps, Counting
<1>8. CASE BeginVisit(v)
  BY <1>3, <1>5, <1>8 DEF BeginVisit, VisitSteps, Counting
<1>9. CASE LockCapacity(v)
  <2>1. ~CapacityLocked /\ \A u \in Visitors : visit'[u].pc = IF u = v THEN "count" ELSE visit[u].pc
    BY <1>5, <1>9 DEF LockCapacity, VisitSteps, Counting
  <2>2. \A u \in Visitors : visit'[u].pc \in Counting => u = v
    BY <2>1 DEF CapacityLocked
  <2>3. Counting' = Counting
    BY DEF Counting
  <2> QED
    BY <1>2, <2>1, <2>2, <2>3 DEF WaitingInv
<1>10. CASE CountMain(v)
  BY <1>3, <1>4, <1>5, <1>10 DEF CountMain, VisitSteps, Counting
<1>11. CASE CountWaiting(v)
  <2>1. CASE Leave(v)
    BY <1>4, <2>1
  <2>2. CASE Goto(v, "createWaiting") /\ ~(WaitCapacity > 0 /\ Cardinality(WaitingList) >= WaitCapacity)
    <3>1. \A u \in Visitors : visit'[u].pc = IF u = v THEN "createWaiting" ELSE visit[u].pc
      BY <1>5, <2>2 DEF VisitSteps, Counting
    <3>2. visit[v].pc \in Counting
      BY <1>11 DEF CountWaiting, Counting
    <3>3. /\ Cardinality(Queued) <= Cardinality(WaitingList)
          /\ Cardinality(Queued) \in Nat /\ Cardinality(WaitingList) \in Nat
      BY FewerIds DEF Queued, WaitingList
    <3>4. WaitCapacity \in Nat
      BY RegistrationAssumption
    <3>5. WaitCapacity > 0 => Cardinality(Queued) < WaitCapacity
      BY <2>2, <3>3, <3>4
    <3>6. Counting' = Counting
      BY DEF Counting
    <3> QED
      BY <1>2, <3>1, <3>2, <3>3, <3>4, <3>5, <3>6 DEF WaitingInv
  <2> QED
    BY <1>11, <2>1, <2>2 DEF CountWaiting
<1>12. CASE CommitVisit(v)
  BY <1>4, <1>12 DEF CommitVisit
<1>13. CASE VisitFails(v)
  BY <1>4, <1>13 DEF VisitFails
<1> QED
  BY <1>6, <1>7, <1>8, <1>9, <1>10, <1>11, <1>12, <1>13 DEF VisitStep

LEMMA WaitingRegister ==
    ASSUME TypeOK, WaitingInv, NEW v \in Visitors, DoRegister(v)
    PROVE  WaitingInv'
<1>0. PICK i \in Ids, s \in RegStatuses, n \in Numbers :
         /\ Insert(i, s, n, visit[v].e, "public")
         /\ visit[v].pc # "createWaiting" => s = "PENDING"
  BY DEF DoRegister, Free, RegStatuses, Numbers
<1>1. /\ status' = [status EXCEPT ![i] = s]
      /\ writer' = [writer EXCEPT ![i] = "public"]
  BY <1>0 DEF Insert
<1>2. PICK next \in {"idle", "commit"} :
         /\ \A u \in Visitors : visit'[u].pc = IF u = v THEN next ELSE visit[u].pc
         /\ next = "commit" => visit[v].pc \in Counting
  BY DEF DoRegister, Leave, Goto, IdleVisit, Counting, TypeOK
<1>3. \A u \in Visitors : visit'[u].pc \in Counting => visit[u].pc \in Counting
  BY <1>2 DEF Counting
<1>4. CASE visit[v].pc # "createWaiting"
  <2>1. Queued' \subseteq Queued
    BY <1>0, <1>1, <1>4 DEF Queued, WaitingList, TypeOK
  <2> QED
    BY <1>2, <1>3, <2>1, WaitingFrame
<1>5. CASE visit[v].pc = "createWaiting"
  <2>1. Queued' \in SUBSET (Queued \cup {i})
    BY <1>1 DEF Queued, WaitingList, TypeOK
  <2>2. Queued \in SUBSET Ids /\ Queued' \in SUBSET Ids
    BY <2>1 DEF Queued, WaitingList
  <2>3. Cardinality(Queued') <= Cardinality(Queued) + 1
    BY <2>1, <2>2, OneIdMore
  <2>4. Cardinality(Queued) \in Nat /\ Cardinality(Queued') \in Nat /\ WaitCapacity \in Nat
    BY <2>2, CountsAreNumbers, RegistrationAssumption
  <2>5. \A u \in Visitors : visit'[u].pc # "createWaiting"
    BY <1>2, <1>5 DEF WaitingInv, Counting
  <2>6. WaitCapacity > 0 => Cardinality(Queued') <= WaitCapacity
    BY <1>5, <2>3, <2>4 DEF WaitingInv
  <2>7. \A u, w \in Visitors : visit'[u].pc \in Counting /\ visit'[w].pc \in Counting => u = w
    BY <1>3 DEF WaitingInv
  <2>8. Counting' = Counting
    BY DEF Counting
  <2> QED
    BY <2>5, <2>6, <2>7, <2>8 DEF WaitingInv
<1> QED
  BY <1>4, <1>5

LEMMA WaitingInductive ==
    ASSUME TypeOK, WaitingInv, [Next]_vars
    PROVE  WaitingInv'
<1>1. ASSUME UNCHANGED visit, Queued' \subseteq Queued
      PROVE  WaitingInv'
  BY <1>1, WaitingFrame
<1>2. ASSUME UNCHANGED <<status, writer, visit>>
      PROVE  WaitingInv'
  BY <1>1, <1>2 DEF Queued, WaitingList
<1>3. ASSUME NEW v \in Visitors, NEW e \in Emails, Arrive(v, e)
      PROVE  WaitingInv'
  <2>1. Queued' = Queued
    BY <1>3 DEF Arrive, tables, Queued, WaitingList
  <2>2. \A u \in Visitors : visit'[u].pc = IF u = v THEN "find" ELSE visit[u].pc
    BY <1>3 DEF Arrive, TypeOK
  <2> QED
    BY <2>1, <2>2, WaitingFrame DEF Counting
<1>4. ASSUME NEW v \in Visitors, VisitStep(v) \/ VisitFails(v)
      PROVE  WaitingInv'
  BY <1>4, WaitingVisitor, WaitingRegister
<1>5. ASSUME NEW o \in Officers, NEW i \in Ids, NEW to \in RegStatuses,
             VerifyParticipant(o, i, to) \/ AdminUpdateRegistrationStatus(o, i, to)
      PROVE  WaitingInv'
  BY <1>2, <1>5 DEF VerifyParticipant, AdminUpdateRegistrationStatus, Take, tables
<1>6. ASSUME NEW o \in Officers,
             \/ BeginOfficer(o) \/ LockRow(o) \/ Quota(o) \/ ChooseNumber(o) \/ OfficerFails(o)
      PROVE  WaitingInv'
  BY <1>2, <1>6 DEF BeginOfficer, LockRow, Quota, ChooseNumber, OfficerFails, tables
<1>7. ASSUME NEW o \in Officers, Write(o) \/ QueueNotificationTx(o)
      PROVE  WaitingInv'
  <2>0. UNCHANGED visit
    BY <1>7 DEF Write, QueueNotificationTx
  <2>1. CASE UNCHANGED tables
    BY <1>2, <2>0, <2>1 DEF tables
  <2>2. CASE Committed(officer[o])
    <3>1. officer[o].via # "public" /\ officer[o].id \in Ids
      BY <1>7 DEF Write, QueueNotificationTx, TypeOK
    <3>2. Queued' \subseteq Queued
      BY <2>2, <3>1 DEF Committed, Queued, WaitingList, TypeOK
    <3> QED
      BY <1>1, <2>0, <3>2
  <2> QED
    BY <1>7, <2>1, <2>2 DEF Write, QueueNotificationTx
<1>8. ASSUME NEW i \in Ids, NEW s, NEW n, NEW e, NEW by \in {"register", "create"},
             Insert(i, s, n, e, by), UNCHANGED visit
      PROVE  WaitingInv'
  <2>1. Queued' \subseteq Queued
    BY <1>8 DEF Insert, Queued, WaitingList, TypeOK
  <2> QED
    BY <1>1, <1>8, <2>1
<1>9. ASSUME NEW e \in Emails, RegisterParticipant(e)
      PROVE  WaitingInv'
  BY <1>8, <1>9 DEF RegisterParticipant, Free
<1>10. ASSUME NEW e \in Emails, NEW s \in RegStatuses,
              NEW n \in {Temp} \cup {last + 1 : last \in Last}, Create(e, s, n)
       PROVE  WaitingInv'
  BY <1>8, <1>10 DEF Create, Free
<1>11. ASSUME NEW S \in SUBSET Ids, NEW s \in RegStatuses, BulkUpdateStatus(S, s)
       PROVE  WaitingInv'
  <2>1. Queued' \subseteq Queued
    BY <1>11 DEF BulkUpdateStatus, Queued, WaitingList
  <2> QED
    BY <1>1, <1>11, <2>1 DEF BulkUpdateStatus
<1>12. ASSUME NEW S \in SUBSET Ids, DeleteRegistrations(S)
       PROVE  WaitingInv'
  <2>1. Queued' \subseteq Queued
    BY <1>12 DEF DeleteRegistrations, Queued, WaitingList
  <2> QED
    BY <1>1, <1>12, <2>1 DEF DeleteRegistrations
<1>13. ASSUME NEW m \in Modes, UpdateCapacityMode(m)
       PROVE  WaitingInv'
  BY <1>2, <1>13 DEF UpdateCapacityMode, tables
<1>14. CASE UNCHANGED vars
  BY <1>2, <1>14 DEF vars
<1>15. ASSUME NEW o \in Officers, OfficerStep(o) \/ OfficerFails(o)
       PROVE  WaitingInv'
  BY <1>6, <1>7, <1>15 DEF OfficerStep
<1>16. ASSUME NEW o \in Officers, NEW i \in Ids, UpdateStatus(o, i)
       PROVE  WaitingInv'
  BY <1>2, <1>16 DEF UpdateStatus, Take, tables
<1> QED
  BY <1>3, <1>4, <1>5, <1>9, <1>10, <1>11, <1>12, <1>13, <1>14, <1>15, <1>16 DEF Next

\* Public registration puts nobody on the waiting list past its capacity,
\* whatever the number of visitors and wherever their requests fail.
THEOREM WaitingListCorrect == Spec => []WaitingListHolds
<1>1. Init => WaitingInv
  <2>1. ASSUME Init
        PROVE  WaitingInv
    <3>1. \A v \in Visitors : visit[v].pc = "idle"
      BY <2>1 DEF Init, IdleVisit
    <3>2. \A v \in Visitors : visit[v].pc \notin Counting /\ visit[v].pc # "createWaiting"
      BY <3>1 DEF Counting
    <3>3. Queued = {}
      BY <2>1 DEF Init, Queued, WaitingList
    <3>4. Cardinality(Queued) = 0
      BY <3>3, FS_EmptySet
    <3>5. WaitCapacity \in Nat
      BY RegistrationAssumption
    <3> QED
      BY <3>2, <3>4, <3>5 DEF WaitingInv
  <2> QED
    BY <2>1
<1>2. WaitingInv => WaitingListHolds
  BY DEF WaitingInv, WaitingListHolds, Queued
<1> QED
  BY <1>1, <1>2, WaitingInductive, TypeCorrect, PTL DEF Spec
-----------------------------------------------------------------------------
(* The pool of connections.                                                *)

\* Requests that may still have a row to insert.
Pending == {v \in Visitors : visit[v].pc \notin {"idle", "commit"}}

\* There is a row left for each of them.
SpareRows == Cardinality(Pending) <= Cardinality(Free)

\* Of finitely many registrations with numbers, one has the highest.
LEMMA HighestNumber ==
    ASSUME NEW f, NEW S \in SUBSET Ids, S # {}, \A i \in S : f[i] \in Nat
    PROVE  \E i \in S : \A j \in S : f[j] <= f[i]
<1> DEFINE Without == {U \in SUBSET S : U # {} /\ ~\E i \in U : \A j \in U : f[j] <= f[i]}
<1>1. IsFiniteSet(S)
  BY CountsAreNumbers
<1>2. IsWellFoundedOn(StrictSubsetOrdering(S), FiniteSubsetsOf(S))
  BY FS_StrictSubsetOrderingWellFounded
<1>3. Without \subseteq FiniteSubsetsOf(S)
  BY <1>1, FS_FiniteSubsetsOfFinite
<1>4. ASSUME Without # {}
      PROVE  FALSE
  <2>1. PICK U \in Without : \A V \in Without : ~(<<V, U>> \in StrictSubsetOrdering(S))
    BY <1>2, <1>3, <1>4, WFMin
  <2>2. PICK i \in U : TRUE
    BY <2>1
  <2>3. U \ {i} \in SUBSET S /\ <<U \ {i}, U>> \in StrictSubsetOrdering(S)
    BY <2>1, <2>2 DEF StrictSubsetOrdering
  <2>4. U \ {i} \notin Without
    BY <2>1, <2>3
  <2>5. CASE U \ {i} = {}
    BY <2>1, <2>2, <2>5
  <2>6. ASSUME NEW k \in U \ {i}, \A j \in U \ {i} : f[j] <= f[k]
        PROVE  FALSE
    <3>1. \A j \in U : f[j] \in Nat
      BY <2>1
    <3>2. CASE f[i] <= f[k]
      BY <2>1, <2>6, <3>1, <3>2
    <3>3. CASE f[k] < f[i]
      BY <2>1, <2>2, <2>6, <3>1, <3>3
    <3> QED
      BY <2>2, <2>6, <3>1, <3>2, <3>3
  <2> QED
    BY <2>3, <2>4, <2>5, <2>6
<1> QED
  BY <1>4

LEMMA LastExists ==
    ASSUME TypeOK
    PROVE  Last # {}
<1> DEFINE S == {i \in Ids : number[i] # Temp}
<1>1. \A i \in S : number[i] \in Nat
  BY DEF TypeOK, Numbers
<1>2. CASE S = {}
  <2>1. Official = {0}
    BY <1>2 DEF Official
  <2> QED
    BY <2>1 DEF Last
<1>3. CASE S # {}
  <2>1. PICK i \in S : \A j \in S : number[j] <= number[i]
    BY <1>1, <1>3, HighestNumber
  <2>2. number[i] \in Official /\ \A m \in Official : m <= number[i]
    BY <1>1, <2>1 DEF Official
  <2> QED
    BY <2>2 DEF Last
<1> QED
  BY <1>2, <1>3
LEMMA FewerVisitors ==
    ASSUME NEW T \in SUBSET Visitors, NEW S \in SUBSET T
    PROVE  /\ IsFiniteSet(S) /\ Cardinality(S) \in Nat /\ Cardinality(T) \in Nat
           /\ Cardinality(S) <= Cardinality(T)
BY RegistrationAssumption, FS_Subset, FS_CardinalityType

LEMMA SpareFrame ==
    ASSUME SpareRows, Free' = Free, Pending' \subseteq Pending
    PROVE  SpareRows'
<1>1. /\ Cardinality(Pending') \in Nat /\ Cardinality(Pending) \in Nat
      /\ Cardinality(Pending') <= Cardinality(Pending)
  BY FewerVisitors DEF Pending
<1>2. Cardinality(Free) \in Nat
  BY CountsAreNumbers DEF Free
<1> QED
  BY <1>1, <1>2 DEF SpareRows

\* A row is taken by a request that is no longer counted, or never was.
LEMMA SpareInsert ==
    ASSUME TypeOK, NEW i \in Free, NEW s \in RegStatuses, status' = [status EXCEPT ![i] = s],
           NEW S \in SUBSET Visitors, Pending' \subseteq S, Cardinality(S) < Cardinality(Free)
    PROVE  SpareRows'
<1>1. Free' = Free \ {i}
  BY DEF Free, TypeOK, RegStatuses, ApprovedStatuses
<1>2. IsFiniteSet(Free) /\ Cardinality(Free) \in Nat
  BY CountsAreNumbers DEF Free
<1>3. Cardinality(Free') = Cardinality(Free) - 1
  BY <1>1, <1>2, FS_RemoveElement
<1>4. /\ Cardinality(Pending') \in Nat /\ Cardinality(S) \in Nat
      /\ Cardinality(Pending') <= Cardinality(S)
  BY FewerVisitors
<1> QED
  BY <1>2, <1>3, <1>4 DEF SpareRows

LEMMA SpareVisitor ==
    ASSUME TypeOK, SpareRows, NEW v \in Visitors, VisitStep(v) \/ VisitFails(v)
    PROVE  SpareRows'
<1>1. CASE DoRegister(v)
  <2>1. PICK i \in Free, s \in RegStatuses : status' = [status EXCEPT ![i] = s]
    BY <1>1 DEF DoRegister, Insert, RegStatuses
  <2>2. v \in Pending /\ Pending' \subseteq Pending \ {v}
    BY <1>1 DEF DoRegister, Leave, Goto, IdleVisit, Pending, TypeOK
  <2>3. IsFiniteSet(Pending) /\ Cardinality(Pending) \in Nat /\ Pending \ {v} \in SUBSET Visitors
    BY FewerVisitors DEF Pending
  <2>4. Cardinality(Pending \ {v}) = Cardinality(Pending) - 1
    BY <2>2, <2>3, FS_RemoveElement
  <2>5. Cardinality(Free) \in Nat
    BY CountsAreNumbers DEF Free
  <2>6. Cardinality(Pending \ {v}) < Cardinality(Free)
    BY <2>3, <2>4, <2>5 DEF SpareRows
  <2> QED
    BY <2>1, <2>2, <2>3, <2>6, SpareInsert
<1>2. CASE ~DoRegister(v)
  <2>1. status' = status
    BY <1>2 DEF VisitStep, VisitFails, FindByEmail, GetCapacitySettings, BeginVisit, LockCapacity,
                CountMain, CountWaiting, CommitVisit, tables
  <2>2. Free' = Free
    BY <2>1 DEF Free
  <2>3. CASE Leave(v)
    <3>1. Pending' \subseteq Pending
      BY <2>3 DEF Leave, IdleVisit, Pending, TypeOK
    <3> QED
      BY <2>2, <3>1, SpareFrame
  <2>4. CASE v \in Pending /\ \A u \in Visitors \ {v} : visit'[u] = visit[u]
    <3>1. Pending' \subseteq Pending
      BY <2>4 DEF Pending
    <3> QED
      BY <2>2, <3>1, SpareFrame
  <2>5. Leave(v) \/ (v \in Pending /\ \A u \in Visitors \ {v} : visit'[u] = visit[u])
    <3>1. CASE VisitFails(v) \/ CommitVisit(v)
      BY <3>1 DEF VisitFails, CommitVisit
    <3>2. CASE FindByEmail(v) \/ BeginVisit(v) \/ LockCapacity(v) \/ CountMain(v) \/ CountWaiting(v)
      <4>1. Leave(v) \/ \E next : Goto(v, next)
        BY <3>2 DEF FindByEmail, BeginVisit, LockCapacity, CountMain, CountWaiting
      <4>2. v \in Pending
        BY <3>2 DEF FindByEmail, BeginVisit, LockCapacity, CountMain, CountWaiting, Pending
      <4> QED
        BY <4>1, <4>2 DEF Goto, TypeOK
    <3>3. CASE GetCapacitySettings(v)
      BY <3>3 DEF GetCapacitySettings, Pending, TypeOK
    <3> QED
      BY <1>2, <3>1, <3>2, <3>3 DEF VisitStep
  <2> QED
    BY <2>3, <2>4, <2>5
<1> QED
  BY <1>1, <1>2

LEMMA SpareInductive ==
    ASSUME TypeOK, NumbersInv, SpareRows, [Next]_vars
    PROVE  SpareRows'
<1>1. Busy \in SUBSET Visitors /\ Pending \subseteq Busy
  BY DEF Busy, Pending
<1>2. ASSUME UNCHANGED visit, Free' = Free
      PROVE  SpareRows'
  BY <1>2, SpareFrame DEF Pending
<1>3. ASSUME UNCHANGED <<visit, status>>
      PROVE  SpareRows'
  BY <1>2, <1>3 DEF Free
<1>4. ASSUME NEW v \in Visitors, NEW e \in Emails, Arrive(v, e)
      PROVE  SpareRows'
  <2>1. Pending' \subseteq Busy \cup {v} /\ Busy \cup {v} \in SUBSET Visitors
    BY <1>4 DEF Arrive, Pending, Busy, TypeOK
  <2>2. IsFiniteSet(Busy) /\ Cardinality(Busy) \in Nat
    BY <1>1, FewerVisitors
  <2>3. Cardinality(Busy \cup {v}) = IF v \in Busy THEN Cardinality(Busy) ELSE Cardinality(Busy) + 1
    BY <2>2, FS_AddElement
  <2>4. Cardinality(Pending') \in Nat /\ Cardinality(Pending') <= Cardinality(Busy \cup {v})
    BY <2>1, FewerVisitors
  <2>5. Cardinality(Free) \in Nat
    BY CountsAreNumbers DEF Free
  <2>6. Free' = Free /\ Cardinality(Busy) < Cardinality(Free)
    BY <1>4 DEF Arrive, tables, Free
  <2> QED
    BY <2>1, <2>2, <2>3, <2>4, <2>5, <2>6 DEF SpareRows
<1>5. ASSUME NEW v \in Visitors, VisitStep(v) \/ VisitFails(v)
      PROVE  SpareRows'
  BY <1>5, SpareVisitor
<1>6. ASSUME NEW o \in Officers, NEW i \in Ids, NEW to \in RegStatuses,
             VerifyParticipant(o, i, to) \/ AdminUpdateRegistrationStatus(o, i, to)
      PROVE  SpareRows'
  BY <1>3, <1>6 DEF VerifyParticipant, AdminUpdateRegistrationStatus, Take, tables
<1>7. ASSUME NEW o \in Officers, NEW i \in Ids, UpdateStatus(o, i)
      PROVE  SpareRows'
  BY <1>3, <1>7 DEF UpdateStatus, Take, tables
<1>8. ASSUME NEW o \in Officers, OfficerStep(o) \/ OfficerFails(o)
      PROVE  SpareRows'
  <2>1. CASE UNCHANGED <<visit, status>>
    BY <1>3, <2>1
  <2>2. CASE Committed(officer[o]) /\ (Write(o) \/ QueueNotificationTx(o))
    <3>1. Registered(officer[o].id) \/ UNCHANGED tables
      BY <2>2 DEF Write, QueueNotificationTx, Writable, NumbersInv, Reserved
    <3>3. /\ officer[o].to \in RegStatuses /\ UNCHANGED visit
          /\ status' = [status EXCEPT ![officer[o].id] = officer[o].to]
      BY <2>2 DEF Write, QueueNotificationTx, Committed, TypeOK
    <3>2. Free' = Free
      BY <3>1, <3>3 DEF Free, Registered, TypeOK, RegStatuses, ApprovedStatuses, tables
    <3> QED
      BY <1>2, <3>2, <3>3
  <2> QED
    BY <1>8, <2>1, <2>2 DEF OfficerStep, BeginOfficer, LockRow, Quota, ChooseNumber, Write,
                            QueueNotificationTx, OfficerFails, tables
<1>9. ASSUME NEW i \in Free, NEW s \in RegStatuses, status' = [status EXCEPT ![i] = s],
             Cardinality(Busy) < Cardinality(Free), UNCHANGED visit
      PROVE  SpareRows'
  <2>1. Pending' \subseteq Busy
    BY <1>1, <1>9 DEF Pending
  <2> QED
    BY <1>1, <1>9, <2>1, SpareInsert
<1>10. ASSUME NEW e \in Emails, RegisterParticipant(e)
       PROVE  SpareRows'
  BY <1>9, <1>10 DEF RegisterParticipant, Insert, RegStatuses
<1>11. ASSUME NEW e \in Emails, NEW s \in RegStatuses,
              NEW n \in {Temp} \cup {last + 1 : last \in Last}, Create(e, s, n)
       PROVE  SpareRows'
  BY <1>9, <1>11 DEF Create, Insert
<1>12. ASSUME NEW S \in SUBSET Ids, NEW s \in RegStatuses, BulkUpdateStatus(S, s)
       PROVE  SpareRows'
  <2>1. Free' = Free /\ UNCHANGED visit
    BY <1>12 DEF BulkUpdateStatus, Free, Registered, RegStatuses, ApprovedStatuses
  <2> QED
    BY <1>2, <2>1
<1>13. ASSUME NEW S \in SUBSET Ids, DeleteRegistrations(S)
       PROVE  SpareRows'
  <2>1. Free' = Free /\ UNCHANGED visit
    BY <1>13 DEF DeleteRegistrations, Free, Registered, RegStatuses, ApprovedStatuses
  <2> QED
    BY <1>2, <2>1
<1>14. ASSUME NEW m \in Modes, UpdateCapacityMode(m)
       PROVE  SpareRows'
  BY <1>3, <1>14 DEF UpdateCapacityMode, tables
<1>15. CASE UNCHANGED vars
  BY <1>3, <1>15 DEF vars
<1> QED
  BY <1>4, <1>5, <1>6, <1>7, <1>8, <1>10, <1>11, <1>12, <1>13, <1>14, <1>15 DEF Next
\* Where no approval asks for a second connection, whoever holds a connection
\* for an approval can go on, or waits for another that can.
LEMMA OfficersGoOn ==
    ASSUME TypeOK, NumbersInv, NEW o \in HeldByOfficers, \A p \in Officers : officer[p].pc # "template"
    PROVE  \E p \in Officers : OfficerReady(p)
<1>1. ASSUME NEW p \in Officers, officer[p].pc = "number"
      PROVE  OfficerReady(p)
  BY <1>1, LastExists DEF OfficerReady
<1>2. ASSUME NEW p \in Officers, officer[p].pc = "write"
      PROVE  \E q \in Officers : OfficerReady(q)
  <2>1. officer[p].id \in Ids /\ NumberHolders(officer[p].next) = {}
    BY <1>2 DEF TypeOK, NumberHolders
  <2>2. CASE RowHolders(officer[p].id) \subseteq {p}
    BY <1>2, <2>1, <2>2 DEF OfficerReady
  <2>3. ASSUME NEW q \in RowHolders(officer[p].id)
        PROVE  \E r \in Officers : OfficerReady(r)
    <3>1. /\ q \in Officers /\ officer[q].id = officer[p].id /\ officer[q].pc \in {"number", "write"}
          /\ NumberHolders(officer[q].next) = {}
      BY <2>3 DEF RowHolders, NumberHolders
    <3>2. RowHolders(officer[q].id) \subseteq {q}
      BY <2>1, <2>3, <3>1 DEF NumbersInv, OneRowHolder
    <3> QED
      BY <1>1, <3>1, <3>2 DEF OfficerReady
  <2> QED
    BY <2>2, <2>3
<1>3. ASSUME officer[o].pc = "quota"
      PROVE  \E p \in Officers : OfficerReady(p)
  <2>1. CASE ConfigHolders = {}
    BY <1>3, <2>1 DEF OfficerReady, HeldByOfficers
  <2>2. ASSUME NEW p \in ConfigHolders
        PROVE  \E q \in Officers : OfficerReady(q)
    BY <1>1, <1>2, <2>2 DEF ConfigHolders
  <2> QED
    BY <2>1, <2>2
<1>4. ASSUME officer[o].pc = "row"
      PROVE  \E p \in Officers : OfficerReady(p)
  <2>1. CASE RowHolders(officer[o].id) = {}
    BY <1>4, <2>1 DEF OfficerReady, HeldByOfficers
  <2>2. ASSUME NEW p \in RowHolders(officer[o].id)
        PROVE  \E q \in Officers : OfficerReady(q)
    BY <1>1, <1>2, <2>2 DEF RowHolders
  <2> QED
    BY <2>1, <2>2
<1> QED
  BY <1>1, <1>2, <1>3, <1>4 DEF HeldByOfficers

\* Where the pool has a connection left, somebody can go on.
LEMMA RequestsGoOn ==
    ASSUME TypeOK, SpareRows, ConnectionFree, NumbersInv, Busy # {} \/ Approving # {}
    PROVE  \/ \E v \in Visitors : VisitReady(v)
           \/ \E o \in Officers : OfficerReady(o)
<1>1. ASSUME NEW o \in Officers, officer[o].pc \in {"begin", "template"}
      PROVE  OfficerReady(o)
  BY <1>1 DEF OfficerReady
<1>2. ASSUME NEW o \in Officers, officer[o].pc # "idle"
      PROVE  \E p \in Officers : OfficerReady(p)
  <2>1. CASE \E p \in Officers : officer[p].pc = "template"
    BY <1>1, <2>1
  <2>2. CASE officer[o].pc = "begin"
    BY <1>1, <2>2
  <2>3. CASE /\ officer[o].pc # "begin"
             /\ \A p \in Officers : officer[p].pc # "template"
    <3>1. o \in HeldByOfficers
      BY <1>2, <2>3 DEF HeldByOfficers, TypeOK, OfficerSteps
    <3> QED
      BY <2>3, <3>1, OfficersGoOn
  <2> QED
    BY <2>1, <2>2, <2>3
<1>3. ASSUME NEW v \in Visitors, visit[v].pc \notin {"idle", "lock"}
      PROVE  VisitReady(v)
  <2>1. visit[v].pc \in {"find", "settings", "begin", "create", "count", "countWaiting",
                         "createWaiting", "createMain", "commit"}
    BY <1>3 DEF TypeOK, VisitSteps, Counting
  <2>2. ASSUME v \in Pending
        PROVE  Free # {}
    <3>1. Cardinality({}) = 0
      BY FS_EmptySet
    <3>2. IsFiniteSet(Pending) /\ Cardinality(Pending) \in Nat
      BY FewerVisitors DEF Pending
    <3>3. Cardinality(Pending) # 0
      BY <2>2, <3>2, FS_EmptySet
    <3> QED
      BY <3>1, <3>2, <3>3 DEF SpareRows
  <2> QED
    BY <1>3, <2>1, <2>2 DEF VisitReady, Pending
<1>4. ASSUME NEW v \in Visitors, visit[v].pc = "lock"
      PROVE  \E u \in Visitors : VisitReady(u)
  <2>1. CASE ~CapacityLocked
    BY <1>4, <2>1 DEF VisitReady
  <2>2. CASE CapacityLocked
    BY <1>3, <2>2 DEF CapacityLocked, Counting
  <2> QED
    BY <2>1, <2>2
<1> QED
  BY <1>2, <1>3, <1>4 DEF Busy, Approving

\* Where nobody asks for a second connection, a pool that has none left is held
\* by requests one of which can go on.
LEMMA HoldersGoOn ==
    ASSUME TypeOK, NumbersInv, ~ConnectionFree, ~AskTwice
    PROVE  \/ \E v \in Visitors : VisitReady(v)
           \/ \E o \in Officers : OfficerReady(o)
<1>1. CASE HeldByOfficers # {}
  BY <1>1, OfficersGoOn DEF AskTwice
<1>2. ASSUME NEW v \in HeldByVisitors
      PROVE  \E u \in Visitors : VisitReady(u)
  <2>1. visit[v].pc \in {"lock", "commit"}
    BY <1>2 DEF HeldByVisitors, AskTwice
  <2>2. CASE visit[v].pc = "lock" /\ CapacityLocked
    <3>1. PICK u \in Visitors : visit[u].pc = "commit"
      BY <2>2 DEF CapacityLocked, AskTwice
    <3> QED
      BY <3>1 DEF VisitReady
  <2> QED
    BY <1>2, <2>1, <2>2 DEF VisitReady, HeldByVisitors
<1>3. CASE HeldByOfficers = {} /\ HeldByVisitors = {}
  <2>1. Cardinality({}) = 0
    BY FS_EmptySet
  <2> QED
    BY <1>3, <2>1, RegistrationAssumption DEF ConnectionFree
<1> QED
  BY <1>1, <1>2, <1>3

\* Requests never wait for one another in a circle of locks, whatever the number
\* of visitors, officers and connections and wherever requests fail: when all
\* stand still, the pool has no connection left and a transaction that holds one
\* waits for its second.  It does not say that the pool is never exhausted:
\* MCPoolDeadlock.cfg shows two visitors who exhaust a pool of two.
THEOREM StandStillCorrect == Spec => []StandStillIsOfThePool
<1>1. Init => SpareRows
  <2>1. ASSUME Init
        PROVE  SpareRows
    <3>1. Pending = {}
      BY <2>1 DEF Init, Pending, IdleVisit
    <3>2. Cardinality(Pending) = 0 /\ Cardinality(Free) \in Nat
      BY <3>1, FS_EmptySet, CountsAreNumbers DEF Free
    <3> QED
      BY <3>2 DEF SpareRows
  <2> QED
    BY <2>1
<1>2. TypeOK /\ NumbersInv /\ SpareRows => StandStillIsOfThePool
  BY RequestsGoOn, HoldersGoOn DEF StandStillIsOfThePool, StandStill
<1> QED
  BY <1>1, <1>2, SpareInductive, NumbersInvariant, PTL DEF Spec
=============================================================================
