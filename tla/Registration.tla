----------------------------- MODULE Registration -----------------------------
(***************************************************************************)
(* How registrations come to be and how they are approved.                 *)
(*                                                                         *)
(* Visitors register through participant.PublicRegister, which counts and  *)
(* inserts under an advisory lock, or through registration.Register-       *)
(* Participant, which takes no lock.  Officers approve and reject through  *)
(* three modules, each with a protocol of its own: verification reads the  *)
(* registration first and locks the configuration row, participant locks   *)
(* the registration's row, registration locks nothing.  All of them draw   *)
(* on one pool of database connections, and two of them ask it for a       *)
(* second one while they hold their transaction's.                         *)
(***************************************************************************)
EXTENDS Naturals, FiniteSets

CONSTANTS Ids,          \* bound: registrations ever created
          Emails,       \* e-mail addresses visitors give
          Visitors,     \* bound: PublicRegister calls in flight at once
          Officers,     \* bound: approvals in flight at once
          Modes,        \* values of capacity_mode the configuration goes through
          Limit,        \* participant_limit; 0 means none
          WaitCapacity, \* waiting_list_capacity; 0 means none
          Connections,  \* MaxOpenConns of the pool
          Temp,         \* a number outside the official series, PENDING-XXXXXXXX
          Nobody,       \* the registration, or the address, of an idle request
          MaxRequests,  \* bound: requests of visitors and officers in one behaviour
          MaxEdits      \* bound: other committee writes in one behaviour

ASSUME RegistrationAssumption ==
    /\ IsFiniteSet(Ids) /\ IsFiniteSet(Visitors) /\ IsFiniteSet(Officers)
    /\ Modes \subseteq {"ALLOW", "CLOSE", "WAITING_LIST"}
    /\ Limit \in Nat /\ WaitCapacity \in Nat /\ MaxEdits \in Nat /\ MaxRequests \in Nat
    /\ Connections \in Nat \ {0}
    /\ Temp \notin Nat
    /\ Nobody \notin Ids

VARIABLES status,  \* registrations.status, "none" before and "deleted" after the row is there
          number,  \* registrations.registration_number; 0 stands for NULL
          email,   \* the address of the registration's person
          writer,  \* history: the handler that wrote the status last
          mode,    \* capacity_mode of the registration configuration
          badge,   \* participants.registration_number of the snapshot; 0 when there is none
          visit,   \* the PublicRegister call of each visitor
          officer, \* the approval of each officer
          count    \* requests begun and committee writes made, for the two bounds

tables == <<status, number, email, writer, badge>>
vars == <<status, number, email, writer, badge, mode, visit, officer, count>>

ApprovedStatuses == {"APPROVED", "Verified"}
RegStatuses == ApprovedStatuses \cup {"PENDING", "WAITING", "REJECTED"}
Handlers == {"public", "register", "create", "bulk", "verification", "participant", "registration"}

IdleVisit == [pc |-> "idle", e |-> Nobody, m |-> "CLOSE"]
IdleOfficer == [pc |-> "idle", via |-> "registration", id |-> Nobody, to |-> "PENDING",
                seen |-> 0, next |-> 0]

\* The steps of PublicRegister made inside its transaction, and those made
\* while the advisory lock is held.
Counting == {"count", "countWaiting", "createWaiting", "createMain", "commit"}
VisitSteps == {"find", "settings", "create", "begin", "lock"} \cup Counting
OfficerSteps == {"begin", "row", "quota", "number", "write", "template"}

Numbers == Nat \cup {Temp}

TypeOK ==
    /\ status \in [Ids -> RegStatuses \cup {"none", "deleted"}]
    /\ number \in [Ids -> Numbers]
    /\ email \in [Ids -> Emails \cup {Nobody}]
    /\ writer \in [Ids -> Handlers]
    /\ badge \in [Ids -> Numbers]
    /\ mode \in Modes
    /\ visit \in [Visitors -> [pc : VisitSteps \cup {"idle"}, e : Emails \cup {Nobody},
                                m : Modes \cup {"CLOSE"}]]
    /\ officer \in [Officers -> [pc : OfficerSteps \cup {"idle"},
                                 via : {"verification", "participant", "registration"},
                                 id : Ids \cup {Nobody},
                                 to : RegStatuses,
                                 seen : Numbers, next : Numbers]]
    /\ \A o \in Officers : officer[o].pc # "idle" => officer[o].id \in Ids
    /\ count \in [requests : 0..MaxRequests, edits : 0..MaxEdits]

Init ==
    /\ status = [i \in Ids |-> "none"]
    /\ number = [i \in Ids |-> 0]
    /\ email = [i \in Ids |-> Nobody]
    /\ writer = [i \in Ids |-> "public"]
    /\ badge = [i \in Ids |-> 0]
    /\ mode \in Modes
    /\ visit = [v \in Visitors |-> IdleVisit]
    /\ officer = [o \in Officers |-> IdleOfficer]
    /\ count = [requests |-> 0, edits |-> 0]

-----------------------------------------------------------------------------
(* What the tables, the locks and the pool say.                            *)

Registered(i) == status[i] \in RegStatuses
Free == {i \in Ids : status[i] = "none"}
Approved == {i \in Ids : status[i] \in ApprovedStatuses}
WaitingList == {i \in Ids : status[i] = "WAITING"}
Request == count.requests < MaxRequests /\ count' = [count EXCEPT !.requests = @ + 1]
Busy == {v \in Visitors : visit[v].pc # "idle"}
Approving == {o \in Officers : officer[o].pc # "idle"}

\* Connections held across steps: by a PublicRegister in its transaction, the
\* ones still waiting for the lock included, and by an approval in its own.
HeldByVisitors == {v \in Visitors : visit[v].pc \in Counting \cup {"lock"}}
HeldByOfficers ==
    {o \in Officers : officer[o].pc \in {"row", "quota", "number", "write", "template"}}
ConnectionFree == Cardinality(HeldByVisitors) + Cardinality(HeldByOfficers) < Connections

CapacityLocked == \E v \in Visitors : visit[v].pc \in Counting

\* SELECT ... FOR UPDATE of the registration configuration, and of a registration.
ConfigHolders == {o \in Officers : /\ officer[o].via = "verification"
                                   /\ officer[o].to = "APPROVED"
                                   /\ officer[o].pc \in {"number", "write"}}
\* Slip: the registration is read without FOR UPDATE.
RowHoldersNone(i) == {}
RowHolders(i) == {o \in Officers : /\ officer[o].via = "participant"
                                   /\ officer[o].id = i
                                   /\ officer[o].pc \in {"number", "write", "template"}}

\* Who has written number n and not committed yet: the unique index makes any
\* other write of n wait.
NumberHolders(n) == {o \in Officers : /\ officer[o].pc = "template"
                                      /\ officer[o].next = n /\ n \in Nat \ {0}}

\* MAX of the official series, the one member of Last, or 0; COUNT of every
\* number, official or not.
Official == {0} \cup ({number[i] : i \in Ids} \ {Temp})
Last == {n \in Official : \A m \in Official : m <= n}
NumberCount == Cardinality({i \in Ids : number[i] # 0})

\* Slip: no unique constraint on registrations.registration_number.
NumberTakenNever(i, n) == FALSE
NumberTaken(i, n) == n \in Nat \ {0} /\ \E j \in Ids \ {i} : number[j] = n
BadgeTaken(i, n) == n \in Nat \ {0} /\ \E j \in Ids \ {i} : badge[j] = n

\* A new row: the id is a fresh UUID.
Insert(i, s, n, e, by) ==
    /\ status' = [status EXCEPT ![i] = s]
    /\ number' = [number EXCEPT ![i] = n]
    /\ email' = [email EXCEPT ![i] = e]
    /\ writer' = [writer EXCEPT ![i] = by]
    /\ UNCHANGED badge

-----------------------------------------------------------------------------
(* participant.PublicRegister.                                             *)

Goto(v, next) == visit' = [visit EXCEPT ![v] = [pc |-> next, e |-> @.e, m |-> @.m]]
Leave(v) == visit' = [visit EXCEPT ![v] = IdleVisit]

\* A request arrives while the registration phase is open.  Ids is kept large
\* enough for every request in flight to be able to insert its row.
Arrive(v, e) ==
    /\ visit[v].pc = "idle"
    /\ Request /\ Cardinality(Busy) < Cardinality(Free)
    /\ visit' = [visit EXCEPT ![v] = [pc |-> "find", e |-> e, m |-> "CLOSE"]]
    /\ UNCHANGED <<tables, mode, officer>>

\* FindByEmail, made before any lock is taken.
FindByEmail(v) ==
    /\ visit[v].pc = "find"
    /\ ConnectionFree
    /\ IF \E i \in Ids : Registered(i) /\ email[i] = visit[v].e
       THEN Leave(v)
       ELSE Goto(v, "settings")
    /\ UNCHANGED <<tables, mode, officer, count>>

\* GetCapacitySettings, not read again once the lock is held: without a limit
\* the row is created at once.
GetCapacitySettings(v) ==
    /\ visit[v].pc = "settings"
    /\ ConnectionFree
    /\ visit' = [visit EXCEPT ![v] =
                    [pc |-> IF mode = "ALLOW" \/ Limit = 0 THEN "create" ELSE "begin",
                     e |-> @.e, m |-> mode]]
    /\ UNCHANGED <<tables, mode, officer, count>>

BeginVisit(v) ==
    /\ visit[v].pc = "begin"
    /\ ConnectionFree
    /\ Goto(v, "lock")
    /\ UNCHANGED <<tables, mode, officer, count>>

\* Slip: the capacity is counted under no lock.
LockNothing(v) ==
    /\ visit[v].pc = "lock"
    /\ Goto(v, "count")
    /\ UNCHANGED <<tables, mode, officer, count>>

\* pg_advisory_xact_lock, waited for with the transaction's connection held.
LockCapacity(v) ==
    /\ visit[v].pc = "lock"
    /\ ~CapacityLocked
    /\ Goto(v, "count")
    /\ UNCHANGED <<tables, mode, officer, count>>

\* CountMainRegistered runs on a connection of its own, not the transaction's,
\* and counts approved registrations only.
CountMain(v) ==
    /\ visit[v].pc = "count"
    /\ ConnectionFree
    /\ \/ Cardinality(Approved) < Limit /\ Goto(v, "createMain")
       \/ Cardinality(Approved) >= Limit /\ visit[v].m = "CLOSE" /\ Leave(v)
       \/ Cardinality(Approved) >= Limit /\ visit[v].m # "CLOSE" /\ Goto(v, "countWaiting")
    /\ UNCHANGED <<tables, mode, officer, count>>

CountWaiting(v) ==
    /\ visit[v].pc = "countWaiting"
    /\ ConnectionFree
    /\ IF WaitCapacity > 0 /\ Cardinality(WaitingList) >= WaitCapacity
       THEN Leave(v)
       ELSE Goto(v, "createWaiting")
    /\ UNCHANGED <<tables, mode, officer, count>>

\* doRegister: the row commits on another connection, ahead of the transaction
\* that holds the lock.
DoRegister(v) ==
    /\ visit[v].pc \in {"create", "createMain", "createWaiting"}
    /\ ConnectionFree
    /\ \E i \in Free :
          IF visit[v].pc = "createWaiting"
          THEN Insert(i, "WAITING", 0, visit[v].e, "public")
          ELSE Insert(i, "PENDING", Temp, visit[v].e, "public")
    /\ IF visit[v].pc = "create" THEN Leave(v) ELSE Goto(v, "commit")
    /\ UNCHANGED <<mode, officer, count>>

CommitVisit(v) ==
    /\ visit[v].pc = "commit"
    /\ Leave(v)
    /\ UNCHANGED <<tables, mode, officer, count>>

\* Any query may return an error; the lock and the connection go back with the
\* rollback, a row already created stays.
VisitFails(v) ==
    /\ visit[v].pc # "idle"
    /\ Leave(v)
    /\ UNCHANGED <<tables, mode, officer, count>>

VisitStep(v) ==
    \/ FindByEmail(v) \/ GetCapacitySettings(v) \/ BeginVisit(v) \/ LockCapacity(v) \/ CountMain(v)
    \/ CountWaiting(v) \/ DoRegister(v) \/ CommitVisit(v)

-----------------------------------------------------------------------------
(* Approvals.                                                              *)

Finish(o) == officer' = [officer EXCEPT ![o] = IdleOfficer]
Advance(o, pc, next) ==
    officer' = [officer EXCEPT ![o] = [pc |-> pc, via |-> @.via, id |-> @.id, to |-> @.to,
                                       seen |-> @.seen, next |-> next]]
Take(o, via, pc, i, to) ==
    /\ officer[o].pc = "idle"
    /\ Request /\ ConnectionFree
    /\ Registered(i)
    /\ officer' = [officer EXCEPT ![o] = [pc |-> pc, via |-> via, id |-> i, to |-> to,
                                          seen |-> number[i], next |-> 0]]
    /\ UNCHANGED <<tables, mode, visit>>

\* verification.VerifyParticipant up to its transaction: only a pending
\* registration goes on, to APPROVED or REJECTED.
VerifyParticipant(o, i, to) ==
    /\ status[i] = "PENDING"
    /\ to \in {"APPROVED", "REJECTED"}
    /\ Take(o, "verification", "begin", i, to)

\* registration.AdminUpdateRegistrationStatus up to its transaction.  It stops
\* if the status is the new one to the letter; "Pending" is not "PENDING", and
\* only APPROVED has a spelling of its own here.
AdminUpdateRegistrationStatus(o, i, to) ==
    /\ to \in {"PENDING", "APPROVED", "REJECTED"}
    /\ to = "APPROVED" => status[i] # "APPROVED"
    /\ Take(o, "registration", "begin", i, to)

\* participant.UpdateStatus(Verified): the transaction takes its connection
\* first and waits for the row with it.
UpdateStatus(o, i) == Take(o, "participant", "row", i, "Verified")

\* Slip: the row is read FOR SHARE, which several may do at once.
LockRowShared(o) ==
    LET w == officer[o] IN
    /\ w.pc = "row"
    /\ IF Registered(w.id) /\ status[w.id] # "Verified"
       THEN officer' = [officer EXCEPT ![o].pc = "number", ![o].seen = number[w.id]]
       ELSE Finish(o)
    /\ UNCHANGED <<tables, mode, visit, count>>

\* GetByIDTx, SELECT ... FOR UPDATE: the row is read once it is locked, and the
\* transaction ends there if it is already Verified, or gone.
LockRow(o) ==
    LET w == officer[o] IN
    /\ w.pc = "row"
    /\ RowHolders(w.id) = {}
    /\ IF Registered(w.id) /\ status[w.id] # "Verified"
       THEN officer' = [officer EXCEPT ![o].pc = "number", ![o].seen = number[w.id]]
       ELSE Finish(o)
    /\ UNCHANGED <<tables, mode, visit, count>>

BeginOfficer(o) ==
    /\ officer[o].pc = "begin"
    /\ ConnectionFree
    /\ Advance(o, IF officer[o].to # "APPROVED" THEN "write"
                  ELSE IF officer[o].via = "verification" THEN "quota" ELSE "number", 0)
    /\ UNCHANGED <<tables, mode, visit, count>>

\* Slip: the limit is read without FOR UPDATE.
QuotaUnlocked(o) ==
    /\ officer[o].pc = "quota"
    /\ IF Limit > 0 /\ Cardinality(Approved) >= Limit THEN Finish(o) ELSE Advance(o, "number", 0)
    /\ UNCHANGED <<tables, mode, visit, count>>

\* GetParticipantLimitAndLockTx and CountVerifiedInTx.
Quota(o) ==
    /\ officer[o].pc = "quota"
    /\ ConfigHolders = {}
    /\ IF Limit > 0 /\ Cardinality(Approved) >= Limit THEN Finish(o) ELSE Advance(o, "number", 0)
    /\ UNCHANGED <<tables, mode, visit, count>>

\* The number to write for a registration that had number seen when it was
\* read: the next official one, the one it has, or (verification) none.
\* Slip: the test for an empty number the wrong way round.
NextNumberInverted(via, seen, last) ==
    CASE seen # 0 /\ via = "registration" -> NumberCount + 1
      [] seen # 0 /\ via # "registration" -> last + 1
      [] OTHER -> 0
NextNumber(via, seen, last) ==
    CASE seen = 0 /\ via = "registration" -> NumberCount + 1
      [] seen = 0 /\ via # "registration" -> last + 1
      [] seen # 0 /\ via = "verification" -> 0
      [] OTHER -> seen

ChooseNumber(o) ==
    /\ officer[o].pc = "number"
    /\ \E last \in Last :
          Advance(o, "write", NextNumber(officer[o].via, officer[o].seen, last))
    /\ UNCHANGED <<tables, mode, visit, count>>

\* The UPDATE asks for the id alone.  A duplicate number breaks a unique
\* constraint and a registration deleted meanwhile has no row; either way
\* nothing is written.
Writable(w) ==
    /\ Registered(w.id)
    /\ ~NumberTaken(w.id, w.next)
    /\ w.via = "participant" => ~BadgeTaken(w.id, w.next)

\* What others see once the transaction of w commits.
Committed(w) ==
    /\ status' = [status EXCEPT ![w.id] = w.to]
    /\ number' = [number EXCEPT ![w.id] = IF w.next = 0 THEN @ ELSE w.next]
    /\ writer' = [writer EXCEPT ![w.id] = w.via]
    /\ badge' = [badge EXCEPT ![w.id] = IF w.via = "participant" THEN w.next ELSE @]
    /\ UNCHANGED email

\* Slip: a refused write is tried again, with a request that was reset.
WriteRetrying(o) ==
    LET w == officer[o] IN
    /\ w.pc = "write"
    /\ ~Writable(w)
    /\ officer' = [officer EXCEPT ![o] = [IdleOfficer EXCEPT !.pc = "begin"]]
    /\ UNCHANGED <<tables, mode, visit, count>>

\* The UPDATE, after whoever holds the row or has written the number.  The
\* participant module has a mail to queue before it commits.
Write(o) ==
    LET w == officer[o] IN
    /\ w.pc = "write"
    /\ RowHolders(w.id) \subseteq {o} /\ NumberHolders(w.next) = {}
    /\ \/ Writable(w) /\ w.via # "participant" /\ Committed(w) /\ Finish(o)
       \/ Writable(w) /\ w.via = "participant" /\ UNCHANGED tables /\ Advance(o, "template", w.next)
       \/ ~Writable(w) /\ UNCHANGED tables /\ Finish(o)
    /\ UNCHANGED <<mode, visit, count>>

\* GetTemplateByName is given no transaction and asks the pool for a connection
\* of its own; then the job and the audit row are inserted, and all commits.
QueueNotificationTx(o) ==
    /\ officer[o].pc = "template"
    /\ ConnectionFree
    /\ Committed(officer[o])
    /\ Finish(o)
    /\ UNCHANGED <<mode, visit, count>>

\* Any query may return an error, the template be missing: all is rolled back.
OfficerFails(o) ==
    /\ officer[o].pc # "idle"
    /\ Finish(o)
    /\ UNCHANGED <<tables, mode, visit, count>>

OfficerStep(o) ==
    \/ BeginOfficer(o) \/ LockRow(o) \/ Quota(o) \/ ChooseNumber(o) \/ Write(o)
    \/ QueueNotificationTx(o)

-----------------------------------------------------------------------------
(* Everything else that writes registrations.                              *)

Edit ==
    /\ count.edits < MaxEdits /\ count' = [count EXCEPT !.edits = @ + 1]
    /\ ConnectionFree

\* registration.RegisterParticipant: its limit is a constant nobody reaches,
\* its look-up by e-mail joins participants on the person's id and so finds
\* nobody, and no number is given out.
RegisterParticipant(e) ==
    /\ Edit
    /\ Cardinality(Busy) < Cardinality(Free)
    /\ \E i \in Free : Insert(i, "PENDING", 0, e, "register")
    /\ UNCHANGED <<mode, visit, officer>>

\* participant.Create: the committee types status and number; Next offers the
\* next of the series and one outside it.
Create(e, s, n) ==
    /\ Edit
    /\ NumberHolders(n) = {}
    /\ Cardinality(Busy) < Cardinality(Free)
    /\ \E i \in Free : Insert(i, s, n, e, "create")
    /\ UNCHANGED <<mode, visit, officer>>

\* BulkUpdateStatus for any status, UpdateStatus for one that does not approve.
BulkUpdateStatus(S, s) ==
    /\ S # {} /\ \A i \in S : Registered(i) /\ RowHolders(i) = {}
    /\ Edit
    /\ status' = [i \in Ids |-> IF i \in S THEN s ELSE status[i]]
    /\ writer' = [i \in Ids |-> IF i \in S THEN "bulk" ELSE writer[i]]
    /\ UNCHANGED <<number, email, badge, mode, visit, officer>>

\* Delete and BulkDelete: the snapshots stay.
DeleteRegistrations(S) ==
    /\ S # {} /\ \A i \in S : Registered(i) /\ RowHolders(i) = {}
    /\ Edit
    /\ status' = [i \in Ids |-> IF i \in S THEN "deleted" ELSE status[i]]
    /\ number' = [i \in Ids |-> IF i \in S THEN 0 ELSE number[i]]
    /\ UNCHANGED <<email, writer, badge, mode, visit, officer>>

\* UpdateConfigGroup: another capacity mode, once nobody holds the row.
UpdateCapacityMode(m) ==
    /\ m # mode
    /\ ConfigHolders = {}
    /\ Edit
    /\ mode' = m
    /\ UNCHANGED <<tables, visit, officer>>

Next ==
    \/ \E v \in Visitors : (\E e \in Emails : Arrive(v, e)) \/ VisitStep(v) \/ VisitFails(v)
    \/ \E o \in Officers :
          \/ \E i \in Ids, to \in RegStatuses :
                VerifyParticipant(o, i, to) \/ AdminUpdateRegistrationStatus(o, i, to)
          \/ \E i \in Ids : UpdateStatus(o, i)
          \/ OfficerStep(o) \/ OfficerFails(o)
    \/ \E e \in Emails : RegisterParticipant(e)
    \/ \E e \in Emails, s \in RegStatuses, n \in {Temp} \cup {last + 1 : last \in Last} :
          Create(e, s, n)
    \/ \E S \in SUBSET Ids, s \in RegStatuses : BulkUpdateStatus(S, s)
    \/ \E S \in SUBSET Ids : DeleteRegistrations(S)
    \/ \E m \in Modes : UpdateCapacityMode(m)

Spec == Init /\ [][Next]_vars

\* Requests that have begun are carried on, and the lock is given to those who
\* wait for it in the order they came.
Fairness ==
    /\ \A v \in Visitors : WF_vars(VisitStep(v)) /\ SF_vars(LockCapacity(v))
    /\ \A o \in Officers : WF_vars(OfficerStep(o))

FairSpec == Spec /\ Fairness

-----------------------------------------------------------------------------
(* Properties.                                                             *)

\* Verification never approves past the limit, however approvals interleave:
\* what exceeds it was approved by a handler that does not look at it.
QuotaHolds ==
    Limit > 0 => Cardinality({i \in Approved : writer[i] = "verification"}) <= Limit

\* Public registration never overfills the waiting list, however visitors race
\* for the last place: what exceeds its capacity was put there by the committee.
WaitingListHolds ==
    WaitCapacity > 0 => Cardinality({i \in WaitingList : writer[i] = "public"}) <= WaitCapacity

\* Approvals that read the same highest number do not both commit it.
NumbersDistinct ==
    \A i, j \in Ids : i # j /\ number[i] # 0 /\ number[i] # Temp => number[i] # number[j]

\* Whoever one of the three approval handlers approved has a number, even if
\* the registration was changed between its reads and its write.
ApprovedCarryNumber ==
    \A i \in Approved :
        writer[i] \in {"verification", "participant", "registration"} => number[i] # 0

\* A number once given is replaced only by an approval that read the
\* registration, unlocked, before that number was given; participant.Update-
\* Status, which reads under the row's lock, never replaces one.
GivenNumbersStand ==
    [][\A i \in Ids :
          (number[i] # 0 /\ number'[i] # number[i] /\ status'[i] # "deleted") =>
             \E o \in Officers : /\ officer[o].id = i /\ officer[o].pc = "write"
                                 /\ officer[o].seen # number[i]
                                 /\ officer[o].via # "participant"]_vars

\* The guards of VisitStep and OfficerStep: the request does not have to wait.
VisitReady(v) ==
    \/ visit[v].pc \in {"find", "settings", "begin", "count", "countWaiting"} /\ ConnectionFree
    \/ visit[v].pc \in {"create", "createMain", "createWaiting"} /\ ConnectionFree /\ Free # {}
    \/ visit[v].pc = "lock" /\ ~CapacityLocked
    \/ visit[v].pc = "commit"

OfficerReady(o) ==
    \/ officer[o].pc \in {"begin", "template"} /\ ConnectionFree
    \/ officer[o].pc = "row" /\ RowHolders(officer[o].id) = {}
    \/ officer[o].pc = "quota" /\ ConfigHolders = {}
    \/ officer[o].pc = "number" /\ Last # {}
    \/ /\ officer[o].pc = "write"
       /\ RowHolders(officer[o].id) \subseteq {o} /\ NumberHolders(officer[o].next) = {}

\* A transaction that holds its connection and asks the pool for a second one.
AskTwice ==
    \/ \E v \in Visitors : visit[v].pc \in Counting \ {"commit"}
    \/ \E o \in Officers : officer[o].pc = "template"

StandStill ==
    /\ Busy # {} \/ Approving # {}
    /\ ~\E v \in Visitors : VisitReady(v)
    /\ ~\E o \in Officers : OfficerReady(o)

\* The advisory lock, the configuration row, the registrations' rows and the
\* unique index never make requests wait for one another in a circle, however
\* many are in flight: when all stand still, the pool is empty and a transaction
\* that holds a connection asks for its second.  That can happen: neither
\* PublicRegister nor participant.UpdateStatus is kept from filling the pool.
StandStillIsOfThePool == StandStill => ~ConnectionFree /\ AskTwice

\* Every registration request is answered.  The code does not promise it when
\* as many requests as connections are in flight.
RequestsFinish == \A v \in Visitors : visit[v].pc # "idle" ~> visit[v].pc = "idle"

-----------------------------------------------------------------------------
(* What documents and comments of the repository say, and the code does not do. *)

\* docs/01-product/business-rules.md:6: e-mail addresses are unique.
EmailsUnique ==
    \A i, j \in Ids : Registered(i) /\ Registered(j) /\ email[i] = email[j] => i = j

\* participant/service.go:355: the main pool counts the registrations that are
\* neither rejected nor on the waiting list.
MainPool == {i \in Ids : status[i] \in ApprovedStatuses \cup {"PENDING"}}
MainPoolHolds ==
    [][\A v \in Visitors :
          (visit[v].pc = "createMain" /\ visit'[v].pc = "commit") => Cardinality(MainPool) < Limit]_vars
=============================================================================
