# Verification of MUSKOM's election and registration system

MUSKOM runs the registration, check-in and election of a congress: a Go (Fiber)
API over PostgreSQL and Redis under `src/apps/api`, a Next.js front end under
`src/apps/frontend`, and SQL migrations under `src/database/migrations`. This
directory holds TLA+ models of the API's stateful core and of the pages people
work with, TLC configurations that check them on small instances, and TLAPS
proofs for every size. Paths below are relative to
`src/apps/api/internal/modules` (API) or `src/apps/frontend/src/app` (pages)
unless they start with `src/`; `admin/` stands for `admin/(dashboard)/`.

Run `tlc -config X.cfg M` and `tlapm M.tla` in this directory.
`PROJECT.json` maps every definition to the lines it models and lists the runs,
the slips (mutants) each property catches, the findings, the hazards and the
theorems.

## 1. Inventory

### The API

There is one database. Every handler runs in its own goroutine and talks to
PostgreSQL under READ COMMITTED through a pool of at most 25 connections
(`src/apps/api/platform/database/postgres.go:20`), so the components interact
almost only through tables that several of them read and write, often with a
read outside the transaction that later writes.

| Component | State | Operations that change it | What is hard | Correct when |
|---|---|---|---|---|
| voting | session row of `system_configurations`, `voter_receipts`, `ballots` | CastVote, UpdateSessionStatus, ReopenSession | four reads before the transaction; a status read, decided on and overwritten; reads that fail taken for "not started" | one ballot per voter, only admitted voters, only candidates of the slate, no vote lost, the count settles |
| attendance | `attendance`, `participants` snapshot | CheckIn, UndoCheckIn, BulkUndoCheckIn | status read outside the transaction; upserts that do nothing on conflict | only those with an approved registration are admitted; check-in can be undone and repeated |
| participant | `registrations`, `persons`, `participants` | PublicRegister, Create, Update, UpdateStatus, BulkUpdateStatus, Delete, BulkDelete | transactions that hold a connection and ask for another; look-up before the lock | capacity respected, numbers unique, requests answered |
| registration | `registrations`, `email_logs` | RegisterParticipant, AdminUpdateRegistrationStatus | no lock at all; number from COUNT | as above |
| verification | `registrations`, `candidates` | VerifyParticipant, VerifyCandidate | registration read before the transaction, configuration row locked in it | quota respected |
| candidate | `candidates`, documents, photos | create, patch, submit, verify, publish, photo, delete | whole rows written back after slow uploads | one row per candidate sent; verdict and publication are what the page shows |
| notification queue | `notification_jobs`, drafts | blast, poll, mark, send, retry | no claim, crash while PROCESSING, retry of what is being sent | every job done, nobody reminded twice |
| registration e-mail log, announcements | job tables of their own | the same shape | the same | the same |
| system configuration | `system_configurations`, Redis copy | UpdateConfigGroup | fill after invalidate | a cached value is not stale for ever |
| auth, e-voting access | tokens, cookies, attempt counters | login, logout, expiry; access code | a 401 to any request of a page | nothing is shown without a cookie |
| realtime hub | map of clients | register, send | map changed by several goroutines | - |
| audit, results, website, dashboard, user, rbac, public | rows nobody coordinates on | single-row CRUD, read-only queries | nothing beyond the database | - |
| workflow, automation, integration, reporting | - | not wired into `cmd/server/main.go` | - | - |

Registration, participant and verification write the registration; participant
(on approval) and attendance (on check-in) copy its status into the
`participants` snapshot; voting reads the snapshot and the attendance row, never
the registration, and reads candidates in whatever state the candidate and
verification modules left them. The capacity mode, the limits and the voting
session are rows of the configuration table, locked with `FOR UPDATE` by some of
their readers and not by others.

### The pages

A page holds its state in React variables. A handler is an async function: it
sends a request, gives the browser back, and goes on when the answer comes, with
the variables of the rendering it was made in. Meanwhile everything that is
enabled can be pressed. Answers arrive in any order, some after the page has
gone on to somebody else, some never.

| Page | State | Operations | What is hard | Correct when |
|---|---|---|---|---|
| polling booth `evoting/page.tsx` | screen, voter, choice, countdown | code, badge, camera, choose, confirm, reset | late look-ups and late votes; the booth must free itself | a choice is of the voter on the screen, thanks are theirs |
| check-in `admin/checkin/page.tsx` | badge, outcome | submit, scan, dismiss | a second badge before the first answer | the outcome is of the last badge |
| attendance `admin/attendance/page.tsx` | list, filter, ticks | row button, badge form, bulk undo, filter | lists answered out of order, fetched with an old filter | the settled table is of its filter |
| voting session `admin/voting/page.tsx` | status, counts, dialogs | start, pause, resume, stop, reopen, refresh | three fetches that overlap, another administrator, a late vote | it settles on the session's status and, once closed, on counts with every vote in the box at the close |
| participants, candidates, one candidate, verifications | lists, windows, forms | see `AdminConsole` | windows filled by several answers; forms stored in two requests | a window is of one person, a form is stored once |
| login and shell `admin/login/page.tsx` | cookie, page on the tab | login, logout, links, 401 | an answer to a page that was left | - |
| sign-up `register/page.tsx` | form, step, draft, timers | type, turn, send, reload | timers that write the draft while the form is sent; lost answers | no draft of a thanked visitor, no unexplained duplicate |
| broadcasts `admin/broadcasts/page.tsx` | jobs, draft, composer | pick, save, blast | an effect that runs again over what was picked; a blast sent twice | nobody reminded twice |
| website, users, SMTP, audit, dashboard, public site | one row each | load, edit, save | nothing beyond the request | - |

The `hazards` in `PROJECT.json` list where each difficulty bites and which
property watches it.

## 2. Modules

| Module | Models | Extends / composes |
|---|---|---|
| `Committee` | the four tables election day reads, and the committee's writes to them | - |
| `Attendance` | CheckIn as read and transaction, UndoCheckIn | `Committee` |
| `Voting` | CastVote read by read, the session's updates, ReopenSession | `Committee` |
| `Election` | the three running together; properties; fairness | `Attendance`, `Voting`; `Box == INSTANCE BallotBox` |
| `BallotBox` | abstract specification: a box, a roll, a slate, slips, marks | - |
| `Registration` | PublicRegister step by step, RegisterParticipant, the three approval protocols, the committee's edits, locks and the connection pool | - |
| `ReminderQueue` | reminder jobs, the worker, retry, restart | - |
| `Requests` | what a page has sent and not heard of | - |
| `Kiosk` | the polling booth | `Requests` |
| `Hall`, `CheckInDesk`, `AttendancePage`, `CheckInHall` | the register of the entrance, the two pages over it, and both together | `Requests` |
| `SessionPage` | the page that opens and closes the voting session | `Requests` |
| `AdminTab`, `LoginPage`, `ParticipantsPage`, `CandidatesPage`, `CandidatePage`, `VerificationsPage`, `AdminConsole` | one tab of the console, its pages, and the links between them | `Requests` |
| `SignUpPage` | the registration page, its draft and its timers | `Requests` |
| `BroadcastPage` | the broadcasts page and its composer, over the queue it fills | `Requests`, `ReminderQueue` |
| `ElectionProofs`, `RegistrationProofs`, `KioskProofs`, `HallProofs`, `SessionProofs`, `AdminConsoleProofs`, `SignUpProofs`, `ReminderProofs` | theorems | the module they are named for; `HallProofs` is about `CheckInHall`, `SessionProofs` about `SessionPage`, `SignUpProofs` about `SignUpPage`, `ReminderProofs` about `BroadcastPage` |
| `MCElection`, `MCRegistration`, `MCKiosk`, `MCCheckInHall`, `MCSessionPage`, `MCAdminConsole`, `MCSignUpPage`, `MCBroadcastPage` | symmetry sets and instances for TLC | the module they are named for |

A page's module takes each request to the API as one atomic step (`Serve`),
possible at any time after it was sent, and each answer as another (`Deliver` or
`...Answered`), possible at any time after that; a request or its answer may
also be lost. What the API does inside a request, and how two requests meet
there, is the subject of `Voting`, `Attendance`, `Registration` and
`ReminderQueue`. Some variables or fields (`h`, `crossed`, `excuse`, `stuck`,
`late`, `overtaken`) are observations: no step of a page or of the API reads
them, they record what a property needs to know of the past.

### Election day

A `registrations` entry is the row every admin screen edits, `participants` the
snapshot, `attendance` the one row `uq_attendance_participant` allows per
person, `candidates` whether `IsCandidateValid` answers yes. Each `CastVote`
call is an entry of `vote` whose `pc` names the read it makes next: session
(`SubmitVote`), eligibility, receipt, candidate, then `CastVoteTx`, which
inserts receipt and ballot together or, if the receipt's unique constraint
refuses, nothing. `VoteFails` is any error at any point. An admin's
`UpdateSessionStatus` is two steps, the read with its decision and the
unconditional upsert; `ReadsMayFail` says whether the read may fail, which the
code takes for `NOT_STARTED` (`voting/service.go:161`): in the suite it does, so a
closed session may be started again, by one administrator or by two. A check-in is the read
of the status (`BeginCheckIn`) and the transaction (`CheckInTx`); its two
`ON CONFLICT DO NOTHING` inserts are `Provisioned` and `Conflict`.

`ballots` is a sequence so that "never withdrawn or rewritten" can be said; the
order is not stored and nothing else depends on it. `slate` is a history of the
candidates that have been votable.

`Committee` writes registrations in one step, whichever handler does it: for the
election only the stored status matters, and `Registration` has the handlers'
guards and steps in full. So `Committee` allows at least what they do.

### Registration and approval

`visit` holds the `PublicRegister` calls: look-up by e-mail, capacity settings,
begin, advisory lock, count of the main pool, count of the waiting list, insert,
commit. A visitor waiting for the lock holds the transaction's connection, and
each count and the insert need another one (they go through the repository's
pool, not the transaction): `ConnectionFree` guards them. Without a limit, or in
mode `ALLOW`, the insert is made at once.

`officer` holds the approvals. Their protocols differ, which is the point (an
approval by `participant` is to `Verified`; other statuses, and the bulk handler,
are one write, `BulkUpdateStatus`):

| `via` | reads the registration | locks | number |
|---|---|---|---|
| `verification` | before its transaction | configuration row, approvals only | highest of the series + 1, none if it saw one |
| `participant` | in its transaction, once it has the row | the registration's row | highest + 1, or the one it saw |
| `registration` | before its transaction | nothing | COUNT + 1, or the one it saw |

`Write` is the UPDATE. A duplicate number violates a unique constraint and a
deleted row is not found; both roll back. `verification` and `registration` commit
there. `participant` goes on, its number written and not committed: it queues a
mail, and `QueueNotificationTx` reads the template outside the transaction, on a
second connection of the pool (`participant/service.go:205`,
`notification/service.go:100`), and then commits. Until it does, whoever writes the
same number waits on the unique index (`NumberHolders`). What the transaction wrote
is in the tables from `Committed` on, since READ COMMITTED shows it to nobody
before.

Every approval holds a connection from its `BEGIN` on, also while it waits for a
row: `participant.UpdateStatus` takes the connection first (step `row`) and then
waits in `LockRow`. The committee's other edits are one step, connection and row at
once: that they hold a connection while they wait for a row is abstracted. They
never ask for a second one, so they wait only behind an approval; counting theirs
would empty the pool sooner, not for another reason. `number` 0 is NULL, `Temp` stands for every number
outside the official series (`PENDING-...`), and `badge` is the number in the
snapshot, under a unique index of its own. `writer` is a history variable: the
handler that wrote the status last. `MaxRequests` bounds the registrations and
approvals begun, `MaxEdits` the other writes.

Read with care:

- "Unverified" and "Eligible" are statuses nothing here distinguishes from
  `REJECTED`; "Pending" is `PENDING`, "Approved" is `APPROVED`. The exact
  spelling matters in two early returns and is modelled there. The migrations'
  CHECK (`src/database/migrations/007_create_registrations.sql:17`) lists only
  `PENDING`, `APPROVED` and `REJECTED`; the code's comment
  (`attendance/service.go:72`) says the database stores mixed-case values, so
  the models take the database to accept them.
- `registration.RegisterParticipant` looks an address up by joining
  `participants` on the person's id and so finds nobody; the model lets it
  insert.
- The configuration's validator knows no `voting_session` group, so
  `UpdateConfigGroup` never writes the session.
- `participant_limit` and `waiting_list_capacity` are constants of an instance;
  the capacity mode changes. With a limit that changes, a lowered limit exceeds
  itself and says nothing about races.

### The pages

`Requests` models the network: a function from slots, whose number bounds the
requests out at once, to records with a field `answer` that is `"none"` until
the server has acted. `Sent` fills a free slot, `Done` empties one.

**`Kiosk`.** `k` holds the page's variables by name: `elig` (voter looked up),
`sel`, `submitting`, `success`, the countdown. `screen` is what is shown,
`entering` which of code and cookie check is awaited. `Cleared` is
`resetVoterState`, called wherever the code calls it. A vote is answered to
whoever is on the screen by then (`AfterCast`): `h.movedOn` and `h.overtook`
record that the booth was reset, or another look-up answered, in between, and
`SuccessIsTheirs` says what holds otherwise.

**`CheckInHall`.** The check-in page sends through a mutation of react-query,
which tells the page only of the last one (`Superseded`); the attendance page
uses plain handlers, whose refetch uses the filter of the rendering they were
made in. `crossed` records that the answer last shown was overtaken or asked for
with an old filter; `TableMatchesFilter` says the table is right otherwise, and
`TypeOK` that no spinner outlives its request.

**`SessionPage`.** A fetch is a chain of three requests, status, then counts, then
figures, and continues from one to the next (`GoOn`). An answer that changes the
status shown starts another fetch (`OnStatus`), which is why an old answer that
overtakes a new one is corrected. `h.behind` records a change at the server that
no fetch of this page has followed. A vote is two steps, as in `Voting`: it finds
the session running (`VoteBegins`, counted in `casting`) and is recorded or refused
whatever the status is by then (`VoteArrives`). So a ballot may land after the close
and after the page has fetched its counts. Nothing fetches again for it, and what is
shown and exported as final lacks it until somebody presses refresh. `h.atClose` is
the number of votes in the box when the session was last closed:
`FinalTallyIsComplete` says that the settled page counts at least those.

**`AdminConsole`.** `page` is the page on the tab; leaving it forgets its
variables while its requests go on. `db` is what the pages change. The verdict,
publication, settings and photo of a candidate lead to a refetch
(`Refetches`). `Released` says which button an answer gives back.

**`SignUpPage`.** `draft` is the browser's storage and outlives pages. `p.armed`
is the 600 ms timer of the draft, `p.idles` the timers that reset the notice
after 2 s, which nothing stops. A reload forgets the handlers; a link inside the
site leaves the page and its timers, and the handler that sends goes on
(`heard`). `h.late` is set when the form changed while it was being sent, or an
old notice timer hid that a change was not yet saved: in those two cases the
draft does come back after a success, which `DraftGoneAfterSuccess` states as
its exceptions.

**`ReminderQueue`, `BroadcastPage`.** `BlastQueues` is one recipient's
transaction under the advisory lock. A success asks for the jobs and twice for the
draft, once by `onBlasted` and once by `onClose`. A draft that cannot be read is
answered like none (`notification/handler.go:318`), so `ServeRead` may answer so, and
the composer then selects everybody. The list of earlier broadcasts decides
nothing, so its request is taken as served when it is sent. The worker fetches a batch, claims nothing,
and handles the jobs in order: mark PROCESSING, send, mark. A restart of the
process loses the batch; a job that was PROCESSING then is in `stuck`. `excuse`
counts, per person, the reasons a second e-mail may have: a retry by an
administrator, a job whose mark could not be stored, a message that was taken
although the worker saw an error.

## 3. Runs

| Run (cfg) | Checks | Bounds |
|---|---|---|
| `election` (MCElection) | `TypeOK`, `BallotsMatchReceipts`, `ReceiptsAreOfAdmitted`, `BallotsAreForSlate`, `SummaryAccountsForReceipts`, `VotesAreKept`, `LateBallotsWereInFlight`, `ImplementsBallotBox`, `CountSettles` under `FairSpec` | 1 delegate, 1 candidate, 2 requests, 1 desk, 2 admins, failing session reads, 2 edits; 0.45 million states |
| `registration` (MCRegistration) | `TypeOK`, `QuotaHolds`, `WaitingListHolds`, `NumbersDistinct`, `ApprovedCarryNumber`, `StandStillIsOfThePool`, `GivenNumbersStand` | 3 registrations, 1 address, 2 visitors, 2 officers, every mode, limit 1, list of 1, 3 connections, 4 requests, 1 edit, symmetry; 0.9 million states |
| `kiosk` (MCKiosk) | `TypeOK`, `ChoiceIsOfVoterOnScreen`, `SuccessIsTheirs`, `KioskFreesItself` | 2 voters, 1 candidate, 2 slots, countdown from 1 |
| `checkin_hall` (MCCheckInHall) | `TypeOK`, `OutcomeIsOfLastBadge`, `TableMatchesFilter` | 2 people, 2 slots, 4 presses, filters ALL and PRESENT, symmetry; 0.8 million states |
| `session_page` (MCSessionPage) | `TypeOK`, `SettledShowsServer`, `FinalTallyIsComplete`, `RunningIsCorrected` | 3 slots, 2 presses, 1 upset, 1 vote; 0.8 million states |
| `admin_console` (MCAdminConsole) | `TypeOK`, `DetailIsOnePerson`, `OneCandidatePerForm`, `ReasonIsForApplicant`, `SettledShowsCandidate` | 2 people, 2 slots, 6 presses, symmetry; 1.3 million states |
| `sign_up` (MCSignUpPage) | `TypeOK`, `DraftGoneAfterSuccess`, `DuplicateIsExplained` | 2 addresses, 3 modes, room for 1 and a list of 1, 2 slots, 4 changes of the form, 1 visit, 2 upsets, 2 sends, symmetry |
| `reminders` (MCBroadcastPage) | `TypeOK`, `RemindedOnce`, `QueuedIsDone` | 2 people, 3 slots, 2 jobs, 1 upset, 2 presses; 1.7 million states |
| `session_race` (MCSessionRace) | violates `ClosedNeverRunsAgain` | 1 delegate, 1 request, 2 admins, reads that do not fail, no edit |
| `stale_snapshot` (MCStaleSnapshot) | violates `EligibleAreVerified` | 1 delegate, 1 request, 1 admin, 1 edit |
| `waiting_list_notice` (MCWaitingListNotice) | violates `WaitingListIsAnnounced` | as `sign_up` |
| `composer_reload` (MCComposerReload) | violates `LoadsOnMount` | as `reminders`, 4 presses |

Why these bounds are enough to be interesting. Every race in the API is between
two calls, so two requests, officers, visitors or administrators are the smallest
instance that has it. One delegate with two requests is the double vote; the count
adding up over two voters is checked by `MCTwoVoters` and proved for any number. A
limit or capacity of 1 puts every approval or visit at the boundary, and with two
visitors, two officers and three connections the pool runs empty. One edit can come
between any read and the write that uses it; the two of `election` leave room to
reject and approve again. On the pages the races are between one request that is
answered late and the next: two slots have them, three on `SessionPage`, where
fetches by timer, after an update and after a change of status meet, and on
`BroadcastPage`, where a blast's success sends three requests. A press there is
opening the composer, picking or saving; confirming, sending and closing cost none,
so two blasts overlap within two presses. Presses, upsets (lost answers, acts of
others, restarts), visits, edits, sends and votes are counted down, and each
mutant listed in `PROJECT.json` is caught within them, so its case happens. The
proofs below take the bounds away.

`Ids` bounds the rows ever made; `Arrive` and the other inserts are guarded so
that every request in flight can still insert its row, as in the program, where
ids never run out. `Officers`, `Visitors`, `Requests`, `Desks`, `Admins` and
`Slots` bound calls in flight at once, not over time; `MaxEdits` of the election
bounds the committee's other writes in a behaviour, and no session update, check-in
or vote. `CHECK_DEADLOCK FALSE` everywhere: a state in
which nobody presses anything and the bounds are used up is an end of the bounded
behaviour, not of the program. That something is stuck is what the liveness
properties, and the parts of `TypeOK` about who waits for what, would show.

### Where documents or comments and the code part

Four runs state what a document or a comment says and find it violated:

- `session_race`: `src/docs/20-state-diagram.md:32` says a closed session cannot
  become active again; `voting/service.go:191` writes without comparing, so a resume
  decided while PAUSED overwrites a CLOSED. The run has reads that do not fail; where
  they may, one administrator suffices (line 161).
- `stale_snapshot`: `src/docs/01-product/business-rules.md:24` says only verified and
  checked-in delegates are eligible; the snapshot that `IsParticipantEligible` reads
  is not updated when the registration is rejected after the check-in.
- `waiting_list_notice`: `register/page.tsx:114` says the timeline is skipped if
  the status was set to the waiting list above; line 115 reads the status of the
  first rendering, so it never is, and the visitor is not told of the list.
- `composer_reload`: `admin/broadcasts/page.tsx:149` says the composer loads on
  mount; its effect depends on `onClose` (line 180), which is new at every
  rendering, so an answer about jobs or the draft loads it again over what was
  picked and written.

Seven more configurations are kept for the reader and run by hand; they belong to
none of the twelve runs. Two pass: `MCTwoVoters` checks the safety properties of
`election` with two delegates, and `MCWaitingList` checks `RequestsFinish`, that
every visitor is answered, with a connection to spare and no officers. Five make TLC
show a behaviour that a document or a comment excludes:

| Configuration (module) | Statement | What the code does |
|---|---|---|
| `MCLateBallot` (`MCElection`): `BallotsOnlyWhileRunning` | votes only while RUNNING (`src/docs/01-product/business-rules.md:23`) | the session is read first and not again |
| `MCRecheckIn` (`MCElection`): `CheckInAfterUndo` | an undone check-in may be repeated (`src/database/migrations/018_update_attendance_undo.sql:10`) | the full unique constraint of migration 054 brought back the conflict; the insert does nothing |
| `MCPoolDeadlock` (`MCRegistration`): `RequestsFinish` | the advisory lock serialises registrations (`participant/service.go:347`) | with as many requests as connections all wait for ever (section 5 says what is known for any number) |
| `MCMainPool` (`MCRegistration`): `MainPoolHolds` | the main pool counts what is neither rejected nor waiting (`participant/service.go:355`) | only approved registrations are counted |
| `MCDuplicateEmail` (`MCRegistration`): `EmailsUnique` | addresses are unique (`src/docs/01-product/business-rules.md:6`) | the look-up precedes the lock and no constraint backs it |

## 4. Fairness

`Election!FairSpec`: weak fairness on each request's next step. A handler that
has begun is a goroutine doing one query after another; it is always able to go
on, and the Go scheduler and the database let it. Starting a request, an
error, an edit and opening or closing the session are not fair: nobody has to.

`Registration!FairSpec`: weak fairness on each visitor's and each officer's next
step, and strong fairness on `LockCapacity`: the lock is taken and released while
others wait, and PostgreSQL grants an advisory lock in the order of its queue, so
a waiter is not overtaken for ever. Weak fairness would not say so, since the
lock is not continuously free. A free connection needs no more than weak fairness
here, because the requests of a behaviour are bounded: only so many take it before
the one that waits. This fairness is used by `RequestsFinish` alone, in
configurations run by hand; the run `registration` is about safety.

No request times out in the code (no deadline is set on the handlers' contexts),
so no action does; `VisitFails`, `VoteFails` and `OfficerFails` are errors,
possible and never owed.

`Kiosk!Fairness`: weak fairness on the countdown, and on serving and answering
each request. Timers fire, and every request is answered in the end, if only by
an error (the API client rejects on a network failure). Nobody has to press
anything, and an answer may always be lost instead.

`SessionPage!Fairness`: the same for the timer of thirty seconds (`Poll`) and for
requests and answers. Administrators and voters owe nothing.

`BroadcastPage!Fairness`: weak fairness on the worker's next step. Its goroutine
runs from a ticker for as long as the process does. A blast, a retry and a
restart are not fair. `QueuedIsDone` says that no job waits, or is being sent, from
some time on for ever; it may be retried in between. It excepts a job that was in the worker's hand
at a restart, or whose outcome could not be stored: nobody picks it up again.

The other specifications state safety only and assume no fairness.

## 5. Proofs

Assumptions: `CommitteeAssumption`, `VotingAssumption`, `RegistrationAssumption`,
`KioskAssumption`, `HallAssumption`, `AttendancePageAssumption`,
`SessionPageAssumption`, `AdminTabAssumption`, `SignUpAssumption`,
`ReminderQueueAssumption`, `BroadcastPageAssumption` (finite sets, natural bounds, a slot to send with, ids
distinct from the values that mean "none"). TLC evaluates them in the runs.
Nothing else is assumed.

**`ElectionProofs`.** Type correctness; `BallotsMatchReceipts`,
`ReceiptsAreOfAdmitted`, `BallotsAreForSlate`, `SummaryAccountsForReceipts`; the
action properties; and the refinement `Spec => Box!Spec`. The invariants are not
inductive: a request about to insert was told, several steps ago, that its voter
is eligible and its candidate votable, and both may have changed since.
`ChecksStand` says what survives: whoever passed the eligibility read is
`Admitted` (has an attendance row, undone or not, and an approved snapshot,
neither of which any action takes away), and a request at `cast` names a
candidate of the slate. `ListedAreOnSlate` links the two. Under this invariant
each step of `Election` is a step of `BallotBox` or a stutter; a late vote is a
`Drop` of a slip taken while the box was open.

**`RegistrationProofs`.** Type correctness and six properties, from four
invariants over any number of visitors, officers and
registrations:

- numbers (`NumbersInv`): what an officer saw stays a number while the row lives
  (`SeenStays`), under the row's lock it is still the number (`LockedReads`), and
  what is chosen is the seen number, nothing, or, for an approval of a
  registration without one, a number (`Chosen`). From it `NumbersDistinct`,
  `ApprovedCarryNumber` and `GivenNumbersStand`.
- quota (`QuotaInv`): at most one approval holds the configuration's row past the
  count, and while it does the quota has a place free. Whatever the other
  handlers write meanwhile adds nothing to what verification has approved.
- waiting list (`WaitingInv`): at most one visitor is past the advisory lock, and
  one about to queue still has the place it counted, although count, insert and
  lock are on three connections.
- pool (`SpareRows`, `OneRowHolder`, and what `Chosen` says of an approval that has
  written): there is a row left for every request that may still insert one, which
  is what `Arrive` bounds; a registration is locked by one approval, and a number
  written by one. From it `StandStillIsOfThePool`: when no request in flight can go
  on, no connection is free and a transaction that holds one asks for its second.
  Whoever waits for the row of an approval, for a number or for the configuration
  waits for somebody further on, and the one furthest on waits for a connection; a
  visitor at the advisory lock waits for its holder, who counts or inserts and so
  waits for a connection too. So the locks never close a circle by themselves. It
  is no theorem that requests finish: with as many in flight as connections they
  need not, by `PublicRegister` and by `participant.UpdateStatus` alike, and nothing
  in the code keeps the 25 connections of the pool from being taken that way. The
  guards of a request's steps (`VisitReady`, `OfficerReady`) stand for their
  `ENABLED`, which the prover cannot expand. That `ChooseNumber` has a highest number
  to start from (`LastExists`) is the one induction over data: a least set of
  registrations without a highest number cannot exist, since subsets of a finite set
  are well-founded.

`StepShapes` reduces the steps to the seven things that can happen to
registrations and approvals, so that each invariant is proved once per shape.

**`KioskProofs`.** Type correctness, `ChoiceIsOfVoterOnScreen`,
`SuccessIsTheirs`. A late answer is harmless or not depending on who still waits
for it, so the invariant says who does: `Entry` (one request at most asks for
entry, and only on the screen that waits for it), `Casting` (one vote at most is
awaited, that of the voter it was last sent for) and `Looking` (unless look-ups
overlapped, nobody is on the screen while one is out). That thanks follow a recorded
vote holds without exception. That they stand over its voter holds unless the booth
was reset, or looked a badge up, while the vote was out, or look-ups overlapped: the
page does not fend off these late answers, and the theorem claims nothing of whose
name they thank.

**`HallProofs`.** Type correctness, `OutcomeIsOfLastBadge`,
`TableMatchesFilter`. The invariant relates requests to the page: a mutation not
superseded is of the last badge (`DeskInv`), a list not overtaken was asked for
with the filter the page has now (`ListInv`). `QuorumIsRounded` states the gauge
exactly: the quorum counts as reached if and only if 200 times the present are
at least 99 times the members, so 99 of 200 are a quorum of 50 %.

**`SessionProofs`.** Type correctness, `SettledShowsServer`,
`FinalTallyIsComplete`. A page that is not settled may show anything; the
invariant says who will bring what it misses. `Tells` names the requests whose
answer shows the server's status or leads to a fetch that does; `Counts` those
that bring counts with the votes in the box at the close; and an answer already given
that differs from both is known to be late. Ballots that land after the close are
allowed, and may be missing from the counts for good.

**`AdminConsoleProofs`.** Type correctness, `DetailIsOnePerson`,
`OneCandidatePerForm`, `ReasonIsForApplicant`, `SettledShowsCandidate`. A window, a
form or a settled page is right because of what may still be answered, so the
invariant `IInv` is mostly about requests:

- `Tab`: what is out belongs to the page that is shown, or is a write of a page
  that was left and has no answer yet. So an answer never reaches a page of
  another kind.
- `Forms`: while no answer to a creation was lost, no form is stored twice, and
  none that may still be stored is in the tables or on its way a second time
  (`Spare`). On the candidates page the form that is shown is spare or is being
  sent (`FormIsSpare`), which is why sending it again after an error makes no twin.
- `Flag`: a flag that holds a button back is up exactly while one request of its
  kind is out. This is what type correctness says of the flags, and it is also what
  keeps a handler from running twice.
- `DrawerIsOf`, `WindowIsOf`: unless something was out when the window was opened
  (`overlap`, `overtaken`, `stray`), all that is out is about the person in it. So the
  theorem is about windows opened with nothing about others out: those stay of one
  person until they are closed. Over a late answer that was out before, the page
  shows what comes, and nothing is claimed.
- `CandidateInv`: the page of one candidate shows what the tables hold
  (`Shows`), or a request is out whose answer mends it (`Mends`). When nothing is
  out the second is impossible, hence `SettledShowsCandidate`.

Each page's operations are proved for that page's part alone; a link opens a page
whose part holds of what its mount asks for (`Leave`).

**`SignUpProofs`.** `DraftGoneAfterSuccess`, `DuplicateIsExplained`, type
correctness. `Drafts`: a timer that may still write once the form is being sent is
a recorded one. `Stored`: at most one registration is awaited, and whoever is
stored has been thanked, has gone unheard, or is about to be thanked by it. Hence a
duplicate, whose sender is awaited and unanswered, is of one of the first two
kinds. The types need three more facts: each notice timer and each place on the
waiting list is paid for by a change of the form or a press of the button, those
still out included (`Counted`); the button is held back only where the form is
shown and by a registration that is out (`Waiting`); and an answer that names a
place names the one stored (`Placed`), from when it is given until it is read.

**`ReminderProofs`.** `RemindedOnce` and type correctness. E-mails sent so far do
not suffice as an invariant: `Counted` adds the jobs that wait and the one in the
worker's hand, and `Unsent` says that whoever may get a new job was sent nothing
that is not excused. For the types, composers are numbered by what was pressed
(`Numbered`), and one that shows that it loads, saves or sends has a request with
its own number out (`Awaits`): an answer to an earlier composer frees nothing. Of
`QueuedIsDone`, `NothingForgotten` proves what needs no fairness: a job is left
PROCESSING only in the worker's hand, by a restart or by a mark not stored.

Two facts about slots, that who may send has a free one and that a send fills it,
open each of the page proofs (`CanSendFree`, `SentFills`, `SendFills`).

Where a property of a page has an exception (`overtook`, `movedOn`, `crossed`,
`overtaken`, `behind`, `overlap`, `kept`, `late`, `unheard`, `excuse`, `stuck`), the
exception is a behaviour the code has: the late answer or the restart that the
hazard is about. The property and its theorem bound the damage to just these cases;
they do not say that the hazard is averted.

Only model-checked: `CountSettles`, `KioskFreesItself`, `RunningIsCorrected` and
`QueuedIsDone`, which are liveness under fairness and out of the prover's reach
(`NothingForgotten` is the part of the last that needs none), `RequestsFinish` in
the configurations run by hand, and what the four runs that find a violation state.
Every invariant and every action property of the passing runs is a theorem, as is
the refinement.

## 6. Not modelled

- The database itself: a statement, and a transaction whose intermediate states no
  other call can see, are one step each; READ COMMITTED reads and row, advisory
  and unique-constraint locks are modelled where the code relies on them.
- The inside of a candidate's request (whole rows written back after an upload,
  `candidate/service.go:290` and `:883`), documents, and the candidate's own
  registration: requests of this module are one step each.
- The registration e-mail worker and the announcement worker: queues of the same
  shape as `ReminderQueue`, without a reader of their own. The statuses QUEUED and
  CANCELLED of a job, which nothing sets. Two instances of the process.
- The Redis copy of the configuration (bounded by its time to live, and read by no
  modelled decision), refresh tokens (the front end never refreshes), the counter
  of wrong access codes.
- The realtime hub, and the front-end code that no built page imports or that is
  disabled: `hooks/use-realtime.ts`, `hooks/use-debounce.ts`, the query hooks of
  attendance, `PollingProvider`, `NotificationContext`, `PermissionProvider`.
- `result`, whose queries read tables later migrations drop; the audit log, which
  nothing reads back; the event bus without handlers; the unwired modules.
- Pages over one row (website, timeline, users, SMTP, logs, dashboard) and the
  public site; exports, the choice of a camera, full screen, the texts of
  messages, permissions within the console.
- Several tabs of one browser. They share cookies and the draft; the code does
  nothing to coordinate them.
- Personal data, attachments and layout.

`PROJECT.json` gives the same per component, with its source files.
