---------------------------- MODULE BroadcastPage -----------------------------
(***************************************************************************)
(* The page that reminds participants of the meeting,                      *)
(* admin/(dashboard)/broadcasts/page.tsx, over the queue it fills.  The    *)
(* page lists earlier broadcasts and a draft; the composer, a window over  *)
(* it, loads the recipients and the draft, lets the officer pick and write *)
(* and sends.  The composer's effect depends on the function it was given  *)
(* to close itself, which is new whenever the page is rendered: then it    *)
(* loads again, over what was picked and written.                          *)
(***************************************************************************)
EXTENDS Requests, ReminderQueue

CONSTANTS Slots,       \* bound: requests out at once
          MaxPresses   \* bound: how often the officer opens the composer, picks or saves

ASSUME BroadcastPageAssumption == IsFiniteSet(Slots) /\ MaxPresses \in Nat

VARIABLES draft,    \* the draft at the server
          b,        \* the state of BroadcastsPage
          c,        \* the state of BroadcastComposer
          net,      \* the requests of both
          presses

pageVars == <<draft, b, c, net, presses>>
vars == <<queueVars, pageVars>>

NoDraft == [there |-> FALSE, who |-> {}]

\* gen numbers the composers there have been.
FreshComposer(gen) ==
    [gen |-> gen, loading |-> TRUE, got |-> {}, sel |-> {},
     saving |-> FALSE, blasting |-> FALSE, confirm |-> FALSE]

Ask(op, who, gen) ==
    [op |-> op, who |-> who, gen |-> gen, rows |-> {}, there |-> FALSE,
     todo |-> {}, phase |-> "new", answer |-> "none"]

Preview(gen) == Ask("preview", {}, gen)
AskBanner == Ask("banner", {}, 0)

\* What the list of earlier broadcasts says is left out: when it is read is all one.
AskJobs == [Ask("jobs", {}, 0) EXCEPT !.answer = "ok"]

Init ==
    /\ QueueInit
    /\ draft = NoDraft /\ presses = 0
    /\ b = [show |-> FALSE, waiting |-> TRUE, banner |-> FALSE]
    /\ c = FreshComposer(0)
    /\ net = Sent(Sent(Quiet(Slots), AskJobs), AskBanner)

Press == presses < MaxPresses /\ presses' = presses + 1

-----------------------------------------------------------------------------
(* The page.                                                               *)

OpenComposer ==
    /\ ~b.show /\ Press /\ CanSend(net, 1)
    /\ b' = [b EXCEPT !.show = TRUE]
    /\ c' = FreshComposer(c.gen + 1)
    /\ net' = Sent(net, Preview(c.gen + 1))
    /\ UNCHANGED <<queueVars, draft>>

\* The page is rendered with state q, and the composer it showed, if it still
\* does, loads again.
Rendered(n, q) ==
    /\ b.show /\ q.show => CanSend(n, 1)
    /\ b' = q
    /\ IF b.show /\ q.show
       THEN c' = [c EXCEPT !.loading = TRUE] /\ net' = Sent(n, Preview(c.gen))
       ELSE UNCHANGED c /\ net' = n

JobsAnswered(s) ==
    /\ Answered(net, s, "jobs")
    /\ IF net[s].answer = "ok" \/ b.waiting
       THEN Rendered(Done(net, s), [b EXCEPT !.waiting = FALSE])
       ELSE net' = Done(net, s) /\ UNCHANGED <<b, c>>
    /\ UNCHANGED <<queueVars, draft, presses>>

\* A draft is a new object each time; none twice is no change.
BannerAnswered(s) ==
    /\ Answered(net, s, "banner")
    /\ IF net[s].there \/ b.banner
       THEN Rendered(Done(net, s), [b EXCEPT !.banner = net[s].there])
       ELSE net' = Done(net, s) /\ UNCHANGED <<b, c>>
    /\ UNCHANGED <<queueVars, draft, presses>>

\* onClose: the composer goes, whichever it is by now and with all it holds, and
\* the draft is asked for.
Closed(n) ==
    /\ CanSend(n, 1)
    /\ b' = [b EXCEPT !.show = FALSE]
    /\ net' = Sent(n, AskBanner)
    /\ c' = FreshComposer(c.gen)

-----------------------------------------------------------------------------
(* The composer loads.                                                     *)

Mine(s) == b.show /\ net[s].gen = c.gen

\* Recipients first, then the draft; an error closes the composer.
PreviewAnswered(s) ==
    /\ Answered(net, s, "preview")
    /\ \/ /\ net[s].answer = "ok"
          /\ c' = IF Mine(s) THEN [c EXCEPT !.got = net[s].rows] ELSE c
          /\ net' = [net EXCEPT ![s] = Ask("load", net[s].rows, net[s].gen)]
          /\ UNCHANGED b
       \/ net[s].answer = "failed" /\ Closed(Done(net, s))
    /\ UNCHANGED <<queueVars, draft, presses>>

LoadAnswered(s) ==
    /\ Answered(net, s, "load")
    /\ \/ /\ net[s].answer = "ok"
          /\ c' = IF Mine(s)
                  THEN [c EXCEPT !.loading = FALSE,
                                 !.sel = IF net[s].there THEN net[s].rows ELSE net[s].who]
                  ELSE c
          /\ net' = Done(net, s) /\ UNCHANGED b
       \/ net[s].answer = "failed" /\ Closed(Done(net, s))
    /\ UNCHANGED <<queueVars, draft, presses>>

-----------------------------------------------------------------------------
(* Picking, writing, sending.  The composer shows only that it loads, while *)
(* it does; the dialog that confirms covers it.                             *)

Composer == b.show /\ ~c.loading /\ ~c.confirm
ConfirmDialog == b.show /\ ~c.loading /\ c.confirm

Picked(sel) ==
    /\ Composer /\ Press
    /\ c' = [c EXCEPT !.sel = sel]
    /\ UNCHANGED <<queueVars, draft, b, net>>

ToggleOne(p) ==
    p \in c.got /\ Picked(IF p \in c.sel THEN c.sel \ {p} ELSE c.sel \cup {p})
SelectAll == Picked(c.got)
DeselectAll == Picked({})

HandleSaveDraft ==
    /\ Composer /\ ~c.saving /\ Press /\ CanSend(net, 1)
    /\ c' = [c EXCEPT !.saving = TRUE]
    /\ net' = Sent(net, Ask("save", c.sel, c.gen))
    /\ UNCHANGED <<queueVars, draft, b>>

DraftSaved(s) ==
    /\ Answered(net, s, "save")
    /\ c' = IF Mine(s) THEN [c EXCEPT !.saving = FALSE] ELSE c
    /\ net' = Done(net, s)
    /\ UNCHANGED <<queueVars, draft, b, presses>>

OpenConfirm ==
    /\ Composer /\ ~c.blasting /\ c.sel # {}
    /\ c' = [c EXCEPT !.confirm = TRUE]
    /\ UNCHANGED <<queueVars, draft, b, net, presses>>

CancelConfirm ==
    /\ ConfirmDialog
    /\ c' = [c EXCEPT !.confirm = FALSE]
    /\ UNCHANGED <<queueVars, draft, b, net, presses>>

HandleBlast ==
    /\ ConfirmDialog /\ CanSend(net, 1)
    /\ IF c.sel = {} THEN c' = [c EXCEPT !.confirm = FALSE] /\ UNCHANGED net
       ELSE /\ c' = [c EXCEPT !.confirm = FALSE, !.blasting = TRUE]
            /\ net' = Sent(net, Ask("blast", c.sel, c.gen))
    /\ UNCHANGED <<queueVars, draft, b, presses>>

\* The cross and "Batal" wait for nothing that is out.
CloseComposer ==
    Composer /\ Closed(net) /\ UNCHANGED <<queueVars, draft, presses>>

\* Slip: an error leaves the composer waiting.
AfterRefusalStuck == c
AfterRefusal == [c EXCEPT !.blasting = FALSE]

\* A success asks for jobs and draft, closes the composer there is and, closing
\* it, asks for the draft once more.
BlastAnswered(s) ==
    /\ Answered(net, s, "blast")
    /\ \/ /\ net[s].answer = "ok" /\ CanSend(Done(net, s), 3)
          /\ b' = [b EXCEPT !.show = FALSE, !.waiting = TRUE]
          /\ net' = Sent(Sent(Sent(Done(net, s), AskJobs), AskBanner), AskBanner)
          /\ c' = FreshComposer(c.gen)
       \/ /\ net[s].answer = "failed"
          /\ c' = IF Mine(s) THEN AfterRefusal ELSE c
          /\ net' = Done(net, s) /\ UNCHANGED b
    /\ UNCHANGED <<queueVars, draft, presses>>

-----------------------------------------------------------------------------
(* The server.                                                             *)

\* A draft that cannot be read is answered as no draft.
ServeRead(s) ==
    /\ Unserved(net, s) /\ net[s].op \in {"banner", "preview", "load"}
    /\ \E found \in IF net[s].op \in {"banner", "load"} THEN {draft.there, FALSE} ELSE {FALSE} :
          net' = [net EXCEPT ![s].answer = "ok", ![s].there = found,
                             ![s].rows = IF net[s].op = "preview" THEN eligible
                                         ELSE IF net[s].op = "load" /\ found THEN draft.who ELSE {}]
    /\ UNCHANGED <<queueVars, draft, b, c, presses>>

ServeSave(s) ==
    /\ Unserved(net, s) /\ net[s].op = "save"
    /\ draft' = [there |-> TRUE, who |-> net[s].who]
    /\ net' = [net EXCEPT ![s].who = {}, ![s].answer = "ok"]
    /\ UNCHANGED <<queueVars, b, c, presses>>

\* Who is eligible is read once; nobody left, and nothing else happens.
BlastBegins(s) ==
    /\ Unserved(net, s) /\ net[s].op = "blast" /\ net[s].phase = "new"
    /\ LET todo == net[s].who \cap eligible IN
       net' = IF todo = {} THEN [net EXCEPT ![s].who = {}, ![s].answer = "ok"]
              ELSE [net EXCEPT ![s].who = {}, ![s].todo = todo, ![s].phase = "queueing"]
    /\ UNCHANGED <<queueVars, draft, b, c, presses>>

\* One at a time, in the order of the register; a recipient whose job cannot be
\* stored is passed over.
BlastQueues(s) ==
    /\ Unserved(net, s) /\ net[s].phase = "queueing" /\ net[s].todo # {}
    /\ LET p == CHOOSE q \in net[s].todo : TRUE IN
          /\ \/ Len(jobs) < MaxJobs /\ QueueUniqueCampaignJob(p) /\ UNCHANGED upsets
             \/ Upset /\ UNCHANGED jobs
          /\ net' = [net EXCEPT ![s].todo = @ \ {p}]
    /\ UNCHANGED <<eligible, mails, worker, excuse, stuck, draft, b, c, presses>>

BlastEnds(s) ==
    /\ Unserved(net, s) /\ net[s].phase = "queueing" /\ net[s].todo = {}
    /\ draft' = NoDraft
    /\ net' = [net EXCEPT ![s].phase = "new", ![s].answer = "ok"]
    /\ UNCHANGED <<queueVars, b, c, presses>>

\* The request, or its answer, is lost.
Lose(s) ==
    /\ net[s].op \notin {"none", "banner"} /\ net[s].answer # "failed" /\ Upset
    /\ net[s].phase = "new" \/ net[s].answer = "ok"
    /\ net' = [net EXCEPT ![s] = [Ask(@.op, {}, @.gen) EXCEPT !.answer = "failed"]]
    /\ UNCHANGED <<eligible, jobs, mails, worker, excuse, stuck, draft, b, c, presses>>

-----------------------------------------------------------------------------

Serve(s) ==
    ServeRead(s) \/ ServeSave(s) \/ BlastBegins(s) \/ BlastQueues(s) \/ BlastEnds(s)
Deliver(s) ==
    \/ JobsAnswered(s) \/ BannerAnswered(s) \/ PreviewAnswered(s)
    \/ LoadAnswered(s) \/ DraftSaved(s) \/ BlastAnswered(s)

Next ==
    \/ OpenComposer \/ CloseComposer \/ SelectAll \/ DeselectAll
    \/ HandleSaveDraft \/ OpenConfirm \/ CancelConfirm \/ HandleBlast
    \/ \E p \in People : ToggleOne(p)
    \/ \E s \in Slots : Deliver(s) \/ Serve(s) \/ Lose(s)
    \/ QueueNext /\ UNCHANGED pageVars

\* The worker's ticker goes on.
Fairness == WF_vars(WorkerNext /\ UNCHANGED pageVars)

Spec == Init /\ [][Next]_vars /\ Fairness

-----------------------------------------------------------------------------
(* Properties.                                                             *)

Request ==
    [op : {"jobs", "banner", "preview", "load", "save", "blast"}, who : SUBSET People,
     gen : 0..MaxPresses, rows : SUBSET People, there : BOOLEAN, todo : SUBSET People,
     phase : {"new", "queueing"}, answer : {"none", "ok", "failed"}]

\* Every part has a value of its kind; the composer waits only for a request of
\* its own, and the worker holds one job that it has marked.
TypeOK ==
    /\ eligible \subseteq People /\ Len(jobs) <= MaxJobs
    /\ \A j \in DOMAIN jobs : jobs[j] \in [to : People, status : JobStatus]
    /\ mails \in [People -> Nat] /\ worker.batch \subseteq DOMAIN jobs
    /\ worker.at \in {"idle", "claimed", "sent", "refused"}
    /\ worker.job \in {0} \cup DOMAIN jobs /\ (worker.job = 0 <=> worker.at = "idle")
    /\ draft \in [there : BOOLEAN, who : SUBSET People]
    /\ net \in [Slots -> Request \cup {Idle}]
    /\ c.sel \subseteq People /\ c.got \subseteq People
    /\ LET own(ops) == {s \in Pending(net, ops) : net[s].gen = c.gen} IN
       b.show => /\ c.loading => own({"preview", "load"}) # {}
                 /\ c.blasting => own({"blast"}) # {}
                 /\ c.saving => own({"save"}) # {}

\* Nobody is reminded twice, however blasts, the worker and restarts interleave,
\* but for a job that an administrator has tried again, one that could not be
\* marked, and a message that was taken while the worker saw an error.
RemindedOnce == \A p \in People : mails[p] <= 1 + excuse[p]

\* No job waits, or is being sent, from some time on for ever: it is sent or
\* refused, if the process is not started anew while the worker has it and the
\* outcome can be stored.
QueuedIsDone ==
    \A j \in 1..MaxJobs :
        []<>(j \in DOMAIN jobs => j \in stuck \/ jobs[j].status \in {"SENT", "FAILED"})

\* "Load preview data and draft on mount": a composer that has loaded does not
\* load again, over what the officer has picked since.
LoadsOnMount ==
    [][b.show /\ b'.show /\ ~c.loading => ~c'.loading]_vars
=============================================================================
