--------------------------- MODULE PlaybookIntake ---------------------------
(***************************************************************************)
(* How runs of playbooks come to be, up to the moment PlaybookRun takes    *)
(* over: events, schedules, webhooks and parent runs create them           *)
(* (playbook/events.go, schedule.go, webhook.go, playbook.go), and people  *)
(* approve them (playbook/approval.go, db/playbooks.go).                   *)
(*                                                                         *)
(* All of it reads a playbook first and acts on it later.  In between the  *)
(* playbook is saved again or deleted, the cache of playbooks per event is *)
(* flushed, and other handlers do the same: work[w] is what worker w (a    *)
(* consumer of the event queue, a request or a cron job) has read.         *)
(***************************************************************************)
EXTENDS Naturals

CONSTANTS
  Playbooks,
  Forms,        \* Forms[p]: the specs playbook p may be saved with (see SpecsAssumption)
  People,
  Teams,
  Members,      \* Members[t]: the people of team t
  Known,        \* the people and teams that exist as rows
  Malformed,    \* schedules the cron library refuses
  Workers,      \* goroutines that handle events, requests and cron entries
  None,
  MaxRuns,      \* bound: runs
  MaxRoots,     \* bound: of them, runs that no run has asked for
  MaxSaves,     \* bound: saves and deletions of playbooks
  MaxTriggers,  \* bound: events, requests, firings of a schedule and repeated approvals
  MaxInputs,    \* bound: both together
  MaxFails      \* bound: handlers that fail and are retried

Approvers == People \cup Teams
Runs == 1 .. MaxRuns
Specs == UNION {Forms[p] : p \in Playbooks}

(***************************************************************************)
(* Of a spec: who approves (by, nobody if empty) and whether any one of    *)
(* them is enough, whether it is triggered by the event, its schedules by  *)
(* their index, and the playbooks that its AI action runs as children.     *)
(***************************************************************************)
ASSUME SpecsAssumption ==
  \A p \in Playbooks : \A s \in Forms[p] :
    /\ DOMAIN s = {"by", "any", "event", "schedule", "children"}
    /\ s.by \subseteq Approvers /\ s.any \in BOOLEAN /\ s.event \in BOOLEAN
    /\ DOMAIN s.schedule \subseteq Nat /\ s.children \subseteq Playbooks

ASSUME ConstantsAssumption ==
  /\ Members \in [Teams -> SUBSET People]
  /\ None \notin Playbooks /\ None \notin Specs /\ None \notin Runs
  /\ None \notin [spec : Specs, deleted : BOOLEAN]
  /\ MaxRuns \in Nat /\ MaxRoots \in Nat /\ MaxSaves \in Nat /\ MaxTriggers \in Nat /\ MaxInputs \in Nat
  /\ MaxFails \in Nat

VARIABLES
  row,       \* row[p]: the playbook's row, None before it is first saved
  had,       \* had[p]: every spec the row has had (history)
  notified,  \* a playbook_spec_updated notification is on its way
  cache,     \* eventPlaybooksCache: the playbooks of the event, or None
  raced,     \* what is cached was queried before the last flush (history)
  crons,     \* entries of the cron scheduler
  synced,    \* what syncPlaybookSchedules has read, None when it is not running
  runs,      \* runs[r]: the run, None while there is none
  queue,     \* events in the event queue
  work,      \* work[w]: what worker w has read
  saves, triggers, fails

vars == <<row, had, notified, cache, raced, crons, synced, runs, queue, work,
          saves, triggers, fails>>
counters == <<saves, triggers, fails>>
cached == <<notified, cache, raced>>
cronVars == <<crons, synced>>

Copy == [playbook : Playbooks, spec : Specs]
Schedules == UNION {{s.schedule[i] : i \in DOMAIN s.schedule} : s \in Specs}
Cron == [playbook : Playbooks, index : Nat, schedule : Schedules]
Status == {"pending_approval", "scheduled", "waiting", "ended", "failed", "cancelled"}
Final == {"ended", "failed", "cancelled"}
Run == [playbook : Playbooks, spec : Specs, status : Status, approvals : SUBSET Approvers,
        parent : Runs \cup {None}]
ASSUME RunAssumption == None \notin Run

\* The events that matter here: an approval was inserted, the approval of a
\* spec was updated, an AI action asked for a child run.
Event == [kind : {"approved"}, run : Runs, by : Approvers]
         \cup [kind : {"spec"}, playbook : Playbooks]
         \cup [kind : {"child"}, parent : Runs, playbook : Playbooks]

Idle == [pc |-> "idle"]
Task == [pc : {"fill"}, found : SUBSET Copy, flushed : BOOLEAN]
        \cup [pc : {"create"}, found : SUBSET Copy]
        \cup [pc : {"child"}, found : SUBSET Copy, event : Event]
        \cup [pc : {"decide"}, playbook : Playbooks, spec : Specs, event : Event]
        \cup {Idle}

TypeOK ==
  /\ row \in [Playbooks -> [spec : Specs, deleted : BOOLEAN] \cup {None}]
  /\ had \in [Playbooks -> SUBSET Specs]
  /\ notified \in BOOLEAN /\ raced \in BOOLEAN
  /\ cache \in (SUBSET Copy) \cup {None}
  /\ crons \subseteq Cron
  /\ synced \in (SUBSET Cron) \cup {None}
  /\ runs \in [Runs -> Run \cup {None}]
  /\ queue \subseteq Event
  /\ work \in [Workers -> Task]
  /\ saves \in Nat /\ triggers \in Nat /\ fails \in Nat

\* The server starts with whatever playbooks there are.
Init ==
  /\ row \in [Playbooks -> [spec : Specs, deleted : {FALSE}] \cup {None}]
  /\ \A p \in Playbooks : row[p] # None => row[p].spec \in Forms[p]
  /\ had = [p \in Playbooks |-> IF row[p] = None THEN {} ELSE {row[p].spec}]
  /\ notified = FALSE /\ cache = None /\ raced = FALSE
  /\ crons = {} /\ synced = None
  /\ runs = [r \in Runs |-> None]
  /\ queue = {}
  /\ work = [w \in Workers |-> Idle]
  /\ saves = 0 /\ triggers = 0 /\ fails = 0
----------------------------------------------------------------------------
Exists(p) == row[p] # None
Live(p) == Exists(p) /\ ~row[p].deleted
CopyOf(p) == [playbook |-> p, spec |-> row[p].spec]
Is(r, status) == runs[r] # None /\ runs[r].status = status
At(w, pc) == work[w].pc = pc
Go(w, task) == work' = [work EXCEPT ![w] = task]

NeedsApproval(spec) == spec.by # {}

\* db.FindPlaybooksForEvent: deleted rows are found as well.
EventPlaybooks == {CopyOf(p) : p \in {q \in Playbooks : Exists(q) /\ row[q].spec.event}}

\* The query of syncPlaybookSchedules.
Scheduled ==
  UNION {{[playbook |-> p, index |-> i, schedule |-> row[p].spec.schedule[i]] :
            i \in DOMAIN row[p].spec.schedule} : p \in {q \in Playbooks : Live(q)}}

\* The condition of UpdatePlaybookRunStatusIfApproved: approvers without a row
\* are left out, and without any that has one nothing is approved.
Satisfied(spec, approvals) ==
  LET allowed == spec.by \cap Known IN
  /\ allowed # {}
  /\ IF spec.any THEN approvals \cap allowed # {} ELSE allowed \subseteq approvals
----------------------------------------------------------------------------
(* The playbook's row.                                                     *)

Saves == saves < MaxSaves /\ saves + triggers < MaxInputs /\ saves' = saves + 1
Triggers == triggers < MaxTriggers /\ saves + triggers < MaxInputs /\ triggers' = triggers + 1

\* SavePlaybook writes every column, deleted_at too.  The database announces
\* the new spec, and queues an event when the approval has changed; whether it
\* does when there was none before or is none now is left open.
Save(p, s) ==
  LET before == IF Exists(p) THEN row[p].spec ELSE None
      changed == before # None /\ <<before.by, before.any>> # <<s.by, s.any>>
      certain == changed /\ NeedsApproval(before) /\ NeedsApproval(s)
  IN /\ Saves
     /\ row' = [row EXCEPT ![p] = [spec |-> s, deleted |-> FALSE]]
     /\ had' = [had EXCEPT ![p] = @ \cup {s}]
     /\ notified' = TRUE
     /\ \E announced \in {certain, changed} :
          queue' = IF announced THEN queue \cup {[kind |-> "spec", playbook |-> p]} ELSE queue
     /\ UNCHANGED <<cache, raced, cronVars, runs, work, triggers, fails>>

Delete(p) ==
  /\ Saves
  /\ Live(p)
  /\ row' = [row EXCEPT ![p].deleted = TRUE]
  /\ UNCHANGED <<had, cached, cronVars, runs, queue, work, triggers, fails>>
----------------------------------------------------------------------------
(* The cache of playbooks per event.                                       *)

\* Mutant of Flush: nothing is flushed.
FlushNothing ==
  /\ notified
  /\ notified' = FALSE
  /\ UNCHANGED <<row, had, cache, raced, cronVars, runs, queue, work, counters>>

\* clearEventPlaybookCache, on the notification.
Flush ==
  /\ notified
  /\ notified' = FALSE /\ cache' = None /\ raced' = FALSE
  /\ work' = [w \in Workers |-> IF At(w, "fill") THEN [work[w] EXCEPT !.flushed = TRUE] ELSE work[w]]
  /\ UNCHANGED <<row, had, cronVars, runs, queue, counters>>

\* An entry lives for an hour.
ExpireCache ==
  /\ cache # None
  /\ cache' = None /\ raced' = FALSE
  /\ UNCHANGED <<row, had, notified, cronVars, runs, queue, work, counters>>

Triggered(w) == At(w, "idle") /\ Triggers

\* playbookScheduler.Handle looks the event up in the cache ...
EventHit(w) ==
  /\ Triggered(w)
  /\ cache # None
  /\ Go(w, [pc |-> "create", found |-> cache])
  /\ UNCHANGED <<row, had, cached, cronVars, runs, queue, saves, fails>>

\* ... or in the database ...
EventMiss(w) ==
  /\ Triggered(w)
  /\ cache = None
  /\ Go(w, [pc |-> "fill", found |-> EventPlaybooks, flushed |-> FALSE])
  /\ UNCHANGED <<row, had, cached, cronVars, runs, queue, saves, fails>>

\* ... and caches what it has found, whatever flush came in between.
Fill(w) ==
  /\ At(w, "fill")
  /\ cache' = work[w].found
  /\ raced' = work[w].flushed
  /\ Go(w, [pc |-> "create", found |-> work[w].found])
  /\ UNCHANGED <<row, had, notified, cronVars, runs, queue, counters>>
----------------------------------------------------------------------------
(* New runs.                                                               *)

\* Mutant of NewRun: the approval of the spec is not looked at.
NewRunScheduled(copy, parent) ==
  [playbook |-> copy.playbook, spec |-> copy.spec, approvals |-> {}, parent |-> parent,
   status |-> "scheduled"]

\* The run keeps the copy of the spec that its trigger has read.
NewRun(copy, parent) ==
  [playbook |-> copy.playbook, spec |-> copy.spec, approvals |-> {}, parent |-> parent,
   status |-> IF NeedsApproval(copy.spec) THEN "pending_approval" ELSE "scheduled"]

\* The ids of the next runs, one for each playbook of found.
Fresh(found) ==
  {f \in [found -> {r \in Runs : runs[r] = None}] :
     /\ \A a, b \in found : f[a] = f[b] => a = b
     /\ \A a \in found : \A r \in 1 .. f[a] : runs[r] # None \/ \E b \in found : f[b] = r}

\* createPlaybookRun, or Handle for all playbooks in one transaction: those
\* whose filters do not match and whose parameters are wrong are left out.
Create(w) ==
  /\ At(w, "create")
  /\ \E matched \in SUBSET work[w].found : \E id \in Fresh(matched) :
       /\ \A c \in matched : id[c] <= MaxRoots
       /\ runs' = [r \in Runs |-> IF \E c \in matched : id[c] = r
                                  THEN NewRun(CHOOSE c \in matched : id[c] = r, None) ELSE runs[r]]
  /\ Go(w, Idle)
  /\ UNCHANGED <<row, had, cached, cronVars, queue, counters>>

\* HandleWebhook and HandlePlaybookRun find a playbook that is not deleted.
Request(w, p) ==
  /\ Triggered(w)
  /\ Live(p)
  /\ Go(w, [pc |-> "create", found |-> {CopyOf(p)}])
  /\ UNCHANGED <<row, had, cached, cronVars, runs, queue, saves, fails>>

\* getScheduledRunParams, for a playbook that is not deleted.
ScheduleStands(c) ==
  /\ Live(c.playbook)
  /\ c.index \in DOMAIN row[c.playbook].spec.schedule
  /\ row[c.playbook].spec.schedule[c.index] = c.schedule

\* triggerScheduledRun: an entry of the scheduler fires.
Fire(w, c) ==
  /\ Triggered(w)
  /\ c \in crons
  /\ ScheduleStands(c)
  /\ Go(w, [pc |-> "create", found |-> {CopyOf(c.playbook)}])
  /\ UNCHANGED <<row, had, cached, cronVars, runs, queue, saves, fails>>

\* syncPlaybookSchedules queries the playbooks before it takes the lock ...
SyncRead ==
  /\ synced = None
  /\ synced' = Scheduled
  /\ UNCHANGED <<row, had, cached, crons, runs, queue, work, counters>>

\* Mutant of SyncApply: a changed schedule leaves its old entry.
SyncApplyAdding ==
  /\ synced # None
  /\ crons' = crons \cup {s \in synced : s.schedule \notin Malformed}
  /\ synced' = None
  /\ UNCHANGED <<row, had, cached, runs, queue, work, counters>>

\* ... and then keeps, adds and removes entries; a schedule that cron refuses
\* has none.
SyncApply ==
  /\ synced # None
  /\ crons' = (crons \cap synced) \cup {s \in synced \ crons : s.schedule \notin Malformed}
  /\ synced' = None
  /\ UNCHANGED <<row, had, cached, runs, queue, work, counters>>
----------------------------------------------------------------------------
(* Parents and children.                                                   *)

Children(r) == {c \in Runs : runs[c] # None /\ runs[c].parent = r}
SetStatus(r, status) == runs' = [runs EXCEPT ![r].status = status]
ChildEvents(r, playbooks) == {[kind |-> "child", parent |-> r, playbook |-> p] : p \in playbooks}

\* The AI action asks for its children unless it has some, and waits for them.
\* A child that is not found fails it, and what it has asked for stays asked.
AskChildren(r) ==
  LET asked == runs[r].spec.children IN
  /\ Is(r, "scheduled") /\ asked # {} /\ Children(r) = {}
  /\ \/ /\ \A p \in asked : Live(p)
        /\ queue' = queue \cup ChildEvents(r, asked)
        /\ SetStatus(r, "waiting")
     \/ \E p \in asked : \E before \in SUBSET {q \in asked \ {p} : Live(q)} :
          /\ ~Live(p)
          /\ queue' = queue \cup ChildEvents(r, before)
          /\ SetStatus(r, "failed")
  /\ UNCHANGED <<row, had, cached, cronVars, work, counters>>

\* onNewRun takes the event and reads the playbook, which may be deleted.
BeginChild(w, e) ==
  /\ At(w, "idle")
  /\ e \in queue /\ e.kind = "child"
  /\ queue' = queue \ {e}
  /\ Go(w, [pc |-> "child", found |-> {CopyOf(e.playbook)}, event |-> e])
  /\ UNCHANGED <<row, had, cached, cronVars, runs, counters>>

CreateChild(w) ==
  /\ At(w, "child")
  /\ \E c \in work[w].found : \E id \in Fresh({c}) :
       runs' = [runs EXCEPT ![id[c]] = NewRun(c, work[w].event.parent)]
  /\ Go(w, Idle)
  /\ UNCHANGED <<row, had, cached, cronVars, queue, counters>>

Resumed(r) == IF Is(r, "waiting") THEN [runs[r] EXCEPT !.status = "scheduled"] ELSE runs[r]

\* Mutant of ForbidChild: the failed run is not recorded.
ForbidUnrecorded(w) ==
  /\ At(w, "child")
  /\ runs' = [runs EXCEPT ![work[w].event.parent] = Resumed(work[w].event.parent)]
  /\ Go(w, Idle)
  /\ UNCHANGED <<row, had, cached, cronVars, queue, counters>>

\* The child may not be run: it is recorded as failed, and its parent goes on.
ForbidChild(w) ==
  LET e == work[w].event  copy == CopyOf(e.playbook) IN
  /\ At(w, "child")
  /\ \E id \in Fresh({copy}) :
       runs' = [r \in Runs |-> IF r = id[copy] THEN [NewRun(copy, e.parent) EXCEPT !.status = "failed"]
                               ELSE IF r = e.parent THEN Resumed(r) ELSE runs[r]]
  /\ Go(w, Idle)
  /\ UNCHANGED <<row, had, cached, cronVars, queue, counters>>

\* The run ends (PlaybookRun).
EndRun(r) ==
  /\ Is(r, "scheduled")
  /\ runs[r].spec.children = {} \/ Children(r) # {}
  /\ SetStatus(r, "ended")
  /\ UNCHANGED <<row, had, cached, cronVars, queue, work, counters>>

\* duty: a parent whose child runs have all ended goes on.
ResumeParent(r) ==
  /\ Is(r, "waiting") /\ Children(r) # {}
  /\ \A c \in Children(r) : runs[c].status \in Final
  /\ SetStatus(r, "scheduled")
  /\ UNCHANGED <<row, had, cached, cronVars, queue, work, counters>>
----------------------------------------------------------------------------
(* Approvals.                                                              *)

\* approveRun asks the run's own spec, whatever the status of the run: the
\* approver is the person, or the first of their teams that may approve.
Approve(u, r) ==
  /\ runs[r] # None /\ NeedsApproval(runs[r].spec)
  /\ u \in Known
  /\ \E by \in IF u \in runs[r].spec.by THEN {u}
              ELSE {t \in Teams \cap runs[r].spec.by : u \in Members[t]} :
       /\ runs' = [runs EXCEPT ![r].approvals = @ \cup {by}]
       /\ queue' = queue \cup {[kind |-> "approved", run |-> r, by |-> by]}
       /\ IF by \in runs[r].approvals THEN Triggers ELSE UNCHANGED triggers
  /\ UNCHANGED <<row, had, cached, cronVars, work, saves, fails>>

PlaybookOf(e) == IF e.kind = "spec" THEN e.playbook ELSE runs[e.run].playbook

\* onPlaybookRunNewApproval and onApprovalUpdated read what the playbook, not
\* the run, says now ...
BeginDecide(w, e) ==
  LET p == PlaybookOf(e) IN
  /\ At(w, "idle")
  /\ e \in queue /\ e.kind # "child"
  /\ queue' = queue \ {e}
  /\ IF (e.kind = "approved" => Is(e.run, "pending_approval")) /\ NeedsApproval(row[p].spec)
     THEN Go(w, [pc |-> "decide", playbook |-> p, spec |-> row[p].spec, event |-> e])
     ELSE UNCHANGED work
  /\ UNCHANGED <<row, had, cached, cronVars, runs, counters>>

\* Mutants of Decide: it takes runs that are not pending; it looks only at the
\* run of a new approval.
DecideAnyStatus(w) ==
  /\ At(w, "decide")
  /\ runs' = [r \in Runs |->
       IF /\ runs[r] # None /\ runs[r].playbook = work[w].playbook
          /\ Satisfied(work[w].spec, runs[r].approvals)
       THEN [runs[r] EXCEPT !.status = "scheduled"] ELSE runs[r]]
  /\ Go(w, Idle)
  /\ UNCHANGED <<row, had, cached, cronVars, queue, counters>>
DecideOwn(w) ==
  /\ At(w, "decide")
  /\ runs' = [r \in Runs |->
       IF /\ Is(r, "pending_approval") /\ work[w].event.kind = "approved" /\ work[w].event.run = r
          /\ Satisfied(work[w].spec, runs[r].approvals)
       THEN [runs[r] EXCEPT !.status = "scheduled"] ELSE runs[r]]
  /\ Go(w, Idle)
  /\ UNCHANGED <<row, had, cached, cronVars, queue, counters>>

\* ... and UpdatePlaybookRunStatusIfApproved starts every pending run of the
\* playbook that has the approvals.
Decide(w) ==
  /\ At(w, "decide")
  /\ runs' = [r \in Runs |->
       IF /\ Is(r, "pending_approval") /\ runs[r].playbook = work[w].playbook
          /\ Satisfied(work[w].spec, runs[r].approvals)
       THEN [runs[r] EXCEPT !.status = "scheduled"] ELSE runs[r]]
  /\ Go(w, Idle)
  /\ UNCHANGED <<row, had, cached, cronVars, queue, counters>>

\* A pending run is cancelled (PlaybookRun).
Cancel(r) ==
  /\ Is(r, "pending_approval")
  /\ SetStatus(r, "cancelled")
  /\ UNCHANGED <<row, had, cached, cronVars, queue, work, counters>>

\* Mutant of Fail: the event is not given back.
FailSilently(w) ==
  /\ ~At(w, "idle")
  /\ fails < MaxFails /\ fails' = fails + 1
  /\ Go(w, Idle)
  /\ UNCHANGED <<row, had, cached, cronVars, runs, queue, saves, triggers>>

\* A handler fails, its transaction rolls back, and its event is tried again.
Fail(w) ==
  /\ ~At(w, "idle")
  /\ fails < MaxFails /\ fails' = fails + 1
  /\ queue' = IF "event" \in DOMAIN work[w] THEN queue \cup {work[w].event} ELSE queue
  /\ Go(w, Idle)
  /\ UNCHANGED <<row, had, cached, cronVars, runs, saves, triggers>>
----------------------------------------------------------------------------
Finish(w) == Fill(w) \/ Create(w) \/ CreateChild(w) \/ ForbidChild(w) \/ Decide(w)

Begin(w) ==
  \/ EventHit(w) \/ EventMiss(w)
  \/ \E p \in Playbooks : Request(w, p)
  \/ \E c \in crons : Fire(w, c)
  \/ \E e \in queue : BeginChild(w, e) \/ BeginDecide(w, e)

RunNext(r) ==
  \/ AskChildren(r) \/ EndRun(r) \/ ResumeParent(r) \/ Cancel(r)
  \/ \E u \in People : Approve(u, r)

Next ==
  \/ \E p \in Playbooks : Delete(p) \/ \E s \in Forms[p] : Save(p, s)
  \/ Flush \/ ExpireCache \/ SyncRead \/ SyncApply
  \/ \E w \in Workers : Begin(w) \/ Finish(w) \/ Fail(w)
  \/ \E r \in Runs : RunNext(r)

Spec == Init /\ [][Next]_vars

(***************************************************************************)
(* Fairness.  Notifications arrive; the schedules are synced every minute; *)
(* the event queue is served oldest first by consumers that also poll, so  *)
(* an event is taken although others come; a handler goes on to its end or *)
(* fails, which it does finitely often; PlaybookRun ends what is scheduled *)
(* and duty resumes parents.  Nothing is assumed of people.                *)
(***************************************************************************)
Fairness ==
  /\ WF_vars(Flush) /\ WF_vars(SyncRead) /\ WF_vars(SyncApply)
  /\ \A w \in Workers : WF_vars(Finish(w))
  /\ WF_vars(\E w \in Workers, e \in queue : BeginChild(w, e) \/ BeginDecide(w, e))
  /\ \A r \in Runs : WF_vars(AskChildren(r) \/ EndRun(r) \/ ResumeParent(r))

FairSpec == Spec /\ Fairness
----------------------------------------------------------------------------
(* Properties.                                                             *)

\* The cache holds what the database would answer, from the moment the last
\* notification has arrived on, unless it was filled from a query that was
\* under way when it was flushed.
CacheFresh == cache # None /\ ~notified /\ ~raced => cache = EventPlaybooks

\* What makes it so: a query that no flush has overtaken is up to date.
QueryFresh == \A w \in Workers : At(w, "fill") /\ ~work[w].flushed /\ ~notified =>
                work[w].found = EventPlaybooks
CacheInv == TypeOK /\ CacheFresh /\ QueryFresh

\* Whatever creates a run, and however its playbook is saved meanwhile: a run
\* whose own spec asks for approval goes no further than pending until it has
\* approvals, of people its own spec names, that satisfy some spec its playbook
\* has had.
Justified(r) ==
  /\ runs[r].approvals \subseteq runs[r].spec.by
  /\ \E s \in had[runs[r].playbook] : Satisfied(s, runs[r].approvals)
NoBypass ==
  \A r \in Runs : runs[r] # None /\ NeedsApproval(runs[r].spec) =>
    runs[r].status \in {"pending_approval", "cancelled", "failed"} \/ Justified(r)

\* No run is forgotten.  A pending one that has what its playbook asks for is the
\* subject of an event, or of a decision under way by what the playbook still
\* says; one that waits has children, or an event or a worker is to bring one.  A
\* playbook that ever asked for no approval is left out: no event looks at its
\* pending runs.
Due(r) ==
  /\ Is(r, "pending_approval")
  /\ \A s \in had[runs[r].playbook] : NeedsApproval(s)
  /\ Satisfied(row[runs[r].playbook].spec, runs[r].approvals)
Concerns(e, r) ==
  \/ e.kind = "approved" /\ e.run = r
  \/ e.kind = "spec" /\ e.playbook = runs[r].playbook
Weighs(w, r) ==
  LET p == runs[r].playbook IN
  /\ At(w, "decide") /\ work[w].playbook = p /\ Concerns(work[w].event, r)
  /\ work[w].spec.by = row[p].spec.by /\ work[w].spec.any = row[p].spec.any
Brings(e, r) == e.kind = "child" /\ e.parent = r
NoneForgotten ==
  \A r \in Runs :
    /\ Due(r) => (\E e \in queue : Concerns(e, r)) \/ (\E w \in Workers : Weighs(w, r))
    /\ Is(r, "waiting") =>
         \/ Children(r) # {}
         \/ \E e \in queue : Brings(e, r)
         \/ \E w \in Workers : At(w, "child") /\ Brings(work[w].event, r)

\* A run that is over stays over: no late approval starts a cancelled run, and
\* nothing resumes a parent that has failed.
OverStaysOver ==
  [][\A r \in Runs : runs[r] # None /\ runs[r].status \in Final =>
       runs'[r].status = runs[r].status]_vars

\* A run that is due is started, or its playbook comes to ask for others.
ApprovedStarts == \A r \in Runs : Due(r) ~> ~Due(r)

\* When the playbooks no longer change, the cron scheduler ends up with exactly
\* the well-formed schedules of the playbooks that are not deleted.
CronsSettle == <>[](crons = {s \in Scheduled : s.schedule \notin Malformed})

\* A run that has asked for child runs ends, whether they run, end, or may not
\* even be started, as long as none of them waits for an approval.
Over(r) == runs[r] # None /\ runs[r].status \in Final
ParentsEnd ==
  \A r \in Runs : Is(r, "waiting") ~> Over(r) \/ \E c \in Children(r) : Is(c, "pending_approval")
=============================================================================
