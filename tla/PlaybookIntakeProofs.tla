------------------------ MODULE PlaybookIntakeProofs ------------------------
(***************************************************************************)
(* The theorems of PlaybookIntake, for every number of playbooks, forms of *)
(* their specs, people, teams, workers, runs and failures.                 *)
(***************************************************************************)
EXTENDS PlaybookIntake, TLAPS

Row == [spec : Specs, deleted : BOOLEAN]

(***************************************************************************)
(* The inductive invariant: whatever is queued, cached or at work speaks   *)
(* of playbooks and runs that exist, what a worker decides by is a spec    *)
(* its playbook has had, and a run is approved only by those it names.     *)
(***************************************************************************)
GroundedEvent(e) ==
  /\ e.kind = "approved" => runs[e.run] \in Run
  /\ e.kind \in {"spec", "child"} => row[e.playbook] \in Row
GroundedTask(t) ==
  /\ t.pc \in {"fill", "create", "child"} => \A c \in t.found : row[c.playbook] \in Row
  /\ t.pc \in {"child", "decide"} => GroundedEvent(t.event)
  /\ t.pc = "child" => t.event.kind = "child"
  /\ t.pc = "decide" => t.spec \in had[t.playbook]

RowsHad == \A p \in Playbooks : row[p] \in Row => row[p].spec \in had[p]
RunsGrounded == \A r \in Runs : runs[r] # None => row[runs[r].playbook] \in Row
QueueGrounded == \A e \in queue : GroundedEvent(e)
WorkGrounded == \A w \in Workers : GroundedTask(work[w])
CacheGrounded == cache # None => \A c \in cache : row[c.playbook] \in Row
OwnApprovals == \A r \in Runs : runs[r] # None => runs[r].approvals \subseteq runs[r].spec.by

IntakeInv ==
  /\ CacheInv /\ NoBypass /\ OwnApprovals
  /\ RowsHad /\ RunsGrounded /\ QueueGrounded /\ WorkGrounded /\ CacheGrounded

\* What the assumptions say of a spec.
LEMMA SpecFacts ==
  ASSUME NEW s \in Specs
  PROVE  /\ s.by \subseteq Approvers /\ s.children \subseteq Playbooks
         /\ DOMAIN s.schedule \subseteq Nat
         /\ \A i \in DOMAIN s.schedule : s.schedule[i] \in Schedules
<1>1. PICK p \in Playbooks : s \in Forms[p]
  BY DEF Specs
<1> QED BY <1>1, SpecsAssumption DEF Schedules

\* Approvals never become fewer, nor do they satisfy a spec less.
LEMMA SatisfiedGrows ==
  ASSUME NEW s, NEW before, NEW after, before \subseteq after, Satisfied(s, before)
  PROVE  Satisfied(s, after)
  BY DEF Satisfied

\* What is queried exists and is well formed.
LEMMA QueriesGrounded ==
  ASSUME TypeOK
  PROVE  /\ EventPlaybooks \subseteq Copy /\ \A c \in EventPlaybooks : row[c.playbook] \in Row
         /\ Scheduled \subseteq Cron
         /\ \A p \in Playbooks : Exists(p) => CopyOf(p) \in Copy /\ row[p] \in Row
<1>1. ASSUME NEW p \in Playbooks, Exists(p) PROVE CopyOf(p) \in Copy /\ row[p] \in Row /\ CopyOf(p).playbook = p
  BY <1>1 DEF TypeOK, Exists, CopyOf, Copy, Row
<1>2. EventPlaybooks \subseteq Copy /\ \A c \in EventPlaybooks : row[c.playbook] \in Row
  BY <1>1 DEF EventPlaybooks
<1>3. Scheduled \subseteq Cron
  <2>1. ASSUME NEW p \in Playbooks, Exists(p), NEW i \in DOMAIN row[p].spec.schedule
        PROVE  [playbook |-> p, index |-> i, schedule |-> row[p].spec.schedule[i]] \in Cron
    <3>1. row[p].spec \in Specs
      BY <1>1, <2>1 DEF Row
    <3> QED BY <2>1, <3>1, SpecFacts DEF Cron
  <2> QED BY <2>1 DEF Scheduled, Live
<1> QED BY <1>1, <1>2, <1>3

\* Initially there is nothing but the rows of playbooks.
LEMMA IntakeInit == Init => IntakeInv
<1> SUFFICES ASSUME Init PROVE IntakeInv
  OBVIOUS
<1>1. TypeOK
  <2>1. \A p \in Playbooks : row[p] # None => row[p].spec \in Specs
    BY DEF Init, Specs
  <2>2. row \in [Playbooks -> Row \cup {None}]
    BY DEF Init, Row
  <2>3. had \in [Playbooks -> SUBSET Specs]
    BY <2>1 DEF Init
  <2>4. work \in [Workers -> Task] /\ Idle \in Task
    BY DEF Init, Task
  <2>5. runs \in [Runs -> Run \cup {None}] /\ queue \subseteq Event /\ crons \subseteq Cron
    BY DEF Init
  <2>6. cache \in (SUBSET Copy) \cup {None} /\ synced \in (SUBSET Cron) \cup {None}
    BY DEF Init
  <2>7. notified \in BOOLEAN /\ raced \in BOOLEAN /\ saves \in Nat /\ triggers \in Nat /\ fails \in Nat
    BY DEF Init
  <2> QED BY <2>2, <2>3, <2>4, <2>5, <2>6, <2>7 DEF TypeOK, Row
<1>2. CacheFresh /\ QueryFresh
  BY DEF Init, CacheFresh, QueryFresh, At, Idle
<1>3. None \notin Row
  BY ConstantsAssumption DEF Row
<1>4. NoBypass /\ OwnApprovals /\ RunsGrounded
  BY DEF Init, NoBypass, OwnApprovals, RunsGrounded
<1>5. RowsHad /\ QueueGrounded /\ WorkGrounded /\ CacheGrounded
  BY <1>3 DEF Init, RowsHad, QueueGrounded, WorkGrounded, CacheGrounded, GroundedTask, Idle
<1> QED BY <1>1, <1>2, <1>4, <1>5 DEF IntakeInv, CacheInv
----------------------------------------------------------------------------
(***************************************************************************)
(* What a step may do to a run: a run starts, pending if it has to be      *)
(* approved; or it goes on, from where it is not over, and from pending    *)
(* only with the approvals of a spec that its playbook has had.  A new     *)
(* approval and the wish for a child leave an event.                       *)
(***************************************************************************)
Starts(r) ==
  /\ runs[r] = None /\ runs'[r] \in Run
  /\ row[runs'[r].playbook] \in Row
  /\ runs'[r].approvals = {}
  /\ NeedsApproval(runs'[r].spec) => runs'[r].status \in {"pending_approval", "failed"}
  /\ runs'[r].status # "waiting"
Leaves(r) ==
  /\ runs[r].status \notin Final
  /\ runs[r].status = "pending_approval" =>
       \/ runs'[r].status = "cancelled"
       \/ \E s \in had[runs[r].playbook] : Satisfied(s, runs[r].approvals)
  /\ runs'[r].status # "pending_approval"
  /\ runs'[r].status = "waiting" => \E e \in queue' : Brings(e, r)
GoesOn(r) ==
  /\ runs[r] # None /\ runs'[r] \in Run
  /\ runs'[r].playbook = runs[r].playbook /\ runs'[r].spec = runs[r].spec
  /\ runs'[r].parent = runs[r].parent
  /\ runs[r].approvals \subseteq runs'[r].approvals /\ runs'[r].approvals \subseteq runs[r].spec.by
  /\ runs'[r].approvals = runs[r].approvals \/ \E e \in queue' : e.kind = "approved" /\ e.run = r
  /\ runs'[r].status = runs[r].status \/ Leaves(r)
RunStep(r) == runs'[r] = runs[r] \/ Starts(r) \/ GoesOn(r)
RunsStep == runs' = [r \in Runs |-> runs'[r]] /\ \A r \in Runs : RunStep(r)

\* A new run is well formed, and pending if it has to be approved.
LEMMA NewRunStarts ==
  ASSUME NEW c \in Copy, NEW parent \in Runs \cup {None}
  PROVE  LET n == NewRun(c, parent) IN
         /\ n \in Run /\ n.playbook = c.playbook /\ n.approvals = {}
         /\ [n EXCEPT !.status = "failed"] \in Run
         /\ NeedsApproval(n.spec) => n.status = "pending_approval"
  BY DEF NewRun, Run, Copy, Status

\* It has the parent that asked for it, and waits for nobody.
LEMMA NewRunParent ==
  ASSUME NEW c, NEW parent
  PROVE  NewRun(c, parent).parent = parent /\ NewRun(c, parent).status # "waiting"
  BY DEF NewRun

\* A run that changes its status alone goes on.
LEMMA StatusGoesOn ==
  ASSUME IntakeInv, NEW r \in Runs, runs[r] # None, NEW s \in Status,
         runs'[r] = [runs[r] EXCEPT !.status = s],
         runs[r].status \notin Final,
         s # "pending_approval", s = "waiting" => \E e \in queue' : Brings(e, r),
         runs[r].status = "pending_approval" =>
           s = "cancelled" \/ \E t \in had[runs[r].playbook] : Satisfied(t, runs[r].approvals)
  PROVE  GoesOn(r)
<1>1. runs[r] \in Run
  BY DEF IntakeInv, CacheInv, TypeOK
<1>2. /\ runs'[r] \in Run /\ runs'[r].playbook = runs[r].playbook /\ runs'[r].spec = runs[r].spec
      /\ runs'[r].approvals = runs[r].approvals /\ runs'[r].status = s
      /\ runs'[r].parent = runs[r].parent
  BY <1>1 DEF Run
<1>3. runs[r].approvals \subseteq runs[r].spec.by
  BY DEF IntakeInv, OwnApprovals
<1> QED BY <1>2, <1>3 DEF GoesOn, Leaves

\* Every step does that to every run.
LEMMA RunsSteps == IntakeInv /\ [Next]_vars => RunsStep
<1> SUFFICES ASSUME IntakeInv, [Next]_vars PROVE RunsStep
  OBVIOUS
<1> USE DEF RunsStep, RunStep
<1>t. TypeOK
  BY DEF IntakeInv, CacheInv
<1>0. runs = [r \in Runs |-> runs[r]] /\ \A r \in Runs : runs[r] # None => runs[r] \in Run
  BY <1>t DEF TypeOK
<1>1. CASE UNCHANGED runs
  BY <1>0, <1>1
<1>2. ASSUME NEW w \in Workers, Create(w) PROVE RunsStep
  <2>1. PICK matched \in SUBSET work[w].found : \E id \in Fresh(matched) :
          runs' = [r \in Runs |-> IF \E c \in matched : id[c] = r
                                  THEN NewRun(CHOOSE c \in matched : id[c] = r, None) ELSE runs[r]]
    BY <1>2 DEF Create
  <2>2. PICK id \in Fresh(matched) :
          runs' = [r \in Runs |-> IF \E c \in matched : id[c] = r
                                  THEN NewRun(CHOOSE c \in matched : id[c] = r, None) ELSE runs[r]]
    BY <2>1
  <2>3. work[w].pc = "create"
    BY <1>2 DEF Create, At
  <2>4. \A c \in matched : c \in Copy /\ row[c.playbook] \in Row /\ runs[id[c]] = None
    <3>1. work[w].found \subseteq Copy
      BY <1>t, <2>3 DEF TypeOK, Task, Idle
    <3>2. \A c \in work[w].found : row[c.playbook] \in Row
      BY <2>3 DEF IntakeInv, WorkGrounded, GroundedTask
    <3>3. \A c \in matched : runs[id[c]] = None
      BY <2>2 DEF Fresh
    <3> QED BY <3>1, <3>2, <3>3
  <2>5. ASSUME NEW r \in Runs PROVE RunStep(r)
    <3>1. CASE \E c \in matched : id[c] = r
      <4> DEFINE c == CHOOSE c \in matched : id[c] = r
      <4>1. c \in matched /\ id[c] = r
        BY <3>1
      <4>2. runs'[r] = NewRun(c, None)
        BY <2>2, <3>1
      <4> HIDE DEF c
      <4> DEFINE n == NewRun(c, None)
      <4>3. /\ n \in Run /\ n.playbook = c.playbook /\ n.approvals = {}
            /\ NeedsApproval(n.spec) => n.status = "pending_approval"
        BY <2>4, <4>1, NewRunStarts
      <4>4. runs'[r] = n /\ n.status # "waiting"
        BY <4>2, NewRunParent
      <4> HIDE DEF n
      <4> QED BY <2>4, <4>1, <4>3, <4>4 DEF Starts
    <3>2. CASE ~ \E c \in matched : id[c] = r
      BY <2>2, <3>2
    <3> QED BY <3>1, <3>2
  <2> QED BY <2>2, <2>5
<1>3. ASSUME NEW w \in Workers, CreateChild(w) PROVE RunsStep
  <2>1. PICK c \in work[w].found : \E id \in Fresh({c}) :
          runs' = [runs EXCEPT ![id[c]] = NewRun(c, work[w].event.parent)]
    BY <1>3 DEF CreateChild
  <2>2. PICK id \in Fresh({c}) : runs' = [runs EXCEPT ![id[c]] = NewRun(c, work[w].event.parent)]
    BY <2>1
  <2>3. work[w].pc = "child"
    BY <1>3 DEF CreateChild, At
  <2>4. c \in Copy /\ work[w].event \in Event
    BY <1>t, <2>3 DEF TypeOK, Task, Idle
  <2>5. row[c.playbook] \in Row /\ work[w].event.kind = "child"
    BY <2>3 DEF IntakeInv, WorkGrounded, GroundedTask
  <2>6. work[w].event.parent \in Runs
    BY <2>4, <2>5 DEF Event
  <2>7. id[c] \in Runs /\ runs[id[c]] = None
    BY <2>2 DEF Fresh
  <2>8. runs'[id[c]] = NewRun(c, work[w].event.parent)
    BY <1>t, <2>2, <2>7 DEF TypeOK
  <2>9. Starts(id[c])
    <3> DEFINE n == NewRun(c, work[w].event.parent)
    <3>1. /\ n \in Run /\ n.playbook = c.playbook /\ n.approvals = {}
          /\ NeedsApproval(n.spec) => n.status = "pending_approval"
      BY <2>4, <2>6, NewRunStarts
    <3>2. runs'[id[c]] = n /\ n.status # "waiting"
      BY <2>8, NewRunParent
    <3> HIDE DEF n
    <3>3. runs'[id[c]] \in Run /\ row[runs'[id[c]].playbook] \in Row
      BY <2>5, <3>1, <3>2
    <3> QED BY <2>7, <3>1, <3>2, <3>3 DEF Starts
  <2> QED BY <1>t, <2>2, <2>9 DEF TypeOK
<1>4. ASSUME NEW w \in Workers, ForbidChild(w) PROVE RunsStep
  <2> DEFINE e == work[w].event
             copy == CopyOf(e.playbook)
  <2>1. PICK id \in Fresh({copy}) :
          runs' = [r \in Runs |-> IF r = id[copy] THEN [NewRun(copy, e.parent) EXCEPT !.status = "failed"]
                                  ELSE IF r = e.parent THEN Resumed(r) ELSE runs[r]]
    BY <1>4 DEF ForbidChild
  <2>2. work[w].pc = "child"
    BY <1>4 DEF ForbidChild, At
  <2>3. e \in Event /\ e.kind = "child"
    BY <1>t, <2>2 DEF TypeOK, Task, Idle, IntakeInv, WorkGrounded, GroundedTask
  <2>4. e.playbook \in Playbooks /\ e.parent \in Runs /\ row[e.playbook] \in Row
    BY <2>2, <2>3 DEF Event, IntakeInv, WorkGrounded, GroundedTask, GroundedEvent
  <2>5. copy \in Copy /\ copy.playbook = e.playbook
    BY <2>4 DEF CopyOf, Copy, Row
  <2>6. id[copy] \in Runs /\ runs[id[copy]] = None
    BY <2>1 DEF Fresh
  <2>7. ASSUME NEW r \in Runs PROVE RunStep(r)
    <3>1. CASE r = id[copy]
      <4> DEFINE n == NewRun(copy, e.parent)
      <4>1. runs'[r] = [n EXCEPT !.status = "failed"]
        BY <2>1, <3>1
      <4>2. n \in Run /\ n.playbook = copy.playbook /\ n.approvals = {} /\ [n EXCEPT !.status = "failed"] \in Run
        BY <2>4, <2>5, NewRunStarts
      <4> HIDE DEF n, e, copy
      <4> QED BY <2>4, <2>5, <2>6, <3>1, <4>1, <4>2 DEF Starts, Run
    <3>2. CASE r # id[copy] /\ r = e.parent /\ Is(r, "waiting")
      <4>1. runs'[r] = [runs[r] EXCEPT !.status = "scheduled"] /\ runs[r] # None /\ runs[r].status = "waiting"
        BY <2>1, <3>2 DEF Resumed, Is
      <4> QED BY <4>1, StatusGoesOn DEF Status, Final
    <3>3. CASE r # id[copy] /\ ~(r = e.parent /\ Is(r, "waiting"))
      BY <2>1, <3>3 DEF Resumed
    <3> QED BY <3>1, <3>2, <3>3
  <2> QED BY <2>1, <2>7
<1>5. ASSUME NEW w \in Workers, Decide(w) PROVE RunsStep
  <2>1. runs' = [r \in Runs |->
          IF /\ Is(r, "pending_approval") /\ runs[r].playbook = work[w].playbook
             /\ Satisfied(work[w].spec, runs[r].approvals)
          THEN [runs[r] EXCEPT !.status = "scheduled"] ELSE runs[r]]
    BY <1>5 DEF Decide
  <2>2. work[w].spec \in had[work[w].playbook]
    BY <1>5 DEF Decide, At, IntakeInv, WorkGrounded, GroundedTask
  <2>3. ASSUME NEW r \in Runs PROVE RunStep(r)
    <3>1. CASE /\ Is(r, "pending_approval") /\ runs[r].playbook = work[w].playbook
               /\ Satisfied(work[w].spec, runs[r].approvals)
      <4>1. runs'[r] = [runs[r] EXCEPT !.status = "scheduled"] /\ runs[r] # None /\ runs[r].status = "pending_approval"
        BY <2>1, <3>1 DEF Is
      <4>2. \E t \in had[runs[r].playbook] : Satisfied(t, runs[r].approvals)
        BY <2>2, <3>1
      <4> QED BY <4>1, <4>2, StatusGoesOn DEF Status, Final
    <3> QED BY <2>1, <3>1
  <2> QED BY <2>1, <2>3
<1>6. ASSUME NEW r \in Runs, RunNext(r) PROVE RunsStep
  <2>1. ASSUME NEW s \in Status, SetStatus(r, s), runs[r] # None, runs[r].status \notin Final,
               runs[r].status = "pending_approval" => s = "cancelled",
               s # "pending_approval", s = "waiting" => \E e \in queue' : Brings(e, r)
        PROVE  RunsStep
    <3>1. runs' = [runs EXCEPT ![r] = [runs[r] EXCEPT !.status = s]]
      BY <2>1 DEF SetStatus
    <3>2. runs'[r] = [runs[r] EXCEPT !.status = s]
      BY <1>0, <3>1
    <3>3. GoesOn(r)
      BY <2>1, <3>2, StatusGoesOn
    <3> QED BY <1>0, <3>1, <3>3
  <2>2. CASE AskChildren(r)
    <3>1. /\ Is(r, "scheduled")
          /\ \/ SetStatus(r, "waiting") /\ \E e \in queue' : Brings(e, r)
             \/ SetStatus(r, "failed")
      <4>1. \A p : Brings([kind |-> "child", parent |-> r, playbook |-> p], r)
        BY DEF Brings
      <4> QED BY <2>2, <4>1 DEF AskChildren, ChildEvents
    <3> QED BY <2>1, <3>1 DEF Is, Status, Final
  <2>3. CASE EndRun(r)
    BY <2>1, <2>3 DEF EndRun, Is, Status, Final
  <2>4. CASE ResumeParent(r)
    BY <2>1, <2>4 DEF ResumeParent, Is, Status, Final
  <2>5. CASE Cancel(r)
    BY <2>1, <2>5 DEF Cancel, Is, Status, Final
  <2>6. ASSUME NEW u \in People, Approve(u, r) PROVE RunsStep
    <3>1. PICK by \in IF u \in runs[r].spec.by THEN {u} ELSE {t \in Teams \cap runs[r].spec.by : u \in Members[t]} :
            /\ runs' = [runs EXCEPT ![r].approvals = @ \cup {by}]
            /\ [kind |-> "approved", run |-> r, by |-> by] \in queue'
      BY <2>6 DEF Approve
    <3>2. by \in runs[r].spec.by /\ runs[r] # None
      BY <2>6, <3>1 DEF Approve
    <3>3. runs[r] \in Run /\ runs[r].spec.by \subseteq Approvers
      BY <1>0, <3>2, SpecFacts DEF Run
    <3>4. runs'[r] = [runs[r] EXCEPT !.approvals = @ \cup {by}]
      BY <1>0, <3>1
    <3>5. /\ runs'[r] \in Run /\ runs'[r].playbook = runs[r].playbook /\ runs'[r].spec = runs[r].spec
          /\ runs'[r].approvals = runs[r].approvals \cup {by} /\ runs'[r].status = runs[r].status
          /\ runs'[r].parent = runs[r].parent
      BY <3>2, <3>3, <3>4 DEF Run
    <3>6. runs[r].approvals \subseteq runs[r].spec.by
      BY <3>2 DEF IntakeInv, OwnApprovals
    <3>7. \E e \in queue' : e.kind = "approved" /\ e.run = r
      BY <3>1
    <3>8. GoesOn(r)
      BY <3>2, <3>5, <3>6, <3>7 DEF GoesOn
    <3> QED BY <1>0, <3>1, <3>8
  <2> QED BY <1>6, <2>2, <2>3, <2>4, <2>5, <2>6 DEF RunNext
<1> QED
  <2>1. CASE UNCHANGED vars
    BY <1>1, <2>1 DEF vars
  <2>2. ASSUME NEW p \in Playbooks, Delete(p) \/ \E s \in Forms[p] : Save(p, s) PROVE RunsStep
    BY <1>1, <2>2 DEF Delete, Save
  <2>3. CASE Flush \/ ExpireCache \/ SyncRead \/ SyncApply
    BY <1>1, <2>3 DEF Flush, ExpireCache, SyncRead, SyncApply
  <2>4. ASSUME NEW w \in Workers, Begin(w) \/ Finish(w) \/ Fail(w) PROVE RunsStep
    <3>1. CASE Begin(w) \/ Fill(w) \/ Fail(w)
      BY <1>1, <3>1 DEF Begin, Fill, Fail, EventHit, EventMiss, Request, Fire, BeginChild, BeginDecide
    <3> QED BY <1>2, <1>3, <1>4, <1>5, <2>4, <3>1 DEF Finish
  <2> QED BY <1>6, <2>1, <2>2, <2>3, <2>4 DEF Next
----------------------------------------------------------------------------
(* What a step does to the rows of playbooks, and to what speaks of them.  *)

RowsStep ==
  /\ row' \in [Playbooks -> Row \cup {None}] /\ had' \in [Playbooks -> SUBSET Specs]
  /\ RowsHad'
  /\ \A p \in Playbooks : had[p] \subseteq had'[p] /\ (row[p] \in Row => row'[p] \in Row)

\* What is queued, cached or taken up is well formed and speaks of what exists.
SpeaksStep ==
  /\ cache' \in (SUBSET Copy) \cup {None} /\ (cache' # None => \A c \in cache' : row[c.playbook] \in Row)
  /\ queue' \subseteq Event /\ \A e \in queue' : GroundedEvent(e)
  /\ work' \in [Workers -> Task] /\ \A w \in Workers : GroundedTask(work'[w])

\* The rows are those that were there, and those that are saved.
LEMMA RowsSteps == IntakeInv /\ [Next]_vars => RowsStep
<1> SUFFICES ASSUME IntakeInv, [Next]_vars PROVE RowsStep
  OBVIOUS
<1> USE DEF RowsStep
<1>t. row \in [Playbooks -> Row \cup {None}] /\ had \in [Playbooks -> SUBSET Specs] /\ RowsHad
  BY DEF IntakeInv, CacheInv, TypeOK, Row
<1>n. None \notin Row
  BY ConstantsAssumption DEF Row
<1>1. CASE UNCHANGED <<row, had>>
  BY <1>t, <1>1 DEF RowsHad
<1>2. ASSUME NEW p \in Playbooks, NEW s \in Forms[p], Save(p, s) PROVE RowsStep
  <2>1. row' = [row EXCEPT ![p] = [spec |-> s, deleted |-> FALSE]] /\ had' = [had EXCEPT ![p] = @ \cup {s}]
    BY <1>2 DEF Save
  <2>2. s \in Specs
    BY DEF Specs
  <2>3. [spec |-> s, deleted |-> FALSE] \in Row
    BY <2>2 DEF Row
  <2>4. row' \in [Playbooks -> Row \cup {None}] /\ had' \in [Playbooks -> SUBSET Specs]
    BY <1>t, <2>1, <2>2, <2>3
  <2>5. \A q \in Playbooks : had[q] \subseteq had'[q] /\ (row[q] \in Row => row'[q] \in Row)
    BY <1>t, <2>1, <2>3
  <2>6. RowsHad'
    BY <1>t, <2>1 DEF RowsHad
  <2> QED BY <2>4, <2>5, <2>6
<1>3. ASSUME NEW p \in Playbooks, Delete(p) PROVE RowsStep
  <2>1. row' = [row EXCEPT ![p].deleted = TRUE] /\ had' = had /\ row[p] \in Row
    BY <1>t, <1>3 DEF Delete, Live, Exists
  <2>2. row' = [row EXCEPT ![p] = [row[p] EXCEPT !.deleted = TRUE]]
    BY <2>1
  <2>3. [row[p] EXCEPT !.deleted = TRUE] \in Row /\ [row[p] EXCEPT !.deleted = TRUE].spec = row[p].spec
    BY <2>1 DEF Row
  <2>4. row' \in [Playbooks -> Row \cup {None}] /\ \A q \in Playbooks : row[q] \in Row => row'[q] \in Row
    BY <1>t, <2>2, <2>3
  <2>5. RowsHad'
    BY <1>t, <2>1, <2>2, <2>3 DEF RowsHad
  <2> QED BY <1>t, <2>1, <2>4, <2>5
<1> QED
  <2>1. CASE UNCHANGED vars
    BY <1>1, <2>1 DEF vars
  <2>2. CASE Flush \/ ExpireCache \/ SyncRead \/ SyncApply
    BY <1>1, <2>2 DEF Flush, ExpireCache, SyncRead, SyncApply
  <2>3. ASSUME NEW w \in Workers, Begin(w) \/ Finish(w) \/ Fail(w) PROVE RowsStep
    BY <1>1, <2>3 DEF Begin, Finish, Fail, EventHit, EventMiss, Request, Fire, BeginChild, BeginDecide, Fill,
      Create, CreateChild, ForbidChild, Decide
  <2>4. ASSUME NEW r \in Runs, RunNext(r) PROVE RowsStep
    BY <1>1, <2>4 DEF RunNext, AskChildren, EndRun, ResumeParent, Cancel, Approve
  <2> QED BY <1>2, <1>3, <2>1, <2>2, <2>3, <2>4 DEF Next

\* Whatever a step queues, caches or takes up exists.
LEMMA SpeaksSteps == IntakeInv /\ [Next]_vars => SpeaksStep
<1> SUFFICES ASSUME IntakeInv, [Next]_vars PROVE SpeaksStep
  OBVIOUS
<1> USE DEF SpeaksStep
<1>t. TypeOK
  BY DEF IntakeInv, CacheInv
<1>c. cache \in (SUBSET Copy) \cup {None} /\ (cache # None => \A c \in cache : row[c.playbook] \in Row)
  BY <1>t DEF TypeOK, IntakeInv, CacheGrounded
<1>q. queue \subseteq Event /\ \A e \in queue : GroundedEvent(e)
  BY <1>t DEF TypeOK, IntakeInv, QueueGrounded
<1>w. work \in [Workers -> Task] /\ \A w \in Workers : GroundedTask(work[w])
  BY <1>t DEF TypeOK, IntakeInv, WorkGrounded
<1>1. CASE UNCHANGED <<cache, queue, work>>
  BY <1>1, <1>c, <1>q, <1>w
\* A worker takes something up, or drops what it has done.
<1>2. ASSUME NEW w \in Workers, NEW t \in Task, GroundedTask(t), Go(w, t), cache' = cache, queue' \subseteq queue
      PROVE  SpeaksStep
  BY <1>2, <1>c, <1>q, <1>w DEF Go
<1>3. Idle \in Task /\ GroundedTask(Idle)
  BY DEF Idle, Task, GroundedTask
<1>4. ASSUME NEW p \in Playbooks, NEW s \in Forms[p], Save(p, s) PROVE SpeaksStep
  <2>1. cache' = cache /\ work' = work
    BY <1>4 DEF Save
  <2>2. queue' = queue \/ (Exists(p) /\ queue' = queue \cup {[kind |-> "spec", playbook |-> p]})
    BY <1>4 DEF Save
  <2>3. Exists(p) => row[p] \in Row
    BY <1>t, QueriesGrounded
  <2>4. [kind |-> "spec", playbook |-> p] \in Event
    BY DEF Event
  <2>5. Exists(p) => GroundedEvent([kind |-> "spec", playbook |-> p])
    BY <2>3 DEF GroundedEvent
  <2> QED BY <1>c, <1>q, <1>w, <2>1, <2>2, <2>4, <2>5
<1>5. CASE Flush
  <2>1. cache' = None /\ queue' = queue
    BY <1>5 DEF Flush
  <2>2. work' = [w \in Workers |-> IF At(w, "fill") THEN [work[w] EXCEPT !.flushed = TRUE] ELSE work[w]]
    BY <1>5 DEF Flush
  <2>3. ASSUME NEW w \in Workers, At(w, "fill")
        PROVE  [work[w] EXCEPT !.flushed = TRUE] \in Task /\ GroundedTask([work[w] EXCEPT !.flushed = TRUE])
    <3>1. work[w] \in [pc : {"fill"}, found : SUBSET Copy, flushed : BOOLEAN]
      BY <1>w, <2>3 DEF At, Task, Idle
    <3>2. [work[w] EXCEPT !.flushed = TRUE] \in [pc : {"fill"}, found : SUBSET Copy, flushed : BOOLEAN]
      BY <3>1
    <3>3. \A c \in work[w].found : row[c.playbook] \in Row
      BY <1>w, <3>1 DEF GroundedTask
    <3>4. [work[w] EXCEPT !.flushed = TRUE].found = work[w].found /\ [work[w] EXCEPT !.flushed = TRUE].pc = "fill"
      BY <3>1
    <3> QED BY <3>2, <3>3, <3>4 DEF Task, GroundedTask
  <2> QED BY <1>q, <1>w, <2>1, <2>2, <2>3
<1>6. CASE ExpireCache \/ SyncRead \/ SyncApply
  <2>1. CASE ExpireCache
    BY <1>c, <1>q, <1>w, <2>1 DEF ExpireCache
  <2>2. CASE SyncRead \/ SyncApply
    BY <1>1, <2>2 DEF SyncRead, SyncApply, cached
  <2> QED BY <1>6, <2>1, <2>2
<1>7. ASSUME NEW p \in Playbooks, Delete(p) PROVE SpeaksStep
  BY <1>1, <1>7 DEF Delete, cached
<1>8. ASSUME NEW w \in Workers, EventHit(w) \/ EventMiss(w) PROVE SpeaksStep
  <2>1. cache' = cache /\ queue' = queue
    BY <1>8 DEF EventHit, EventMiss, cached
  <2>2. CASE EventHit(w)
    <3> DEFINE t == [pc |-> "create", found |-> cache]
    <3>1. cache # None /\ Go(w, t)
      BY <2>2 DEF EventHit
    <3>2. t \in Task /\ GroundedTask(t)
      BY <1>c, <3>1 DEF Task, GroundedTask
    <3> QED BY <1>2, <2>1, <3>1, <3>2
  <2>3. CASE EventMiss(w)
    <3> DEFINE t == [pc |-> "fill", found |-> EventPlaybooks, flushed |-> FALSE]
    <3>1. Go(w, t)
      BY <2>3 DEF EventMiss
    <3>2. t \in Task /\ GroundedTask(t)
      BY <1>t, QueriesGrounded DEF Task, GroundedTask
    <3> QED BY <1>2, <2>1, <3>1, <3>2
  <2> QED BY <1>8, <2>2, <2>3
<1>9. ASSUME NEW w \in Workers, NEW p \in Playbooks, Exists(p), Go(w, [pc |-> "create", found |-> {CopyOf(p)}]),
             UNCHANGED <<cache, queue>>
      PROVE  SpeaksStep
  <2> DEFINE t == [pc |-> "create", found |-> {CopyOf(p)}]
  <2>1. CopyOf(p) \in Copy /\ row[p] \in Row /\ CopyOf(p).playbook = p
    BY <1>9, <1>t, QueriesGrounded DEF CopyOf
  <2>2. t \in Task /\ GroundedTask(t)
    BY <2>1 DEF Task, GroundedTask
  <2> QED BY <1>2, <1>9, <2>2
<1>10. ASSUME NEW w \in Workers, NEW e \in queue, BeginChild(w, e) PROVE SpeaksStep
  <2> DEFINE t == [pc |-> "child", found |-> {CopyOf(e.playbook)}, event |-> e]
  <2>1. e \in Event /\ e.kind = "child" /\ GroundedEvent(e) /\ Go(w, t) /\ cache' = cache /\ queue' \subseteq queue
    BY <1>10, <1>q DEF BeginChild, cached
  <2>2. e.playbook \in Playbooks /\ row[e.playbook] \in Row
    BY <2>1 DEF GroundedEvent, Event
  <2>3. CopyOf(e.playbook) \in Copy /\ CopyOf(e.playbook).playbook = e.playbook
    BY <2>2 DEF CopyOf, Copy, Row
  <2>4. t \in Task
    BY <2>1, <2>3 DEF Task
  <2>5. GroundedTask(t)
    BY <2>1, <2>2, <2>3 DEF GroundedTask
  <2> QED BY <1>2, <2>1, <2>4, <2>5
<1>11. ASSUME NEW w \in Workers, NEW e \in queue, BeginDecide(w, e) PROVE SpeaksStep
  <2> DEFINE p == PlaybookOf(e)
             t == [pc |-> "decide", playbook |-> p, spec |-> row[p].spec, event |-> e]
  <2>1. e \in Event /\ e.kind \in {"approved", "spec"} /\ GroundedEvent(e)
        /\ cache' = cache /\ queue' \subseteq queue
    BY <1>11, <1>q DEF BeginDecide, Event, cached
  <2>2. CASE work' = work
    BY <1>c, <1>q, <1>w, <2>1, <2>2
  <2>3. CASE (e.kind = "approved" => Is(e.run, "pending_approval")) /\ Go(w, t)
    <3>1. p \in Playbooks /\ row[p] \in Row
      <4>1. CASE e.kind = "spec"
        BY <2>1, <4>1 DEF PlaybookOf, GroundedEvent, Event
      <4>2. CASE e.kind = "approved"
        <5>1. e.run \in Runs /\ runs[e.run] # None
          BY <2>1, <2>3, <4>2 DEF Event, Is
        <5>2. runs[e.run] \in Run
          BY <1>t, <5>1 DEF TypeOK
        <5> QED BY <4>2, <5>1, <5>2 DEF PlaybookOf, Run, IntakeInv, RunsGrounded
      <4> QED BY <2>1, <4>1, <4>2
    <3>2. row[p].spec \in Specs /\ row[p].spec \in had[p]
      BY <3>1 DEF Row, IntakeInv, RowsHad
    <3>3. t \in Task
      BY <2>1, <3>1, <3>2 DEF Task
    <3>4. GroundedTask(t)
      BY <2>1, <3>2 DEF GroundedTask
    <3> QED BY <1>2, <2>1, <2>3, <3>3, <3>4
  <2> QED BY <1>11, <2>2, <2>3 DEF BeginDecide
<1>12. ASSUME NEW w \in Workers, Finish(w) PROVE SpeaksStep
  <2>1. CASE Fill(w)
    <3>1. work[w].found \in SUBSET Copy
      BY <1>w, <2>1 DEF Fill, At, Task, Idle
    <3>2. \A c \in work[w].found : row[c.playbook] \in Row
      BY <1>w, <2>1 DEF Fill, At, GroundedTask
    <3>3. cache' = work[w].found /\ queue' = queue /\ Go(w, [pc |-> "create", found |-> work[w].found])
      BY <2>1 DEF Fill
    <3>4. [pc |-> "create", found |-> work[w].found] \in Task /\ GroundedTask([pc |-> "create", found |-> work[w].found])
      BY <3>1, <3>2 DEF Task, GroundedTask
    <3> QED BY <1>q, <1>w, <3>1, <3>2, <3>3, <3>4 DEF Go
  <2>2. CASE Create(w) \/ CreateChild(w) \/ ForbidChild(w) \/ Decide(w)
    <3>1. Go(w, Idle) /\ cache' = cache /\ queue' = queue
      BY <2>2 DEF Create, CreateChild, ForbidChild, Decide, cached
    <3> QED BY <1>2, <1>3, <3>1
  <2> QED BY <1>12, <2>1, <2>2 DEF Finish
<1>13. ASSUME NEW w \in Workers, Fail(w) PROVE SpeaksStep
  <2>1. Go(w, Idle) /\ cache' = cache
        /\ queue' = IF "event" \in DOMAIN work[w] THEN queue \cup {work[w].event} ELSE queue
    BY <1>13 DEF Fail, cached
  <2>2. "event" \in DOMAIN work[w] => work[w].event \in Event /\ work[w].pc \in {"child", "decide"}
    BY <1>w DEF Task, Idle
  <2>3. "event" \in DOMAIN work[w] => GroundedEvent(work[w].event)
    BY <1>w, <2>2 DEF GroundedTask
  <2> QED BY <1>c, <1>q, <1>w, <1>3, <2>1, <2>2, <2>3 DEF Go
<1>14. ASSUME NEW r \in Runs, AskChildren(r) PROVE SpeaksStep
  <2>1. cache' = cache /\ work' = work
    BY <1>14 DEF AskChildren, cached
  <2>2. runs[r].spec \in Specs
    BY <1>t, <1>14 DEF AskChildren, Is, TypeOK, Run
  <2>3. runs[r].spec.children \subseteq Playbooks
    BY <2>2, SpecFacts
  <2>4. PICK asked \in SUBSET runs[r].spec.children : queue' = queue \cup ChildEvents(r, asked) /\ \A p \in asked : Live(p)
    BY <1>14 DEF AskChildren
  <2>5. ASSUME NEW p \in asked
        PROVE  LET e == [kind |-> "child", parent |-> r, playbook |-> p] IN e \in Event /\ GroundedEvent(e)
    <3>1. p \in Playbooks /\ row[p] \in Row
      BY <1>t, <2>3, <2>4, QueriesGrounded DEF Live
    <3> QED BY <3>1 DEF Event, GroundedEvent
  <2>6. ASSUME NEW e \in ChildEvents(r, asked) PROVE e \in Event /\ GroundedEvent(e)
    BY <2>5 DEF ChildEvents
  <2> QED BY <1>c, <1>q, <1>w, <2>1, <2>4, <2>6
<1>15. ASSUME NEW r \in Runs, EndRun(r) \/ ResumeParent(r) \/ Cancel(r) PROVE SpeaksStep
  BY <1>1, <1>15 DEF EndRun, ResumeParent, Cancel, cached
<1>16. ASSUME NEW r \in Runs, NEW u \in People, Approve(u, r) PROVE SpeaksStep
  <2>1. cache' = cache /\ work' = work /\ runs[r] # None
    BY <1>16 DEF Approve, cached
  <2>2. PICK by \in runs[r].spec.by : queue' = queue \cup {[kind |-> "approved", run |-> r, by |-> by]}
    BY <1>16 DEF Approve
  <2>3. runs[r] \in Run
    BY <1>t, <2>1 DEF TypeOK
  <2>4. by \in Approvers
    BY <2>3, SpecFacts DEF Run
  <2>5. [kind |-> "approved", run |-> r, by |-> by] \in Event /\ GroundedEvent([kind |-> "approved", run |-> r, by |-> by])
    BY <2>3, <2>4 DEF Event, GroundedEvent
  <2> QED BY <1>c, <1>q, <1>w, <2>1, <2>2, <2>5
<1> QED
  <2>1. CASE UNCHANGED vars
    BY <1>1, <2>1 DEF vars
  <2>2. ASSUME NEW w \in Workers, Begin(w) PROVE SpeaksStep
    <3>1. ASSUME NEW p \in Playbooks, Request(w, p) PROVE SpeaksStep
      BY <1>9, <3>1 DEF Request, Live, cached
    <3>2. ASSUME NEW c \in crons, Fire(w, c) PROVE SpeaksStep
      <4>1. c.playbook \in Playbooks
        BY <1>t DEF TypeOK, Cron
      <4> QED BY <1>9, <3>2, <4>1 DEF Fire, ScheduleStands, Live, cached
    <3> QED BY <1>8, <1>10, <1>11, <2>2, <3>1, <3>2 DEF Begin
  <2> QED
    BY <1>4, <1>5, <1>6, <1>7, <1>12, <1>13, <1>14, <1>15, <1>16, <2>1, <2>2 DEF Next, RunNext
----------------------------------------------------------------------------
(* What is cached.                                                         *)

\* The event's playbooks change when one is saved, and then it is announced.
LEMMA CacheSteps == IntakeInv /\ [Next]_vars => (CacheFresh /\ QueryFresh)'
<1> SUFFICES ASSUME IntakeInv, [Next]_vars PROVE (CacheFresh /\ QueryFresh)'
  OBVIOUS
<1> USE DEF CacheFresh, QueryFresh
<1>t. TypeOK /\ CacheFresh /\ QueryFresh
  BY DEF IntakeInv, CacheInv
<1>w. work \in [Workers -> Task]
  BY <1>t DEF TypeOK
<1>1. ASSUME UNCHANGED row PROVE EventPlaybooks' = EventPlaybooks
  BY <1>1 DEF EventPlaybooks, Exists, CopyOf
\* Steps that leave the cache alone and take up nothing to fill it with.
<1>2. ASSUME EventPlaybooks' = EventPlaybooks, UNCHANGED cached,
             \A w \in Workers : work'[w] = work[w] \/ work'[w].pc # "fill"
      PROVE  (CacheFresh /\ QueryFresh)'
  <2>1. CacheFresh'
    BY <1>2, <1>t DEF cached
  <2>2. QueryFresh'
    BY <1>2, <1>t DEF cached, At
  <2> QED BY <2>1, <2>2
<1>3. ASSUME NEW p \in Playbooks, NEW s \in Forms[p], Save(p, s) PROVE (CacheFresh /\ QueryFresh)'
  BY <1>3 DEF Save
<1>4. ASSUME NEW p \in Playbooks, Delete(p) PROVE (CacheFresh /\ QueryFresh)'
  <2>1. row[p] \in Row /\ row' = [row EXCEPT ![p] = [row[p] EXCEPT !.deleted = TRUE]]
    BY <1>t, <1>4 DEF Delete, Live, Exists, TypeOK, Row
  <2>2. [row[p] EXCEPT !.deleted = TRUE].spec = row[p].spec /\ [row[p] EXCEPT !.deleted = TRUE] \in Row
    BY <2>1 DEF Row
  <2>3. None \notin Row
    BY ConstantsAssumption DEF Row
  <2>4. \A q \in Playbooks : (row'[q] # None <=> row[q] # None) /\ row'[q].spec = row[q].spec
    BY <1>t, <2>1, <2>2, <2>3 DEF TypeOK
  <2>5. EventPlaybooks' = EventPlaybooks
    BY <2>4 DEF EventPlaybooks, Exists, CopyOf
  <2> QED BY <1>2, <1>4, <2>5 DEF Delete
<1>5. CASE Flush
  <2>1. cache' = None /\ UNCHANGED row
    BY <1>5 DEF Flush
  <2>2. ASSUME NEW w \in Workers, At(w, "fill")' PROVE work'[w].flushed
    <3>1. CASE At(w, "fill")
      <4>1. work[w] \in [pc : {"fill"}, found : SUBSET Copy, flushed : BOOLEAN]
        BY <1>w, <3>1 DEF At, Task, Idle
      <4>2. work'[w] = [work[w] EXCEPT !.flushed = TRUE]
        BY <1>5, <3>1 DEF Flush
      <4> QED BY <4>1, <4>2
    <3>2. CASE ~At(w, "fill")
      BY <1>5, <2>2, <3>2 DEF Flush, At
    <3> QED BY <3>1, <3>2
  <2> QED BY <2>1, <2>2
<1>6. CASE ExpireCache
  BY <1>1, <1>t, <1>6 DEF ExpireCache, At
<1>7. CASE SyncRead \/ SyncApply
  BY <1>1, <1>2, <1>7 DEF SyncRead, SyncApply
<1>8. ASSUME NEW w \in Workers, NEW t, t.pc # "fill", Go(w, t), UNCHANGED <<row, cached>> PROVE (CacheFresh /\ QueryFresh)'
  BY <1>1, <1>2, <1>8, <1>w DEF Go
<1>9. ASSUME NEW w \in Workers, EventMiss(w) PROVE (CacheFresh /\ QueryFresh)'
  <2>1. Go(w, [pc |-> "fill", found |-> EventPlaybooks, flushed |-> FALSE]) /\ UNCHANGED <<row, cached>>
    BY <1>9 DEF EventMiss
  <2>2. EventPlaybooks' = EventPlaybooks
    BY <1>1, <2>1
  <2>3. CacheFresh'
    BY <1>t, <2>1, <2>2 DEF cached
  <2>4. QueryFresh'
    BY <1>t, <1>w, <2>1, <2>2 DEF cached, Go, At
  <2> QED BY <2>3, <2>4
<1>10. ASSUME NEW w \in Workers, Fill(w) PROVE (CacheFresh /\ QueryFresh)'
  <2>1. /\ At(w, "fill") /\ cache' = work[w].found /\ raced' = work[w].flushed
        /\ Go(w, [pc |-> "create", found |-> work[w].found]) /\ UNCHANGED <<row, notified>>
    BY <1>10 DEF Fill
  <2>2. EventPlaybooks' = EventPlaybooks
    BY <1>1, <2>1
  <2>3. CacheFresh'
    BY <1>t, <2>1, <2>2
  <2>4. QueryFresh'
    BY <1>t, <1>w, <2>1, <2>2 DEF Go, At
  <2> QED BY <2>3, <2>4
<1>11. ASSUME NEW w \in Workers, EventHit(w) PROVE (CacheFresh /\ QueryFresh)'
  BY <1>8, <1>11 DEF EventHit
<1>12. ASSUME NEW w \in Workers, NEW p \in Playbooks, Request(w, p) PROVE (CacheFresh /\ QueryFresh)'
  BY <1>8, <1>12 DEF Request
<1>13. ASSUME NEW w \in Workers, NEW c \in crons, Fire(w, c) PROVE (CacheFresh /\ QueryFresh)'
  BY <1>8, <1>13 DEF Fire
<1>14. ASSUME NEW w \in Workers, NEW e \in queue, BeginChild(w, e) PROVE (CacheFresh /\ QueryFresh)'
  BY <1>8, <1>14 DEF BeginChild
<1>15. ASSUME NEW w \in Workers, NEW e \in queue, BeginDecide(w, e) PROVE (CacheFresh /\ QueryFresh)'
  <2>1. UNCHANGED <<row, cached>> /\ (UNCHANGED work \/ \E t : t.pc # "fill" /\ Go(w, t))
    BY <1>15 DEF BeginDecide
  <2> QED BY <1>1, <1>2, <1>8, <2>1
<1>16. ASSUME NEW w \in Workers, Create(w) \/ CreateChild(w) \/ ForbidChild(w) \/ Decide(w) \/ Fail(w)
       PROVE  (CacheFresh /\ QueryFresh)'
  <2>1. Idle.pc # "fill" /\ Go(w, Idle) /\ UNCHANGED <<row, cached>>
    BY <1>16 DEF Create, CreateChild, ForbidChild, Decide, Fail, Idle
  <2> QED BY <1>8, <2>1
<1>17. ASSUME NEW r \in Runs, RunNext(r) PROVE (CacheFresh /\ QueryFresh)'
  <2>1. UNCHANGED <<row, cached, work>>
    BY <1>17 DEF RunNext, AskChildren, EndRun, ResumeParent, Cancel, Approve
  <2> QED BY <1>1, <1>2, <2>1
<1>18. CASE UNCHANGED vars
  BY <1>1, <1>2, <1>18 DEF vars, cached
<1> QED
  BY <1>3, <1>4, <1>5, <1>6, <1>7, <1>9, <1>10, <1>11, <1>12, <1>13, <1>14, <1>15, <1>16, <1>17, <1>18
  DEF Next, Begin, Finish
----------------------------------------------------------------------------
(* The invariant.                                                          *)

\* The entries of the scheduler, the flags and the counters keep their type.
LEMMA OthersSteps ==
  IntakeInv /\ [Next]_vars =>
    /\ notified' \in BOOLEAN /\ raced' \in BOOLEAN /\ crons' \subseteq Cron /\ synced' \in (SUBSET Cron) \cup {None}
    /\ saves' \in Nat /\ triggers' \in Nat /\ fails' \in Nat
<1> SUFFICES ASSUME IntakeInv, [Next]_vars
             PROVE  /\ notified' \in BOOLEAN /\ raced' \in BOOLEAN
                    /\ crons' \subseteq Cron /\ synced' \in (SUBSET Cron) \cup {None}
                    /\ saves' \in Nat /\ triggers' \in Nat /\ fails' \in Nat
  OBVIOUS
<1>t. TypeOK
  BY DEF IntakeInv, CacheInv
<1>1. notified' \in {notified, TRUE, FALSE}
  BY DEF Next, Begin, Finish, RunNext, Save, Delete, Flush, ExpireCache, SyncRead, SyncApply, EventHit, EventMiss,
    Request, Fire, BeginChild, BeginDecide, Fill, Create, CreateChild, ForbidChild, Decide, Fail, AskChildren, EndRun,
    ResumeParent, Cancel, Approve, vars, cached
<1>2. raced' \in {raced, FALSE} \/ \E w \in Workers : At(w, "fill") /\ raced' = work[w].flushed
  BY DEF Next, Begin, Finish, RunNext, Save, Delete, Flush, ExpireCache, SyncRead, SyncApply, EventHit, EventMiss,
    Request, Fire, BeginChild, BeginDecide, Fill, Create, CreateChild, ForbidChild, Decide, Fail, AskChildren, EndRun,
    ResumeParent, Cancel, Approve, vars, cached
<1>3. raced' \in BOOLEAN
  <2>1. ASSUME NEW w \in Workers, At(w, "fill") PROVE work[w].flushed \in BOOLEAN
    BY <1>t, <2>1 DEF TypeOK, Task, At, Idle
  <2> QED BY <1>2, <1>t, <2>1 DEF TypeOK
<1>4. UNCHANGED cronVars \/ SyncRead \/ SyncApply
  BY DEF Next, Begin, Finish, RunNext, Save, Delete, Flush, ExpireCache, EventHit, EventMiss,
    Request, Fire, BeginChild, BeginDecide, Fill, Create, CreateChild, ForbidChild, Decide, Fail, AskChildren, EndRun,
    ResumeParent, Cancel, Approve, vars, cronVars
<1>5. crons' \subseteq Cron /\ synced' \in (SUBSET Cron) \cup {None}
  <2>1. CASE SyncRead
    BY <1>t, <2>1, QueriesGrounded DEF SyncRead, TypeOK
  <2>2. CASE SyncApply
    BY <1>t, <2>2 DEF SyncApply, TypeOK
  <2> QED BY <1>4, <1>t, <2>1, <2>2 DEF cronVars, TypeOK
<1>6. saves' \in {saves, saves + 1} /\ triggers' \in {triggers, triggers + 1} /\ fails' \in {fails, fails + 1}
  BY DEF Next, Begin, Finish, RunNext, Save, Delete, Flush, ExpireCache, SyncRead, SyncApply, EventHit, EventMiss,
    Request, Fire, BeginChild, BeginDecide, Fill, Create, CreateChild, ForbidChild, Decide, Fail, AskChildren, EndRun,
    ResumeParent, Cancel, Approve, vars, counters, Saves, Triggers, Triggered
<1>7. saves' \in Nat /\ triggers' \in Nat /\ fails' \in Nat
  BY <1>6, <1>t DEF TypeOK
<1>8. notified' \in BOOLEAN
  BY <1>1, <1>t, Zenon DEF TypeOK
<1> QED BY <1>3, <1>5, <1>7, <1>8

\* What a run may do preserves what holds of runs.
LEMMA RunsKept ==
  ASSUME IntakeInv, RunsStep, RowsStep
  PROVE  /\ runs' \in [Runs -> Run \cup {None}]
         /\ NoBypass' /\ OwnApprovals' /\ RunsGrounded'
         /\ \A r \in Runs : runs[r] \in Run => runs'[r] \in Run
<1>t. runs \in [Runs -> Run \cup {None}]
  BY DEF IntakeInv, CacheInv, TypeOK
<1>1. ASSUME NEW r \in Runs PROVE runs'[r] \in Run \cup {None} /\ (runs[r] \in Run => runs'[r] \in Run)
  BY <1>t DEF RunsStep, RunStep, Starts, GoesOn
<1>2. OwnApprovals'
  BY <1>t DEF RunsStep, RunStep, Starts, GoesOn, IntakeInv, OwnApprovals
<1>3. RunsGrounded'
  <2> SUFFICES ASSUME NEW r \in Runs, runs'[r] # None PROVE row'[runs'[r].playbook] \in Row
    BY DEF RunsGrounded
  <2>1. runs'[r].playbook \in Playbooks
    BY <1>1 DEF Run
  <2>2. row[runs'[r].playbook] \in Row
    BY DEF RunsStep, RunStep, Starts, GoesOn, IntakeInv, RunsGrounded
  <2> QED BY <2>1, <2>2 DEF RowsStep
<1>4. NoBypass'
  <2> SUFFICES ASSUME NEW r \in Runs, runs'[r] # None, NeedsApproval(runs'[r].spec),
                      runs'[r].status \notin {"pending_approval", "cancelled", "failed"}
               PROVE  Justified(r)'
    BY DEF NoBypass, NeedsApproval
  <2>1. ~Starts(r)
    BY DEF Starts
  <2>2. runs[r] # None /\ runs[r] \in Run /\ runs'[r].playbook = runs[r].playbook /\ runs'[r].spec = runs[r].spec
        /\ runs[r].approvals \subseteq runs'[r].approvals
    BY <1>t, <2>1 DEF RunsStep, RunStep, GoesOn
  <2>3. \E s \in had[runs[r].playbook] : Satisfied(s, runs[r].approvals)
    <3>1. CASE runs[r].status \notin {"pending_approval", "cancelled", "failed"}
      BY <2>2, <3>1 DEF IntakeInv, NoBypass, Justified
    <3>2. CASE runs[r].status \in {"pending_approval", "cancelled", "failed"}
      BY <2>1, <2>2, <3>2 DEF RunsStep, RunStep, GoesOn, Leaves, Final
    <3> QED BY <3>1, <3>2
  <2>4. PICK s \in had[runs[r].playbook] : Satisfied(s, runs[r].approvals)
    BY <2>3
  <2>5. Satisfied(s, runs'[r].approvals)
    BY <2>2, <2>4, SatisfiedGrows
  <2>6. s \in had'[runs'[r].playbook]
    BY <2>2, <2>4 DEF Run, RowsStep
  <2>7. runs'[r].approvals \subseteq runs'[r].spec.by
    BY <1>2 DEF OwnApprovals
  <2> QED BY <2>5, <2>6, <2>7 DEF Justified, Satisfied
<1> QED BY <1>1, <1>2, <1>3, <1>4 DEF RunsStep

\* What has been taken up stays true of the rows and the runs after the step.
LEMMA SpeaksKept ==
  ASSUME IntakeInv, RunsStep, RowsStep, SpeaksStep
  PROVE  QueueGrounded' /\ WorkGrounded' /\ CacheGrounded'
<1>1. \A r \in Runs : runs[r] \in Run => runs'[r] \in Run
  BY RunsKept
<1>2. \A p \in Playbooks : had[p] \subseteq had'[p] /\ (row[p] \in Row => row'[p] \in Row)
  BY DEF RowsStep
<1>3. ASSUME NEW e \in Event, GroundedEvent(e)
      PROVE  (e.kind = "approved" => runs'[e.run] \in Run) /\ (e.kind \in {"spec", "child"} => row'[e.playbook] \in Row)
  BY <1>1, <1>2, <1>3 DEF GroundedEvent, Event
<1>4. ASSUME NEW c \in Copy, row[c.playbook] \in Row PROVE row'[c.playbook] \in Row
  BY <1>2, <1>4 DEF Copy
<1>5. QueueGrounded'
  BY <1>3 DEF SpeaksStep, QueueGrounded, GroundedEvent
<1>6. CacheGrounded'
  BY <1>4 DEF SpeaksStep, CacheGrounded
<1>7. ASSUME NEW w \in Workers PROVE GroundedTask(work[w])'
  <2> DEFINE t == work'[w]
  <2>1. t \in Task /\ GroundedTask(t)
    BY DEF SpeaksStep
  <2>2. t.pc \in {"fill", "create", "child"} => t.found \subseteq Copy
    BY <2>1 DEF Task, Idle
  <2>3. t.pc \in {"child", "decide"} => t.event \in Event
    BY <2>1 DEF Task, Idle
  <2>4. t.pc = "decide" => t.playbook \in Playbooks
    BY <2>1 DEF Task, Idle
  <2>5. t.pc \in {"fill", "create", "child"} => \A c \in t.found : row'[c.playbook] \in Row
    BY <1>4, <2>1, <2>2 DEF GroundedTask
  <2>6. t.pc \in {"child", "decide"} =>
          /\ t.event.kind = "approved" => runs'[t.event.run] \in Run
          /\ t.event.kind \in {"spec", "child"} => row'[t.event.playbook] \in Row
    BY <1>3, <2>1, <2>3 DEF GroundedTask
  <2>7. t.pc = "decide" => t.spec \in had'[t.playbook]
    BY <1>2, <2>1, <2>4 DEF GroundedTask
  <2>8. t.pc = "child" => t.event.kind = "child"
    BY <2>1 DEF GroundedTask
  <2> QED BY <2>5, <2>6, <2>7, <2>8 DEF GroundedTask, GroundedEvent
<1> QED BY <1>5, <1>6, <1>7 DEF WorkGrounded

\* Every step preserves the invariant.
LEMMA IntakeSteps == IntakeInv /\ [Next]_vars => IntakeInv'
<1> SUFFICES ASSUME IntakeInv, [Next]_vars PROVE IntakeInv'
  OBVIOUS
<1>1. RunsStep /\ RowsStep /\ SpeaksStep /\ (CacheFresh /\ QueryFresh)'
  BY RunsSteps, RowsSteps, SpeaksSteps, CacheSteps
<1>2. runs' \in [Runs -> Run \cup {None}] /\ NoBypass' /\ OwnApprovals' /\ RunsGrounded'
  BY <1>1, RunsKept
<1>3. TypeOK'
  BY <1>1, <1>2, OthersSteps DEF TypeOK, RowsStep, SpeaksStep, Row
<1> QED BY <1>1, <1>2, <1>3, SpeaksKept DEF IntakeInv, CacheInv, RowsStep

\* The invariant holds of every execution.
THEOREM IntakeCorrect == Spec => []IntakeInv
BY IntakeInit, IntakeSteps, PTL DEF Spec

\* The state has its type, and the event cache holds what the database would
\* answer unless it was filled from a query that a flush has overtaken.
THEOREM CacheCorrect == Spec => []CacheInv
<1>1. IntakeInv => CacheInv
  BY DEF IntakeInv
<1> QED BY IntakeCorrect, <1>1, PTL

\* The same, without the queries that are under way.
THEOREM CacheFreshCorrect == Spec => []CacheFresh
<1>1. IntakeInv => CacheFresh
  BY DEF IntakeInv, CacheInv
<1> QED BY IntakeCorrect, <1>1, PTL

\* No run that has to be approved goes on without approvals of people its own
\* spec names that satisfy a spec its playbook has had.
THEOREM NoBypassCorrect == Spec => []NoBypass
<1>1. IntakeInv => NoBypass
  BY DEF IntakeInv
<1> QED BY IntakeCorrect, <1>1, PTL

\* A run that is over stays over.
THEOREM OverStaysOverCorrect == Spec => OverStaysOver
<1>1. ASSUME IntakeInv, [Next]_vars, NEW r \in Runs, runs[r] # None, runs[r].status \in Final
      PROVE  runs'[r].status = runs[r].status
  <2>1. RunStep(r)
    BY <1>1, RunsSteps DEF RunsStep
  <2> QED BY <1>1, <2>1 DEF RunStep, Starts, GoesOn, Leaves
<1>2. IntakeInv /\ [Next]_vars =>
        [\A r \in Runs : runs[r] # None /\ runs[r].status \in Final => runs'[r].status = runs[r].status]_vars
  BY <1>1
<1> QED BY IntakeCorrect, <1>2, PTL DEF Spec, OverStaysOver

----------------------------------------------------------------------------
(* No run is forgotten.                                                    *)

SeenDue(r) == (\E e \in queue : Concerns(e, r)) \/ (\E w \in Workers : Weighs(w, r))
SeenParent(r) ==
  \/ Children(r) # {}
  \/ \E e \in queue : Brings(e, r)
  \/ \E w \in Workers : At(w, "child") /\ Brings(work[w].event, r)

\* What a run is due by is what its playbook says by the approvals asked for.
LEMMA SatisfiedBy ==
  ASSUME NEW s, NEW t, s.by = t.by, s.any = t.any, NEW approvals
  PROVE  Satisfied(s, approvals) <=> Satisfied(t, approvals)
  BY DEF Satisfied

\* The playbook of a run is a row, whose spec it has had.
LEMMA RunsPlaybook ==
  ASSUME IntakeInv, NEW r \in Runs, runs[r] # None
  PROVE  /\ runs[r] \in Run /\ runs[r].playbook \in Playbooks
         /\ row[runs[r].playbook] \in Row
         /\ row[runs[r].playbook].spec \in had[runs[r].playbook]
<1>1. runs[r] \in Run
  BY DEF IntakeInv, CacheInv, TypeOK
<1>2. runs[r].playbook \in Playbooks /\ row[runs[r].playbook] \in Row
  BY <1>1 DEF Run, IntakeInv, RunsGrounded
<1> QED BY <1>1, <1>2 DEF IntakeInv, RowsHad

\* A run that is due after a step was pending before it, for the same playbook,
\* and unless a new approval is announced it had the same approvals.
LEMMA DueBefore ==
  ASSUME IntakeInv, [Next]_vars, NEW r \in Runs, Due(r)'
  PROVE  /\ Is(r, "pending_approval") /\ runs'[r].playbook = runs[r].playbook
         /\ \A s \in had[runs[r].playbook] : NeedsApproval(s)
         /\ runs'[r].approvals = runs[r].approvals \/ SeenDue(r)'
<1>1. RunStep(r) /\ RowsStep
  BY RunsSteps, RowsSteps DEF RunsStep
<1>2. runs'[r] # None /\ runs'[r].status = "pending_approval"
  BY DEF Due, Is
<1>3. ~Starts(r)
  BY DEF Starts, Due, Satisfied
<1>4. \/ runs'[r] = runs[r]
      \/ GoesOn(r) /\ runs'[r].status = runs[r].status
  BY <1>1, <1>2, <1>3 DEF RunStep, GoesOn, Leaves
<1>5. Is(r, "pending_approval") /\ runs'[r].playbook = runs[r].playbook
  BY <1>2, <1>4 DEF Is, GoesOn
<1>6. runs[r].playbook \in Playbooks
  BY <1>5, RunsPlaybook DEF Is
<1>7. \A s \in had[runs[r].playbook] : NeedsApproval(s)
  <2>1. \A s \in had'[runs'[r].playbook] : s.by # {}
    BY DEF Due, NeedsApproval
  <2> QED BY <1>1, <1>5, <1>6, <2>1 DEF RowsStep, NeedsApproval
<1>8. runs'[r].approvals = runs[r].approvals \/ SeenDue(r)'
  BY <1>4 DEF GoesOn, SeenDue, Concerns
<1> QED BY <1>5, <1>7, <1>8

\* A worker that takes no decision on the run leaves it seen, as does a step of
\* nobody.
LEMMA DueKept ==
  ASSUME IntakeInv, NEW r \in Runs, runs[r] # None, SeenDue(r),
         runs'[r].playbook = runs[r].playbook,
         row'[runs[r].playbook].spec.by = row[runs[r].playbook].spec.by,
         row'[runs[r].playbook].spec.any = row[runs[r].playbook].spec.any,
         \A e \in queue : Concerns(e, r) => e \in queue' \/ \E w \in Workers : Weighs(w, r)',
         \A w \in Workers : Weighs(w, r) => work'[w] = work[w] \/ work[w].event \in queue'
  PROVE  SeenDue(r)'
<1>0. \A e : Concerns(e, r)' <=> Concerns(e, r)
  <2> TAKE e
  <2> QED BY DEF Concerns
<1>1. CASE \E e \in queue : Concerns(e, r)
  <2>1. PICK e \in queue : Concerns(e, r)
    BY <1>1
  <2>2. CASE e \in queue'
    <3>1. \E f \in queue' : Concerns(f, r)'
      BY <1>0, <2>1, <2>2
    <3> QED BY <3>1 DEF SeenDue
  <2> QED BY <2>1, <2>2 DEF SeenDue
<1>2. CASE \E w \in Workers : Weighs(w, r)
  <2>1. PICK w \in Workers : Weighs(w, r)
    BY <1>2
  <2>2. CASE work'[w] = work[w]
    <3>1. Weighs(w, r)'
      BY <1>0, <2>1, <2>2 DEF Weighs, At, Concerns
    <3> QED BY <3>1 DEF SeenDue
  <2>3. CASE work[w].event \in queue'
    <3>1. Concerns(work[w].event, r)
      BY <2>1 DEF Weighs
    <3>2. \E f \in queue' : Concerns(f, r)'
      BY <1>0, <2>3, <3>1
    <3> QED BY <3>2 DEF SeenDue
  <2> QED BY <2>1, <2>2, <2>3
<1> QED BY <1>1, <1>2 DEF SeenDue

\* A run that is due after a step is seen after it.
LEMMA DueSteps ==
  ASSUME IntakeInv, NoneForgotten, [Next]_vars, NEW r \in Runs, Due(r)'
  PROVE  SeenDue(r)'
<1> DEFINE p == runs[r].playbook
           SameSpec == row'[p].spec.by = row[p].spec.by /\ row'[p].spec.any = row[p].spec.any
           DecidersStay == \A w \in Workers : At(w, "decide") => work'[w] = work[w]
<1>1. /\ Is(r, "pending_approval") /\ runs[r] # None /\ runs'[r].playbook = p
      /\ \A s \in had[p] : NeedsApproval(s)
      /\ runs'[r].approvals = runs[r].approvals \/ SeenDue(r)'
  BY DueBefore DEF Is
<1> SUFFICES ASSUME runs'[r].approvals = runs[r].approvals PROVE SeenDue(r)'
  BY <1>1
<1>2. p \in Playbooks /\ row[p] \in Row /\ row[p].spec \in had[p]
  BY <1>1, RunsPlaybook
<1>3. Satisfied(row'[p].spec, runs[r].approvals)
  BY <1>1 DEF Due, Satisfied
<1>t. /\ work \in [Workers -> Task] /\ queue \subseteq Event
      /\ row \in [Playbooks -> Row \cup {None}]
  BY DEF IntakeInv, CacheInv, TypeOK, Row
<1>4. ASSUME SameSpec PROVE SeenDue(r)
  <2>1. Satisfied(row[p].spec, runs[r].approvals)
    BY <1>3, <1>4, SatisfiedBy
  <2>2. Due(r)
    BY <1>1, <2>1 DEF Due
  <2> QED BY <2>2 DEF NoneForgotten, SeenDue
<1>5. ASSUME SameSpec, queue \subseteq queue', DecidersStay PROVE SeenDue(r)'
  <2>1. \A w \in Workers : Weighs(w, r) => work'[w] = work[w]
    BY <1>5 DEF Weighs
  <2> QED BY <1>1, <1>4, <1>5, <2>1, DueKept
<1>6. UNCHANGED row => SameSpec
  OBVIOUS
<1>7. ASSUME NEW w \in Workers, NEW t, Go(w, t), ~At(w, "decide") PROVE DecidersStay
  BY <1>7, <1>t DEF Go
<1> HIDE DEF SameSpec, DecidersStay
<1>8. ASSUME NEW q \in Playbooks, NEW s \in Forms[q], Save(q, s) PROVE SeenDue(r)'
  <2>1. /\ row' = [row EXCEPT ![q] = [spec |-> s, deleted |-> FALSE]] /\ UNCHANGED work
        /\ had' = [had EXCEPT ![q] = @ \cup {s}] /\ queue \subseteq queue' /\ UNCHANGED runs
    BY <1>8 DEF Save
  <2>2. DecidersStay
    BY <2>1 DEF DecidersStay
  <2>3. CASE SameSpec
    BY <1>5, <2>1, <2>2, <2>3
  <2>4. CASE ~SameSpec
    <3>1. q = p
      BY <1>2, <1>t, <2>1, <2>4 DEF SameSpec
    <3>2. row'[p].spec = s
      BY <1>t, <2>1, <3>1
    <3>3. <<row[p].spec.by, row[p].spec.any>> # <<s.by, s.any>>
      BY <2>4, <3>2 DEF SameSpec
    <3>4. s \in had'[p]
      BY <1>2, <2>1, <3>1 DEF IntakeInv, CacheInv, TypeOK
    <3>5. NeedsApproval(s)
      BY <1>1, <3>4 DEF Due, NeedsApproval
    <3>6. NeedsApproval(row[p].spec)
      BY <1>1, <1>2
    <3>7. Exists(p) /\ row[p].spec # None
      <4>1. None \notin Row /\ row[p].spec \in Specs
        BY <1>2, ConstantsAssumption DEF Row
      <4> QED BY <1>2, <4>1, ConstantsAssumption DEF Exists
    <3>8. [kind |-> "spec", playbook |-> p] \in queue'
      BY <1>8, <3>1, <3>3, <3>5, <3>6, <3>7 DEF Save
    <3>9. \E e \in queue' : Concerns(e, r)'
      BY <1>1, <3>8 DEF Concerns
    <3> QED BY <3>9 DEF SeenDue
  <2> QED BY <2>3, <2>4
<1>9. ASSUME NEW q \in Playbooks, Delete(q) PROVE SeenDue(r)'
  <2>1. row' = [row EXCEPT ![q] = [row[q] EXCEPT !.deleted = TRUE]] /\ UNCHANGED <<queue, work>>
    BY <1>9 DEF Delete
  <2>2. SameSpec
    BY <1>2, <1>t, <2>1 DEF SameSpec, Row
  <2> QED BY <1>5, <2>1, <2>2 DEF DecidersStay
<1>10. CASE Flush
  <2>1. \A w \in Workers : At(w, "decide") => work'[w] = work[w]
    BY <1>10 DEF Flush, At
  <2> QED BY <1>5, <1>6, <1>10, <2>1 DEF Flush, DecidersStay
<1>11. CASE ExpireCache \/ SyncRead \/ SyncApply \/ UNCHANGED vars \/ \E q \in Runs : RunNext(q)
  <2>1. UNCHANGED <<row, work>> /\ queue \subseteq queue'
    BY <1>11 DEF ExpireCache, SyncRead, SyncApply, vars, RunNext, AskChildren, EndRun, ResumeParent, Cancel, Approve
  <2> QED BY <1>5, <1>6, <2>1 DEF DecidersStay
<1>12. ASSUME NEW w \in Workers, EventHit(w) \/ EventMiss(w) \/ (\E q \in Playbooks : Request(w, q))
                                 \/ \E c \in crons : Fire(w, c)
       PROVE  SeenDue(r)'
  <2>1. UNCHANGED <<row, queue>> /\ ~At(w, "decide") /\ \E t : Go(w, t)
    BY <1>12 DEF EventHit, EventMiss, Request, Fire, Triggered, At
  <2> QED BY <1>5, <1>6, <1>7, <2>1
<1>13. ASSUME NEW w \in Workers, Fill(w) \/ Create(w) \/ CreateChild(w) \/ ForbidChild(w)
       PROVE  SeenDue(r)'
  <2>1. UNCHANGED <<row, queue>> /\ ~At(w, "decide") /\ \E t : Go(w, t)
    BY <1>13 DEF Fill, Create, CreateChild, ForbidChild, At
  <2> QED BY <1>5, <1>6, <1>7, <2>1
<1>14. ASSUME NEW w \in Workers, NEW e \in queue, BeginChild(w, e) PROVE SeenDue(r)'
  <2>1. /\ UNCHANGED row /\ ~At(w, "decide") /\ \E t : Go(w, t)
        /\ queue' = queue \ {e} /\ e.kind = "child"
    BY <1>14 DEF BeginChild, At
  <2>2. DecidersStay /\ SeenDue(r) /\ SameSpec
    BY <1>4, <1>6, <1>7, <2>1
  <2>3. \A f \in queue : Concerns(f, r) => f \in queue'
    BY <2>1 DEF Concerns
  <2>4. \A v \in Workers : Weighs(v, r) => work'[v] = work[v]
    BY <2>2 DEF DecidersStay, Weighs
  <2> QED BY <1>1, <2>2, <2>3, <2>4, DueKept DEF SameSpec
<1>15. ASSUME NEW w \in Workers, NEW e \in queue, BeginDecide(w, e) PROVE SeenDue(r)'
  <2> DEFINE t == [pc |-> "decide", playbook |-> p, spec |-> row[p].spec, event |-> e]
  <2>1. /\ UNCHANGED <<row, runs>> /\ At(w, "idle") /\ ~At(w, "decide") /\ queue' = queue \ {e}
        /\ UNCHANGED work \/ \E u : Go(w, u)
    BY <1>15 DEF BeginDecide, At
  <2>2. DecidersStay /\ SeenDue(r) /\ SameSpec
    BY <1>4, <1>6, <1>7, <2>1 DEF DecidersStay
  <2>3. ASSUME Concerns(e, r) PROVE Weighs(w, r)'
    <3>1. PlaybookOf(e) = p /\ NeedsApproval(row[p].spec)
      BY <1>1, <1>2, <2>3 DEF Concerns, PlaybookOf
    <3>2. Go(w, t)
      BY <1>1, <1>15, <2>3, <3>1 DEF BeginDecide, Concerns
    <3>3. work'[w] = t
      BY <1>t, <3>2 DEF Go
    <3>4. Concerns(e, r)'
      BY <2>1, <2>3 DEF Concerns
    <3> QED BY <2>1, <3>3, <3>4 DEF Weighs, At
  <2>4. \A f \in queue : Concerns(f, r) => f \in queue' \/ \E v \in Workers : Weighs(v, r)'
    BY <2>1, <2>3
  <2>5. \A v \in Workers : Weighs(v, r) => work'[v] = work[v]
    BY <2>2 DEF DecidersStay, Weighs
  <2> QED BY <1>1, <2>2, <2>4, <2>5, DueKept DEF SameSpec
<1>16. ASSUME NEW w \in Workers, Decide(w) PROVE SeenDue(r)'
  <2>1. UNCHANGED <<row, queue>> /\ Go(w, Idle)
    BY <1>16 DEF Decide
  <2>2. SeenDue(r) /\ SameSpec
    BY <1>4, <1>6, <2>1
  <2>3. ~Weighs(w, r)
    <3> SUFFICES ASSUME Weighs(w, r) PROVE FALSE
      OBVIOUS
    <3>1. Satisfied(work[w].spec, runs[r].approvals)
      BY <1>3, <2>1, SatisfiedBy DEF Weighs
    <3>2. runs'[r] = [runs[r] EXCEPT !.status = "scheduled"]
      BY <1>1, <1>16, <3>1 DEF Decide, Weighs
    <3>3. runs'[r].status = "scheduled"
      BY <1>1, <3>2, RunsPlaybook DEF Run
    <3> QED BY <3>3 DEF Due, Is
  <2>4. \A v \in Workers : Weighs(v, r) => work'[v] = work[v]
    BY <1>t, <2>1, <2>3 DEF Go
  <2> QED BY <1>1, <2>1, <2>2, <2>4, DueKept DEF SameSpec
<1>17. ASSUME NEW w \in Workers, Fail(w) PROVE SeenDue(r)'
  <2>1. /\ UNCHANGED row /\ Go(w, Idle) /\ queue \subseteq queue'
        /\ "event" \in DOMAIN work[w] => work[w].event \in queue'
    BY <1>17 DEF Fail
  <2>2. SeenDue(r) /\ SameSpec
    BY <1>4, <1>6, <2>1
  <2>3. At(w, "decide") => work[w].event \in queue'
    BY <1>t, <2>1 DEF At, Task, Idle
  <2>4. \A v \in Workers : Weighs(v, r) => work'[v] = work[v] \/ work[v].event \in queue'
    BY <1>t, <2>1, <2>3 DEF Go, Weighs
  <2> QED BY <1>1, <2>1, <2>2, <2>4, DueKept DEF SameSpec
<1> QED
  BY <1>8, <1>9, <1>10, <1>11, <1>12, <1>13, <1>14, <1>15, <1>16, <1>17 DEF Next, Begin, Finish

\* Children are never lost.
LEMMA ChildrenStay ==
  ASSUME IntakeInv, RunsStep, NEW r \in Runs
  PROVE  Children(r) \subseteq Children(r)'
<1> SUFFICES ASSUME NEW c \in Runs, runs[c] # None, runs[c].parent = r
             PROVE  runs'[c] # None /\ runs'[c].parent = r
  BY DEF Children
<1>1. RunStep(c) /\ ~Starts(c)
  BY DEF RunsStep, Starts
<1> QED BY <1>1, RunAssumption DEF RunStep, GoesOn

\* A run that waits after a step is seen after it.
LEMMA ParentSteps ==
  ASSUME IntakeInv, NoneForgotten, [Next]_vars, NEW r \in Runs, Is(r, "waiting")'
  PROVE  SeenParent(r)'
<1> DEFINE ChildrenWork == \A w \in Workers : At(w, "child") => work'[w] = work[w]
<1>1. RunsStep /\ RunStep(r)
  BY RunsSteps DEF RunsStep
<1>2. Is(r, "waiting") \/ \E e \in queue' : Brings(e, r)
  BY <1>1 DEF Is, RunStep, Starts, GoesOn, Leaves
<1> SUFFICES ASSUME Is(r, "waiting") PROVE SeenParent(r)'
  BY <1>2 DEF SeenParent, Brings
<1>3. SeenParent(r)
  BY DEF NoneForgotten, SeenParent
<1>4. CASE Children(r) # {}
  BY <1>1, <1>4, ChildrenStay DEF SeenParent
<1>t. work \in [Workers -> Task] /\ queue \subseteq Event
  BY DEF IntakeInv, CacheInv, TypeOK
<1>5. ASSUME \A e \in queue : Brings(e, r) =>
                e \in queue' \/ \E v \in Workers : At(v, "child")' /\ work'[v].event = e,
             \A v \in Workers : At(v, "child") /\ Brings(work[v].event, r) =>
                work'[v] = work[v] \/ work[v].event \in queue' \/ Children(r)' # {}
      PROVE  SeenParent(r)'
  BY <1>3, <1>4, <1>5 DEF SeenParent, Brings, At
<1>6. ASSUME queue \subseteq queue', ChildrenWork PROVE SeenParent(r)'
  BY <1>5, <1>6
<1>7. ASSUME NEW w \in Workers, NEW t, Go(w, t), ~At(w, "child") PROVE ChildrenWork
  BY <1>7, <1>t DEF Go
<1> HIDE DEF ChildrenWork
<1>8. ASSUME \/ \E p \in Playbooks : Delete(p) \/ \E s \in Forms[p] : Save(p, s)
             \/ ExpireCache \/ SyncRead \/ SyncApply \/ UNCHANGED vars \/ \E q \in Runs : RunNext(q)
      PROVE  SeenParent(r)'
  <2>1. UNCHANGED work /\ queue \subseteq queue'
    BY <1>8 DEF Delete, Save, ExpireCache, SyncRead, SyncApply, vars, RunNext, AskChildren, EndRun, ResumeParent,
       Cancel, Approve
  <2> QED BY <1>6, <2>1 DEF ChildrenWork
<1>9. CASE Flush
  <2>1. \A w \in Workers : At(w, "child") => work'[w] = work[w]
    BY <1>9 DEF Flush, At
  <2> QED BY <1>6, <1>9, <2>1 DEF Flush, ChildrenWork
<1>10. ASSUME NEW w \in Workers, EventHit(w) \/ EventMiss(w) \/ (\E q \in Playbooks : Request(w, q))
                                 \/ (\E c \in crons : Fire(w, c)) \/ Fill(w) \/ Create(w) \/ Decide(w)
       PROVE  SeenParent(r)'
  <2>1. UNCHANGED queue /\ ~At(w, "child") /\ \E t : Go(w, t)
    BY <1>10 DEF EventHit, EventMiss, Request, Fire, Triggered, Fill, Create, Decide, At
  <2> QED BY <1>6, <1>7, <2>1
<1>11. ASSUME NEW w \in Workers, NEW e \in queue, BeginChild(w, e) PROVE SeenParent(r)'
  <2>1. /\ ~At(w, "child") /\ queue' = queue \ {e}
        /\ Go(w, [pc |-> "child", found |-> {CopyOf(e.playbook)}, event |-> e])
    BY <1>11 DEF BeginChild, At
  <2>2. ChildrenWork
    BY <1>7, <2>1
  <2>3. At(w, "child")' /\ work'[w].event = e
    BY <1>t, <2>1 DEF Go, At
  <2> QED BY <1>5, <2>1, <2>2, <2>3 DEF ChildrenWork
<1>12. ASSUME NEW w \in Workers, NEW e \in queue, BeginDecide(w, e) PROVE SeenParent(r)'
  <2>1. /\ ~At(w, "child") /\ queue' = queue \ {e} /\ e.kind # "child"
        /\ UNCHANGED work \/ \E t : Go(w, t)
    BY <1>12 DEF BeginDecide, At
  <2>2. ChildrenWork
    BY <1>7, <2>1 DEF ChildrenWork
  <2> QED BY <1>5, <2>1, <2>2 DEF ChildrenWork, Brings
<1>13. ASSUME NEW w \in Workers, CreateChild(w) \/ ForbidChild(w) PROVE SeenParent(r)'
  <2>1. /\ Go(w, Idle) /\ UNCHANGED queue /\ work[w].pc = "child"
    BY <1>13 DEF CreateChild, ForbidChild, At
  <2>2. work[w].event.kind = "child" /\ work[w].event \in Event /\ work[w].event.parent \in Runs
    BY <1>t, <2>1 DEF IntakeInv, WorkGrounded, GroundedTask, Task, Idle, Event
  <2>3. ASSUME work[w].event.parent = r PROVE Children(r)' # {}
    <3>1. runs \in [Runs -> Run \cup {None}]
      BY DEF IntakeInv, CacheInv, TypeOK
    <3>2. CASE CreateChild(w)
      <4>1. PICK c \in work[w].found : \E id \in Fresh({c}) : runs' = [runs EXCEPT ![id[c]] = NewRun(c, r)]
        BY <2>3, <3>2 DEF CreateChild
      <4>2. PICK n \in Runs : runs' = [runs EXCEPT ![n] = NewRun(c, r)]
        BY <4>1 DEF Fresh
      <4>3. c \in Copy
        BY <1>t, <2>1 DEF Task, Idle
      <4>4. NewRun(c, r) \in Run
        BY <4>3, NewRunStarts
      <4>5. runs'[n] = NewRun(c, r)
        BY <3>1, <4>2
      <4>6. runs'[n] # None /\ runs'[n].parent = r
        BY <4>4, <4>5, NewRunParent, RunAssumption
      <4> QED BY <4>6 DEF Children
    <3>3. CASE ForbidChild(w)
      <4> DEFINE copy == CopyOf(work[w].event.playbook)
                 new == NewRun(copy, r)
      <4>1. PICK n \in Runs : runs'[n] = [new EXCEPT !.status = "failed"]
        BY <2>3, <3>3 DEF ForbidChild, Fresh
      <4>2. copy \in Copy
        BY <2>1, <2>2 DEF IntakeInv, WorkGrounded, GroundedTask, GroundedEvent, Event, CopyOf, Copy, Row
      <4>3. new \in Run /\ new.parent = r
        BY <4>2, NewRunStarts, NewRunParent
      <4> HIDE DEF new
      <4>4. runs'[n] \in Run /\ runs'[n].parent = r
        BY <4>1, <4>3 DEF Run, Status
      <4> QED BY <4>4, RunAssumption DEF Children
    <3> QED BY <1>13, <3>2, <3>3
  <2>4. \A v \in Workers : v # w => work'[v] = work[v]
    BY <1>t, <2>1 DEF Go
  <2> QED BY <1>5, <2>1, <2>3, <2>4 DEF Brings
<1>14. ASSUME NEW w \in Workers, Fail(w) PROVE SeenParent(r)'
  <2>1. /\ Go(w, Idle) /\ queue \subseteq queue'
        /\ "event" \in DOMAIN work[w] => work[w].event \in queue'
    BY <1>14 DEF Fail
  <2>2. At(w, "child") => work[w].event \in queue'
    BY <1>t, <2>1 DEF At, Task, Idle
  <2>3. \A v \in Workers : v # w => work'[v] = work[v]
    BY <1>t, <2>1 DEF Go
  <2> QED BY <1>5, <2>1, <2>2, <2>3
<1> QED
  BY <1>8, <1>9, <1>10, <1>11, <1>12, <1>13, <1>14 DEF Next, Begin, Finish

\* It holds at first, when there are no runs, ...
LEMMA ForgottenInit == Init => NoneForgotten
BY DEF Init, NoneForgotten, Due, Is

\* ... and every step preserves it.
LEMMA ForgottenSteps == IntakeInv /\ NoneForgotten /\ [Next]_vars => NoneForgotten'
<1> SUFFICES ASSUME IntakeInv, NoneForgotten, [Next]_vars, NEW r \in Runs
             PROVE  (Due(r) => SeenDue(r))' /\ (Is(r, "waiting") => SeenParent(r))'
  BY DEF NoneForgotten, SeenDue, SeenParent
<1> QED BY DueSteps, ParentSteps

\* For any saves, deletions, workers and failures: a run that is due is weighed, or
\* an event makes someone weigh it, by what its playbook says by then; and a run
\* that waits for children has one, or will get one or be told that it may not.
THEOREM NoneForgottenCorrect == Spec => []NoneForgotten
BY IntakeInit, IntakeSteps, ForgottenInit, ForgottenSteps, PTL DEF Spec
=============================================================================
