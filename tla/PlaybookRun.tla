---------------------------- MODULE PlaybookRun ----------------------------
(***************************************************************************)
(* The playbook engine of the upstream server: how one playbook run walks  *)
(* through the steps of its spec (playbook/run_consumer.go and             *)
(* playbook/runner/runner.go), as the database rows see it.                *)
(*                                                                         *)
(* A row of playbook_runs is run[r]; the rows of playbook_run_actions that *)
(* belong to it are the sequence rows[r], in the order of their start.     *)
(* Every transaction of the code that holds the run row (FOR UPDATE) is    *)
(* one step.  The transaction that executes an action is not: it claims    *)
(* the row, reads the run without a lock, executes, and commits, and       *)
(* anything may happen in between, its own abort included.                 *)
(***************************************************************************)
EXTENDS Naturals, Sequences, FiniteSets

CONSTANTS
  Runs,            \* ids of playbook runs
  Requests,        \* what a run may be asked to execute (see RequestsAssumption)
  Consumers,       \* goroutines of the action consumer
  RescheduleFrom,  \* run statuses an ended action reschedules its run from (duty)
  MaxAborts,       \* bound: aborted action transactions
  MaxRows          \* bound: action rows of one run

RunStatus == {"none", "pending_approval", "scheduled", "retrying", "sleeping",
              "running", "waiting", "cancelled", "timed_out", "completed", "failed"}

\* models.PlaybookRunStatusFinalStates
RunFinal == {"cancelled", "timed_out", "completed", "failed"}

\* The statuses that RunConsumer monitors.
Monitored == {"retrying", "scheduled", "sleeping"}

\* models.PlaybookRunStatusExecutingGroup
Executing == Monitored \cup {"running", "waiting"}

\* models.PlaybookActionFinalStates
ActionFinal == {"completed", "failed", "skipped"}
ActionStatus == ActionFinal \cup {"scheduled", "waiting", "running", "waiting_children"}

(***************************************************************************)
(* One action of a playbook spec: how often it is retried (0: no retry     *)
(* block), whether the retry waits, whether it has a filter or a delay,    *)
(* whether it runs on an agent, and whether it is an AI action that        *)
(* triggers child playbooks.                                               *)
(***************************************************************************)
Step == [retry : Nat, wait : BOOLEAN, filter : BOOLEAN, delay : BOOLEAN,
         agent : BOOLEAN, children : BOOLEAN]

ASSUME RequestsAssumption ==
  \A q \in Requests :
    /\ q \in [steps : Seq(Step), approval : BOOLEAN, pinned : BOOLEAN, timed : BOOLEAN]
    /\ Len(q.steps) > 0

ASSUME RescheduleAssumption ==
  /\ {"running", "waiting"} \subseteq RescheduleFrom
  /\ RescheduleFrom \subseteq {"running", "waiting"} \cup RunFinal

ASSUME BoundsAssumption == MaxAborts \in Nat /\ MaxRows \in Nat

VARIABLES
  req,      \* req[r]: the request; the run keeps its own copy of the spec
  run,      \* run[r]: status of the run row
  rows,     \* rows[r]: its action rows
  expired,  \* expired[r]: NOW() - scheduled_time exceeds the run's timeout
  parents,  \* runs that have triggered child runs
  claims,   \* claims[c]: the transaction of action consumer c
  cancels,  \* cancel requests between their check and their update
  overdue,  \* runs the timeout job has read and not yet updated
  aborts    \* aborted action transactions so far

vars == <<req, run, rows, expired, parents, claims, cancels, overdue, aborts>>

\* ran and lost are history: how often the row has been executed since it was
\* queued, and how many of these executions went down with their transaction.
Row == [step : Nat, count : Nat, agent : BOOLEAN, status : ActionStatus,
        ran : Nat, lost : Nat]

NoClaim == [phase |-> "idle"]
Claim == [phase : {"claimed", "executed"}, run : Runs, row : Nat, cancelled : BOOLEAN]

TypeOK ==
  /\ req \in [Runs -> Requests]
  /\ run \in [Runs -> RunStatus]
  /\ rows \in [Runs -> Seq(Row)]
  /\ expired \in [Runs -> BOOLEAN]
  /\ parents \in SUBSET Runs
  /\ claims \in [Consumers -> Claim \cup {NoClaim}]
  /\ cancels \in SUBSET Runs
  /\ overdue \in SUBSET Runs
  /\ aborts \in Nat

Init ==
  /\ req \in [Runs -> Requests]
  /\ run = [r \in Runs |-> "none"]
  /\ rows = [r \in Runs |-> <<>>]
  /\ expired = [r \in Runs |-> FALSE]
  /\ parents = {}
  /\ claims = [c \in Consumers |-> NoClaim]
  /\ cancels = {}
  /\ overdue = {}
  /\ aborts = 0

----------------------------------------------------------------------------
(* Choosing the next action.                                               *)

Steps(r) == req[r].steps
Attempts(r) == DOMAIN rows[r]
LastRow(r) == rows[r][Len(rows[r])]
IsLive(row) == row.status \notin ActionFinal
HasLive(r) == \E i \in Attempts(r) : IsLive(rows[r][i])

\* The previously ran action: the latest row in a final status, 0 if none.
Finished(r) == {i \in Attempts(r) : ~IsLive(rows[r][i])}
Previous(r) == IF Finished(r) = {} THEN 0
               ELSE CHOOSE i \in Finished(r) : \A j \in Finished(r) : j <= i

Least(S) == IF S = {} THEN 0 ELSE CHOOSE i \in S : \A j \in S : i <= j

\* findNextActionWithFilter over the steps after i
NextFiltered(steps, i) == Least({j \in DOMAIN steps : j > i /\ steps[j].filter})

\* Mutants of NextAfter: one retry too many; a failure that skips no step.
NextAfterOneMore(steps, last) ==
  IF last.status = "failed" /\ last.count <= steps[last.step].retry THEN last.step
  ELSE IF last.step = Len(steps) THEN 0
  ELSE IF last.status = "failed" THEN NextFiltered(steps, last.step)
  ELSE last.step + 1
NextAfterAnyway(steps, last) ==
  IF last.status = "failed" /\ last.count < steps[last.step].retry THEN last.step
  ELSE IF last.step = Len(steps) THEN 0
  ELSE last.step + 1

\* GetNextActionToRun after the row last; 0 when no step is left.
NextAfter(steps, last) ==
  IF last.status = "failed" /\ last.count < steps[last.step].retry THEN last.step
  ELSE IF last.step = Len(steps) THEN 0
  ELSE IF last.status = "failed" THEN NextFiltered(steps, last.step)
  ELSE last.step + 1

NextStep(r) == IF Previous(r) = 0 THEN 1
               ELSE NextAfter(Steps(r), rows[r][Previous(r)])

IsRetrying(r) == /\ Previous(r) # 0
                 /\ rows[r][Previous(r)].step = NextStep(r)
----------------------------------------------------------------------------
(* Updates of the run row shared by several operations.                    *)

SetRun(r, status) == run' = [run EXCEPT ![r] = status]

\* duty: an action that ends puts its run back in the queue.
Reschedule(r) == IF run[r] \in RescheduleFrom THEN SetRun(r, "scheduled")
                 ELSE UNCHANGED run

\* An action row ends with an outcome and its run is rescheduled.
EndRow(r, i, outcome) ==
  /\ rows' = [rows EXCEPT ![r][i].status = outcome]
  /\ Reschedule(r)

\* duty: run.Delay and run.Retry move scheduled_time into the future, and the
\* timeout is measured from scheduled_time.
Postpone(r, status) ==
  /\ SetRun(r, status)
  /\ expired' = [expired EXCEPT ![r] = FALSE]
  /\ UNCHANGED rows

\* duty: run.StartAction, run.RetryAction and run.Assign add the row and move
\* the run out of the monitored statuses.  Assign takes no retry count.
StartStep(r, s) ==
  LET onAgent == Steps(r)[s].agent
      count == IF IsRetrying(r) /\ ~onAgent THEN rows[r][Previous(r)].count + 1 ELSE 0
  IN /\ Len(rows[r]) < MaxRows
     /\ rows' = [rows EXCEPT ![r] = Append(@,
                  [step |-> s, count |-> count, agent |-> onAgent, ran |-> 0, lost |-> 0,
                   status |-> IF onAgent THEN "waiting" ELSE "scheduled"])]
     /\ SetRun(r, IF onAgent THEN "waiting" ELSE "running")
     /\ UNCHANGED expired

\* duty: run.End computes the exit status from the rows.
ExitStatus(r) == IF \E i \in Attempts(r) : rows[r][i].status = "failed"
                 THEN {"completed", "failed"} ELSE {"completed"}
----------------------------------------------------------------------------
(* The life of a run row.                                                  *)

Create(r) ==
  /\ run[r] = "none"
  /\ SetRun(r, IF req[r].approval THEN "pending_approval" ELSE "scheduled")
  /\ UNCHANGED <<req, rows, expired, parents, claims, cancels, overdue, aborts>>

\* Mutant of Approve: it does not look at the status of the run.
ApproveBlindly(r) ==
  /\ run[r] # "none"
  /\ SetRun(r, "scheduled")
  /\ UNCHANGED <<req, rows, expired, parents, claims, cancels, overdue, aborts>>

Approve(r) ==
  /\ run[r] = "pending_approval"
  /\ SetRun(r, "scheduled")
  /\ UNCHANGED <<req, rows, expired, parents, claims, cancels, overdue, aborts>>

\* Mutant of Selected: waiting runs are monitored too.
SelectedWaiting(r) == run[r] \in Monitored \cup {"waiting"} /\ ~expired[r] /\ ~req[r].pinned

\* The row that RunConsumer's query selects.  A run pinned to an agent
\* (playbook_runs.agent_id) is not selected.
Selected(r) == run[r] \in Monitored /\ ~expired[r] /\ ~req[r].pinned

ScheduleRun(r) ==
  LET s == NextStep(r) IN
  /\ Selected(r)
  /\ IF s = 0 THEN /\ \E status \in ExitStatus(r) : SetRun(r, status)
                   /\ UNCHANGED <<rows, expired>>
     ELSE IF IsRetrying(r) /\ run[r] # "retrying" /\ Steps(r)[s].wait
     THEN Postpone(r, "retrying")
     ELSE IF Steps(r)[s].delay /\ run[r] # "sleeping"
     THEN Postpone(r, "sleeping")
     ELSE StartStep(r, s)
  /\ UNCHANGED <<req, parents, claims, cancels, overdue, aborts>>

\* failOrRetryRun: an error other than the database's fails the run (a delay
\* that does not parse, no agent found); a database error rolls back.
FailSchedule(r) ==
  /\ Selected(r)
  /\ SetRun(r, "failed")
  /\ UNCHANGED <<req, rows, expired, parents, claims, cancels, overdue, aborts>>

\* HandlePlaybookRunCancel loads the run and checks it ...
CancelCheck(r) ==
  /\ run[r] \notin RunFinal \cup {"none"}
  /\ r \notin cancels
  /\ cancels' = cancels \cup {r}
  /\ UNCHANGED <<req, run, rows, expired, parents, claims, overdue, aborts>>

\* ... and then updates whatever the run has become.
CancelWrite(r) ==
  /\ r \in cancels
  /\ SetRun(r, "cancelled")
  /\ cancels' = cancels \ {r}
  /\ UNCHANGED <<req, rows, expired, parents, claims, overdue, aborts>>

\* The clock passes the run's timeout.
Expire(r) ==
  /\ run[r] \in Executing /\ req[r].timed /\ ~expired[r]
  /\ expired' = [expired EXCEPT ![r] = TRUE]
  /\ UNCHANGED <<req, run, rows, parents, claims, cancels, overdue, aborts>>

\* Mutant of TimeoutScan: runs that wait for an agent are forgotten.
TimeoutScanLocal ==
  /\ overdue = {}
  /\ overdue' = {r \in Runs : expired[r] /\ run[r] \in Executing \ {"waiting"}}
  /\ overdue' # {}
  /\ UNCHANGED <<req, run, rows, expired, parents, claims, cancels, aborts>>

\* MarkTimedOutPlaybookRuns reads all runs past their timeout, then ends each.
TimeoutScan ==
  /\ overdue = {}
  /\ overdue' = {r \in Runs : expired[r] /\ run[r] \in Executing}
  /\ overdue' # {}
  /\ UNCHANGED <<req, run, rows, expired, parents, claims, cancels, aborts>>

TimeoutMark(r) ==
  /\ r \in overdue
  /\ SetRun(r, "timed_out")
  /\ overdue' = overdue \ {r}
  /\ UNCHANGED <<req, rows, expired, parents, claims, cancels, aborts>>
----------------------------------------------------------------------------
(* ActionConsumer: one transaction per local action.                       *)

\* Mutant of Locked: rows are read without a lock.
LockedNever(r, i) == FALSE

Locked(r, i) == \E c \in Consumers : claims[c] # NoClaim /\ claims[c].run = r /\ claims[c].row = i

Release(c) == claims' = [claims EXCEPT ![c] = NoClaim]

\* getNextAction (FOR UPDATE SKIP LOCKED), then action.GetRun
ClaimAction(c, r, i) ==
  /\ claims[c] = NoClaim
  /\ rows[r][i].status = "scheduled" /\ ~rows[r][i].agent
  /\ ~Locked(r, i)
  /\ claims' = [claims EXCEPT ![c] = [phase |-> "claimed", run |-> r, row |-> i,
                                      cancelled |-> run[r] = "cancelled"]]
  /\ UNCHANGED <<req, run, rows, expired, parents, cancels, overdue, aborts>>

Holds(c, phase) == claims[c].phase = phase

\* skipCancelledAction does not reschedule the run.
SkipCancelled(c) ==
  /\ Holds(c, "claimed") /\ claims[c].cancelled
  /\ rows' = [rows EXCEPT ![claims[c].run][claims[c].row].status = "skipped"]
  /\ Release(c)
  /\ UNCHANGED <<req, run, expired, parents, cancels, overdue, aborts>>

\* Mutant of EndUnrun: an action whose filter says so is skipped and its run is
\* left as it is.
EndUnrunSilently(c) ==
  LET r == claims[c].run  i == claims[c].row IN
  /\ Holds(c, "claimed") /\ ~claims[c].cancelled
  /\ \E outcome \in {"failed", "skipped"} :
       /\ outcome = "skipped" => Steps(r)[rows[r][i].step].filter
       /\ rows' = [rows EXCEPT ![r][i].status = outcome]
       /\ IF outcome = "failed" THEN Reschedule(r) ELSE UNCHANGED run
  /\ Release(c)
  /\ UNCHANGED <<req, expired, parents, cancels, overdue, aborts>>

\* The action ends before it has run: its filter says so, or templating fails.
EndUnrun(c) ==
  LET r == claims[c].run  i == claims[c].row IN
  /\ Holds(c, "claimed") /\ ~claims[c].cancelled
  /\ \E outcome \in {"failed", "skipped"} :
       /\ outcome = "skipped" => Steps(r)[rows[r][i].step].filter
       /\ EndRow(r, i, outcome)
  /\ Release(c)
  /\ UNCHANGED <<req, expired, parents, cancels, overdue, aborts>>

\* Mutant of Execute: the run's cancellation is not looked at.
ExecuteCancelled(c) ==
  /\ Holds(c, "claimed")
  /\ claims' = [claims EXCEPT ![c].phase = "executed"]
  /\ rows' = [rows EXCEPT ![claims[c].run][claims[c].row].ran = @ + 1]
  /\ UNCHANGED <<req, run, expired, parents, cancels, overdue, aborts>>

\* executeAction: what it does outside the database is not rolled back.
Execute(c) ==
  /\ Holds(c, "claimed") /\ ~claims[c].cancelled
  /\ claims' = [claims EXCEPT ![c].phase = "executed"]
  /\ rows' = [rows EXCEPT ![claims[c].run][claims[c].row].ran = @ + 1]
  /\ UNCHANGED <<req, run, expired, parents, cancels, overdue, aborts>>

\* ExecuteAndSaveAction saves the result and the transaction commits.
Commit(c) ==
  LET r == claims[c].run  i == claims[c].row IN
  /\ Holds(c, "executed")
  /\ \E outcome \in {"completed", "failed"} : EndRow(r, i, outcome)
  /\ Release(c)
  /\ UNCHANGED <<req, expired, parents, cancels, overdue, aborts>>

\* An AI action that has triggered child runs waits for them.
WaitForChildren(c) ==
  LET r == claims[c].run  i == claims[c].row IN
  /\ Holds(c, "executed")
  /\ Steps(r)[rows[r][i].step].children /\ r \notin parents
  /\ rows' = [rows EXCEPT ![r][i].status = "waiting_children"]
  /\ parents' = parents \cup {r}
  /\ Release(c)
  /\ UNCHANGED <<req, run, expired, cancels, overdue, aborts>>

\* duty: ResumeChildrenWaitingAction puts the action back in the queue, to be
\* executed once more.
ResumeChildren(r, i) ==
  /\ rows[r][i].status = "waiting_children"
  /\ rows' = [rows EXCEPT ![r][i].status = "scheduled",
                            ![r][i].ran = 0, ![r][i].lost = 0]
  /\ UNCHANGED <<req, run, expired, parents, claims, cancels, overdue, aborts>>

\* The transaction rolls back: a crash, or an error that RunAction returns.
Abort(c) ==
  /\ claims[c] # NoClaim
  /\ aborts < MaxAborts
  /\ aborts' = aborts + 1
  /\ rows' = [rows EXCEPT ![claims[c].run][claims[c].row].lost =
                 IF Holds(c, "executed") THEN @ + 1 ELSE @]
  /\ Release(c)
  /\ UNCHANGED <<req, run, expired, parents, cancels, overdue>>
----------------------------------------------------------------------------
(* Actions assigned to an agent, as the upstream sees them.                *)

\* _getActionForAgent hands the action out, unless the run is cancelled.
AgentPoll(r, i) ==
  /\ rows[r][i].status = "waiting"
  /\ rows' = [rows EXCEPT ![r][i].status = IF run[r] = "cancelled" THEN "skipped" ELSE "running"]
  /\ UNCHANGED <<req, run, expired, parents, claims, cancels, overdue, aborts>>

\* getActionForAgent fails the action when templating it fails.
AgentTemplateError(r, i) ==
  /\ rows[r][i].status = "waiting" /\ run[r] # "cancelled"
  /\ EndRow(r, i, "failed")
  /\ UNCHANGED <<req, expired, parents, claims, cancels, overdue, aborts>>

\* The agent pushes the final status of the action (PushPlaybookActions).
AgentResult(r, i) ==
  /\ rows[r][i].status = "running"
  /\ \E outcome \in ActionFinal :
       /\ outcome = "skipped" => Steps(r)[rows[r][i].step].filter
       /\ EndRow(r, i, outcome)
  /\ UNCHANGED <<req, expired, parents, claims, cancels, overdue, aborts>>
----------------------------------------------------------------------------
RunNext(r) ==
  \/ Create(r) \/ Approve(r)
  \/ ScheduleRun(r) \/ FailSchedule(r)
  \/ CancelCheck(r) \/ CancelWrite(r)
  \/ Expire(r) \/ TimeoutMark(r)

RowNext(r, i) ==
  \/ \E c \in Consumers : ClaimAction(c, r, i)
  \/ ResumeChildren(r, i)
  \/ AgentPoll(r, i) \/ AgentTemplateError(r, i) \/ AgentResult(r, i)

ConsumerNext(c) ==
  \/ SkipCancelled(c) \/ EndUnrun(c) \/ Execute(c)
  \/ Commit(c) \/ WaitForChildren(c) \/ Abort(c)

Next ==
  \/ \E r \in Runs : RunNext(r)
  \/ \E r \in Runs : \E i \in Attempts(r) : RowNext(r, i)
  \/ \E c \in Consumers : ConsumerNext(c)
  \/ TimeoutScan

Spec == Init /\ [][Next]_vars

(***************************************************************************)
(* Fairness.  The consumers poll at least once a minute and on every       *)
(* pg_notify, oldest first, so a selected run and a claimable action are   *)
(* taken and a transaction goes on to its end or aborts; the timeout job   *)
(* runs every 30s; child runs end by themselves and resume their parent.   *)
(* The clock only reaches the timeout of a run that stays in a status that *)
(* does not move scheduled_time: a postponed run starts its timeout again. *)
(* Nothing is assumed of people (approval, cancel) and of agents.          *)
(***************************************************************************)
Fairness ==
  /\ \A r \in Runs :
       /\ WF_vars(ScheduleRun(r))
       /\ WF_vars(Expire(r) /\ run[r] \notin {"retrying", "sleeping"})
       /\ WF_vars(TimeoutMark(r))
       /\ WF_vars(\E c \in Consumers, i \in Attempts(r) : ClaimAction(c, r, i))
       /\ WF_vars(\E i \in Attempts(r) : ResumeChildren(r, i))
  /\ WF_vars(TimeoutScan)
  /\ \A c \in Consumers : WF_vars(ConsumerNext(c))

FairSpec == Spec /\ Fairness
----------------------------------------------------------------------------
(* Properties.                                                             *)

\* A run has at most one action that is queued, assigned, running or waiting
\* for children, whatever consumers, cancels and timeouts do meanwhile.
OneLiveAction ==
  \A r \in Runs : \A i, j \in Attempts(r) :
    IsLive(rows[r][i]) /\ IsLive(rows[r][j]) => i = j

\* What makes it so: a live row is the latest of its run and its run is not one
\* that RunConsumer or an approval could move; a transaction of the action
\* consumer holds a row that is still queued, and no row is held twice.
LiveIsLatest ==
  \A r \in Runs : \A i \in Attempts(r) :
    IsLive(rows[r][i]) => i = Len(rows[r]) /\ run[r] \in {"running", "waiting"} \cup RunFinal
ClaimsHold ==
  \A c \in Consumers : claims[c] # NoClaim =>
    /\ claims[c].row \in Attempts(claims[c].run)
    /\ rows[claims[c].run][claims[c].row].status = "scheduled"
ClaimsDisjoint ==
  \A c, d \in Consumers :
    claims[c] # NoClaim /\ claims[d] # NoClaim /\ c # d =>
      <<claims[c].run, claims[c].row>> # <<claims[d].run, claims[d].row>>
StepsInRange == \A r \in Runs : \A i \in Attempts(r) : rows[r][i].step \in DOMAIN Steps(r)
EngineInv == TypeOK /\ LiveIsLatest /\ ClaimsHold /\ ClaimsDisjoint /\ StepsInRange

\* The attempts follow the spec: after a success or a skip comes the next step,
\* after a failure only a retry of the step or a later step with a filter.
StepOrder ==
  \A r \in Runs : \A i \in Attempts(r) \ {1} :
    LET before == rows[r][i - 1]  this == rows[r][i] IN
    IF before.status = "failed"
    THEN \/ this.step = before.step /\ Steps(r)[this.step].retry > 0
         \/ this.step > before.step /\ Steps(r)[this.step].filter
    ELSE this.step = before.step + 1

AttemptsOf(r, s) == {i \in Attempts(r) : rows[r][i].step = s}

\* "With limit = 3, there will be a max of 4 attempts for the action": the
\* documented bound on the attempts of every step, wherever it runs.
RetryLimit ==
  \A r \in Runs : \A s \in DOMAIN Steps(r) :
    Cardinality(AttemptsOf(r, s)) <= Steps(r)[s].retry + 1

\* The same bound for the steps that run on the upstream itself.
LocalRetryLimit ==
  \A r \in Runs : \A s \in DOMAIN Steps(r) :
    ~Steps(r)[s].agent => Cardinality(AttemptsOf(r, s)) <= Steps(r)[s].retry + 1

\* A run that has ended gets no new action and never leaves the final statuses,
\* even when an action of it that was still executing ends later.
EndedStaysEnded ==
  [][\A r \in Runs : run[r] \in RunFinal =>
       run'[r] \in RunFinal /\ Len(rows'[r]) = Len(rows[r])]_vars

\* The recorded outcome of an action is never overwritten: no two consumers
\* commit the same row, and no late answer of an agent changes it.
OutcomeKept ==
  [][\A r \in Runs : \A i \in Attempts(r) :
       ~IsLive(rows[r][i]) => rows'[r][i].status = rows[r][i].status]_vars

\* A run that RunConsumer does not look at has an action that somebody does: the
\* consumers or, for its children, duty when it executes, and the agent's poll
\* and push when it waits.  No cancel, timeout or skipped action strands it.
Attended ==
  \A r \in Runs :
    /\ run[r] = "running" => \E i \in Attempts(r) :
         ~rows[r][i].agent /\ rows[r][i].status \in {"scheduled", "waiting_children"}
    /\ run[r] = "waiting" => \E i \in Attempts(r) :
         rows[r][i].agent /\ rows[r][i].status \in {"waiting", "running"}

\* A run that executes has one action in flight and somebody who moves it on; no
\* other run has more than one that is left over.
OneAction == OneLiveAction /\ Attended

\* An action is executed once, and once more for every transaction that had
\* executed it and rolled back: no failure, cancel, timeout or second consumer
\* executes an action again whose execution stands.  (An action that waited for
\* its children is queued anew, to be executed once more.)
RepeatsExplained ==
  \A r \in Runs : \A i \in Attempts(r) : rows[r][i].ran <= rows[r][i].lost + 1

Untouched(r, i) == /\ i \in Attempts(r)
                   /\ rows[r][i].status \in {"scheduled", "waiting"}
                   /\ rows[r][i].ran = 0 /\ ~Locked(r, i)
Begun(r, i) == i \in Attempts(r) /\ (rows[r][i].ran > 0 \/ rows[r][i].status = "running")

\* An action nobody has picked up when its run is cancelled is never executed.
\* This needs a run without a timeout: MarkTimedOutPlaybookRuns may overwrite
\* cancelled with timed_out, and only cancelled stops a queued action.
CancelHonoured ==
  \A r \in Runs, i \in 1 .. MaxRows :
    [](run[r] = "cancelled" /\ ~req[r].timed /\ Untouched(r, i) => []~Begun(r, i))

\* A step that may be postponed for ever once it has failed, each time moving
\* scheduled_time so that no timeout is reached either: the delay of a step and
\* the wait of its retry take turns without an attempt between them, and the
\* attempts on an agent are not counted, so either of the two is enough there.
Endless(step) ==
  /\ step.retry > 0
  /\ \/ step.wait /\ step.delay
     \/ step.agent /\ (step.wait \/ step.delay)

\* A run that has no such step, and that waits for no agent or has a timeout, ends.
WillEnd(r) ==
  /\ \A s \in DOMAIN Steps(r) : ~Endless(Steps(r)[s])
  /\ \/ req[r].timed
     \/ ~req[r].pinned /\ \A s \in DOMAIN Steps(r) : ~Steps(r)[s].agent
RunEnds == \A r \in Runs : run[r] \in Executing /\ WillEnd(r) ~> run[r] \in RunFinal

\* "Limit is the number of times to retry the action": an action that failed
\* with retries left is attempted again, unless the run ends.
RetryDue(r, n) == /\ Len(rows[r]) = n /\ ~HasLive(r) /\ n > 0
                  /\ IsRetrying(r) /\ run[r] \in Monitored
RetryHappens ==
  \A r \in Runs, n \in 1 .. MaxRows :
    RetryDue(r, n) ~> (Len(rows[r]) > n \/ run[r] \in RunFinal)
----------------------------------------------------------------------------
(* What a run promises: see StepRunner.                                    *)

Phase(r) == CASE run[r] \in {"none", "pending_approval"} -> "new"
              [] run[r] \in RunFinal -> "done"
              [] OTHER -> IF HasLive(r) THEN "busy" ELSE "idle"
Position(r) == IF rows[r] = <<>> THEN 0 ELSE LastRow(r).step

Promise == INSTANCE StepRunner WITH
             Lengths <- [r \in Runs |-> Len(Steps(r))],
             phase <- [r \in Runs |-> Phase(r)],
             position <- [r \in Runs |-> Position(r)]
ImplementsPromise == Promise!Spec

\* What the upstream shows of the actions that run on agents: see AgentAction.
AgentRow(r, i) == i \in Attempts(r) /\ rows[r][i].agent
AgentRows == INSTANCE AgentAction WITH
               Actions <- Runs \X (1 .. MaxRows),
               status <- [a \in Runs \X (1 .. MaxRows) |->
                            IF AgentRow(a[1], a[2]) THEN rows[a[1]][a[2]].status ELSE "none"],
               cancelled <- {a \in Runs \X (1 .. MaxRows) : run[a[1]] = "cancelled"}
RowsKeepContract == AgentRows!Spec
=============================================================================
