---------------------------- MODULE PlaybookAgent ----------------------------
(***************************************************************************)
(* The steps of playbooks that run on an agent.  The upstream hands a      *)
(* waiting action out to the agent's long poll (playbook/runner/agent.go), *)
(* the agent saves it in its own database, executes it                     *)
(* (playbook/run_consumer.go) and pushes its outcome back                  *)
(* (playbook/jobs.go) and the artifacts it left (artifacts/jobs.go).       *)
(*                                                                         *)
(* Each database is transactional, the request between the two is not: an  *)
(* answer may be lost after the upstream has committed it, either side may *)
(* restart between any two steps, and what is marked as pushed is marked   *)
(* after it was pushed.                                                    *)
(***************************************************************************)
EXTENDS Naturals

CONSTANTS
  MaxActions,   \* bound: actions for the agent
  Polls,        \* requests of the agent that the upstream is answering
  Consumers,    \* goroutines of ActionAgentConsumer
  Pushers,      \* runs of PushPlaybookActions, which is no singleton
  Syncers,      \* runs of SyncArtifactItems, which is none either
  Kinds,        \* the kinds of actions there may be (see KindsAssumption)
  Producing,    \* the actions that leave an artifact
  None,
  MaxFaults     \* bound: requests and transactions that fail, and restarts

\* Actions by their scheduled time.
Actions == 1 .. MaxActions

ASSUME ConstantsAssumption ==
  /\ MaxActions \in Nat /\ MaxFaults \in Nat /\ None \notin Actions /\ None \notin Polls

\* The templates of an action work, or fail at the upstream or on the agent; an
\* action may also never come.
ASSUME KindsAssumption == Kinds \subseteq [Actions -> {"plain", "garbled", "poison", "absent"}]

VARIABLES
  pulls,      \* the agent is set to pull actions
  kind,       \* kind[a]: where its templates fail
  up,         \* up[a]: status of the action's row at the upstream
  cancelled,  \* actions whose run was cancelled
  bell,       \* a notification that an action waits is on its way
  poll,       \* poll[p]: the handler of the poll and what it answers
  asking,     \* the poll the agent waits for, or None
  row,        \* row[a]: status of the action's row at the agent
  claim,      \* claim[k]: the action that consumer k has locked, or None
  pushed,     \* actions marked as pushed
  push,       \* push[j]: what a run of PushPlaybookActions has read or sent
  artifact,   \* artifact[a]: how far the artifact of the action has got
  uploaded,   \* artifacts whose data the upstream has
  sync,       \* sync[s]: artifacts that a run of SyncArtifactItems has read
  handed,     \* handed[a]: how often the action was handed out (history)
  faults

upVars == <<up, cancelled, bell, poll, handed>>
agentVars == <<asking, row, claim>>
pushVars == <<pushed, push>>
artifactVars == <<artifact, uploaded, sync>>
setup == <<pulls, kind>>
vars == <<setup, upVars, agentVars, pushVars, artifactVars, faults>>

Final == {"completed", "failed", "skipped"}
Free == [pc |-> "free"]
Listening == [pc |-> "listening"]
Poll == {Free, Listening} \cup [pc : {"reply"}, action : Actions \cup {None}]
Push == [pc : {"idle"}] \cup [pc : {"read", "sent"}, batch : SUBSET Actions]

TypeOK ==
  /\ pulls \in BOOLEAN /\ kind \in Kinds
  /\ up \in [Actions -> Final \cup {"none", "waiting", "running"}]
  /\ row \in [Actions -> Final \cup {"none", "waiting"}]
  /\ cancelled \subseteq Actions /\ bell \in BOOLEAN
  /\ poll \in [Polls -> Poll] /\ asking \in Polls \cup {None}
  /\ claim \in [Consumers -> Actions \cup {None}]
  /\ \A j, k \in Consumers : claim[j] = claim[k] /\ claim[j] # None => j = k
  /\ pushed \subseteq Actions /\ push \in [Pushers -> Push]
  /\ artifact \in [Actions -> {"none", "saved", "pushed", "done"}]
  /\ uploaded \subseteq Actions /\ sync \in [Syncers -> SUBSET Actions]
  /\ handed \in [Actions -> Nat] /\ faults \in Nat

Init ==
  /\ pulls \in BOOLEAN /\ kind \in Kinds
  /\ up = [a \in Actions |-> "none"] /\ row = [a \in Actions |-> "none"]
  /\ cancelled = {} /\ bell = FALSE
  /\ poll = [p \in Polls |-> Free] /\ asking = None
  /\ claim = [k \in Consumers |-> None]
  /\ pushed = {} /\ push = [j \in Pushers |-> [pc |-> "idle"]]
  /\ artifact = [a \in Actions |-> "none"] /\ uploaded = {}
  /\ sync = [s \in Syncers |-> {}]
  /\ handed = [a \in Actions |-> 0]
  /\ faults = 0
----------------------------------------------------------------------------
First(actions) == CHOOSE a \in actions : \A b \in actions : a <= b
At(p, pc) == poll[p].pc = pc
Say(p, answer) == poll' = [poll EXCEPT ![p] = [pc |-> "reply", action |-> answer]]
Fault == faults < MaxFaults /\ faults' = faults + 1
----------------------------------------------------------------------------
(* The upstream: rows of actions.                                          *)

\* The scheduler of the run assigns the action to the agent (PlaybookRun).
Assign(a) ==
  /\ up[a] = "none" /\ kind[a] # "absent"
  /\ \A b \in Actions : b < a => up[b] # "none"
  /\ up' = [up EXCEPT ![a] = "waiting"]
  /\ bell' = TRUE
  /\ UNCHANGED <<setup, cancelled, poll, handed, agentVars, pushVars, artifactVars, faults>>

\* The run is cancelled (PlaybookRun).
Cancel(a) ==
  /\ up[a] = "waiting" /\ a \notin cancelled
  /\ cancelled' = cancelled \cup {a}
  /\ UNCHANGED <<setup, up, bell, poll, handed, agentVars, pushVars, artifactVars, faults>>
----------------------------------------------------------------------------
(* The poll: the agent asks, a handler of the upstream answers.            *)

Waiting == {a \in Actions : up[a] = "waiting"}

\* Mutant of Void: the run's cancellation is not looked at.
VoidUnlessCancelled(a) == kind[a] = "garbled"

Void(a) == a \in cancelled \/ kind[a] = "garbled"

\* Mutant of HandOut: the action is not marked as running.
HandOutUnmarked(p, a) ==
  /\ up' = up
  /\ handed' = [handed EXCEPT ![a] = @ + 1]
  /\ Say(p, a)

\* _getActionForAgent marks the action as running and answers with it.
HandOut(p, a) ==
  /\ up' = [up EXCEPT ![a] = "running"]
  /\ handed' = [handed EXCEPT ![a] = @ + 1]
  /\ Say(p, a)

\* getActionForAgent, in one transaction: the first waiting action.  One whose
\* run was cancelled is skipped and one whose templates fail has failed; then,
\* as when none waits, there is nothing for the agent.
Check(p, nothing) ==
  LET a == First(Waiting) IN
  \/ Waiting # {} /\ ~Void(a) /\ HandOut(p, a)
  \/ /\ Waiting # {} /\ Void(a)
     /\ up' = [up EXCEPT ![a] = IF a \in cancelled THEN "skipped" ELSE "failed"]
     /\ poll' = [poll EXCEPT ![p] = nothing]
     /\ UNCHANGED handed
  \/ /\ Waiting = {}
     /\ poll' = [poll EXCEPT ![p] = nothing]
     /\ UNCHANGED <<up, handed>>

\* RunPullPlaybookActionsJob asks again as soon as it is done with an answer.
Ask(p) ==
  /\ pulls /\ asking = None /\ At(p, "free")
  /\ asking' = p
  /\ Check(p, Listening)
  /\ UNCHANGED <<setup, cancelled, bell, row, claim, pushVars, artifactVars, faults>>

\* The notification reaches a handler that listens, and it checks again, ...
Wake(p) ==
  /\ bell /\ At(p, "listening")
  /\ bell' = FALSE
  /\ Check(p, [pc |-> "reply", action |-> None])
  /\ UNCHANGED <<setup, cancelled, agentVars, pushVars, artifactVars, faults>>

\* ... or none, as when it comes between the first check and the listening.
Miss ==
  /\ bell
  /\ bell' = FALSE
  /\ UNCHANGED <<setup, up, cancelled, poll, handed, agentVars, pushVars, artifactVars, faults>>

\* Mutant of Timeout: the handler listens until it is notified.
TimeoutNever(p) == FALSE /\ UNCHANGED vars

Timeout(p) ==
  /\ At(p, "listening")
  /\ Say(p, None)
  /\ UNCHANGED <<setup, up, cancelled, bell, handed, agentVars, pushVars, artifactVars, faults>>

\* The check of a handler whose client is gone may find its context cancelled.
Abandon(p) ==
  /\ bell /\ At(p, "listening") /\ asking # p
  /\ bell' = FALSE
  /\ poll' = [poll EXCEPT ![p] = Free]
  /\ UNCHANGED <<setup, up, cancelled, handed, agentVars, pushVars, artifactVars, faults>>

\* The connection breaks while the upstream is at it.
GiveUp ==
  /\ asking # None
  /\ Fault
  /\ asking' = None
  /\ UNCHANGED <<setup, upVars, row, claim, pushVars, artifactVars>>

\* The answer reaches nobody, or the agent, and PullPlaybookAction saves the
\* action, which is still waiting in the answer, and its data.
Reply(p) ==
  /\ At(p, "reply")
  /\ poll' = [poll EXCEPT ![p] = Free]
  /\ IF asking = p
     THEN /\ asking' = None
          /\ row' = [a \in Actions |-> IF a = poll[p].action THEN "waiting" ELSE row[a]]
     ELSE UNCHANGED <<asking, row>>
  /\ UNCHANGED <<setup, up, cancelled, bell, handed, claim, pushVars, artifactVars, faults>>

\* The transaction that saves it fails: the action is lost.
SaveFails(p) ==
  /\ At(p, "reply") /\ asking = p
  /\ Fault
  /\ poll' = [poll EXCEPT ![p] = Free]
  /\ asking' = None
  /\ UNCHANGED <<setup, up, cancelled, bell, handed, row, claim, pushVars, artifactVars>>
----------------------------------------------------------------------------
(* The agent: executing.                                                   *)

Claimed == {claim[k] : k \in Consumers} \ {None}

\* Mutant of Runnable: rows that are done are found as well.
RunnableAgain == {a \in Actions : row[a] # "none"} \ Claimed

\* getNextActionForAgent: the rows that no other transaction has locked.
Runnable == {a \in Actions : row[a] = "waiting"} \ Claimed

Claim(k) ==
  /\ claim[k] = None /\ Runnable # {}
  /\ claim' = [claim EXCEPT ![k] = First(Runnable)]
  /\ UNCHANGED <<setup, asking, row, upVars, pushVars, artifactVars, faults>>

\* ExecuteAndSaveAction executes the action and commits its outcome with its
\* artifact.
Execute(k) ==
  LET a == claim[k] IN
  /\ a # None /\ kind[a] # "poison"
  /\ \E outcome \in Final :
       /\ row' = [row EXCEPT ![a] = outcome]
       /\ artifact' = IF outcome = "completed" /\ a \in Producing
                      THEN [artifact EXCEPT ![a] = "saved"] ELSE artifact
  /\ claim' = [claim EXCEPT ![k] = None]
  /\ UNCHANGED <<setup, asking, uploaded, sync, upVars, pushVars, faults>>

\* getActionSpec fails: the transaction rolls back, and the row still waits.
Refuse(k) ==
  /\ claim[k] # None /\ kind[claim[k]] = "poison"
  /\ claim' = [claim EXCEPT ![k] = None]
  /\ UNCHANGED <<setup, asking, row, upVars, pushVars, artifactVars, faults>>

\* The transaction fails, whether or not the action was executed.
Abort(k) ==
  /\ claim[k] # None
  /\ Fault
  /\ claim' = [claim EXCEPT ![k] = None]
  /\ UNCHANGED <<setup, asking, row, upVars, pushVars, artifactVars>>
----------------------------------------------------------------------------
(* The agent: pushing outcomes.                                            *)

Unpushed == {a \in Actions : row[a] \in Final} \ pushed

\* PushPlaybookActions reads some of what is not pushed, ...
PushRead(j) ==
  /\ push[j].pc = "idle" /\ Unpushed # {}
  /\ \E batch \in SUBSET Unpushed \ {{}} : push' = [push EXCEPT ![j] = [pc |-> "read", batch |-> batch]]
  /\ UNCHANGED <<setup, pushed, upVars, agentVars, artifactVars, faults>>

\* The push handler of the upstream stores the rows.
Stored(batch) == [a \in Actions |-> IF a \in batch THEN row[a] ELSE up[a]]

\* ... sends it, ...
PushSend(j) ==
  /\ push[j].pc = "read"
  /\ up' = Stored(push[j].batch)
  /\ push' = [push EXCEPT ![j].pc = "sent"]
  /\ UNCHANGED <<setup, cancelled, bell, poll, handed, pushed, agentVars, artifactVars, faults>>

\* Mutant of PushMark: whatever is not pushed by now is marked.
PushMarkAll(j) ==
  /\ push[j].pc = "sent"
  /\ pushed' = pushed \cup Unpushed
  /\ push' = [push EXCEPT ![j] = [pc |-> "idle"]]
  /\ UNCHANGED <<setup, upVars, agentVars, artifactVars, faults>>

\* ... and marks what it has read.
PushMark(j) ==
  /\ push[j].pc = "sent"
  /\ pushed' = pushed \cup push[j].batch
  /\ push' = [push EXCEPT ![j] = [pc |-> "idle"]]
  /\ UNCHANGED <<setup, upVars, agentVars, artifactVars, faults>>

\* The push fails, before or after the upstream has stored it, or the mark.
PushFails(j) ==
  /\ push[j].pc # "idle"
  /\ Fault
  /\ push' = [push EXCEPT ![j] = [pc |-> "idle"]]
  /\ up' \in {up, Stored(push[j].batch)}
  /\ UNCHANGED <<setup, cancelled, bell, poll, handed, pushed, agentVars, artifactVars>>
----------------------------------------------------------------------------
(* The agent: pushing artifacts.                                           *)

\* duty: ReconcileAll pushes the record of the artifact and marks it.
PushRecord(a) ==
  /\ artifact[a] = "saved"
  /\ artifact' = [artifact EXCEPT ![a] = "pushed"]
  /\ UNCHANGED <<setup, uploaded, sync, upVars, agentVars, pushVars, faults>>

\* Mutant of Unsynced: it does not ask whether the record is there.
UnsyncedAny == {a \in Actions : artifact[a] \in {"saved", "pushed"}}

Unsynced == {a \in Actions : artifact[a] = "pushed"}

\* SyncArtifactItems reads what is to be pushed; its lock ends with the query.
SyncRead(s) ==
  /\ sync[s] = {} /\ Unsynced # {}
  /\ sync' = [sync EXCEPT ![s] = Unsynced]
  /\ UNCHANGED <<setup, artifact, uploaded, upVars, agentVars, pushVars, faults>>

\* artifactsPushHandler writes the data of the next one, and it is marked, ...
SyncOne(s) ==
  LET a == First(sync[s]) IN
  /\ sync[s] # {}
  /\ uploaded' = uploaded \cup {a}
  /\ artifact' = [artifact EXCEPT ![a] = "done"]
  /\ sync' = [sync EXCEPT ![s] = @ \ {a}]
  /\ UNCHANGED <<setup, upVars, agentVars, pushVars, faults>>

\* Mutant of SyncFails: the artifact is marked before it is pushed.
SyncFailsMarked(s) ==
  /\ sync[s] # {}
  /\ Fault
  /\ artifact' = [artifact EXCEPT ![First(sync[s])] = "done"]
  /\ sync' = [sync EXCEPT ![s] = {}]
  /\ UNCHANGED <<setup, uploaded, upVars, agentVars, pushVars>>

\* ... or either fails, and then the rest is left to the next run.
SyncFails(s) ==
  /\ sync[s] # {}
  /\ Fault
  /\ uploaded' \in {uploaded, uploaded \cup {First(sync[s])}}
  /\ sync' = [sync EXCEPT ![s] = {}]
  /\ UNCHANGED <<setup, artifact, upVars, agentVars, pushVars>>
----------------------------------------------------------------------------
(* Restarts.                                                               *)

\* The agent keeps its rows.
AgentCrash ==
  /\ Fault
  /\ asking' = None
  /\ claim' = [k \in Consumers |-> None]
  /\ push' = [j \in Pushers |-> [pc |-> "idle"]]
  /\ sync' = [s \in Syncers |-> {}]
  /\ UNCHANGED <<setup, upVars, row, pushed, artifact, uploaded>>

\* So does the upstream, but not the answers of its handlers.
UpstreamRestart ==
  /\ Fault
  /\ poll' = [p \in Polls |-> Free] /\ asking' = None /\ bell' = FALSE
  /\ UNCHANGED <<setup, up, cancelled, handed, row, claim, pushVars, artifactVars>>
----------------------------------------------------------------------------
Handle(p) == Timeout(p) \/ Reply(p)

Next ==
  \/ \E a \in Actions : Assign(a) \/ Cancel(a) \/ PushRecord(a)
  \/ \E p \in Polls : Ask(p) \/ Handle(p) \/ Wake(p) \/ Abandon(p) \/ SaveFails(p)
  \/ Miss \/ GiveUp
  \/ \E k \in Consumers : Claim(k) \/ Execute(k) \/ Refuse(k) \/ Abort(k)
  \/ \E j \in Pushers : PushRead(j) \/ PushSend(j) \/ PushMark(j) \/ PushFails(j)
  \/ \E s \in Syncers : SyncRead(s) \/ SyncOne(s) \/ SyncFails(s)

(***************************************************************************)
(* Fairness.  The pull job loops, handlers answer within the timeout of    *)
(* the long poll, consumers and the jobs that push run every minute.       *)
(* Faults are finitely many.                                               *)
(***************************************************************************)
Fairness ==
  /\ WF_vars(\E p \in Polls : Ask(p))
  /\ \A p \in Polls : WF_vars(Handle(p))
  /\ \A k \in Consumers : WF_vars(Claim(k)) /\ WF_vars(Execute(k) \/ Refuse(k))
  /\ \A j \in Pushers : WF_vars(PushRead(j) \/ PushSend(j) \/ PushMark(j))
  /\ \A a \in Actions : WF_vars(PushRecord(a))
  /\ \A s \in Syncers : WF_vars(SyncRead(s) \/ SyncOne(s))
----------------------------------------------------------------------------
(* Properties.                                                             *)

\* However polls are given up and repeated, an action is handed out once: the
\* agent is never given a second time what it may be executing.
HandedOnce == \A a \in Actions : handed[a] <= 1

\* What the upstream shows as the outcome of an action that it has handed out
\* is the outcome on the agent, even if it was pushed twice or by two runs; and
\* it shows whatever the agent has marked as pushed and will not push again.
Agree ==
  /\ \A a \in Actions : up[a] \in Final /\ handed[a] > 0 => row[a] = up[a]
  /\ \A a \in pushed : up[a] = row[a]

\* An outcome that was committed on the agent stays: a repeated claim, a crash
\* or a poll that is answered late does not bring the action back.
OutcomeStays == [][\A a \in Actions : row[a] \in Final => row'[a] = row[a]]_vars

\* The upstream is never sent the data of an artifact whose record it has not, and
\* has the data of every artifact that is marked as done and not sent again.
DataAfterRecord ==
  /\ \A a \in uploaded : artifact[a] \in {"pushed", "done"}
  /\ \A a \in Actions : artifact[a] = "done" => a \in uploaded

\* No action waits for ever for an agent that polls, although a notification
\* that comes between the check and the listening is lost.
HandedOut == \A a \in Actions : pulls /\ up[a] = "waiting" ~> up[a] # "waiting"

\* An action that the agent has saved ends, and the upstream learns of it,
\* unless its templates, or those of an earlier one, fail on the agent.
Reported ==
  \A a \in Actions : row[a] = "waiting" /\ (\A b \in Actions : kind[b] = "poison" => b > a) ~> up[a] \in Final

\* The rows of the upstream move as AgentAction says.
AgentRows == INSTANCE AgentAction WITH status <- up
UpKeepsContract == AgentRows!Spec

\* The data of every artifact reaches the upstream.
DataArrives == \A a \in Actions : artifact[a] = "saved" ~> a \in uploaded
=============================================================================
