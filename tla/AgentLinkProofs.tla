--------------------------- MODULE AgentLinkProofs ---------------------------
(***************************************************************************)
(* The theorems of AgentLink, for every number of actions, polls,          *)
(* consumers, pushers, syncers, dials, calls and faults.                   *)
(***************************************************************************)
EXTENDS AgentLink, FiniteSetTheorems, WellFoundedInduction, TLAPS

(***************************************************************************)
(* What holds of actions on their way from the upstream to the agent and   *)
(* back.  It is kept apart from the tunnel: the two share only restarts,   *)
(* and neither reads the variables of the other.                           *)
(***************************************************************************)

\* An action is handed out when it stops waiting, and never waits again.
Once == \A a \in Actions :
  /\ handed[a] \in {0, 1}
  /\ up[a] \in {"none", "waiting"} => handed[a] = 0

\* The only answer with an action is under way until the agent has saved it.
Answering == \A p \in Polls : At(p, "reply") /\ poll[p].action # None =>
  /\ handed[poll[p].action] = 1 /\ row[poll[p].action] = "none"
  /\ \A q \in Polls : At(q, "reply") /\ poll[q].action = poll[p].action => q = p

\* The agent has only what it was given.
Given == \A a \in Actions : row[a] # "none" => handed[a] = 1

\* A consumer executes what waits, and a push reads what is over.
Locked == \A k \in Consumers : claim[k] # None => row[claim[k]] = "waiting"
Batched == \A j \in Pushers : push[j].pc # "idle" => \A a \in push[j].batch : row[a] \in Final

\* An artifact is left by an action that is over, and data follows its record.
Left == \A a \in Actions : artifact[a] # "none" => row[a] \in Final
Recorded ==
  /\ DataAfterRecord
  /\ \A s \in Syncers : \A a \in sync[s] : artifact[a] \in {"pushed", "done"}

\* What is pushed is over on the agent, and at the upstream before it is marked.
Marked ==
  /\ pushed \subseteq {a \in Actions : row[a] \in Final}
  /\ \A j \in Pushers : push[j].pc = "sent" => \A a \in push[j].batch : up[a] = row[a]

\* Only an action that was assigned is withdrawn.
Assigned == \A a \in cancelled : up[a] # "none"

ActionInv == TypeOK /\ Once /\ Answering /\ Given /\ Locked /\ Batched /\ Agree /\ Left /\ Recorded
             /\ Marked /\ Assigned

(***************************************************************************)
(* What holds of the tunnel.                                               *)
(***************************************************************************)

\* A connection that was not dialled has no session.
Undialled ==
  /\ \A n \in Dials : n > made => session[n] = "none"
  /\ registered # NoDial => registered <= made

\* The goroutine of a call is there only while its caller waits or has left; it
\* opens one stream at most, on a session that was there, and nobody else has one.
Opening == \A c \in Calls :
  /\ opener[c] # Gone => caller[c] \in {"waiting", "left"}
  /\ caller[c] = "idle" \/ opener[c].pc = "opening" => stream[c] = NoDial
  /\ stream[c] # NoDial => session[stream[c]] \in {"open", "closed"}

TunnelInv == TunnelTypeOK /\ OneSession /\ StreamOwned /\ Undialled /\ Opening

----------------------------------------------------------------------------
\* Of some actions there is a first one.
LEMMA FirstIsOne ==
  ASSUME NEW S \in SUBSET Actions, S # {}
  PROVE  First(S) \in S /\ First(S) \in Actions
<1> DEFINE below(a) == 1 .. a
           T == {below(a) : a \in S}
<1>1. T \subseteq FiniteSubsetsOf(Actions) /\ T # {}
  <2>1. \A a \in S : below(a) \subseteq Actions /\ IsFiniteSet(below(a))
    BY FS_Interval, ConstantsAssumption DEF Actions
  <2> QED BY <2>1 DEF FiniteSubsetsOf
<1>2. IsFiniteSet(Actions)
  BY FS_Interval, ConstantsAssumption DEF Actions
<1>3. \E t \in T : \A u \in T : <<u, t>> \notin StrictSubsetOrdering(Actions)
  BY <1>1, <1>2, FS_StrictSubsetOrderingWellFounded, WFMin
<1>4. PICK a \in S : \A b \in S : <<below(b), below(a)>> \notin StrictSubsetOrdering(Actions)
  BY <1>3
<1>5. \A b \in S : a <= b
  <2> SUFFICES ASSUME NEW b \in S, b < a PROVE FALSE
    BY DEF Actions
  <2>1. below(b) \subseteq below(a) /\ below(b) # below(a)
    BY ConstantsAssumption DEF Actions
  <2>2. below(b) \in SUBSET Actions /\ below(a) \in SUBSET Actions
    BY ConstantsAssumption DEF Actions
  <2> HIDE DEF below
  <2>3. <<below(b), below(a)>> \in (SUBSET Actions) \X (SUBSET Actions)
    BY <2>2
  <2>4. <<below(b), below(a)>> \in StrictSubsetOrdering(Actions)
    BY <2>1, <2>3 DEF StrictSubsetOrdering
  <2> QED BY <1>4, <2>4
<1> QED BY <1>5 DEF First

\* The initial states of both halves.
LEMMA ActionInit == Init => ActionInv
<1> SUFFICES ASSUME Init PROVE ActionInv
  OBVIOUS
<1> USE ConstantsAssumption, KindsAssumption DEF Init
<1>1. TypeOK
  BY DEF TypeOK, Poll, Push, Free, Final
<1>2. Once /\ Answering /\ Given
  BY DEF Once, Answering, Given, At, Free
<1>3. Locked /\ Batched /\ Agree /\ Left /\ Recorded /\ Marked /\ Assigned
  BY DEF Locked, Batched, Agree, Left, Recorded, Marked, Assigned, DataAfterRecord, Final
<1> QED BY <1>1, <1>2, <1>3 DEF ActionInv

\* The tunnel starts with nothing dialled.
LEMMA TunnelStart == TunnelInit => TunnelInv
<1> SUFFICES ASSUME TunnelInit PROVE TunnelInv
  OBVIOUS
<1> USE TunnelAssumption DEF TunnelInit
<1>1. TunnelTypeOK
  BY DEF TunnelTypeOK, Backoff, Gone, Dials
<1>2. OneSession /\ StreamOwned /\ Undialled /\ Opening
  BY DEF OneSession, StreamOwned, Undialled, Opening, Gone
<1> QED BY <1>1, <1>2 DEF TunnelInv

\* The check of the long poll, with or without an action to answer.
LEMMA CheckHolds ==
  ASSUME ActionInv, NEW p \in Polls, NEW nothing \in Poll, Check(p, nothing),
         ~At(p, "reply"), nothing.pc # "reply" \/ nothing.action = None,
         asking' \in Polls \cup {None}, bell' \in BOOLEAN,
         UNCHANGED <<setup, cancelled, row, claim, pushVars, artifactVars, faults>>
  PROVE  ActionInv'
<1> USE ConstantsAssumption DEF ActionInv, TypeOK, Once, Answering, Given, Locked, Batched, Agree,
    Left, Recorded, Marked, Assigned, DataAfterRecord, Poll, Push, Free, Listening, Final, At,
    pushVars, artifactVars, setup
<1> DEFINE a == First(Waiting)
<1>1. ASSUME Waiting # {} PROVE a \in Waiting /\ a \in Actions
  BY <1>1, FirstIsOne DEF Waiting
<1>2. CASE Waiting # {} /\ ~Void(a) /\ HandOut(p, a)
  <2>1. a \in Actions /\ up[a] = "waiting" /\ handed[a] = 0 /\ row[a] = "none"
    BY <1>1, <1>2 DEF Waiting
  <2> HIDE DEF a
  <2> QED BY <1>2, <2>1 DEF HandOut, Say
<1>3. CASE /\ Waiting # {} /\ Void(a)
           /\ up' = [up EXCEPT ![a] = IF a \in cancelled THEN "skipped" ELSE "failed"]
           /\ poll' = [poll EXCEPT ![p] = nothing]
           /\ UNCHANGED handed
  <2>1. a \in Actions /\ up[a] = "waiting" /\ handed[a] = 0 /\ row[a] = "none"
    BY <1>1, <1>3 DEF Waiting
  <2> HIDE DEF a
  <2> QED BY <1>3, <2>1
<1>4. CASE /\ Waiting = {}
           /\ poll' = [poll EXCEPT ![p] = nothing]
           /\ UNCHANGED <<up, handed>>
  BY <1>4
<1> QED BY <1>2, <1>3, <1>4 DEF Check

\* A step of the actions' half: an own one or a restart.
ActionStep == Next \/ AgentCrash \/ UpstreamRestart

\* Each of them preserves the invariant of the actions, ...
LEMMA ActionSteps == ActionInv /\ ActionStep => ActionInv'
<1> SUFFICES ASSUME ActionInv, ActionStep PROVE ActionInv'
  OBVIOUS
<1> USE ConstantsAssumption DEF ActionInv, TypeOK, Once, Answering, Given, Locked, Batched, Agree,
    Left, Recorded, Marked, Assigned, DataAfterRecord, Poll, Push, Free, Listening, Final, At,
    upVars, agentVars, pushVars, artifactVars, setup, Fault
<1>1. ASSUME NEW a \in Actions, Assign(a) PROVE ActionInv'
  BY <1>1 DEF Assign
<1>2. ASSUME NEW a \in Actions, Cancel(a) PROVE ActionInv'
  BY <1>2 DEF Cancel
<1>3. ASSUME NEW a \in Actions, PushRecord(a) PROVE ActionInv'
  BY <1>3 DEF PushRecord
<1>4. ASSUME NEW p \in Polls, Ask(p) PROVE ActionInv'
  <2>1. Check(p, Listening) /\ At(p, "free") /\ asking' = p /\ bell' = bell
        /\ UNCHANGED <<setup, cancelled, row, claim, pushVars, artifactVars, faults>>
    BY <1>4 DEF Ask
  <2> QED BY <2>1, CheckHolds
<1>5. ASSUME NEW p \in Polls, Wake(p) PROVE ActionInv'
  <2> DEFINE nothing == [pc |-> "reply", action |-> None]
  <2>1. Check(p, nothing) /\ At(p, "listening") /\ bell' = FALSE
        /\ UNCHANGED <<setup, cancelled, agentVars, pushVars, artifactVars, faults>>
    BY <1>5 DEF Wake
  <2>2. nothing \in Poll /\ nothing.action = None /\ ~At(p, "reply")
    BY <2>1
  <2>3. asking' \in Polls \cup {None} /\ bell' \in BOOLEAN
    BY <2>1
  <2> HIDE DEF nothing
  <2> QED BY <2>1, <2>2, <2>3, CheckHolds
<1>6. ASSUME NEW p \in Polls, Timeout(p) PROVE ActionInv'
  BY <1>6 DEF Timeout, Say
<1>7. ASSUME NEW p \in Polls, Reply(p) PROVE ActionInv'
  BY <1>7 DEF Reply
<1>8. ASSUME NEW p \in Polls, Abandon(p) PROVE ActionInv'
  <2>1. bell' \in BOOLEAN
    BY <1>8 DEF Abandon
  <2>2. /\ poll' = [poll EXCEPT ![p] = Free]
        /\ UNCHANGED <<setup, up, cancelled, handed, agentVars, pushVars, artifactVars, faults>>
    BY <1>8 DEF Abandon
  <2> QED BY <2>1, <2>2
<1>9. ASSUME NEW p \in Polls, SaveFails(p) PROVE ActionInv'
  BY <1>9 DEF SaveFails
<1>10. ASSUME NEW k \in Consumers, Claim(k) PROVE ActionInv'
  <2>1. PICK a \in Runnable : a = First(Runnable)
    BY <1>10, FirstIsOne DEF Claim, Runnable
  <2>2. a \in Actions /\ row[a] = "waiting" /\ \A j \in Consumers : claim[j] # a
    BY DEF Runnable, Claimed
  <2>3. /\ claim' = [claim EXCEPT ![k] = a]
        /\ UNCHANGED <<setup, asking, row, upVars, pushVars, artifactVars, faults>>
    BY <1>10, <2>1 DEF Claim
  <2> QED BY <2>2, <2>3
<1>11. ASSUME NEW k \in Consumers, Execute(k) PROVE ActionInv'
  BY <1>11 DEF Execute
<1>12. ASSUME NEW k \in Consumers, Refuse(k) PROVE ActionInv'
  BY <1>12 DEF Refuse
<1>13. ASSUME NEW k \in Consumers, Abort(k) PROVE ActionInv'
  BY <1>13 DEF Abort
<1>14. ASSUME NEW j \in Pushers, PushRead(j) PROVE ActionInv'
  BY <1>14 DEF PushRead, Unpushed
<1>15. ASSUME NEW j \in Pushers, PushSend(j) PROVE ActionInv'
  BY <1>15 DEF PushSend, Stored
<1>16. ASSUME NEW j \in Pushers, PushMark(j) PROVE ActionInv'
  BY <1>16 DEF PushMark
<1>17. ASSUME NEW j \in Pushers, PushFails(j) PROVE ActionInv'
  BY <1>17 DEF PushFails, Stored
<1>18. ASSUME NEW s \in Syncers, SyncRead(s) PROVE ActionInv'
  BY <1>18 DEF SyncRead, Unsynced
<1>19. ASSUME NEW s \in Syncers, SyncOne(s) PROVE ActionInv'
  <2>1. First(sync[s]) \in sync[s] /\ First(sync[s]) \in Actions
    BY <1>19, FirstIsOne DEF SyncOne
  <2> QED BY <1>19, <2>1 DEF SyncOne
<1>20. ASSUME NEW s \in Syncers, SyncFails(s) PROVE ActionInv'
  <2>1. First(sync[s]) \in sync[s] /\ First(sync[s]) \in Actions
    BY <1>20, FirstIsOne DEF SyncFails
  <2> QED BY <1>20, <2>1 DEF SyncFails
<1>21. ASSUME Miss PROVE ActionInv'
  <2>1. bell' \in BOOLEAN
    BY <1>21 DEF Miss
  <2>2. UNCHANGED <<setup, up, cancelled, poll, handed, agentVars, pushVars, artifactVars, faults>>
    BY <1>21 DEF Miss
  <2> QED BY <2>1, <2>2
<1>22. ASSUME GiveUp PROVE ActionInv'
  BY <1>22 DEF GiveUp
<1>23. ASSUME AgentCrash PROVE ActionInv'
  BY <1>23 DEF AgentCrash
<1>24. ASSUME UpstreamRestart PROVE ActionInv'
  <2>0. bell' = FALSE /\ faults' = faults + 1
    BY <1>24 DEF UpstreamRestart
  <2>1. faults' \in Nat
    BY <2>0
  <2>3. bell' \in BOOLEAN
    BY <2>0
  <2>2. /\ poll' = [p \in Polls |-> Free] /\ asking' = None
        /\ UNCHANGED <<setup, up, cancelled, handed, row, claim, pushVars, artifactVars>>
    BY <1>24 DEF UpstreamRestart
  <2> QED BY <2>1, <2>2, <2>3
<1> QED
  BY <1>1, <1>2, <1>3, <1>4, <1>5, <1>6, <1>7, <1>8, <1>9, <1>10, <1>11, <1>12, <1>13, <1>14, <1>15, <1>16, <1>17, <1>18, <1>19, <1>20, <1>21, <1>22, <1>23, <1>24 DEF ActionStep, Next, Handle

\* A step of the tunnel: an own one or a restart.
TunnelMoves == TunnelStep \/ AgentGoesDown \/ UpstreamGoesDown

\* ... and each of these that of the tunnel.
LEMMA TunnelSteps == TunnelInv /\ TunnelMoves => TunnelInv'
<1> SUFFICES ASSUME TunnelInv, TunnelMoves PROVE TunnelInv'
  OBVIOUS
<1> USE TunnelAssumption DEF TunnelInv, TunnelTypeOK, OneSession, StreamOwned, Undialled, Opening,
    Backoff, Gone, Dials, callVars
<1>1. ASSUME Dial PROVE TunnelInv'
  BY <1>1 DEF Dial
<1>2. ASSUME Serve PROVE TunnelInv'
  BY <1>2 DEF Serve
<1>3. ASSUME Cut PROVE TunnelInv'
  BY <1>3 DEF Cut
<1>4. ASSUME AgentNotices PROVE TunnelInv'
  BY <1>4 DEF AgentNotices
<1>5. ASSUME NEW n \in Dials, Hijack(n) PROVE TunnelInv'
  BY <1>5 DEF Hijack
<1>6. ASSUME NEW n \in Dials, HijackFails(n) PROVE TunnelInv'
  BY <1>6 DEF HijackFails
<1>7. ASSUME NEW n \in Dials, Register(n) PROVE TunnelInv'
  <2>1. TunnelTypeOK'
    BY <1>7 DEF Register
  <2>2. OneSession'
    BY <1>7 DEF Register
  <2>3. StreamOwned'
    BY <1>7 DEF Register
  <2>4. Undialled'
    BY <1>7 DEF Register
  <2>5. Opening'
    BY <1>7 DEF Register
  <2> QED BY <2>1, <2>2, <2>3, <2>4, <2>5
<1>8. ASSUME NEW n \in Dials, UpstreamNotices(n) PROVE TunnelInv'
  BY <1>8 DEF UpstreamNotices
<1>9. ASSUME NEW n \in Dials, Watch(n) PROVE TunnelInv'
  BY <1>9 DEF Watch
<1>10. ASSUME NEW c \in Calls, Open(c) PROVE TunnelInv'
  <2>0. caller[c] = "idle" /\ UNCHANGED <<upgrades, made, agent, link, session, registered, watched, stream, cuts>>
    BY <1>10 DEF Open
  <2>1. CASE /\ registered # NoDial /\ session[registered] = "open"
             /\ caller' = [caller EXCEPT ![c] = "waiting"]
             /\ opener' = [opener EXCEPT ![c] = [pc |-> "opening", dial |-> registered]]
    BY <2>0, <2>1
  <2>2. CASE caller' = [caller EXCEPT ![c] = "done"] /\ UNCHANGED opener
    BY <2>0, <2>2
  <2> QED BY <1>10, <2>1, <2>2 DEF Open
<1>11. ASSUME NEW c \in Calls, OpenStream(c) PROVE TunnelInv'
  BY <1>11 DEF OpenStream
<1>12. ASSUME NEW c \in Calls, HandOver(c) PROVE TunnelInv'
  BY <1>12 DEF HandOver
<1>13. ASSUME NEW c \in Calls, Leave(c) PROVE TunnelInv'
  BY <1>13 DEF Leave
<1>14. ASSUME NEW c \in Calls, GiveBack(c) PROVE TunnelInv'
  BY <1>14 DEF GiveBack
<1>15. ASSUME NEW c \in Calls, EndCall(c) PROVE TunnelInv'
  BY <1>15 DEF EndCall
<1>16. ASSUME AgentGoesDown PROVE TunnelInv'
  BY <1>16 DEF AgentGoesDown
<1>17. ASSUME UpstreamGoesDown PROVE TunnelInv'
  <2>1. TunnelTypeOK'
    BY <1>17 DEF UpstreamGoesDown
  <2>2. OneSession'
    BY <1>17 DEF UpstreamGoesDown
  <2>3. StreamOwned'
    BY <1>17 DEF UpstreamGoesDown
  <2>4. Undialled'
    BY <1>17 DEF UpstreamGoesDown
  <2>5. Opening'
    BY <1>17 DEF UpstreamGoesDown
  <2> QED BY <2>1, <2>2, <2>3, <2>4, <2>5
<1> QED
  BY <1>1, <1>2, <1>3, <1>4, <1>5, <1>6, <1>7, <1>8, <1>9, <1>10, <1>11, <1>12, <1>13, <1>14, <1>15, <1>16, <1>17 DEF TunnelMoves, TunnelStep, HandleDial

----------------------------------------------------------------------------
LinkInv == ActionInv /\ TunnelInv

\* Neither half has part in the steps of the other.
LEMMA ActionStutter == ActionInv /\ UNCHANGED vars => ActionInv'
<1> SUFFICES ASSUME ActionInv, UNCHANGED vars PROVE ActionInv'
  OBVIOUS
<1>1. UNCHANGED <<pulls, kind, up, cancelled, bell, poll, handed, asking, row, claim, pushed, push,
                  artifact, uploaded, sync, faults>>
  BY DEF vars, setup, upVars, agentVars, pushVars, artifactVars
<1> QED
  BY <1>1 DEF ActionInv, TypeOK, Once, Answering, Given, Locked, Batched, Agree, Left, Recorded, Marked, Assigned,
     DataAfterRecord, At

\* The same of the actions' steps and the tunnel.
LEMMA TunnelStutter == TunnelInv /\ UNCHANGED tunnelVars => TunnelInv'
<1> SUFFICES ASSUME TunnelInv, UNCHANGED tunnelVars PROVE TunnelInv'
  OBVIOUS
<1>1. UNCHANGED <<upgrades, made, agent, link, session, registered, watched, caller, opener, stream, cuts>>
  BY DEF tunnelVars, callVars
<1> QED
  BY <1>1 DEF TunnelInv, TunnelTypeOK, OneSession, StreamOwned, Undialled, Opening

\* The inductive invariant holds at first, and is preserved.
LEMMA LinkStarts == LinkInit => LinkInv
BY ActionInit, TunnelStart DEF LinkInit, LinkInv

\* A step is of one half, or a restart of both.
LEMMA LinkSteps == LinkInv /\ [LinkNext]_linkVars => LinkInv'
<1> SUFFICES ASSUME LinkInv, [LinkNext]_linkVars PROVE LinkInv'
  OBVIOUS
<1> USE DEF LinkInv
<1>1. CASE Next /\ UNCHANGED tunnelVars
  BY <1>1, ActionSteps, TunnelStutter DEF ActionStep
<1>2. CASE TunnelStep /\ UNCHANGED vars
  BY <1>2, TunnelSteps, ActionStutter DEF TunnelMoves
<1>3. CASE AgentCrash /\ AgentGoesDown
  BY <1>3, ActionSteps, TunnelSteps DEF ActionStep, TunnelMoves
<1>4. CASE UpstreamRestart /\ UpstreamGoesDown
  BY <1>4, ActionSteps, TunnelSteps DEF ActionStep, TunnelMoves
<1>5. CASE UNCHANGED linkVars
  BY <1>5, ActionStutter, TunnelStutter DEF linkVars
<1> QED BY <1>1, <1>2, <1>3, <1>4, <1>5 DEF LinkNext

\* The inductive invariant of the link between an agent and its upstream.
THEOREM LinkCorrect == LinkSpec => []LinkInv
BY LinkStarts, LinkSteps, PTL DEF LinkSpec

\* Type correctness of both halves.
THEOREM LinkTypeCorrect == LinkSpec => []LinkTypeOK
<1>1. LinkInv => LinkTypeOK
  BY DEF LinkInv, ActionInv, TunnelInv, LinkTypeOK
<1> QED BY <1>1, LinkCorrect, PTL

\* An action is handed out once, however many polls there are and whichever of
\* them are given up (GetActionForAgentWithWait, PullPlaybookAction).
THEOREM HandedOnceCorrect == LinkSpec => []HandedOnce
<1>1. LinkInv => HandedOnce
  BY DEF LinkInv, ActionInv, Once, HandedOnce
<1> QED BY <1>1, LinkCorrect, PTL

\* What the upstream shows as the outcome of an action it has handed out is what
\* the agent has, and it shows all that is marked as pushed, for any number of
\* runs of PushPlaybookActions and whichever push or mark fails.
THEOREM AgreeCorrect == LinkSpec => []Agree
<1>1. LinkInv => Agree
  BY DEF LinkInv, ActionInv
<1> QED BY <1>1, LinkCorrect, PTL

\* Data is pushed after its record and before it is marked, for any number of runs
\* of SyncArtifactItems and whichever push or mark fails.
THEOREM DataAfterRecordCorrect == LinkSpec => []DataAfterRecord
<1>1. LinkInv => DataAfterRecord
  BY DEF LinkInv, ActionInv, Recorded
<1> QED BY <1>1, LinkCorrect, PTL

\* The only open session of an agent is the registered one (manager.go).
THEOREM OneSessionCorrect == LinkSpec => []OneSession
<1>1. LinkInv => OneSession
  BY DEF LinkInv, TunnelInv
<1> QED BY <1>1, LinkCorrect, PTL

\* Every stream on an open session has an owner, for any number of calls.
THEOREM StreamOwnedCorrect == LinkSpec => []StreamOwned
<1>1. LinkInv => StreamOwned
  BY DEF LinkInv, TunnelInv
<1> QED BY <1>1, LinkCorrect, PTL

\* The agent's row of an action is written by an answer and by its execution.
LEMMA RowMoves ==
  ActionStep => row' = row \/ (\E p \in Polls : Reply(p)) \/ (\E k \in Consumers : Execute(k))
BY DEF ActionStep, Next, Handle, Assign, Cancel, PushRecord, Ask, Timeout, Wake, Abandon, SaveFails,
   Miss, GiveUp, Claim, Refuse, Abort, PushRead, PushSend, PushMark, PushFails, SyncRead, SyncOne,
   SyncFails, AgentCrash, UpstreamRestart, agentVars

\* An outcome that the agent has committed is never overwritten, by an answer
\* that comes late or by a second execution (PullPlaybookAction,
\* ActionAgentConsumer).
THEOREM OutcomeStaysCorrect == LinkSpec => OutcomeStays
<1> DEFINE Kept == \A a \in Actions : row[a] \in Final => row'[a] = row[a]
<1>1. LinkInv /\ [LinkNext]_linkVars => [Kept]_vars
  <2> SUFFICES ASSUME ActionInv, ActionStep PROVE Kept
    BY DEF LinkInv, LinkNext, linkVars, ActionStep
  <2> USE ConstantsAssumption DEF ActionInv, TypeOK, Answering, Locked, At, Final
  <2>1. CASE row' = row
    BY <2>1
  <2>2. ASSUME NEW p \in Polls, Reply(p) PROVE Kept
    BY <2>2 DEF Reply
  <2>3. ASSUME NEW k \in Consumers, Execute(k) PROVE Kept
    BY <2>3 DEF Execute
  <2> QED BY <2>1, <2>2, <2>3, RowMoves
<1> QED BY <1>1, LinkCorrect, PTL DEF LinkSpec, OutcomeStays

----------------------------------------------------------------------------
\* A push whose batch is over on the agent reports to AgentAction what the
\* upstream has not heard of: the rest it has already, with the same outcome.
LEMMA PushReports ==
  ASSUME ActionInv, NEW j \in Pushers, push[j].pc # "idle", up' = Stored(push[j].batch)
  PROVE  \E batch \in SUBSET Actions : AgentRows!Report(batch)
<1> DEFINE batch == {a \in push[j].batch : up[a] = "running"}
           outcome == [a \in batch |-> row[a]]
<1>1. push[j].batch \subseteq Actions /\ batch \subseteq push[j].batch
  BY DEF ActionInv, TypeOK, Push
<1>2. \A a \in push[j].batch : row[a] \in Final /\ (a \in batch \/ up[a] = row[a])
  <2> SUFFICES ASSUME NEW a \in push[j].batch PROVE row[a] \in Final /\ (a \in batch \/ up[a] = row[a])
    OBVIOUS
  <2>1. a \in Actions /\ row[a] \in Final
    BY <1>1 DEF ActionInv, Batched
  <2>2. handed[a] = 1
    BY <2>1 DEF ActionInv, Given, Final
  <2>3. up[a] \in Final \cup {"running"}
    BY <2>1, <2>2 DEF ActionInv, TypeOK, Once
  <2> QED
    BY <2>1, <2>2, <2>3 DEF ActionInv, Agree
<1>3. outcome \in [batch -> AgentRows!Outcomes]
  BY <1>1, <1>2 DEF AgentRows!Outcomes, Final
<1>4. up' = [a \in Actions |-> IF a \in batch THEN outcome[a] ELSE up[a]]
  <2>1. \A a \in Actions : (IF a \in push[j].batch THEN row[a] ELSE up[a])
                           = (IF a \in batch THEN outcome[a] ELSE up[a])
    BY <1>1, <1>2
  <2> HIDE DEF batch, outcome
  <2> QED
    BY <2>1 DEF Stored
<1>5. \A a \in batch : up[a] = "running"
  OBVIOUS
<1> HIDE DEF batch, outcome
<1>6. AgentRows!Report(batch)
  BY <1>3, <1>4, <1>5 DEF AgentRows!Report
<1> QED
  BY <1>1, <1>6

\* The check of the long poll moves the first waiting action, or none.
LEMMA CheckReports ==
  ASSUME ActionInv, NEW p \in Polls, NEW nothing, Check(p, nothing), UNCHANGED cancelled
  PROVE  \/ up' = up
         \/ \E a \in Actions : AgentRows!HandOut(a) \/ AgentRows!Withdraw(a) \/ AgentRows!Refuse(a)
<1>1. ASSUME Waiting # {}
      PROVE  \E a \in Actions : a = First(Waiting) /\ up[a] = "waiting"
  BY <1>1, FirstIsOne DEF Waiting
<1>2. CASE Waiting = {}
  BY <1>2 DEF Check
<1>3. CASE Waiting # {}
  <2>1. PICK a \in Actions : a = First(Waiting) /\ up[a] = "waiting"
    BY <1>1, <1>3
  <2>2. \/ ~Void(a) /\ HandOut(p, a)
        \/ Void(a) /\ up' = [up EXCEPT ![a] = IF a \in cancelled THEN "skipped" ELSE "failed"]
    BY <1>3, <2>1 DEF Check
  <2> QED
    BY <2>1, <2>2 DEF Void, HandOut, AgentRows!HandOut, AgentRows!Withdraw, AgentRows!Refuse, AgentRows!To
<1> QED
  BY <1>2, <1>3

\* Only these steps write a row of the upstream.
LEMMA UpMoves ==
  ActionStep =>
    \/ up' = up
    \/ \E a \in Actions : Assign(a)
    \/ \E p \in Polls : UNCHANGED cancelled /\ \E nothing : Check(p, nothing)
    \/ \E j \in Pushers : push[j].pc # "idle" /\ up' = Stored(push[j].batch)
BY DEF ActionStep, Next, Handle, Assign, Cancel, PushRecord, Ask, Timeout, Wake, Abandon, SaveFails,
   Miss, GiveUp, Claim, Refuse, Abort, PushRead, PushSend, PushMark, PushFails, SyncRead, SyncOne,
   SyncFails, AgentCrash, UpstreamRestart, agentVars, upVars, Reply, Execute

\* A row of the upstream moves as AgentAction says, for any actions, polls,
\* pushers and faults: what PlaybookRun takes an agent to do is what it does.
THEOREM UpContract == LinkSpec => UpKeepsContract
<1>1. LinkInit => AgentRows!Init
  BY DEF LinkInit, Init, AgentRows!Init
<1>2. LinkInv /\ LinkInv' /\ [LinkNext]_linkVars => [AgentRows!Next]_(AgentRows!vars)
  <2> SUFFICES ASSUME ActionInv, ActionInv', ActionStep PROVE [AgentRows!Next]_(AgentRows!vars)
    BY DEF LinkInv, LinkNext, linkVars, ActionStep, vars, upVars, AgentRows!vars
  <2>1. cancelled' \subseteq Actions
    BY DEF ActionInv, TypeOK
  <2>2. CASE up' = up
    <3> DEFINE none == [a \in {} |-> "failed"]
    <3>1. up' = [a \in Actions |-> IF a \in {} THEN none[a] ELSE up[a]]
      BY <2>2 DEF ActionInv, TypeOK
    <3>2. none \in [{} -> AgentRows!Outcomes]
      OBVIOUS
    <3> HIDE DEF none
    <3>3. AgentRows!Report({})
      BY <3>1, <3>2 DEF AgentRows!Report
    <3> QED
      BY <2>1, <3>3 DEF AgentRows!Next
  <2>3. ASSUME NEW a \in Actions, Assign(a) PROVE AgentRows!Next
    <3>1. AgentRows!Assign(a)
      BY <2>3 DEF Assign, AgentRows!Assign, AgentRows!To, ActionInv, Assigned
    <3> QED
      BY <2>1, <3>1 DEF AgentRows!Next
  <2>4. ASSUME NEW p \in Polls, NEW nothing, Check(p, nothing), UNCHANGED cancelled
        PROVE  AgentRows!Next \/ up' = up
    BY <2>1, <2>4, CheckReports DEF AgentRows!Next
  <2>5. ASSUME NEW j \in Pushers, push[j].pc # "idle", up' = Stored(push[j].batch)
        PROVE  AgentRows!Next
    BY <2>1, <2>5, PushReports DEF AgentRows!Next
  <2> QED
    BY <2>2, <2>3, <2>4, <2>5, UpMoves
<1> QED
  BY <1>1, <1>2, LinkCorrect, PTL DEF LinkSpec, UpKeepsContract, AgentRows!Spec
=============================================================================
