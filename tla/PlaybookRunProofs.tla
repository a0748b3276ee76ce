------------------------- MODULE PlaybookRunProofs --------------------------
(***************************************************************************)
(* Proofs about PlaybookRun, for every set of runs, requests and consumers *)
(* and every value of the bounds.                                          *)
(***************************************************************************)
EXTENDS PlaybookRun, FiniteSetTheorems, WellFoundedInduction, TLAPS

\* Replacing one row of one run keeps the type, the lengths and all other rows.
LEMMA RowReplaced ==
  ASSUME NEW R \in [Runs -> Seq(Row)], NEW r \in Runs, NEW i \in DOMAIN R[r],
         NEW row \in Row
  PROVE  LET S == [R EXCEPT ![r][i] = row] IN
         /\ S \in [Runs -> Seq(Row)]
         /\ \A q \in Runs :
              /\ Len(S[q]) = Len(R[q])
              /\ DOMAIN S[q] = DOMAIN R[q]
              /\ \A j \in DOMAIN R[q] : S[q][j] = IF q = r /\ j = i THEN row ELSE R[q][j]
<1> DEFINE S == [R EXCEPT ![r][i] = row]
<1>1. R[r] \in Seq(Row) /\ i \in 1 .. Len(R[r])
  OBVIOUS
<1>2. [R[r] EXCEPT ![i] = row] \in Seq(Row)
  BY <1>1
<1>3. S = [R EXCEPT ![r] = [R[r] EXCEPT ![i] = row]]
  OBVIOUS
<1>4. S \in [Runs -> Seq(Row)]
  BY <1>2, <1>3
<1>5. ASSUME NEW q \in Runs
      PROVE  /\ Len(S[q]) = Len(R[q])
             /\ DOMAIN S[q] = DOMAIN R[q]
             /\ \A j \in DOMAIN R[q] : S[q][j] = IF q = r /\ j = i THEN row ELSE R[q][j]
  <2>1. CASE q = r
    <3>1. S[q] = [R[r] EXCEPT ![i] = row]
      BY <1>3, <2>1
    <3>2. DOMAIN S[q] = DOMAIN R[q]
      BY <3>1, <2>1
    <3>3. Len(S[q]) = Len(R[q])
      BY <3>1, <1>1, <1>2, <2>1
    <3> QED
      BY <3>1, <3>2, <3>3, <2>1
  <2>2. CASE q # r
    BY <2>2, <1>3
  <2> QED
    BY <2>1, <2>2
<1> QED
  BY <1>4, <1>5

\* The row updates of the actions are replacements of a row.
LEMMA StatusUpdate ==
  ASSUME NEW R \in [Runs -> Seq(Row)], NEW r \in Runs, NEW i \in DOMAIN R[r],
         NEW v \in ActionStatus
  PROVE  /\ [R[r][i] EXCEPT !.status = v] \in Row
         /\ [R EXCEPT ![r][i].status = v] = [R EXCEPT ![r][i] = [R[r][i] EXCEPT !.status = v]]
<1>1. R[r][i] \in Row
  OBVIOUS
<1> QED
  BY <1>1 DEF Row

LEMMA RowsSet ==
  ASSUME TypeOK, NEW r \in Runs, NEW i \in Attempts(r), NEW v \in ActionStatus,
         rows' = [rows EXCEPT ![r][i].status = v]
  PROVE  /\ rows' \in [Runs -> Seq(Row)]
         /\ \A q \in Runs :
              /\ Len(rows'[q]) = Len(rows[q])
              /\ DOMAIN rows'[q] = DOMAIN rows[q]
              /\ \A j \in DOMAIN rows[q] :
                   rows'[q][j] = IF q = r /\ j = i THEN [rows[q][j] EXCEPT !.status = v]
                                 ELSE rows[q][j]
<1>1. rows \in [Runs -> Seq(Row)] /\ i \in DOMAIN rows[r]
  BY DEF TypeOK, Attempts
<1> DEFINE row == [rows[r][i] EXCEPT !.status = v]
<1>2. row \in Row /\ rows' = [rows EXCEPT ![r][i] = row]
  BY <1>1, StatusUpdate
<1> HIDE DEF row
<1>3. LET S == [rows EXCEPT ![r][i] = row] IN
         /\ S \in [Runs -> Seq(Row)]
         /\ \A q \in Runs :
              /\ Len(S[q]) = Len(rows[q])
              /\ DOMAIN S[q] = DOMAIN rows[q]
              /\ \A j \in DOMAIN rows[q] : S[q][j] = IF q = r /\ j = i THEN row ELSE rows[q][j]
  BY <1>1, <1>2, RowReplaced
<1> QED
  BY <1>2, <1>3 DEF row

LEMMA RunSet ==
  ASSUME TypeOK, NEW r \in Runs, NEW v \in RunStatus, SetRun(r, v)
  PROVE  /\ run' \in [Runs -> RunStatus]
         /\ \A q \in Runs : run'[q] = IF q = r THEN v ELSE run[q]
BY DEF TypeOK, SetRun

\* What ending a row does to the run: nothing, or the run is queued again.
LEMMA Rescheduled ==
  ASSUME TypeOK, NEW r \in Runs, Reschedule(r)
  PROVE  /\ run' \in [Runs -> RunStatus]
         /\ \A q \in Runs : run'[q] = IF q = r /\ run[r] \in RescheduleFrom
                                      THEN "scheduled" ELSE run[q]
<1>1. CASE run[r] \in RescheduleFrom
  <2>1. SetRun(r, "scheduled") /\ "scheduled" \in RunStatus
    BY <1>1 DEF Reschedule, RunStatus
  <2> QED
    BY <2>1, <1>1, RunSet
<1>2. CASE run[r] \notin RescheduleFrom
  BY <1>2 DEF Reschedule, TypeOK
<1> QED
  BY <1>1, <1>2

----------------------------------------------------------------------------
(* Choosing the next step.                                                 *)

\* A non-empty set of naturals has the least element that Least chooses.
LEMMA LeastIsLeast ==
  ASSUME NEW S \in SUBSET Nat, S # {}
  PROVE  Least(S) \in S /\ \A j \in S : Least(S) <= j
<1>1. PICK x \in S : \A y \in S : ~(<<y, x>> \in OpToRel(<, Nat))
  BY NatLessThanWellFounded, WFMin
<1>2. ASSUME NEW y \in S PROVE x <= y
  <2>1. ~(y < x)
    BY <1>1, <1>2 DEF OpToRel
  <2> QED
    BY <2>1
<1> QED
  BY <1>2 DEF Least

\* A request of a run has at least one step, and its steps are Step records.
LEMMA StepsType ==
  ASSUME TypeOK, NEW r \in Runs
  PROVE  /\ req[r] \in Requests
         /\ Steps(r) \in Seq(Step)
         /\ Len(Steps(r)) \in Nat \ {0}
         /\ req[r].approval \in BOOLEAN
BY RequestsAssumption DEF TypeOK, Steps

\* When no action of the run is live, the previous action is its latest row.
LEMMA PreviousIsLast ==
  ASSUME TypeOK, NEW r \in Runs, ~HasLive(r)
  PROVE  Previous(r) = Len(rows[r])
<1>1. rows[r] \in Seq(Row) /\ Attempts(r) = 1 .. Len(rows[r])
  BY DEF TypeOK, Attempts
<1>2. Finished(r) = 1 .. Len(rows[r])
  BY <1>1 DEF Finished, HasLive
<1>3. CASE Len(rows[r]) = 0
  BY <1>1, <1>2, <1>3 DEF Previous
<1>4. CASE Len(rows[r]) # 0
  <2>1. Len(rows[r]) \in Finished(r) /\ \A j \in Finished(r) : j <= Len(rows[r])
    BY <1>1, <1>2, <1>4
  <2> QED
    BY <1>1, <1>2, <2>1 DEF Previous
<1> QED
  BY <1>3, <1>4

\* The step after a row, where there is one: the same step only as a retry, the
\* next step unless the row failed, else a later step with a filter.
LEMMA NextAfterRow ==
  ASSUME NEW steps \in Seq(Step), NEW last \in Row, last.step \in DOMAIN steps,
         NextAfter(steps, last) # 0
  PROVE  /\ NextAfter(steps, last) \in DOMAIN steps
         /\ IF last.status = "failed"
            THEN \/ /\ NextAfter(steps, last) = last.step
                    /\ last.count < steps[last.step].retry
                 \/ /\ NextAfter(steps, last) > last.step
                    /\ steps[NextAfter(steps, last)].filter
            ELSE NextAfter(steps, last) = last.step + 1
<1> DEFINE F == {j \in DOMAIN steps : j > last.step /\ steps[j].filter}
<1>1. last.step \in Nat /\ DOMAIN steps = 1 .. Len(steps) /\ Len(steps) \in Nat
  BY DEF Row
<1>2. CASE last.status = "failed" /\ last.count < steps[last.step].retry
  BY <1>1, <1>2 DEF NextAfter
<1>3. CASE /\ ~(last.status = "failed" /\ last.count < steps[last.step].retry)
           /\ last.step = Len(steps)
  <2>1. NextAfter(steps, last) = 0
    BY <1>3 DEF NextAfter
  <2> QED
    BY <2>1
<1>4. CASE /\ ~(last.status = "failed" /\ last.count < steps[last.step].retry)
           /\ last.step # Len(steps) /\ last.status = "failed"
  <2>1. NextAfter(steps, last) = Least(F)
    BY <1>4 DEF NextAfter, NextFiltered
  <2>2. F # {} /\ F \in SUBSET Nat
    BY <2>1, <1>1 DEF Least
  <2>3. Least(F) \in F
    BY <2>2, LeastIsLeast
  <2> QED
    BY <2>1, <2>3, <1>4
<1>5. CASE last.step # Len(steps) /\ last.status # "failed"
  <2>1. NextAfter(steps, last) = last.step + 1
    BY <1>5 DEF NextAfter
  <2> QED
    BY <2>1, <1>1, <1>5
<1> QED
  BY <1>2, <1>3, <1>4, <1>5

----------------------------------------------------------------------------
(* Consequences of the invariant that several actions use.                 *)

\* A run that RunConsumer or an approval may move has no live row.
LEMMA QuietRun ==
  ASSUME EngineInv, NEW r \in Runs, run[r] \notin {"running", "waiting"} \cup RunFinal
  PROVE  ~HasLive(r)
BY DEF EngineInv, LiveIsLatest, HasLive

\* What the transaction of a consumer holds.
LEMMA ClaimedRow ==
  ASSUME EngineInv, NEW c \in Consumers, claims[c] # NoClaim
  PROVE  /\ claims[c] \in Claim
         /\ claims[c].run \in Runs
         /\ claims[c].row \in Attempts(claims[c].run)
         /\ rows[claims[c].run][claims[c].row].status = "scheduled"
BY DEF EngineInv, TypeOK, ClaimsHold, Claim

\* Where GetNextActionToRun leads when no action of the run is live.
LEMMA NextStepRange ==
  ASSUME EngineInv, NEW r \in Runs, ~HasLive(r), NextStep(r) # 0
  PROVE  /\ NextStep(r) \in DOMAIN Steps(r)
         /\ Len(rows[r]) # 0 =>
              IF LastRow(r).status = "failed"
              THEN \/ /\ NextStep(r) = LastRow(r).step
                      /\ LastRow(r).count < Steps(r)[LastRow(r).step].retry
                   \/ /\ NextStep(r) > LastRow(r).step
                      /\ Steps(r)[NextStep(r)].filter
              ELSE NextStep(r) = LastRow(r).step + 1
<1>1. Previous(r) = Len(rows[r]) /\ Steps(r) \in Seq(Step) /\ Len(Steps(r)) \in Nat \ {0}
  BY PreviousIsLast, StepsType DEF EngineInv
<1>2. rows[r] \in Seq(Row)
  BY DEF EngineInv, TypeOK
<1>3. CASE Len(rows[r]) = 0
  BY <1>1, <1>3 DEF NextStep
<1>4. CASE Len(rows[r]) # 0
  <2>1. Len(rows[r]) \in Attempts(r) /\ LastRow(r) \in Row
    BY <1>2, <1>4 DEF Attempts, LastRow
  <2>2. LastRow(r).step \in DOMAIN Steps(r)
    BY <2>1 DEF EngineInv, StepsInRange, LastRow
  <2>3. NextStep(r) = NextAfter(Steps(r), LastRow(r))
    BY <1>1, <1>4 DEF NextStep, LastRow
  <2> QED
    BY <1>1, <2>1, <2>2, <2>3, NextAfterRow
<1> QED
  BY <1>3, <1>4

\* A step that changes run rows only keeps what the invariant says of action
\* rows and transactions, if it takes no run with a live row back to the queue.
LEMMA RunRowsOnly ==
  ASSUME EngineInv, UNCHANGED <<req, rows, claims>>,
         \A q \in Runs : \/ run'[q] = run[q]
                         \/ run'[q] \in {"running", "waiting"} \cup RunFinal
                         \/ ~HasLive(q)
  PROVE  LiveIsLatest' /\ ClaimsHold' /\ ClaimsDisjoint' /\ StepsInRange'
<1>1. LiveIsLatest'
  BY DEF EngineInv, LiveIsLatest, HasLive, Attempts, IsLive
<1>2. ClaimsHold' /\ ClaimsDisjoint' /\ StepsInRange'
  BY DEF EngineInv, ClaimsHold, ClaimsDisjoint, StepsInRange, Attempts, Steps
<1> QED
  BY <1>1, <1>2

\* A step that moves one live row, held by no transaction after it, to another
\* status, and that moves the run of that row only if the row ends.
LEMMA OneRowMoved ==
  ASSUME EngineInv, NEW r \in Runs, NEW i \in Attempts(r), NEW v \in ActionStatus,
         IsLive(rows[r][i]), UNCHANGED req,
         rows' = [rows EXCEPT ![r][i].status = v],
         \A q \in Runs : run'[q] = run[q] \/ (q = r /\ v \in ActionFinal),
         \A d \in Consumers : claims'[d] # NoClaim =>
           claims'[d] = claims[d] /\ <<claims[d].run, claims[d].row>> # <<r, i>>
  PROVE  /\ rows' \in [Runs -> Seq(Row)]
         /\ LiveIsLatest' /\ ClaimsHold' /\ ClaimsDisjoint' /\ StepsInRange'
<1>1. /\ rows' \in [Runs -> Seq(Row)]
      /\ \A q \in Runs :
           /\ Len(rows'[q]) = Len(rows[q])
           /\ Attempts(q)' = Attempts(q)
           /\ \A j \in Attempts(q) :
                rows'[q][j] = IF q = r /\ j = i THEN [rows[q][j] EXCEPT !.status = v]
                              ELSE rows[q][j]
  BY RowsSet DEF EngineInv, Attempts
<1>2. \A q \in Runs : \A j \in Attempts(q) :
         /\ rows[q][j] \in Row
         /\ rows'[q][j].step = rows[q][j].step
         /\ rows'[q][j].status = IF q = r /\ j = i THEN v ELSE rows[q][j].status
  <2> SUFFICES ASSUME NEW q \in Runs, NEW j \in Attempts(q)
               PROVE  /\ rows[q][j] \in Row
                      /\ rows'[q][j].step = rows[q][j].step
                      /\ rows'[q][j].status = IF q = r /\ j = i THEN v ELSE rows[q][j].status
    OBVIOUS
  <2>1. rows[q][j] \in Row
    BY DEF EngineInv, TypeOK, Attempts
  <2>2. rows'[q][j] = IF q = r /\ j = i THEN [rows[q][j] EXCEPT !.status = v] ELSE rows[q][j]
    BY <1>1
  <2> QED
    BY <2>1, <2>2 DEF Row
<1>3. LiveIsLatest'
  <2> SUFFICES ASSUME NEW q \in Runs, NEW j \in Attempts(q), IsLive(rows[q][j])'
               PROVE  /\ j = Len(rows[q])
                      /\ run'[q] \in {"running", "waiting"} \cup RunFinal
    BY <1>1 DEF LiveIsLatest
  <2>1. IsLive(rows[q][j])
    BY <1>2 DEF IsLive
  <2>2. j = Len(rows[q]) /\ run[q] \in {"running", "waiting"} \cup RunFinal
    BY <2>1 DEF EngineInv, LiveIsLatest
  <2>3. run'[q] = run[q]
    <3>1. CASE q = r
      <4>1. j = i
        BY <3>1, <2>2 DEF EngineInv, LiveIsLatest, Attempts
      <4>2. v \notin ActionFinal
        BY <3>1, <4>1, <1>2 DEF IsLive
      <4> QED
        BY <4>2
    <3>2. CASE q # r
      BY <3>2
    <3> QED
      BY <3>1, <3>2
  <2> QED
    BY <2>2, <2>3
<1>4. ClaimsHold'
  <2> SUFFICES ASSUME NEW d \in Consumers, claims'[d] # NoClaim
               PROVE  /\ claims'[d].row \in DOMAIN rows'[claims'[d].run]
                      /\ rows'[claims'[d].run][claims'[d].row].status = "scheduled"
    BY DEF ClaimsHold, Attempts
  <2>1. claims'[d] = claims[d] /\ claims[d] # NoClaim
    OBVIOUS
  <2>2. /\ claims[d].run \in Runs
        /\ claims[d].row \in Attempts(claims[d].run)
        /\ rows[claims[d].run][claims[d].row].status = "scheduled"
    BY <2>1, ClaimedRow
  <2>3. ~(claims[d].run = r /\ claims[d].row = i)
    OBVIOUS
  <2> QED
    BY <2>1, <2>2, <2>3, <1>1, <1>2 DEF Attempts
<1>5. ClaimsDisjoint'
  BY DEF EngineInv, ClaimsDisjoint
<1>6. StepsInRange'
  BY <1>1, <1>2 DEF EngineInv, StepsInRange, Steps
<1> QED
  BY <1>1, <1>3, <1>4, <1>5, <1>6

----------------------------------------------------------------------------
(* Every action preserves the invariant.                                   *)

\* Actions that only update run rows, requests in flight and the clock.
LEMMA RunRowActions ==
  ASSUME EngineInv, NEW r \in Runs,
         \/ Create(r) \/ Approve(r) \/ FailSchedule(r) \/ CancelCheck(r)
         \/ CancelWrite(r) \/ Expire(r) \/ TimeoutMark(r) \/ TimeoutScan
  PROVE  EngineInv'
<1> USE DEF RunStatus, RunFinal, Monitored, Executing
<1>0. run \in [Runs -> RunStatus] /\ TypeOK
  BY DEF EngineInv, TypeOK
<1>1. CASE Create(r)
  <2>1. ~HasLive(r) /\ UNCHANGED <<req, rows, claims>>
    BY <1>1, QuietRun DEF Create
  <2>2. run' \in [Runs -> RunStatus] /\ \A q \in Runs : q # r => run'[q] = run[q]
    BY <1>0, <1>1 DEF Create, SetRun
  <2>3. TypeOK'
    BY <1>1, <2>2 DEF EngineInv, TypeOK, Create
  <2> QED
    BY <2>1, <2>2, <2>3, RunRowsOnly DEF EngineInv
<1>2. CASE Approve(r)
  <2>1. ~HasLive(r) /\ UNCHANGED <<req, rows, claims>>
    BY <1>2, QuietRun DEF Approve
  <2>2. run' \in [Runs -> RunStatus] /\ \A q \in Runs : q # r => run'[q] = run[q]
    BY <1>0, <1>2 DEF Approve, SetRun
  <2>3. TypeOK'
    BY <1>2, <2>2 DEF EngineInv, TypeOK, Approve
  <2> QED
    BY <2>1, <2>2, <2>3, RunRowsOnly DEF EngineInv
<1>3. CASE FailSchedule(r)
  <2>1. UNCHANGED <<req, rows, claims>>
    BY <1>3 DEF FailSchedule
  <2>2. /\ run' \in [Runs -> RunStatus]
        /\ \A q \in Runs : run'[q] = run[q] \/ run'[q] = "failed"
    BY <1>0, <1>3 DEF FailSchedule, SetRun
  <2>3. TypeOK'
    BY <1>3, <2>2 DEF EngineInv, TypeOK, FailSchedule
  <2> QED
    BY <2>1, <2>2, <2>3, RunRowsOnly DEF EngineInv
<1>4. CASE CancelCheck(r)
  <2>1. UNCHANGED <<req, run, rows, claims>> /\ TypeOK'
    BY <1>4 DEF CancelCheck, EngineInv, TypeOK
  <2> QED
    BY <2>1, RunRowsOnly DEF EngineInv
<1>5. CASE CancelWrite(r)
  <2>1. UNCHANGED <<req, rows, claims>>
    BY <1>5 DEF CancelWrite
  <2>2. /\ run' \in [Runs -> RunStatus]
        /\ \A q \in Runs : run'[q] = run[q] \/ run'[q] = "cancelled"
    BY <1>0, <1>5 DEF CancelWrite, SetRun
  <2>3. TypeOK'
    BY <1>5, <2>2 DEF EngineInv, TypeOK, CancelWrite
  <2> QED
    BY <2>1, <2>2, <2>3, RunRowsOnly DEF EngineInv
<1>6. CASE Expire(r)
  <2>1. UNCHANGED <<req, run, rows, claims>> /\ TypeOK'
    BY <1>6 DEF Expire, EngineInv, TypeOK
  <2> QED
    BY <2>1, RunRowsOnly DEF EngineInv
<1>7. CASE TimeoutMark(r)
  <2>1. UNCHANGED <<req, rows, claims>>
    BY <1>7 DEF TimeoutMark
  <2>2. /\ run' \in [Runs -> RunStatus]
        /\ \A q \in Runs : run'[q] = run[q] \/ run'[q] = "timed_out"
    BY <1>0, <1>7 DEF TimeoutMark, SetRun
  <2>3. TypeOK'
    BY <1>7, <2>2 DEF EngineInv, TypeOK, TimeoutMark
  <2> QED
    BY <2>1, <2>2, <2>3, RunRowsOnly DEF EngineInv
<1>8. CASE TimeoutScan
  <2>1. UNCHANGED <<req, run, rows, claims>> /\ TypeOK'
    BY <1>8 DEF TimeoutScan, EngineInv, TypeOK
  <2> QED
    BY <2>1, RunRowsOnly DEF EngineInv
<1> QED
  BY <1>1, <1>2, <1>3, <1>4, <1>5, <1>6, <1>7, <1>8

\* The retry count of the next attempt; an agent's has none.
NextCount(r) == IF IsRetrying(r) /\ ~Steps(r)[NextStep(r)].agent
                THEN rows[r][Previous(r)].count + 1 ELSE 0

\* The row that StartStep adds.
LEMMA StepStarted ==
  ASSUME EngineInv, NEW r \in Runs, Selected(r), NextStep(r) # 0, StartStep(r, NextStep(r))
  PROVE  \E row \in Row, status \in {"running", "waiting"} :
           /\ row.step = NextStep(r) /\ row.count = NextCount(r) /\ row.ran = 0 /\ row.lost = 0
           /\ row.status = (IF row.agent THEN "waiting" ELSE "scheduled")
           /\ status = (IF row.agent THEN "waiting" ELSE "running")
           /\ rows' = [rows EXCEPT ![r] = Append(@, row)]
           /\ run' = [run EXCEPT ![r] = status]
           /\ UNCHANGED expired
<1> DEFINE s == NextStep(r)
           onAgent == Steps(r)[s].agent
           count == IF IsRetrying(r) /\ ~onAgent THEN rows[r][Previous(r)].count + 1 ELSE 0
           row == [step |-> s, count |-> count, agent |-> onAgent, ran |-> 0, lost |-> 0,
                   status |-> IF onAgent THEN "waiting" ELSE "scheduled"]
           status == IF onAgent THEN "waiting" ELSE "running"
<1>1. ~HasLive(r)
  BY QuietRun DEF Selected, Monitored, RunFinal
<1>2. s \in DOMAIN Steps(r) /\ Steps(r) \in Seq(Step)
  BY <1>1, NextStepRange, StepsType DEF EngineInv
<1>3. s \in Nat /\ onAgent \in BOOLEAN
  <2> HIDE DEF s
  <2>1. Steps(r)[s] \in Step /\ s \in Nat
    BY <1>2
  <2> QED
    BY <2>1 DEF Step
<1>4. count \in Nat
  <2>1. CASE IsRetrying(r)
    <3>1. rows[r] \in Seq(Row) /\ Previous(r) = Len(rows[r]) /\ Previous(r) # 0
      BY <1>1, <2>1, PreviousIsLast DEF IsRetrying, EngineInv, TypeOK
    <3>2. rows[r][Previous(r)] \in Row
      BY <3>1
    <3> QED
      BY <3>2 DEF Row
  <2>2. CASE ~IsRetrying(r)
    BY <2>2
  <2> QED
    BY <2>1, <2>2
<1>5. row \in Row
  BY <1>3, <1>4 DEF Row, ActionStatus, ActionFinal
<1>6. /\ rows' = [rows EXCEPT ![r] = Append(@, row)]
      /\ run' = [run EXCEPT ![r] = status]
      /\ UNCHANGED expired
  BY DEF StartStep, SetRun
<1>7. /\ row.step = s /\ status \in {"running", "waiting"}
      /\ row.count = NextCount(r) /\ row.ran = 0 /\ row.lost = 0
      /\ row.status = (IF row.agent THEN "waiting" ELSE "scheduled")
      /\ status = (IF row.agent THEN "waiting" ELSE "running")
  BY DEF NextCount
<1> HIDE DEF row, status
<1> QED
  BY <1>5, <1>6, <1>7

\* Starting an action adds the one live row of its run.
LEMMA StartStepInv ==
  ASSUME EngineInv, NEW r \in Runs, Selected(r), NextStep(r) # 0, StartStep(r, NextStep(r)),
         UNCHANGED <<req, parents, claims, cancels, overdue, aborts>>
  PROVE  EngineInv'
<1>1. PICK row \in Row, status \in {"running", "waiting"} :
        /\ row.step = NextStep(r)
        /\ row.status \in {"scheduled", "waiting"}
        /\ rows' = [rows EXCEPT ![r] = Append(@, row)]
        /\ run' = [run EXCEPT ![r] = status]
        /\ UNCHANGED expired
  BY StepStarted
<1>2. TypeOK /\ rows \in [Runs -> Seq(Row)] /\ rows[r] \in Seq(Row)
  BY DEF EngineInv, TypeOK
<1>3. ~HasLive(r)
  BY QuietRun DEF Selected, Monitored, RunFinal
<1>4. NextStep(r) \in DOMAIN Steps(r)
  BY <1>3, NextStepRange
<1>5. /\ rows' \in [Runs -> Seq(Row)]
      /\ Len(rows'[r]) = Len(rows[r]) + 1
      /\ Attempts(r)' = Attempts(r) \cup {Len(rows[r]) + 1}
      /\ rows'[r][Len(rows[r]) + 1] = row
      /\ \A j \in Attempts(r) : rows'[r][j] = rows[r][j] /\ j # Len(rows[r]) + 1
      /\ \A q \in Runs : q # r => rows'[q] = rows[q]
  <2>1. Append(rows[r], row) \in Seq(Row) /\ rows'[r] = Append(rows[r], row)
    BY <1>1, <1>2
  <2>2. rows' = [rows EXCEPT ![r] = Append(rows[r], row)]
    BY <1>1
  <2>3. rows' \in [Runs -> Seq(Row)]
    BY <2>1, <2>2, <1>2
  <2> QED
    BY <2>1, <2>2, <2>3, <1>2 DEF Attempts
<1>6. run' \in [Runs -> RunStatus] /\ run'[r] = status /\ \A q \in Runs : q # r => run'[q] = run[q]
  BY <1>1, <1>2 DEF TypeOK, RunStatus
<1>7. TypeOK'
  BY <1>1, <1>2, <1>5, <1>6 DEF TypeOK
<1>8. LiveIsLatest'
  <2> SUFFICES ASSUME NEW q \in Runs, NEW j \in Attempts(q)', IsLive(rows[q][j])'
               PROVE  /\ j = Len(rows'[q])
                      /\ run'[q] \in {"running", "waiting"} \cup RunFinal
    BY DEF LiveIsLatest
  <2>1. CASE q = r
    <3>1. j \notin Attempts(r)
      BY <1>3, <1>5, <2>1 DEF HasLive, IsLive
    <3> QED
      BY <3>1, <2>1, <1>5, <1>6
  <2>2. CASE q # r
    BY <2>2, <1>5, <1>6 DEF EngineInv, LiveIsLatest, IsLive, Attempts
  <2> QED
    BY <2>1, <2>2
<1>9. ClaimsHold'
  <2> SUFFICES ASSUME NEW d \in Consumers, claims[d] # NoClaim
               PROVE  /\ claims[d].row \in Attempts(claims[d].run)'
                      /\ rows'[claims[d].run][claims[d].row].status = "scheduled"
    BY DEF ClaimsHold, Attempts
  <2>1. /\ claims[d].run \in Runs
        /\ claims[d].row \in Attempts(claims[d].run)
        /\ rows[claims[d].run][claims[d].row].status = "scheduled"
    BY ClaimedRow
  <2>2. CASE claims[d].run = r
    BY <2>1, <2>2, <1>5
  <2>3. CASE claims[d].run # r
    BY <2>1, <2>3, <1>5 DEF Attempts
  <2> QED
    BY <2>2, <2>3
<1>10. ClaimsDisjoint'
  BY DEF EngineInv, ClaimsDisjoint
<1>11. StepsInRange'
  <2> SUFFICES ASSUME NEW q \in Runs, NEW j \in Attempts(q)'
               PROVE  rows'[q][j].step \in DOMAIN Steps(q)
    BY DEF StepsInRange, Steps
  <2>1. CASE q = r
    BY <2>1, <1>1, <1>4, <1>5 DEF EngineInv, StepsInRange
  <2>2. CASE q # r
    BY <2>2, <1>5 DEF EngineInv, StepsInRange, Attempts
  <2> QED
    BY <2>1, <2>2
<1> QED
  BY <1>7, <1>8, <1>9, <1>10, <1>11 DEF EngineInv

\* What RunConsumer does with a run it has selected.
LEMMA ScheduleRunInv ==
  ASSUME EngineInv, NEW r \in Runs, ScheduleRun(r)
  PROVE  EngineInv'
<1>1. /\ Selected(r) /\ ~HasLive(r) /\ TypeOK
      /\ UNCHANGED <<req, parents, claims, cancels, overdue, aborts>>
  BY QuietRun DEF ScheduleRun, Selected, Monitored, RunFinal, EngineInv
<1>2. ASSUME NEW status \in RunStatus, SetRun(r, status), expired' \in [Runs -> BOOLEAN],
             UNCHANGED rows
      PROVE  EngineInv'
  <2>1. run' \in [Runs -> RunStatus] /\ \A q \in Runs : q # r => run'[q] = run[q]
    BY <1>1, <1>2, RunSet
  <2>2. TypeOK'
    BY <1>1, <1>2, <2>1 DEF TypeOK
  <2> QED
    BY <1>1, <1>2, <2>1, <2>2, RunRowsOnly DEF EngineInv
<1>3. CASE \E status \in ExitStatus(r) : SetRun(r, status) /\ UNCHANGED <<rows, expired>>
  <2>1. ExitStatus(r) \subseteq RunStatus
    BY DEF ExitStatus, RunStatus
  <2> QED
    BY <1>1, <1>2, <1>3, <2>1 DEF TypeOK
<1>4. CASE \E status \in {"retrying", "sleeping"} : Postpone(r, status)
  BY <1>1, <1>2, <1>4 DEF Postpone, TypeOK, RunStatus
<1>5. CASE NextStep(r) # 0 /\ StartStep(r, NextStep(r))
  BY <1>1, <1>5, StartStepInv
<1> QED
  BY <1>3, <1>4, <1>5 DEF ScheduleRun

\* Claiming a row that no other transaction holds.
LEMMA ClaimActionInv ==
  ASSUME EngineInv, NEW c \in Consumers, NEW r \in Runs, NEW i \in Attempts(r),
         ClaimAction(c, r, i)
  PROVE  EngineInv'
<1> DEFINE claim == [phase |-> "claimed", run |-> r, row |-> i, cancelled |-> run[r] = "cancelled"]
<1>1. /\ UNCHANGED <<req, run, rows, expired, parents, cancels, overdue, aborts>>
      /\ rows[r][i].status = "scheduled" /\ ~Locked(r, i)
      /\ claims' = [claims EXCEPT ![c] = claim]
  BY DEF ClaimAction
<1>2. TypeOK /\ rows[r] \in Seq(Row) /\ i \in Nat
  BY DEF EngineInv, TypeOK, Attempts
<1>3. claim \in Claim /\ claim.run = r /\ claim.row = i
  BY <1>2 DEF Claim
<1> HIDE DEF claim
<1>4. \A d \in Consumers : claims'[d] = IF d = c THEN claim ELSE claims[d]
  BY <1>1, <1>2 DEF TypeOK
<1>5. claims' \in [Consumers -> Claim \cup {NoClaim}]
  BY <1>1, <1>2, <1>3 DEF TypeOK
<1>6. TypeOK'
  BY <1>1, <1>2, <1>5 DEF TypeOK
<1>7. LiveIsLatest' /\ StepsInRange'
  BY <1>1 DEF EngineInv, LiveIsLatest, StepsInRange, Attempts, Steps, IsLive
<1>8. ClaimsHold'
  <2> SUFFICES ASSUME NEW d \in Consumers, claims'[d] # NoClaim
               PROVE  /\ claims'[d].row \in Attempts(claims'[d].run)
                      /\ rows[claims'[d].run][claims'[d].row].status = "scheduled"
    BY <1>1 DEF ClaimsHold, Attempts
  <2>1. CASE d = c
    BY <2>1, <1>1, <1>3, <1>4
  <2>2. CASE d # c
    BY <2>2, <1>4 DEF EngineInv, ClaimsHold
  <2> QED
    BY <2>1, <2>2
<1>9. ClaimsDisjoint'
  <2> SUFFICES ASSUME NEW d \in Consumers, NEW e \in Consumers, d # e,
                      claims'[d] # NoClaim, claims'[e] # NoClaim
               PROVE  <<claims'[d].run, claims'[d].row>> # <<claims'[e].run, claims'[e].row>>
    BY DEF ClaimsDisjoint
  <2>1. \A f \in Consumers : claims[f] # NoClaim => ~(claims[f].run = r /\ claims[f].row = i)
    BY <1>1 DEF Locked
  <2>2. CASE d = c
    BY <2>1, <2>2, <1>3, <1>4
  <2>3. CASE e = c
    BY <2>1, <2>3, <1>3, <1>4
  <2>4. CASE d # c /\ e # c
    BY <2>4, <1>4 DEF EngineInv, ClaimsDisjoint
  <2> QED
    BY <2>2, <2>3, <2>4
<1> QED
  BY <1>6, <1>7, <1>8, <1>9 DEF EngineInv

\* A transaction that ends leaves the row it held to nobody.
LEMMA Released ==
  ASSUME EngineInv, NEW c \in Consumers, claims[c] # NoClaim, Release(c)
  PROVE  /\ claims' \in [Consumers -> Claim \cup {NoClaim}]
         /\ \A d \in Consumers : claims'[d] # NoClaim =>
              /\ claims'[d] = claims[d]
              /\ <<claims[d].run, claims[d].row>> # <<claims[c].run, claims[c].row>>
<1>1. claims \in [Consumers -> Claim \cup {NoClaim}]
  BY DEF EngineInv, TypeOK
<1>2. \A d \in Consumers : claims'[d] = IF d = c THEN NoClaim ELSE claims[d]
  BY <1>1 DEF Release
<1>3. claims' \in [Consumers -> Claim \cup {NoClaim}]
  BY <1>1 DEF Release
<1> QED
  BY <1>2, <1>3 DEF EngineInv, ClaimsDisjoint

\* A transaction ends and moves its row; the run moves only if the row ends.
LEMMA ClaimSettled ==
  ASSUME EngineInv, NEW c \in Consumers, claims[c] # NoClaim, Release(c),
         NEW r \in Runs, NEW i \in Attempts(r), claims[c].run = r, claims[c].row = i,
         NEW v \in ActionStatus, rows' = [rows EXCEPT ![r][i].status = v],
         run' \in [Runs -> RunStatus], parents' \in SUBSET Runs,
         \A q \in Runs : run'[q] = run[q] \/ (q = r /\ v \in ActionFinal),
         UNCHANGED <<req, expired, cancels, overdue, aborts>>
  PROVE  EngineInv'
<1>1. IsLive(rows[r][i])
  BY ClaimedRow DEF IsLive, ActionFinal
<1>2. claims' \in [Consumers -> Claim \cup {NoClaim}]
  BY Released
<1>3. \A d \in Consumers : claims'[d] # NoClaim =>
        claims'[d] = claims[d] /\ <<claims[d].run, claims[d].row>> # <<r, i>>
  BY Released
<1>4. UNCHANGED req
  OBVIOUS
<1>5. /\ rows' \in [Runs -> Seq(Row)]
      /\ LiveIsLatest' /\ ClaimsHold' /\ ClaimsDisjoint' /\ StepsInRange'
  BY <1>1, <1>3, <1>4, OneRowMoved, Zenon
<1>6. TypeOK'
  BY <1>2, <1>5 DEF EngineInv, TypeOK
<1> QED
  BY <1>5, <1>6 DEF EngineInv

\* A row that no transaction holds moves; the run moves only if the row ends.
LEMMA AgentRowMoved ==
  ASSUME EngineInv, NEW r \in Runs, NEW i \in Attempts(r),
         IsLive(rows[r][i]), rows[r][i].status # "scheduled",
         NEW v \in ActionStatus, rows' = [rows EXCEPT ![r][i].status = v],
         run' \in [Runs -> RunStatus],
         \A q \in Runs : run'[q] = run[q] \/ (q = r /\ v \in ActionFinal),
         UNCHANGED <<req, expired, parents, claims, cancels, overdue, aborts>>
  PROVE  EngineInv'
<1>1. \A d \in Consumers : claims'[d] # NoClaim =>
        claims'[d] = claims[d] /\ <<claims[d].run, claims[d].row>> # <<r, i>>
  BY DEF EngineInv, ClaimsHold
<1>2. /\ rows' \in [Runs -> Seq(Row)]
      /\ LiveIsLatest' /\ ClaimsHold' /\ ClaimsDisjoint' /\ StepsInRange'
  BY <1>1, OneRowMoved
<1>3. TypeOK'
  BY <1>2 DEF EngineInv, TypeOK
<1> QED
  BY <1>2, <1>3 DEF EngineInv

\* A consumer in a phase of its transaction has a claim.
LEMMA Holding ==
  ASSUME NEW c \in Consumers, Holds(c, "claimed") \/ Holds(c, "executed")
  PROVE  claims[c] # NoClaim
<1>1. NoClaim.phase = "idle"
  BY DEF NoClaim
<1> QED
  BY <1>1 DEF Holds

\* The actions that commit a consumer's transaction.
LEMMA TransactionEnds ==
  ASSUME EngineInv, NEW c \in Consumers,
         SkipCancelled(c) \/ EndUnrun(c) \/ Commit(c) \/ WaitForChildren(c)
  PROVE  EngineInv'
<1>0. claims[c] # NoClaim
  BY Holding DEF SkipCancelled, EndUnrun, Commit, WaitForChildren
<1> PICK r \in Runs : r = claims[c].run
  BY <1>0, ClaimedRow
<1> PICK i \in Attempts(r) : i = claims[c].row
  BY <1>0, ClaimedRow
<1>1. TypeOK
  BY DEF EngineInv
<1>2. ASSUME NEW v \in ActionFinal, EndRow(r, i, v), Release(c),
             UNCHANGED <<req, expired, parents, cancels, overdue, aborts>>
      PROVE  EngineInv'
  <2>1. /\ run' \in [Runs -> RunStatus]
        /\ \A q \in Runs : run'[q] = run[q] \/ q = r
    BY <1>1, <1>2, Rescheduled DEF EndRow
  <2>2. v \in ActionStatus /\ parents' \in SUBSET Runs
    BY <1>1, <1>2 DEF ActionStatus, TypeOK
  <2> QED
    BY <1>0, <1>2, <2>1, <2>2, ClaimSettled DEF EndRow
<1>3. CASE SkipCancelled(c)
  <2>1. run' \in [Runs -> RunStatus] /\ parents' \in SUBSET Runs /\ "skipped" \in ActionStatus
    BY <1>1, <1>3 DEF SkipCancelled, TypeOK, ActionStatus, ActionFinal
  <2> QED
    BY <1>0, <1>3, <2>1, ClaimSettled DEF SkipCancelled
<1>4. CASE EndUnrun(c)
  BY <1>2, <1>4 DEF EndUnrun, ActionFinal
<1>5. CASE Commit(c)
  BY <1>2, <1>5 DEF Commit, ActionFinal
<1>6. CASE WaitForChildren(c)
  <2>1. /\ run' \in [Runs -> RunStatus] /\ parents' \in SUBSET Runs
        /\ "waiting_children" \in ActionStatus
    BY <1>1, <1>6 DEF WaitForChildren, TypeOK, ActionStatus
  <2> QED
    BY <1>0, <1>6, <2>1, ClaimSettled DEF WaitForChildren
<1> QED
  BY <1>3, <1>4, <1>5, <1>6

\* What happens to the rows that an agent executes.
LEMMA AgentActions ==
  ASSUME EngineInv, NEW r \in Runs, NEW i \in Attempts(r),
         AgentPoll(r, i) \/ AgentTemplateError(r, i) \/ AgentResult(r, i)
  PROVE  EngineInv'
<1>1. TypeOK /\ IsLive(rows[r][i]) /\ rows[r][i].status # "scheduled"
  BY DEF AgentPoll, AgentTemplateError, AgentResult, IsLive, ActionFinal, EngineInv
<1>2. ASSUME NEW v \in ActionFinal, EndRow(r, i, v),
             UNCHANGED <<req, expired, parents, claims, cancels, overdue, aborts>>
      PROVE  EngineInv'
  <2>1. /\ run' \in [Runs -> RunStatus]
        /\ \A q \in Runs : run'[q] = run[q] \/ q = r
    BY <1>1, <1>2, Rescheduled DEF EndRow
  <2>2. v \in ActionStatus
    BY DEF ActionStatus
  <2> QED
    BY <1>1, <1>2, <2>1, <2>2, AgentRowMoved DEF EndRow
<1>3. CASE AgentPoll(r, i)
  <2> DEFINE v == IF run[r] = "cancelled" THEN "skipped" ELSE "running"
  <2>1. v \in ActionStatus
    BY DEF ActionStatus, ActionFinal
  <2>2. /\ rows' = [rows EXCEPT ![r][i].status = v]
        /\ run' = run /\ run' \in [Runs -> RunStatus]
        /\ UNCHANGED <<req, expired, parents, claims, cancels, overdue, aborts>>
    BY <1>1, <1>3 DEF AgentPoll, TypeOK
  <2> HIDE DEF v
  <2> QED
    BY <1>1, <2>1, <2>2, AgentRowMoved
<1>4. CASE AgentTemplateError(r, i)
  BY <1>2, <1>4 DEF AgentTemplateError, ActionFinal
<1>5. CASE AgentResult(r, i)
  BY <1>2, <1>5 DEF AgentResult
<1> QED
  BY <1>3, <1>4, <1>5

\* A live row is rewritten and stays queued; runs and held rows stay the same.
LEMMA RowRewritten ==
  ASSUME EngineInv, NEW r \in Runs, NEW i \in Attempts(r), NEW row \in Row,
         IsLive(rows[r][i]), row.step = rows[r][i].step, row.status = "scheduled",
         rows' = [rows EXCEPT ![r][i] = row], UNCHANGED <<req, run>>,
         \A d \in Consumers : claims'[d] # NoClaim =>
           /\ claims[d] # NoClaim
           /\ claims'[d].run = claims[d].run /\ claims'[d].row = claims[d].row
  PROVE  /\ rows' \in [Runs -> Seq(Row)]
         /\ LiveIsLatest' /\ ClaimsHold' /\ ClaimsDisjoint' /\ StepsInRange'
<1>1. /\ rows' \in [Runs -> Seq(Row)]
      /\ \A q \in Runs :
           /\ Len(rows'[q]) = Len(rows[q])
           /\ Attempts(q)' = Attempts(q)
           /\ \A j \in Attempts(q) : rows'[q][j] = IF q = r /\ j = i THEN row ELSE rows[q][j]
  <2>1. rows \in [Runs -> Seq(Row)] /\ i \in DOMAIN rows[r]
    BY DEF EngineInv, TypeOK, Attempts
  <2>2. LET S == [rows EXCEPT ![r][i] = row] IN
           /\ S \in [Runs -> Seq(Row)]
           /\ \A q \in Runs :
                /\ Len(S[q]) = Len(rows[q])
                /\ DOMAIN S[q] = DOMAIN rows[q]
                /\ \A j \in DOMAIN rows[q] : S[q][j] = IF q = r /\ j = i THEN row ELSE rows[q][j]
    BY <2>1, RowReplaced
  <2> QED
    BY <2>2 DEF Attempts
<1>2. LiveIsLatest'
  BY <1>1 DEF EngineInv, LiveIsLatest, IsLive
<1>3. ClaimsHold'
  <2> SUFFICES ASSUME NEW d \in Consumers, claims'[d] # NoClaim
               PROVE  /\ claims'[d].row \in DOMAIN rows'[claims'[d].run]
                      /\ rows'[claims'[d].run][claims'[d].row].status = "scheduled"
    BY DEF ClaimsHold, Attempts
  <2>1. /\ claims[d].run \in Runs
        /\ claims[d].row \in Attempts(claims[d].run)
        /\ rows[claims[d].run][claims[d].row].status = "scheduled"
    BY ClaimedRow
  <2>2. PICK q \in Runs : q = claims[d].run
    BY <2>1
  <2>3. PICK j \in Attempts(q) : j = claims[d].row
    BY <2>1, <2>2
  <2>4. rows'[q][j] = IF q = r /\ j = i THEN row ELSE rows[q][j]
    BY <1>1
  <2>5. j \in DOMAIN rows'[q] /\ rows'[q][j].status = "scheduled"
    BY <1>1, <2>1, <2>2, <2>3, <2>4 DEF Attempts
  <2> QED
    BY <2>2, <2>3, <2>5
<1>4. ClaimsDisjoint'
  BY DEF EngineInv, ClaimsDisjoint
<1>5. StepsInRange'
  BY <1>1 DEF EngineInv, StepsInRange, Steps
<1> QED
  BY <1>1, <1>2, <1>3, <1>4, <1>5

\* The update of ResumeChildren, on the record itself.
Resumed(row) == [row EXCEPT !.status = "scheduled", !.ran = 0, !.lost = 0]

LEMMA RowFields ==
  ASSUME NEW row \in Row
  PROVE  /\ Resumed(row) \in Row
         /\ Resumed(row).step = row.step /\ Resumed(row).count = row.count
         /\ Resumed(row).agent = row.agent /\ Resumed(row).status = "scheduled"
         /\ Resumed(row).ran = 0 /\ Resumed(row).lost = 0
BY DEF Row, ActionStatus, Resumed

\* The updates of Execute and of Abort write history only.
LEMMA HistoryFields ==
  ASSUME NEW row \in Row, NEW n \in Nat
  PROVE  /\ [row EXCEPT !.ran = n] \in Row /\ [row EXCEPT !.lost = n] \in Row
         /\ [row EXCEPT !.ran = n].step = row.step /\ [row EXCEPT !.lost = n].step = row.step
         /\ [row EXCEPT !.ran = n].count = row.count /\ [row EXCEPT !.lost = n].count = row.count
         /\ [row EXCEPT !.ran = n].agent = row.agent /\ [row EXCEPT !.lost = n].agent = row.agent
         /\ [row EXCEPT !.ran = n].status = row.status
         /\ [row EXCEPT !.lost = n].status = row.status
         /\ [row EXCEPT !.ran = n].ran = n /\ [row EXCEPT !.ran = n].lost = row.lost
         /\ [row EXCEPT !.lost = n].lost = n /\ [row EXCEPT !.lost = n].ran = row.ran
BY DEF Row

\* A consumer that executes its action, or whose transaction rolls back, leaves
\* the row as it is but for its history, and no other row changes.
SameButHistory(row, old) ==
  row.step = old.step /\ row.count = old.count /\ row.agent = old.agent /\ row.status = old.status

\* What Execute and Abort write into the history of the row.
OneMore(row, old) == row.ran = old.ran + 1 /\ row.lost = old.lost
LostIf(row, old, executed) ==
  row.ran = old.ran /\ row.lost = (IF executed THEN old.lost + 1 ELSE old.lost)

LEMMA HistoryRow ==
  ASSUME EngineInv, NEW c \in Consumers, Execute(c) \/ Abort(c)
  PROVE  \E r \in Runs : \E i \in Attempts(r) : \E row \in Row :
           /\ claims[c] # NoClaim /\ claims[c] \in Claim
           /\ claims[c].run = r /\ claims[c].row = i
           /\ rows[r][i] \in Row /\ rows[r][i].status = "scheduled" /\ IsLive(rows[r][i])
           /\ SameButHistory(row, rows[r][i])
           /\ (Execute(c) => OneMore(row, rows[r][i]))
           /\ (Abort(c) => LostIf(row, rows[r][i], Holds(c, "executed")))
           /\ rows' = [rows EXCEPT ![r][i] = row]
           /\ UNCHANGED <<req, run, expired, parents, cancels, overdue>>
<1>1. claims[c] # NoClaim /\ TypeOK
  BY Holding DEF Execute, Abort, EngineInv
<1>0. ~(Execute(c) /\ Abort(c))
  BY <1>1, ClaimedRow DEF Execute, Abort, Release, NoClaim, Holds, TypeOK, Claim
<1> PICK r \in Runs : r = claims[c].run
  BY <1>1, ClaimedRow
<1> PICK i \in Attempts(r) : i = claims[c].row
  BY <1>1, ClaimedRow
<1>2. /\ rows[r][i] \in Row /\ rows[r][i].status = "scheduled" /\ claims[c] \in Claim
      /\ rows \in [Runs -> Seq(Row)]
  BY <1>1, ClaimedRow DEF TypeOK, Attempts
<1>3. IsLive(rows[r][i])
  BY <1>2 DEF IsLive, ActionFinal
<1>4. rows[r][i].ran \in Nat /\ rows[r][i].lost \in Nat
  BY <1>2 DEF Row
<1>5. \E row \in Row : /\ SameButHistory(row, rows[r][i])
                       /\ (Execute(c) => OneMore(row, rows[r][i]))
                       /\ (Abort(c) => LostIf(row, rows[r][i], Holds(c, "executed")))
                       /\ rows' = [rows EXCEPT ![r][i] = row]
  <2>1. CASE Execute(c)
    <3>1. PICK n \in Nat : n = rows[r][i].ran + 1
      BY <1>4
    <3>2. PICK row \in Row : row = [rows[r][i] EXCEPT !.ran = n]
      BY <1>2, HistoryFields
    <3>3. rows' = [rows EXCEPT ![r][i] = row]
      BY <1>2, <2>1, <3>1, <3>2 DEF Execute
    <3>4. SameButHistory(row, rows[r][i]) /\ OneMore(row, rows[r][i])
      BY <1>2, <3>1, <3>2, HistoryFields DEF SameButHistory, OneMore
    <3> QED
      BY <1>0, <2>1, <3>3, <3>4
  <2>2. CASE Abort(c)
    <3>1. PICK n \in Nat : n = IF Holds(c, "executed") THEN rows[r][i].lost + 1 ELSE rows[r][i].lost
      BY <1>4
    <3>2. PICK row \in Row : row = [rows[r][i] EXCEPT !.lost = n]
      BY <1>2, HistoryFields
    <3>3. rows' = [rows EXCEPT ![r][i] = row]
      BY <1>2, <2>2, <3>1, <3>2 DEF Abort
    <3>4. SameButHistory(row, rows[r][i]) /\ LostIf(row, rows[r][i], Holds(c, "executed"))
      BY <1>2, <3>1, <3>2, HistoryFields DEF SameButHistory, LostIf
    <3> QED
      BY <1>0, <2>2, <3>3, <3>4
  <2> QED
    BY <2>1, <2>2
<1>6. UNCHANGED <<req, run, expired, parents, cancels, overdue>>
  BY DEF Execute, Abort
<1> QED
  BY <1>1, <1>2, <1>3, <1>5, <1>6

LEMMA ClaimFields ==
  ASSUME NEW claim \in Claim
  PROVE  /\ [claim EXCEPT !.phase = "executed"] \in Claim
         /\ [claim EXCEPT !.phase = "executed"].run = claim.run
         /\ [claim EXCEPT !.phase = "executed"].row = claim.row
BY DEF Claim

\* The claim of a consumer that executes its action or rolls back.
LEMMA HistoryClaim ==
  ASSUME EngineInv, NEW c \in Consumers, Execute(c) \/ Abort(c)
  PROVE  /\ claims' \in [Consumers -> Claim \cup {NoClaim}]
         /\ \A d \in Consumers : claims'[d] # NoClaim =>
              /\ claims[d] # NoClaim
              /\ claims'[d].run = claims[d].run /\ claims'[d].row = claims[d].row
         /\ \A d \in Consumers \ {c} : claims'[d] = claims[d]
<1>1. claims \in [Consumers -> Claim \cup {NoClaim}]
  BY DEF EngineInv, TypeOK
<1>2. CASE Execute(c)
  <2>1. claims[c] # NoClaim /\ claims[c] \in Claim
    BY <1>2, Holding, ClaimedRow DEF Execute
  <2>2. PICK claim \in Claim : /\ claim = [claims[c] EXCEPT !.phase = "executed"]
                               /\ claim.run = claims[c].run /\ claim.row = claims[c].row
    BY <2>1, ClaimFields
  <2>3. claims' = [claims EXCEPT ![c] = claim]
    BY <1>2, <2>2 DEF Execute
  <2>4. /\ claims' \in [Consumers -> Claim \cup {NoClaim}]
        /\ \A d \in Consumers : claims'[d] = IF d = c THEN claim ELSE claims[d]
    BY <1>1, <2>3
  <2> QED
    BY <2>1, <2>2, <2>4
<1>3. CASE Abort(c)
  <2>1. claims[c] # NoClaim /\ Release(c)
    BY <1>3 DEF Abort
  <2>2. \A d \in Consumers \ {c} : claims'[d] = claims[d]
    BY <1>1, <2>1 DEF Release
  <2> QED
    BY <2>1, <2>2, Released
<1> QED
  BY <1>2, <1>3

\* An action is executed while its row stays queued and held; a transaction that
\* rolls back leaves the row queued.
LEMMA HistoryInv ==
  ASSUME EngineInv, NEW c \in Consumers, Execute(c) \/ Abort(c)
  PROVE  EngineInv'
<1>1. PICK r \in Runs : \E i \in Attempts(r) : \E row \in Row :
        /\ rows[r][i].status = "scheduled" /\ IsLive(rows[r][i])
        /\ SameButHistory(row, rows[r][i])
        /\ rows' = [rows EXCEPT ![r][i] = row]
        /\ UNCHANGED <<req, run, expired, parents, cancels, overdue>>
  BY HistoryRow
<1>2. PICK i \in Attempts(r) : \E row \in Row :
        /\ rows[r][i].status = "scheduled" /\ IsLive(rows[r][i])
        /\ SameButHistory(row, rows[r][i])
        /\ rows' = [rows EXCEPT ![r][i] = row]
        /\ UNCHANGED <<req, run, expired, parents, cancels, overdue>>
  BY <1>1
<1>3. PICK row \in Row :
        /\ rows[r][i].status = "scheduled" /\ IsLive(rows[r][i])
        /\ SameButHistory(row, rows[r][i])
        /\ rows' = [rows EXCEPT ![r][i] = row]
        /\ UNCHANGED <<req, run, expired, parents, cancels, overdue>>
  BY <1>2
<1>4. row.step = rows[r][i].step /\ row.status = "scheduled"
  BY <1>3 DEF SameButHistory
<1>5. /\ rows' \in [Runs -> Seq(Row)]
      /\ LiveIsLatest' /\ ClaimsHold' /\ ClaimsDisjoint' /\ StepsInRange'
  BY <1>3, <1>4, HistoryClaim, RowRewritten
<1>6. aborts' \in Nat
  BY DEF Execute, Abort, EngineInv, TypeOK
<1>7. TypeOK'
  BY <1>3, <1>5, <1>6, HistoryClaim DEF EngineInv, TypeOK
<1> QED
  BY <1>5, <1>7 DEF EngineInv

\* An action that has waited for its children is queued again.
LEMMA ResumeChildrenInv ==
  ASSUME EngineInv, NEW r \in Runs, NEW i \in Attempts(r), ResumeChildren(r, i)
  PROVE  EngineInv'
<1>1. TypeOK /\ rows \in [Runs -> Seq(Row)] /\ rows[r][i] \in Row
  BY DEF EngineInv, TypeOK, Attempts
<1>2. PICK row \in Row : /\ row = Resumed(rows[r][i])
                         /\ row.step = rows[r][i].step /\ row.status = "scheduled"
  BY <1>1, RowFields
<1>3. rows' = [rows EXCEPT ![r][i] = row]
  BY <1>1, <1>2 DEF ResumeChildren, Attempts, Resumed
<1>4. UNCHANGED <<req, run, expired, parents, claims, cancels, overdue, aborts>> /\ IsLive(rows[r][i])
  BY DEF ResumeChildren, IsLive, ActionFinal
<1>5. /\ rows' \in [Runs -> Seq(Row)]
      /\ LiveIsLatest' /\ ClaimsHold' /\ ClaimsDisjoint' /\ StepsInRange'
  BY <1>2, <1>3, <1>4, RowRewritten
<1>6. TypeOK'
  BY <1>1, <1>4, <1>5 DEF TypeOK
<1> QED
  BY <1>5, <1>6 DEF EngineInv

----------------------------------------------------------------------------
(* The theorems.                                                           *)

LEMMA EngineInvInit == Init => EngineInv
<1> SUFFICES ASSUME Init PROVE EngineInv
  OBVIOUS
<1>1. TypeOK
  BY DEF Init, TypeOK, RunStatus
<1>2. \A r \in Runs : Attempts(r) = {}
  BY DEF Init, Attempts
<1>3. \A c \in Consumers : claims[c] = NoClaim
  BY DEF Init
<1> QED
  BY <1>1, <1>2, <1>3 DEF EngineInv, LiveIsLatest, ClaimsHold, ClaimsDisjoint, StepsInRange

LEMMA EngineInvNext == EngineInv /\ [Next]_vars => EngineInv'
<1> SUFFICES ASSUME EngineInv, [Next]_vars PROVE EngineInv'
  OBVIOUS
<1>1. ASSUME NEW r \in Runs, RunNext(r) PROVE EngineInv'
  BY <1>1, RunRowActions, ScheduleRunInv DEF RunNext
<1>2. ASSUME NEW r \in Runs, NEW i \in Attempts(r), RowNext(r, i) PROVE EngineInv'
  BY <1>2, ClaimActionInv, ResumeChildrenInv, AgentActions DEF RowNext
<1>3. ASSUME NEW c \in Consumers, ConsumerNext(c) PROVE EngineInv'
  BY <1>3, TransactionEnds, HistoryInv DEF ConsumerNext
<1>4. CASE TimeoutScan
  <2>1. UNCHANGED <<req, run, rows, claims>> /\ TypeOK'
    BY <1>4 DEF TimeoutScan, EngineInv, TypeOK
  <2> QED
    BY <2>1, RunRowsOnly DEF EngineInv
<1>5. CASE UNCHANGED vars
  BY <1>5 DEF vars, EngineInv, TypeOK, LiveIsLatest, ClaimsHold, ClaimsDisjoint, StepsInRange,
              Attempts, Steps, IsLive
<1> QED
  BY <1>1, <1>2, <1>3, <1>4, <1>5 DEF Next

\* The engine keeps its inductive invariant, whatever runs, requests, consumers,
\* cancels, timeouts and aborted transactions there are (ScheduleRun in
\* runner.go and the consumers of run_consumer.go).
THEOREM EngineCorrect == Spec => []EngineInv
<1> QED
  BY EngineInvInit, EngineInvNext, PTL DEF Spec

\* The rows always have the types the schema gives them.
THEOREM TypeCorrect == Spec => []TypeOK
<1>1. EngineInv => TypeOK
  BY DEF EngineInv
<1> QED
  BY <1>1, EngineCorrect, PTL

\* No run ever has two actions in flight: two goroutines of the consumers, a
\* cancel or a timeout in between never start a second one.
THEOREM OneLiveActionCorrect == Spec => []OneLiveAction
<1>1. EngineInv => OneLiveAction
  <2> SUFFICES ASSUME EngineInv, NEW r \in Runs, NEW i \in Attempts(r), NEW j \in Attempts(r),
                      IsLive(rows[r][i]), IsLive(rows[r][j])
               PROVE  i = j
    BY DEF OneLiveAction
  <2> QED
    BY DEF EngineInv, LiveIsLatest
<1> QED
  BY <1>1, EngineCorrect, PTL

----------------------------------------------------------------------------
(* What one step may do to the attempts of a run.                          *)

SameAttempts(r) ==
  /\ Len(rows'[r]) = Len(rows[r])
  /\ DOMAIN rows'[r] = DOMAIN rows[r]
  /\ \A j \in Attempts(r) :
       /\ rows'[r][j].step = rows[r][j].step /\ rows'[r][j].count = rows[r][j].count
       /\ ~IsLive(rows[r][j]) => rows'[r][j] = rows[r][j]

NewAttempt(r) ==
  /\ Selected(r) /\ ~HasLive(r) /\ NextStep(r) # 0
  /\ \E row \in Row : /\ row.step = NextStep(r) /\ row.count = NextCount(r)
                      /\ rows'[r] = Append(rows[r], row)

\* Moving one live row leaves every attempt and every outcome in place.
LEMMA LiveRowMoved ==
  ASSUME EngineInv, NEW r \in Runs, NEW i \in Attempts(r), IsLive(rows[r][i]),
         NEW v \in ActionStatus, rows' = [rows EXCEPT ![r][i].status = v]
  PROVE  \A q \in Runs : SameAttempts(q)
<1>1. \A q \in Runs :
        /\ Len(rows'[q]) = Len(rows[q])
        /\ DOMAIN rows'[q] = DOMAIN rows[q]
        /\ \A j \in DOMAIN rows[q] :
             rows'[q][j] = IF q = r /\ j = i THEN [rows[q][j] EXCEPT !.status = v]
                           ELSE rows[q][j]
  BY RowsSet DEF EngineInv
<1> SUFFICES ASSUME NEW q \in Runs, NEW j \in Attempts(q)
             PROVE  /\ rows'[q][j].step = rows[q][j].step /\ rows'[q][j].count = rows[q][j].count
                    /\ ~IsLive(rows[q][j]) => rows'[q][j] = rows[q][j]
  BY <1>1 DEF SameAttempts
<1>2. rows[q][j] \in Row
  BY DEF EngineInv, TypeOK, Attempts
<1>3. CASE q = r /\ j = i
  <2>1. rows'[q][j] = [rows[q][j] EXCEPT !.status = v]
    BY <1>1, <1>3 DEF Attempts
  <2> QED
    BY <2>1, <1>2, <1>3 DEF Row
<1>4. CASE ~(q = r /\ j = i)
  BY <1>1, <1>4 DEF Attempts
<1> QED
  BY <1>3, <1>4

\* So does rewriting one live row.
LEMMA LiveRowRewritten ==
  ASSUME EngineInv, NEW r \in Runs, NEW i \in Attempts(r), IsLive(rows[r][i]),
         NEW row \in Row, row.step = rows[r][i].step, row.count = rows[r][i].count,
         rows' = [rows EXCEPT ![r][i] = row]
  PROVE  \A q \in Runs : SameAttempts(q)
<1>1. rows \in [Runs -> Seq(Row)] /\ i \in DOMAIN rows[r]
  BY DEF EngineInv, TypeOK, Attempts
<1>2. LET S == [rows EXCEPT ![r][i] = row] IN
         /\ S \in [Runs -> Seq(Row)]
         /\ \A q \in Runs :
              /\ Len(S[q]) = Len(rows[q])
              /\ DOMAIN S[q] = DOMAIN rows[q]
              /\ \A j \in DOMAIN rows[q] : S[q][j] = IF q = r /\ j = i THEN row ELSE rows[q][j]
  BY <1>1, RowReplaced
<1> QED
  BY <1>2 DEF SameAttempts, Attempts

LEMMA RowsUntouched ==
  ASSUME UNCHANGED rows
  PROVE  \A q \in Runs : SameAttempts(q)
BY DEF SameAttempts, Attempts

\* Every step of the engine keeps the attempts of a run, or adds one that
\* GetNextActionToRun has chosen while no action of the run was live.
LEMMA AttemptsStep ==
  ASSUME EngineInv, [Next]_vars
  PROVE  UNCHANGED req /\ \A q \in Runs : SameAttempts(q) \/ NewAttempt(q)
<1>1. ASSUME NEW r \in Runs, RunNext(r)
      PROVE  UNCHANGED req /\ \A q \in Runs : SameAttempts(q) \/ NewAttempt(q)
  <2>1. CASE ScheduleRun(r)
    <3>1. UNCHANGED req /\ Selected(r)
      BY <2>1 DEF ScheduleRun
    <3>2. CASE UNCHANGED rows
      BY <3>1, <3>2, RowsUntouched
    <3>3. CASE NextStep(r) # 0 /\ StartStep(r, NextStep(r))
      <4>1. PICK row \in Row : /\ row.step = NextStep(r) /\ row.count = NextCount(r)
                               /\ rows' = [rows EXCEPT ![r] = Append(@, row)]
        BY <3>1, <3>3, StepStarted
      <4>2. rows'[r] = Append(rows[r], row) /\ \A q \in Runs : q # r => rows'[q] = rows[q]
        BY <4>1 DEF EngineInv, TypeOK
      <4>3. ~HasLive(r)
        BY <3>1, QuietRun DEF Selected, Monitored, RunFinal
      <4> QED
        BY <3>1, <3>3, <4>1, <4>2, <4>3 DEF SameAttempts, NewAttempt, Attempts
    <3> QED
      BY <2>1, <3>2, <3>3 DEF ScheduleRun, Postpone
  <2>2. CASE ~ScheduleRun(r)
    <3>1. UNCHANGED <<req, rows>>
      BY <1>1, <2>2 DEF RunNext, Create, Approve, FailSchedule, CancelCheck, CancelWrite,
                        Expire, TimeoutMark
    <3> QED
      BY <3>1, RowsUntouched
  <2> QED
    BY <2>1, <2>2
<1>2. ASSUME NEW r \in Runs, NEW i \in Attempts(r), RowNext(r, i)
      PROVE  UNCHANGED req /\ \A q \in Runs : SameAttempts(q)
  <2>1. CASE \E c \in Consumers : ClaimAction(c, r, i)
    BY <2>1, RowsUntouched DEF ClaimAction
  <2>2. CASE ResumeChildren(r, i)
    <3>1. rows \in [Runs -> Seq(Row)] /\ rows[r][i] \in Row
      BY DEF EngineInv, TypeOK, Attempts
    <3>2. PICK row \in Row : /\ row = Resumed(rows[r][i])
                             /\ row.step = rows[r][i].step /\ row.count = rows[r][i].count
      BY <3>1, RowFields
    <3>3. rows' = [rows EXCEPT ![r][i] = row] /\ UNCHANGED req /\ IsLive(rows[r][i])
      BY <2>2, <3>1, <3>2 DEF ResumeChildren, Attempts, IsLive, ActionFinal, Resumed
    <3> QED
      BY <3>2, <3>3, LiveRowRewritten
  <2>3. CASE AgentPoll(r, i)
    <3> DEFINE v == IF run[r] = "cancelled" THEN "skipped" ELSE "running"
    <3>1. /\ v \in ActionStatus /\ rows' = [rows EXCEPT ![r][i].status = v]
          /\ UNCHANGED req /\ IsLive(rows[r][i])
      BY <2>3 DEF AgentPoll, ActionStatus, IsLive, ActionFinal
    <3> HIDE DEF v
    <3> QED
      BY <3>1, LiveRowMoved
  <2>4. CASE AgentTemplateError(r, i) \/ AgentResult(r, i)
    <3>1. PICK v \in ActionStatus : rows' = [rows EXCEPT ![r][i].status = v]
      BY <2>4 DEF AgentTemplateError, AgentResult, EndRow, ActionStatus, ActionFinal
    <3>2. UNCHANGED req /\ IsLive(rows[r][i])
      BY <2>4 DEF AgentTemplateError, AgentResult, IsLive, ActionFinal
    <3> QED
      BY <3>1, <3>2, LiveRowMoved
  <2> QED
    BY <1>2, <2>1, <2>2, <2>3, <2>4 DEF RowNext
<1>3. ASSUME NEW c \in Consumers, ConsumerNext(c)
      PROVE  UNCHANGED req /\ \A q \in Runs : SameAttempts(q)
  <2>1. CASE Execute(c) \/ Abort(c)
    <3>1. PICK r \in Runs : \E i \in Attempts(r) : \E row \in Row :
            /\ IsLive(rows[r][i]) /\ SameButHistory(row, rows[r][i])
            /\ rows' = [rows EXCEPT ![r][i] = row] /\ UNCHANGED req
      BY <2>1, HistoryRow
    <3> QED
      BY <3>1, LiveRowRewritten DEF SameButHistory
  <2>2. CASE ~(Execute(c) \/ Abort(c))
    <3>1. claims[c] # NoClaim /\ UNCHANGED req
      BY <1>3, <2>2, Holding DEF ConsumerNext, SkipCancelled, EndUnrun, Commit, WaitForChildren
    <3> PICK r \in Runs : r = claims[c].run
      BY <3>1, ClaimedRow
    <3> PICK i \in Attempts(r) : i = claims[c].row
      BY <3>1, ClaimedRow
    <3>2. IsLive(rows[r][i]) /\ rows \in [Runs -> Seq(Row)] /\ rows[r][i] \in Row
      BY <3>1, ClaimedRow DEF IsLive, ActionFinal, EngineInv, TypeOK, Attempts
    <3>3. PICK v \in ActionStatus : rows' = [rows EXCEPT ![r][i].status = v]
      BY <1>3, <2>2 DEF ConsumerNext, SkipCancelled, EndUnrun, Commit, WaitForChildren,
                        EndRow, ActionStatus, ActionFinal
    <3> QED
      BY <3>1, <3>2, <3>3, LiveRowMoved
  <2> QED
    BY <2>1, <2>2
<1>4. CASE TimeoutScan \/ UNCHANGED vars
  BY <1>4, RowsUntouched DEF TimeoutScan, vars
<1> QED
  BY <1>1, <1>2, <1>3, <1>4 DEF Next

\* The outcome of an action, once recorded, is never overwritten: not by a
\* second consumer, a late answer of an agent, a cancel or a resumed parent.
THEOREM OutcomeKeptCorrect == Spec => OutcomeKept
<1>1. EngineInv /\ [Next]_vars =>
        [\A r \in Runs : \A i \in Attempts(r) :
           ~IsLive(rows[r][i]) => rows'[r][i].status = rows[r][i].status]_vars
  <2> SUFFICES ASSUME EngineInv, [Next]_vars, NEW r \in Runs, NEW i \in Attempts(r),
                      ~IsLive(rows[r][i])
               PROVE  rows'[r][i].status = rows[r][i].status
    OBVIOUS
  <2>1. CASE SameAttempts(r)
    BY <2>1 DEF SameAttempts
  <2>2. CASE NewAttempt(r)
    <3>1. PICK row \in Row : rows'[r] = Append(rows[r], row)
      BY <2>2 DEF NewAttempt
    <3>2. rows[r] \in Seq(Row) /\ i \in 1 .. Len(rows[r])
      BY DEF EngineInv, TypeOK, Attempts
    <3> QED
      BY <3>1, <3>2
  <2> QED
    BY <2>1, <2>2, AttemptsStep
<1> QED
  BY <1>1, EngineCorrect, PTL DEF Spec, OutcomeKept

\* The attempts of every run follow GetNextActionToRun: a retry or a later step
\* with a filter after a failure, else the next step.
THEOREM StepOrderCorrect == Spec => []StepOrder
<1>1. Init => StepOrder
  BY DEF Init, StepOrder, Attempts
<1>2. EngineInv /\ StepOrder /\ [Next]_vars => StepOrder'
  <2> SUFFICES ASSUME EngineInv, StepOrder, [Next]_vars, NEW r \in Runs,
                      NEW i \in DOMAIN rows'[r] \ {1}
               PROVE  IF rows'[r][i - 1].status = "failed"
                      THEN \/ /\ rows'[r][i].step = rows'[r][i - 1].step
                              /\ Steps(r)[rows'[r][i].step].retry > 0
                           \/ /\ rows'[r][i].step > rows'[r][i - 1].step
                              /\ Steps(r)[rows'[r][i].step].filter
                      ELSE rows'[r][i].step = rows'[r][i - 1].step + 1
    BY AttemptsStep DEF StepOrder, Attempts, Steps
  <2>1. rows[r] \in Seq(Row) /\ DOMAIN rows[r] = 1 .. Len(rows[r]) /\ Len(rows[r]) \in Nat
    BY DEF EngineInv, TypeOK
  <2>2. ASSUME NEW j \in Attempts(r) \ {1}
        PROVE  IF rows[r][j - 1].status = "failed"
               THEN \/ rows[r][j].step = rows[r][j - 1].step /\ Steps(r)[rows[r][j].step].retry > 0
                    \/ rows[r][j].step > rows[r][j - 1].step /\ Steps(r)[rows[r][j].step].filter
               ELSE rows[r][j].step = rows[r][j - 1].step + 1
    BY DEF StepOrder
  <2>3. CASE SameAttempts(r)
    <3>1. i \in Attempts(r) /\ i - 1 \in Attempts(r) /\ i - 1 # Len(rows[r])
      BY <2>1, <2>3 DEF SameAttempts, Attempts
    <3>2. ~IsLive(rows[r][i - 1])
      BY <3>1 DEF EngineInv, LiveIsLatest
    <3>3. /\ rows'[r][i].step = rows[r][i].step
          /\ rows'[r][i - 1].step = rows[r][i - 1].step
          /\ rows'[r][i - 1].status = rows[r][i - 1].status
      BY <3>1, <3>2, <2>3 DEF SameAttempts
    <3> QED
      BY <3>1, <3>3, <2>2
  <2>4. CASE NewAttempt(r)
    <3>1. PICK row \in Row : row.step = NextStep(r) /\ rows'[r] = Append(rows[r], row)
      BY <2>4 DEF NewAttempt
    <3>2. CASE i \in Attempts(r)
      <4>1. rows'[r][i] = rows[r][i] /\ rows'[r][i - 1] = rows[r][i - 1] /\ i \in Attempts(r) \ {1}
        BY <2>1, <3>1, <3>2 DEF Attempts
      <4> QED
        BY <4>1, <2>2
    <3>3. CASE i \notin Attempts(r)
      <4>1. /\ i = Len(rows[r]) + 1 /\ Len(rows[r]) # 0
            /\ rows'[r][i].step = NextStep(r) /\ rows'[r][i - 1] = LastRow(r)
        BY <2>1, <3>1, <3>3 DEF Attempts, LastRow
      <4>2. IF LastRow(r).status = "failed"
            THEN \/ /\ NextStep(r) = LastRow(r).step
                    /\ LastRow(r).count < Steps(r)[LastRow(r).step].retry
                 \/ /\ NextStep(r) > LastRow(r).step
                    /\ Steps(r)[NextStep(r)].filter
            ELSE NextStep(r) = LastRow(r).step + 1
        BY <2>4, <4>1, NextStepRange DEF NewAttempt
      <4>3. LastRow(r).count < Steps(r)[LastRow(r).step].retry => Steps(r)[LastRow(r).step].retry > 0
        <5>1. LastRow(r) \in Row /\ Len(rows[r]) \in Attempts(r)
          BY <2>1, <4>1 DEF LastRow, Attempts
        <5>2. LastRow(r).step \in DOMAIN Steps(r) /\ Steps(r) \in Seq(Step)
          BY <5>1, StepsType DEF EngineInv, StepsInRange, LastRow
        <5>3. Steps(r)[LastRow(r).step] \in Step
          BY <5>2
        <5> QED
          BY <5>1, <5>3 DEF Row, Step
      <4> QED
        BY <4>1, <4>2, <4>3
    <3> QED
      BY <3>2, <3>3
  <2> QED
    BY <2>3, <2>4, AttemptsStep
<1> QED
  BY <1>1, <1>2, EngineCorrect, PTL DEF Spec

\* What one step may do to a run that has ended.
LEMMA EndedStep ==
  ASSUME RescheduleFrom = {"running", "waiting"}, EngineInv, [Next]_vars,
         NEW r \in Runs, run[r] \in RunFinal
  PROVE  run'[r] \in RunFinal
<1>0. run \in [Runs -> RunStatus] /\ TypeOK
  BY DEF EngineInv, TypeOK
<1>1. ASSUME NEW q \in Runs, RunNext(q) PROVE run'[r] \in RunFinal
  <2>1. CASE q = r
    BY <1>0, <1>1, <2>1 DEF RunNext, Create, Approve, ScheduleRun, FailSchedule, CancelCheck,
       CancelWrite, Expire, TimeoutMark, SetRun, Selected, Monitored, RunFinal
  <2>2. CASE q # r
    <3>1. ScheduleRun(q) => run'[r] = run[r]
      BY <1>0, <2>2 DEF ScheduleRun, StartStep, Postpone, SetRun
    <3>2. ~ScheduleRun(q) => run'[r] = run[r]
      BY <1>0, <1>1, <2>2 DEF RunNext, Create, Approve, FailSchedule, CancelCheck,
         CancelWrite, Expire, TimeoutMark, SetRun
    <3> QED
      BY <3>1, <3>2
  <2> QED
    BY <2>1, <2>2
<1>2. ASSUME NEW q \in Runs, Reschedule(q) PROVE run'[r] \in RunFinal
  <2>1. \A p \in Runs : run'[p] = IF p = q /\ run[q] \in RescheduleFrom
                                  THEN "scheduled" ELSE run[p]
    BY <1>0, <1>2, Rescheduled
  <2> QED
    BY <2>1 DEF RunFinal
<1>3. ASSUME NEW q \in Runs, NEW i \in Attempts(q), RowNext(q, i) PROVE run'[r] \in RunFinal
  BY <1>2, <1>3 DEF RowNext, ClaimAction, ResumeChildren, AgentPoll, AgentTemplateError,
                    AgentResult, EndRow
<1>4. ASSUME NEW c \in Consumers, ConsumerNext(c) PROVE run'[r] \in RunFinal
  <2>1. CASE EndUnrun(c) \/ Commit(c)
    <3>1. claims[c].run \in Runs
      BY <2>1, Holding, ClaimedRow DEF EndUnrun, Commit
    <3>2. PICK q \in Runs : q = claims[c].run
      BY <3>1
    <3>3. Reschedule(q)
      BY <2>1, <3>2 DEF EndUnrun, Commit, EndRow
    <3> QED
      BY <3>3, <1>2
  <2>2. CASE ~(EndUnrun(c) \/ Commit(c))
    BY <1>4, <2>2 DEF ConsumerNext, SkipCancelled, Execute, WaitForChildren, Abort
  <2> QED
    BY <2>1, <2>2
<1>5. CASE TimeoutScan \/ UNCHANGED vars
  BY <1>5 DEF TimeoutScan, vars
<1> QED
  BY <1>1, <1>3, <1>4, <1>5 DEF Next

\* A clock that has run out belongs to a run with a timeout.
Clocked == \A r \in Runs : expired[r] \/ r \in overdue => req[r].timed

LEMMA ClockedStep ==
  ASSUME TypeOK, Clocked, [Next]_vars, UNCHANGED req
  PROVE  Clocked'
<1>1. ASSUME NEW r \in Runs, RunNext(r) PROVE Clocked'
  <2>1. \A q \in Runs : expired'[q] => expired[q] \/ req[q].timed
    BY <1>1 DEF TypeOK, RunNext, Create, Approve, ScheduleRun, StartStep, Postpone, FailSchedule,
                CancelCheck, CancelWrite, Expire, TimeoutMark
  <2>2. overdue' \subseteq overdue
    BY <1>1 DEF RunNext, Create, Approve, ScheduleRun, FailSchedule, CancelCheck, CancelWrite,
                Expire, TimeoutMark
  <2> QED
    BY <2>1, <2>2 DEF Clocked
<1>2. ASSUME UNCHANGED <<expired, overdue>> PROVE Clocked'
  BY <1>2 DEF Clocked
<1>3. ASSUME NEW r \in Runs, NEW i \in Attempts(r), RowNext(r, i) PROVE Clocked'
  BY <1>2, <1>3 DEF RowNext, ClaimAction, ResumeChildren, AgentPoll, AgentTemplateError, AgentResult
<1>4. ASSUME NEW c \in Consumers, ConsumerNext(c) PROVE Clocked'
  BY <1>2, <1>4 DEF ConsumerNext, SkipCancelled, EndUnrun, Execute, Commit, WaitForChildren, Abort
<1>5. CASE TimeoutScan
  BY <1>5 DEF TimeoutScan, Clocked
<1> QED
  BY <1>1, <1>2, <1>3, <1>4, <1>5 DEF Next, vars

\* An action that a cancellation has found waiting: its run stays cancelled, and
\* a consumer that holds it knows.
Halted(r, i) ==
  /\ i \in Attempts(r) /\ rows[r][i].ran = 0 /\ rows[r][i].status \in {"scheduled", "waiting"}
  /\ run[r] = "cancelled" /\ ~req[r].timed
  /\ \A c \in Consumers : claims[c] # NoClaim /\ claims[c].run = r /\ claims[c].row = i =>
       claims[c].phase = "claimed" /\ claims[c].cancelled

\* One that has ended and was not executed.
Unexecuted(r, i) == i \in Attempts(r) /\ rows[r][i].ran = 0 /\ ~IsLive(rows[r][i])

\* A halted action stays halted while neither its row nor its run is touched.
LEMMA HaltedFrame ==
  ASSUME NEW r \in Runs, NEW i \in Attempts(r), Halted(r, i), UNCHANGED req,
         rows'[r] = rows[r], run'[r] = run[r],
         \A c \in Consumers : claims'[c] # NoClaim /\ claims'[c].run = r /\ claims'[c].row = i =>
           \/ claims'[c] = claims[c]
           \/ claims'[c].phase = "claimed" /\ claims'[c].cancelled
  PROVE  Halted(r, i)'
BY DEF Halted, Attempts

\* Moving a halted action to an end leaves it unexecuted.
LEMMA HaltedEnds ==
  ASSUME EngineInv, NEW r \in Runs, NEW i \in Attempts(r), Halted(r, i),
         rows' = [rows EXCEPT ![r][i].status = "skipped"]
  PROVE  Unexecuted(r, i)'
<1>1. "skipped" \in ActionStatus /\ rows[r][i] \in Row
  BY DEF ActionStatus, ActionFinal, EngineInv, TypeOK, Attempts
<1>2. /\ DOMAIN rows'[r] = DOMAIN rows[r]
      /\ rows'[r][i] = [rows[r][i] EXCEPT !.status = "skipped"]
  BY <1>1, RowsSet DEF EngineInv, Attempts
<1> QED
  BY <1>1, <1>2 DEF Halted, Unexecuted, IsLive, ActionFinal, Row, Attempts

\* Steps of other runs, and of the halted run's own row.
LEMMA HaltedRun ==
  ASSUME EngineInv, Clocked, NEW r \in Runs, NEW i \in Attempts(r), Halted(r, i),
         NEW q \in Runs, RunNext(q)
  PROVE  Halted(r, i)'
<1>0. run \in [Runs -> RunStatus] /\ rows \in [Runs -> Seq(Row)]
  BY DEF EngineInv, TypeOK
<1>1. CASE q = r
  <2>1. ~(Create(q) \/ Approve(q) \/ ScheduleRun(q) \/ FailSchedule(q))
    BY <1>1 DEF Create, Approve, ScheduleRun, FailSchedule, Selected, Monitored, Halted
  <2>2. ~(Expire(q) \/ TimeoutMark(q))
    BY <1>1 DEF Expire, TimeoutMark, Clocked, Halted
  <2>3. UNCHANGED <<req, rows, claims>> /\ run'[r] = run[r]
    BY <1>0, <1>1, <2>1, <2>2 DEF RunNext, CancelCheck, CancelWrite, SetRun, Halted
  <2> QED
    BY <2>3, HaltedFrame
<1>2. CASE q # r
  <2>1. UNCHANGED <<req, claims>>
    BY DEF RunNext, Create, Approve, ScheduleRun, FailSchedule, CancelCheck, CancelWrite,
           Expire, TimeoutMark
  <2>2. ScheduleRun(q) => run'[r] = run[r] /\ rows'[r] = rows[r]
    BY <1>0, <1>2 DEF ScheduleRun, StartStep, Postpone, SetRun
  <2>3. ~ScheduleRun(q) => run'[r] = run[r] /\ rows'[r] = rows[r]
    BY <1>0, <1>2 DEF RunNext, Create, Approve, FailSchedule, CancelCheck, CancelWrite,
                      Expire, TimeoutMark, SetRun
  <2> QED
    BY <2>1, <2>2, <2>3, HaltedFrame
<1> QED
  BY <1>1, <1>2

\* An action that ends leaves the rows and the runs of others alone.
LEMMA EndsElsewhere ==
  ASSUME EngineInv, NEW r \in Runs, NEW q \in Runs \ {r}, NEW j, NEW v, EndRow(q, j, v)
  PROVE  rows'[r] = rows[r] /\ run'[r] = run[r]
<1>1. rows \in [Runs -> Seq(Row)] /\ TypeOK
  BY DEF EngineInv, TypeOK
<1>2. run'[r] = run[r]
  BY <1>1, Rescheduled DEF EndRow
<1> QED
  BY <1>1, <1>2 DEF EndRow

LEMMA HaltedRow ==
  ASSUME EngineInv, NEW r \in Runs, NEW i \in Attempts(r), Halted(r, i),
         NEW q \in Runs, NEW j \in Attempts(q), RowNext(q, j)
  PROVE  Halted(r, i)' \/ Unexecuted(r, i)'
<1>0. rows \in [Runs -> Seq(Row)] /\ claims \in [Consumers -> Claim \cup {NoClaim}]
  BY DEF EngineInv, TypeOK
<1>1. CASE \E c \in Consumers : ClaimAction(c, q, j)
  <2>1. PICK c \in Consumers : ClaimAction(c, q, j)
    BY <1>1
  <2>2. UNCHANGED <<req, rows, run>>
    BY <2>1 DEF ClaimAction
  <2>3. \A d \in Consumers : claims'[d] = IF d = c THEN [phase |-> "claimed", run |-> q, row |-> j,
                                                       cancelled |-> run[q] = "cancelled"]
                                          ELSE claims[d]
    BY <1>0, <2>1 DEF ClaimAction
  <2>4. run[r] = "cancelled" /\ rows'[r] = rows[r] /\ run'[r] = run[r]
    BY <2>2 DEF Halted
  <2>5. ASSUME NEW d \in Consumers, claims'[d].run = r
        PROVE  claims'[d] = claims[d] \/ (claims'[d].phase = "claimed" /\ claims'[d].cancelled)
    <3>1. CASE d = c
      <4> DEFINE claim == [phase |-> "claimed", run |-> q, row |-> j,
                           cancelled |-> run[q] = "cancelled"]
      <4>1. /\ claim.phase = "claimed" /\ claim.run = q
            /\ claim.cancelled = (run[q] = "cancelled")
        OBVIOUS
      <4>2. claims'[d] = claim
        BY <2>3, <3>1
      <4> HIDE DEF claim
      <4>3. q = r
        BY <2>5, <4>1, <4>2
      <4>4. claim.cancelled = TRUE
        BY <2>4, <4>1, <4>3
      <4> QED
        BY <4>1, <4>2, <4>4
    <3> QED
      BY <2>3, <3>1
  <2> QED
    BY <2>2, <2>4, <2>5, HaltedFrame
<1>2. CASE q # r /\ ~\E c \in Consumers : ClaimAction(c, q, j)
  <2>1. UNCHANGED <<req, claims>>
    BY <1>2 DEF RowNext, ResumeChildren, AgentPoll, AgentTemplateError, AgentResult
  <2>2. CASE ResumeChildren(q, j) \/ AgentPoll(q, j)
    <3>1. rows'[r] = rows[r] /\ run'[r] = run[r]
      BY <1>0, <1>2, <2>2 DEF ResumeChildren, AgentPoll
    <3> QED
      BY <2>1, <3>1, HaltedFrame
  <2>3. CASE AgentTemplateError(q, j) \/ AgentResult(q, j)
    <3>1. \E v \in ActionFinal : EndRow(q, j, v)
      BY <2>3 DEF AgentTemplateError, AgentResult, ActionFinal
    <3>2. rows'[r] = rows[r] /\ run'[r] = run[r]
      BY <1>2, <3>1, EndsElsewhere
    <3> QED
      BY <2>1, <3>2, HaltedFrame
  <2> QED
    BY <1>2, <2>2, <2>3 DEF RowNext
<1>3. CASE q = r /\ ~\E c \in Consumers : ClaimAction(c, q, j)
  <2>1. IsLive(rows[r][i]) /\ IsLive(rows[r][j])
    BY <1>3 DEF Halted, RowNext, ResumeChildren, AgentPoll, AgentTemplateError, AgentResult,
                IsLive, ActionFinal
  <2>2. j = i
    BY <1>3, <2>1 DEF EngineInv, LiveIsLatest
  <2>3. AgentPoll(r, i) /\ run[r] = "cancelled"
    BY <1>3, <2>2 DEF Halted, RowNext, ResumeChildren, AgentTemplateError, AgentResult
  <2> QED
    BY <2>3, HaltedEnds DEF AgentPoll
<1> QED
  BY <1>1, <1>2, <1>3

\* A transaction that rolls back before it has executed its action leaves no trace.
LEMMA AbortClaimed ==
  ASSUME EngineInv, NEW c \in Consumers, Abort(c), Holds(c, "claimed")
  PROVE  rows' = rows
<1>1. claims[c] # NoClaim /\ rows \in [Runs -> Seq(Row)]
  BY DEF Abort, EngineInv, TypeOK
<1>2. PICK r \in Runs : r = claims[c].run
  BY <1>1, ClaimedRow
<1>3. PICK i \in Attempts(r) : i = claims[c].row
  BY <1>1, <1>2, ClaimedRow
<1>4. rows' = [rows EXCEPT ![r][i].lost = @]
  BY <1>2, <1>3 DEF Abort, Holds
<1>5. rows[r][i] \in Row /\ rows[r] \in Seq(Row)
  BY <1>1, <1>3 DEF Attempts
<1>6. [rows[r][i] EXCEPT !.lost = @] = rows[r][i]
  BY <1>5 DEF Row
<1>7. [rows[r] EXCEPT ![i] = rows[r][i]] = rows[r]
  BY <1>5
<1>8. [rows EXCEPT ![r] = rows[r]] = rows
  BY <1>1
<1> QED
  BY <1>4, <1>6, <1>7, <1>8

LEMMA HaltedTransaction ==
  ASSUME EngineInv, NEW r \in Runs, NEW i \in Attempts(r), Halted(r, i),
         NEW c \in Consumers, ConsumerNext(c)
  PROVE  Halted(r, i)' \/ Unexecuted(r, i)'
<1>0. /\ rows \in [Runs -> Seq(Row)] /\ claims \in [Consumers -> Claim \cup {NoClaim}]
      /\ claims[c] # NoClaim /\ UNCHANGED req
  BY Holding DEF EngineInv, TypeOK, ConsumerNext, SkipCancelled, EndUnrun, Execute, Commit,
                 WaitForChildren, Abort
<1> PICK q \in Runs : q = claims[c].run
  BY <1>0, ClaimedRow
<1> PICK j \in Attempts(q) : j = claims[c].row
  BY <1>0, ClaimedRow
<1>1. \A d \in Consumers \ {c} : claims'[d] = claims[d]
  BY <1>0 DEF ConsumerNext, SkipCancelled, EndUnrun, Execute, Commit, WaitForChildren, Abort,
              Release
<1>2. CASE q # r
  <2>1. claims'[c] = NoClaim \/ claims'[c].run = q
    <3>1. claims[c] \in Claim
      BY <1>0
    <3>2. CASE Execute(c)
      BY <1>0, <3>1, <3>2, ClaimFields DEF Execute
    <3>3. CASE ~Execute(c)
      BY <1>0, <3>3 DEF ConsumerNext, SkipCancelled, EndUnrun, Commit, WaitForChildren, Abort,
                        Release
    <3> QED
      BY <3>2, <3>3
  <2>2. CASE EndUnrun(c) \/ Commit(c)
    <3>1. \E v \in ActionFinal : EndRow(q, j, v)
      BY <2>2 DEF EndUnrun, Commit, ActionFinal
    <3>2. rows'[r] = rows[r] /\ run'[r] = run[r]
      BY <1>2, <3>1, EndsElsewhere
    <3> QED
      BY <1>0, <1>1, <1>2, <2>1, <3>2, HaltedFrame
  <2>3. CASE ~(EndUnrun(c) \/ Commit(c))
    <3>1. rows'[r] = rows[r] /\ run'[r] = run[r]
      BY <1>0, <1>2, <2>3 DEF ConsumerNext, SkipCancelled, Execute, WaitForChildren, Abort
    <3> QED
      BY <1>0, <1>1, <1>2, <2>1, <3>1, HaltedFrame
  <2> QED
    BY <2>2, <2>3
<1>3. CASE q = r
  <2>1. IsLive(rows[r][i]) /\ IsLive(rows[r][j])
    BY <1>0, <1>3, ClaimedRow DEF Halted, IsLive, ActionFinal
  <2>2. j = i
    BY <1>3, <2>1 DEF EngineInv, LiveIsLatest
  <2>3. claims[c].phase = "claimed" /\ claims[c].cancelled
    BY <1>0, <1>3, <2>2 DEF Halted
  <2>4. SkipCancelled(c) \/ Abort(c)
    BY <2>3 DEF ConsumerNext, EndUnrun, Execute, Commit, WaitForChildren, Holds
  <2>5. CASE SkipCancelled(c)
    BY <1>3, <2>2, <2>5, HaltedEnds DEF SkipCancelled
  <2>6. CASE Abort(c)
    <3>1. rows' = rows
      BY <2>3, <2>6, AbortClaimed DEF Holds
    <3>2. UNCHANGED run /\ claims'[c] = NoClaim
      BY <1>0, <2>6 DEF Abort, Release
    <3> QED
      BY <1>0, <1>1, <3>1, <3>2, HaltedFrame
  <2> QED
    BY <2>4, <2>5, <2>6
<1> QED
  BY <1>2, <1>3

\* No step begins an action that was waiting when its run was cancelled.
LEMMA SparedStep ==
  ASSUME EngineInv, Clocked, [Next]_vars, NEW r \in Runs, NEW i \in Attempts(r),
         Halted(r, i) \/ Unexecuted(r, i)
  PROVE  Halted(r, i)' \/ Unexecuted(r, i)'
<1>1. CASE Unexecuted(r, i)
  <2>1. rows[r] \in Seq(Row) /\ i \in 1 .. Len(rows[r])
    BY DEF EngineInv, TypeOK, Attempts
  <2>2. i \in DOMAIN rows'[r] /\ rows'[r][i] = rows[r][i]
    <3>1. CASE SameAttempts(r)
      BY <1>1, <3>1 DEF SameAttempts, Unexecuted, Attempts
    <3>2. CASE NewAttempt(r)
      BY <2>1, <3>2 DEF NewAttempt
    <3> QED
      BY <3>1, <3>2, AttemptsStep
  <2> QED
    BY <1>1, <2>2 DEF Unexecuted, IsLive, Attempts
<1>2. CASE Halted(r, i)
  <2>1. CASE TimeoutScan \/ UNCHANGED vars
    BY <1>2, <2>1, HaltedFrame DEF TimeoutScan, vars
  <2> QED
    BY <1>2, <2>1, HaltedRun, HaltedRow, HaltedTransaction DEF Next
<1> QED
  BY <1>1, <1>2

\* An action nobody has picked up when its run is cancelled is never executed, by a
\* consumer or an agent, if the run has no timeout that could end it instead.
THEOREM CancelHonouredCorrect == Spec => CancelHonoured
<1> DEFINE Spared(r, i) == EngineInv /\ Clocked /\ i \in Attempts(r)
                           /\ (Halted(r, i) \/ Unexecuted(r, i))
<1>1. Init => Clocked
  BY DEF Init, Clocked
<1>2. EngineInv /\ Clocked /\ [Next]_vars => Clocked'
  BY ClockedStep, AttemptsStep DEF EngineInv
<1>3. Spec => [](EngineInv /\ Clocked)
  BY <1>1, <1>2, EngineCorrect, PTL DEF Spec
<1>4. ASSUME NEW r \in Runs, NEW i \in 1 .. MaxRows
      PROVE  Spec => [](run[r] = "cancelled" /\ ~req[r].timed /\ Untouched(r, i) => []~Begun(r, i))
  <2>1. EngineInv /\ Clocked /\ run[r] = "cancelled" /\ ~req[r].timed /\ Untouched(r, i) => Spared(r, i)
    BY DEF Untouched, Locked, Halted
  <2>2. Spared(r, i) => ~Begun(r, i)
    BY DEF Begun, Halted, Unexecuted, IsLive, ActionFinal
  <2>3. Spared(r, i) /\ [Next]_vars => Halted(r, i)' \/ Unexecuted(r, i)'
    BY SparedStep
  <2>4. Spared(r, i) /\ [Next]_vars /\ (EngineInv /\ Clocked)' => Spared(r, i)'
    BY <2>3 DEF Halted, Unexecuted
  <2> QED
    BY <1>3, <2>1, <2>2, <2>4, PTL DEF Spec
<1> QED
  BY <1>4 DEF CancelHonoured

\* The attempts of a run never go back, and those of a local step are counted
\* up to the limit of its retries.
Counted ==
  \A r \in Runs : \A i \in Attempts(r) :
    /\ \A j \in Attempts(r) : j < i => rows[r][j].step <= rows[r][i].step
    /\ ~Steps(r)[rows[r][i].step].agent =>
         /\ rows[r][i].count <= Steps(r)[rows[r][i].step].retry
         /\ \A j \in Attempts(r) : j < i /\ rows[r][j].step = rows[r][i].step =>
              rows[r][j].count < rows[r][i].count

\* Every step keeps the counts.
LEMMA CountedStep ==
  ASSUME EngineInv, Counted, [Next]_vars
  PROVE  Counted'
<1> SUFFICES ASSUME NEW r \in Runs, NEW i \in DOMAIN rows'[r]
             PROVE  /\ \A j \in DOMAIN rows'[r] : j < i => rows'[r][j].step <= rows'[r][i].step
                    /\ ~Steps(r)[rows'[r][i].step].agent =>
                         /\ rows'[r][i].count <= Steps(r)[rows'[r][i].step].retry
                         /\ \A j \in DOMAIN rows'[r] : j < i /\ rows'[r][j].step = rows'[r][i].step =>
                              rows'[r][j].count < rows'[r][i].count
  BY AttemptsStep DEF Counted, Attempts, Steps
<1>1. CASE SameAttempts(r)
  BY <1>1 DEF SameAttempts, Counted, Attempts
<1>2. CASE NewAttempt(r)
  <2>1. PICK n \in Nat : /\ n = Len(rows[r]) /\ rows[r] \in Seq(Row) /\ DOMAIN rows[r] = 1 .. n
                         /\ \A j \in 1 .. n : rows[r][j] \in Row
    BY DEF EngineInv, TypeOK
  <2>2. PICK row \in Row : /\ row.step = NextStep(r) /\ row.count = NextCount(r)
                           /\ rows'[r] = Append(rows[r], row)
    BY <1>2 DEF NewAttempt
  <2>3. /\ DOMAIN rows'[r] = 1 .. n + 1 /\ rows'[r][n + 1] = row
        /\ \A j \in 1 .. n : rows'[r][j] = rows[r][j]
    BY <2>1, <2>2
  <2>4. CASE i # n + 1
    <3>1. i \in 1 .. n /\ \A j \in 1 .. n + 1 : j < i => j \in 1 .. n
      BY <2>1, <2>3, <2>4
    <3> QED
      BY <2>1, <2>3, <3>1 DEF Counted, Attempts
  <2>5. CASE i = n + 1
    <3>1. /\ Previous(r) = n /\ NextStep(r) \in DOMAIN Steps(r)
          /\ n # 0 => IF LastRow(r).status = "failed"
                      THEN \/ /\ NextStep(r) = LastRow(r).step
                              /\ LastRow(r).count < Steps(r)[LastRow(r).step].retry
                           \/ /\ NextStep(r) > LastRow(r).step
                              /\ Steps(r)[NextStep(r)].filter
                      ELSE NextStep(r) = LastRow(r).step + 1
      BY <1>2, <2>1, PreviousIsLast, NextStepRange DEF NewAttempt, EngineInv
    <3>2. Steps(r)[NextStep(r)].retry \in Nat
      <4>1. Steps(r) \in Seq(Step)
        BY StepsType DEF EngineInv
      <4>2. Steps(r)[NextStep(r)] \in Step
        BY <3>1, <4>1
      <4> QED
        BY <4>2 DEF Step
    <3>3. CASE n = 0
      <4>1. row.count = 0
        BY <2>2, <3>1, <3>3 DEF NextCount, IsRetrying
      <4> QED
        BY <2>2, <2>3, <2>5, <3>2, <3>3, <4>1
    <3>4. CASE n # 0
      <4>1. /\ LastRow(r) = rows[r][n] /\ n \in 1 .. n /\ rows[r][n] \in Row
            /\ \A j \in 1 .. n : rows[r][j].step \in Nat /\ rows[r][j].count \in Nat
        <5>1. n \in 1 .. n /\ LastRow(r) = rows[r][n]
          BY <2>1, <3>4 DEF LastRow
        <5>2. \A j \in 1 .. n : rows[r][j].step \in Nat /\ rows[r][j].count \in Nat
          BY <2>1 DEF Row
        <5> QED
          BY <2>1, <5>1, <5>2
      <4>2. \A j \in 1 .. n : rows[r][j].step <= rows[r][n].step
        BY <2>1, <4>1 DEF Counted, Attempts
      <4>3. rows[r][n].step <= row.step /\ row.step \in Nat
        BY <2>2, <3>1, <3>4, <4>1 DEF Row
      <4>4. \A j \in 1 .. n : rows[r][j].step <= row.step
        BY <4>1, <4>2, <4>3
      <4>5. ASSUME ~Steps(r)[row.step].agent
            PROVE  /\ row.count <= Steps(r)[row.step].retry
                   /\ \A j \in 1 .. n : rows[r][j].step = row.step => rows[r][j].count < row.count
        <5>1. CASE row.step = rows[r][n].step
          <6>1. row.count = rows[r][n].count + 1
            BY <2>2, <3>1, <3>4, <4>5, <5>1 DEF NextCount, IsRetrying
          <6>2. rows[r][n].count < Steps(r)[row.step].retry
            BY <2>2, <3>1, <3>4, <4>1, <5>1
          <6>3. \A j \in 1 .. n : rows[r][j].step = row.step => rows[r][j].count <= rows[r][n].count
            BY <2>1, <4>1, <4>5, <5>1 DEF Counted, Attempts
          <6>4. Steps(r)[row.step].retry \in Nat
            BY <2>2, <3>2
          <6>5. row.count <= Steps(r)[row.step].retry
            BY <4>1, <6>1, <6>2, <6>4
          <6> QED
            BY <4>1, <6>1, <6>3, <6>5
        <5>2. CASE row.step # rows[r][n].step
          <6>1. row.count = 0
            BY <2>2, <3>1, <5>2 DEF NextCount, IsRetrying
          <6>2. \A j \in 1 .. n : rows[r][j].step # row.step
            BY <4>1, <4>2, <4>3, <5>2
          <6> QED
            BY <2>2, <3>2, <6>1, <6>2
        <5> QED
          BY <5>1, <5>2
      <4> QED
        BY <2>3, <2>5, <4>4, <4>5
    <3> QED
      BY <3>3, <3>4
  <2> QED
    BY <2>4, <2>5
<1> QED
  BY <1>1, <1>2, AttemptsStep

\* "With limit = 3, there will be a max of 4 attempts for the action": so it is
\* for every action that runs on the upstream, whatever its limit.
THEOREM LocalRetryLimitCorrect == Spec => []LocalRetryLimit
<1>1. Init => Counted
  BY DEF Init, Counted, Attempts
<1>2. EngineInv /\ Counted /\ [Next]_vars => Counted'
  BY CountedStep
<1>3. EngineInv /\ Counted => LocalRetryLimit
  <2> SUFFICES ASSUME EngineInv, Counted, NEW r \in Runs, NEW s \in DOMAIN Steps(r), ~Steps(r)[s].agent
               PROVE  Cardinality(AttemptsOf(r, s)) <= Steps(r)[s].retry + 1
    BY DEF LocalRetryLimit
  <2> DEFINE limit == Steps(r)[s].retry
             count == [i \in AttemptsOf(r, s) |-> rows[r][i].count]
  <2>1. limit \in Nat
    <3>1. Steps(r) \in Seq(Step)
      BY StepsType DEF EngineInv
    <3>2. Steps(r)[s] \in Step
      BY <3>1
    <3> QED
      BY <3>2 DEF Step
  <2>2. \A i \in AttemptsOf(r, s) : i \in Nat /\ rows[r][i].count \in 0 .. limit
    <3>1. rows[r] \in Seq(Row)
      BY DEF EngineInv, TypeOK
    <3>2. ASSUME NEW i \in AttemptsOf(r, s)
          PROVE  i \in Nat /\ rows[r][i].count \in 0 .. limit
      <4>1. i \in 1 .. Len(rows[r]) /\ rows[r][i].step = s /\ i \in Attempts(r)
        BY <3>1 DEF AttemptsOf, Attempts
      <4>2. rows[r][i] \in Row
        BY <3>1, <4>1
      <4>3. rows[r][i].count <= limit
        BY <4>1 DEF Counted
      <4> QED
        BY <2>1, <4>1, <4>2, <4>3 DEF Row
    <3> QED
      BY <3>2
  <2>3. \A i, j \in AttemptsOf(r, s) : rows[r][i].count = rows[r][j].count => i = j
    <3>1. ASSUME NEW i \in AttemptsOf(r, s), NEW j \in AttemptsOf(r, s), j < i
          PROVE  rows[r][j].count < rows[r][i].count
      BY <3>1 DEF AttemptsOf, Counted
    <3> QED
      BY <2>2, <3>1
  <2> HIDE DEF limit
  <2>4. count \in Injection(AttemptsOf(r, s), 0 .. limit)
    BY <2>2, <2>3 DEF Injection, IsInjective
  <2>5. IsFiniteSet(0 .. limit) /\ Cardinality(0 .. limit) = limit + 1
    BY <2>1, FS_Interval
  <2>6. Cardinality(AttemptsOf(r, s)) <= limit + 1
    BY <2>4, <2>5, FS_Injection
  <2> QED
    BY <2>6 DEF limit
<1> QED
  BY <1>1, <1>2, <1>3, EngineCorrect, PTL DEF Spec

\* A run that has ended stays ended and starts nothing, if an action that ends
\* reschedules only runs that execute.
THEOREM EndedStaysEndedCorrect ==
  ASSUME RescheduleFrom = {"running", "waiting"}
  PROVE  Spec => EndedStaysEnded
<1>1. EngineInv /\ [Next]_vars =>
        [\A r \in Runs : run[r] \in RunFinal =>
           run'[r] \in RunFinal /\ Len(rows'[r]) = Len(rows[r])]_vars
  <2> SUFFICES ASSUME EngineInv, [Next]_vars, NEW r \in Runs, run[r] \in RunFinal
               PROVE  run'[r] \in RunFinal /\ Len(rows'[r]) = Len(rows[r])
    OBVIOUS
  <2>1. run'[r] \in RunFinal
    BY EndedStep
  <2>2. ~NewAttempt(r)
    BY DEF NewAttempt, Selected, Monitored, RunFinal
  <2> QED
    BY <2>1, <2>2, AttemptsStep DEF SameAttempts
<1> QED
  BY <1>1, EngineCorrect, PTL DEF Spec, EndedStaysEnded

----------------------------------------------------------------------------
(* What a run promises: every step of the engine is one step of one run of *)
(* StepRunner, or none.                                                    *)

Unmoved(q) == Phase(q)' = Phase(q) /\ Position(q)' = Position(q)

\* What StepRunner lets one run do.
Moved(r) ==
  \/ Unmoved(r)
  \/ /\ Position(r)' = Position(r)
     /\ \/ Phase(r) = "new" /\ Phase(r)' = "idle"
        \/ Phase(r) = "busy" /\ Phase(r)' = "idle"
        \/ Phase(r) # "done" /\ Phase(r)' = "done"
  \/ /\ Phase(r) = "idle" /\ Phase(r)' = "busy"
     /\ Position(r)' \in 1 .. Len(Steps(r)) /\ Position(r)' >= Position(r)

\* A run whose rows keep their steps keeps its position.
LEMMA PositionKept ==
  ASSUME EngineInv, NEW q \in Runs, SameAttempts(q), rows' \in [Runs -> Seq(Row)]
  PROVE  Position(q)' = Position(q)
<1>1. rows[q] \in Seq(Row) /\ rows'[q] \in Seq(Row) /\ Len(rows'[q]) = Len(rows[q])
  BY DEF EngineInv, TypeOK, SameAttempts
<1>2. CASE rows[q] = <<>>
  BY <1>1, <1>2 DEF Position
<1>3. CASE rows[q] # <<>>
  <2>1. Len(rows[q]) \in Attempts(q) /\ rows'[q] # <<>>
    BY <1>1, <1>3 DEF Attempts
  <2> QED
    BY <1>1, <1>3, <2>1 DEF Position, LastRow, SameAttempts
<1> QED
  BY <1>2, <1>3

\* A run that keeps its status and its rows is not moved.
LEMMA Frame ==
  ASSUME NEW q \in Runs, run'[q] = run[q], rows'[q] = rows[q]
  PROVE  Unmoved(q)
<1>1. HasLive(q)' <=> HasLive(q)
  BY DEF HasLive, Attempts
<1>2. Phase(q)' = Phase(q)
  BY <1>1, Zenon DEF Phase
<1>3. Position(q)' = Position(q)
  BY DEF Position, LastRow
<1> QED
  BY <1>2, <1>3 DEF Unmoved

\* A move of one run is a step of StepRunner.
LEMMA Lifted ==
  ASSUME UNCHANGED req, NEW r \in Runs, Moved(r),
         \A q \in Runs \ {r} : Unmoved(q)
  PROVE  [Promise!Next]_(Promise!vars)
<1> DEFINE L == [q \in Runs |-> Len(Steps(q))]
           ph == [q \in Runs |-> Phase(q)]
           po == [q \in Runs |-> Position(q)]
<1>1. L' = L
  BY DEF Steps
<1>2. CASE Unmoved(r)
  <2>1. ph' = ph /\ po' = po
    BY <1>2 DEF Unmoved
  <2> QED
    BY <1>1, <2>1 DEF Promise!vars
<1>3. CASE /\ Position(r)' = Position(r)
           /\ \/ Phase(r) = "new" /\ Phase(r)' = "idle"
              \/ Phase(r) = "busy" /\ Phase(r)' = "idle"
              \/ Phase(r) # "done" /\ Phase(r)' = "done"
  <2>1. po' = po /\ ph' = [ph EXCEPT ![r] = Phase(r)'] /\ ph[r] = Phase(r)
    BY <1>3 DEF Unmoved
  <2>2. Promise!Accept(r) \/ Promise!Finish(r) \/ Promise!End(r)
    BY <1>1, <1>3, <2>1 DEF Promise!Accept, Promise!Finish, Promise!End
  <2> QED
    BY <2>2 DEF Promise!Next
<1>4. CASE /\ Phase(r) = "idle" /\ Phase(r)' = "busy"
           /\ Position(r)' \in 1 .. Len(Steps(r)) /\ Position(r)' >= Position(r)
  <2>1. /\ po' = [po EXCEPT ![r] = Position(r)'] /\ po[r] = Position(r)
        /\ ph' = [ph EXCEPT ![r] = Phase(r)'] /\ ph[r] = Phase(r)
        /\ L[r] = Len(Steps(r))
    BY DEF Unmoved
  <2>2. Promise!Begin(r, Position(r)')
    BY <1>1, <1>4, <2>1 DEF Promise!Begin
  <2> QED
    BY <1>4, <2>1, <2>2 DEF Promise!Next
<1> QED
  BY <1>2, <1>3, <1>4 DEF Moved

\* The phase of a run by its status, before and after a step.
LEMMA PhaseIs ==
  ASSUME NEW r \in Runs
  PROVE  /\ run[r] \in {"none", "pending_approval"} => Phase(r) = "new"
         /\ run[r] \in RunFinal => Phase(r) = "done"
         /\ run[r] \in Executing /\ HasLive(r) => Phase(r) = "busy"
         /\ run[r] \in Executing /\ ~HasLive(r) => Phase(r) = "idle"
<1>1. run[r] \in {"none", "pending_approval"} => run[r] \notin RunFinal
  BY DEF RunFinal
<1>2. run[r] \in Executing => run[r] \notin RunFinal \cup {"none", "pending_approval"}
  BY DEF RunFinal, Executing, Monitored
<1> QED
  BY <1>1, <1>2, Zenon DEF Phase

\* The same after a step.
LEMMA PhaseBecomes ==
  ASSUME NEW r \in Runs
  PROVE  /\ run'[r] \in {"none", "pending_approval"} => Phase(r)' = "new"
         /\ run'[r] \in RunFinal => Phase(r)' = "done"
         /\ run'[r] \in Executing /\ HasLive(r)' => Phase(r)' = "busy"
         /\ run'[r] \in Executing /\ ~HasLive(r)' => Phase(r)' = "idle"
<1>1. run'[r] \in {"none", "pending_approval"} => run'[r] \notin RunFinal
  BY DEF RunFinal
<1>2. run'[r] \in Executing => run'[r] \notin RunFinal \cup {"none", "pending_approval"}
  BY DEF RunFinal, Executing, Monitored
<1> QED
  BY <1>1, <1>2, Zenon DEF Phase

\* A step that writes one run row and no action row, and writes a final status
\* or what the run's phase allows.
LEMMA RunRowMove ==
  ASSUME EngineInv, NEW r \in Runs, NEW v \in RunStatus, UNCHANGED <<req, rows>>,
         SetRun(r, v),
         \/ v \in RunFinal
         \/ run[r] \in {"none", "pending_approval"} /\ v \in {"pending_approval", "scheduled"}
         \/ run[r] \in Monitored /\ v \in {"retrying", "sleeping"}
  PROVE  [Promise!Next]_(Promise!vars)
<1>1. \A q \in Runs : run'[q] = IF q = r THEN v ELSE run[q]
  BY RunSet DEF EngineInv
<1>2. \A q \in Runs \ {r} : Unmoved(q)
  BY <1>1, Frame
<1>3. Position(r)' = Position(r) /\ (HasLive(r)' <=> HasLive(r))
  BY DEF Position, LastRow, HasLive, Attempts
<1>4. CASE v \in RunFinal
  <2>1. Phase(r)' = "done"
    BY <1>1, <1>4, PhaseBecomes
  <2> QED
    BY <1>2, <1>3, <2>1, Lifted DEF Moved, Unmoved
<1>5. CASE run[r] \in {"none", "pending_approval"} /\ v \in {"pending_approval", "scheduled"}
  <2>1. Phase(r) = "new" /\ ~HasLive(r)
    BY <1>5, PhaseIs, QuietRun DEF RunFinal
  <2>2. Phase(r)' = "new" \/ Phase(r)' = "idle"
    BY <1>1, <1>3, <1>5, <2>1, PhaseBecomes DEF Executing, Monitored
  <2> QED
    BY <1>2, <1>3, <2>1, <2>2, Lifted DEF Moved, Unmoved
<1>6. CASE run[r] \in Monitored /\ v \in {"retrying", "sleeping"}
  <2>1. Phase(r) = "idle" /\ ~HasLive(r)
    BY <1>6, PhaseIs, QuietRun DEF RunFinal, Monitored, Executing
  <2>2. Phase(r)' = "idle"
    BY <1>1, <1>3, <1>6, <2>1, PhaseBecomes DEF Executing, Monitored
  <2> QED
    BY <1>2, <1>3, <2>1, <2>2, Lifted DEF Moved, Unmoved
<1> QED
  BY <1>4, <1>5, <1>6

\* A step that begins an action is a Begin of StepRunner.
LEMMA StepBegins ==
  ASSUME EngineInv, NEW r \in Runs, UNCHANGED req,
         Selected(r), NextStep(r) # 0, StartStep(r, NextStep(r))
  PROVE  [Promise!Next]_(Promise!vars)
<1>1. PICK row \in Row, status \in {"running", "waiting"} :
        /\ row.step = NextStep(r) /\ row.status \in {"scheduled", "waiting"}
        /\ rows' = [rows EXCEPT ![r] = Append(@, row)]
        /\ run' = [run EXCEPT ![r] = status]
  BY StepStarted
<1>2. /\ rows'[r] = Append(rows[r], row) /\ run'[r] = status
      /\ \A q \in Runs \ {r} : rows'[q] = rows[q] /\ run'[q] = run[q]
  BY <1>1 DEF EngineInv, TypeOK
<1>3. ~HasLive(r) /\ Phase(r) = "idle"
  BY QuietRun, PhaseIs DEF Selected, Monitored, Executing, RunFinal
<1>4. rows[r] \in Seq(Row)
  BY DEF EngineInv, TypeOK
<1>5. HasLive(r)'
  <2>1. Len(rows[r]) + 1 \in DOMAIN rows'[r] /\ rows'[r][Len(rows[r]) + 1] = row
    BY <1>2, <1>4
  <2>2. IsLive(rows'[r][Len(rows[r]) + 1])
    BY <1>1, <2>1 DEF IsLive, ActionFinal
  <2> QED
    BY <2>1, <2>2 DEF HasLive, Attempts
<1>6. Phase(r)' = "busy"
  BY <1>2, <1>5, PhaseBecomes DEF Executing
<1>7. Position(r)' = NextStep(r)
  BY <1>1, <1>2, <1>4 DEF Position, LastRow
<1>8. NextStep(r) \in 1 .. Len(Steps(r)) /\ NextStep(r) >= Position(r)
  <2>1. NextStep(r) \in DOMAIN Steps(r) /\ Steps(r) \in Seq(Step)
    BY <1>3, NextStepRange, StepsType DEF EngineInv
  <2>2. CASE Len(rows[r]) = 0
    BY <1>4, <2>1, <2>2 DEF Position
  <2>3. CASE Len(rows[r]) # 0
    <3>1. LastRow(r) \in Row /\ LastRow(r).step \in Nat /\ Position(r) = LastRow(r).step
      <4>1. LastRow(r) \in Row
        BY <1>4, <2>3 DEF LastRow
      <4>2. rows[r] # <<>>
        BY <1>4, <2>3
      <4> QED
        BY <4>1, <4>2 DEF Row, Position
    <3>2. \/ NextStep(r) = LastRow(r).step \/ NextStep(r) > LastRow(r).step
          \/ NextStep(r) = LastRow(r).step + 1
      BY <1>3, <2>3, NextStepRange
    <3> QED
      BY <2>1, <3>1, <3>2
  <2> QED
    BY <2>2, <2>3, <1>4
<1>9. \A q \in Runs \ {r} : Unmoved(q)
  BY <1>2, Frame
<1> QED
  BY <1>3, <1>6, <1>7, <1>8, <1>9, Lifted DEF Moved

\* A step that moves the live row of a run: the row goes on living and the run
\* row stays, or it ends and the run is queued again, or ended already.
LEMMA RowMove ==
  ASSUME EngineInv, NEW r \in Runs, NEW i \in Attempts(r), IsLive(rows[r][i]),
         UNCHANGED req, rows' \in [Runs -> Seq(Row)], \A q \in Runs : SameAttempts(q),
         \A q \in Runs \ {r} : rows'[q] = rows[q] /\ run'[q] = run[q],
         \A j \in Attempts(r) \ {i} : rows'[r][j] = rows[r][j],
         \/ run'[r] = run[r]
         \/ run[r] \notin RunFinal /\ run'[r] = "scheduled" /\ ~IsLive(rows'[r][i])
  PROVE  [Promise!Next]_(Promise!vars)
<1>1. \A q \in Runs \ {r} : Unmoved(q)
  BY Frame
<1>2. Position(r)' = Position(r)
  BY PositionKept
<1>3. HasLive(r) /\ (HasLive(r)' <=> IsLive(rows'[r][i]))
  <2>1. \A j \in Attempts(r) \ {i} : ~IsLive(rows[r][j])
    BY DEF EngineInv, LiveIsLatest
  <2> QED
    BY <2>1 DEF HasLive, Attempts, SameAttempts
<1>4. run[r] \in {"running", "waiting"} \cup RunFinal
  BY DEF EngineInv, LiveIsLatest
<1>5. CASE run[r] \in RunFinal
  <2>1. Phase(r) = "done" /\ Phase(r)' = "done"
    BY <1>5, PhaseIs, PhaseBecomes
  <2> QED
    BY <1>1, <1>2, <2>1, Lifted DEF Moved, Unmoved
<1>6. CASE run[r] \in {"running", "waiting"}
  <2>1. Phase(r) = "busy" /\ run'[r] \in Executing
    BY <1>3, <1>6, PhaseIs DEF Executing, Monitored
  <2>2. Phase(r)' = "busy" \/ Phase(r)' = "idle"
    BY <2>1, PhaseBecomes
  <2> QED
    BY <1>1, <1>2, <2>1, <2>2, Lifted DEF Moved, Unmoved
<1> QED
  BY <1>4, <1>5, <1>6

\* Ending the live row of a run is the end of its step, or of nothing.
LEMMA RowEnds ==
  ASSUME RescheduleFrom = {"running", "waiting"}, EngineInv, UNCHANGED req,
         NEW r \in Runs, NEW i \in Attempts(r), IsLive(rows[r][i]),
         NEW v \in ActionFinal, EndRow(r, i, v)
  PROVE  [Promise!Next]_(Promise!vars)
<1>1. v \in ActionStatus /\ rows' = [rows EXCEPT ![r][i].status = v] /\ Reschedule(r)
  BY DEF ActionStatus, EndRow
<1>2. \A q \in Runs : SameAttempts(q)
  BY <1>1, LiveRowMoved
<1>3. /\ rows' \in [Runs -> Seq(Row)]
      /\ \A q \in Runs \ {r} : rows'[q] = rows[q]
      /\ \A j \in Attempts(r) \ {i} : rows'[r][j] = rows[r][j]
      /\ rows'[r][i] = [rows[r][i] EXCEPT !.status = v]
  BY <1>1, RowsSet DEF EngineInv, TypeOK, Attempts
<1>4. ~IsLive(rows'[r][i])
  <2>1. rows[r][i] \in Row
    BY DEF EngineInv, TypeOK, Attempts
  <2> QED
    BY <1>3, <2>1 DEF IsLive, Row
<1>5. \A q \in Runs : run'[q] = IF q = r /\ run[r] \in {"running", "waiting"}
                                THEN "scheduled" ELSE run[q]
  BY <1>1, Rescheduled DEF EngineInv
<1>6. \/ run'[r] = run[r]
      \/ run[r] \notin RunFinal /\ run'[r] = "scheduled" /\ ~IsLive(rows'[r][i])
  BY <1>4, <1>5 DEF RunFinal
<1> QED
  BY <1>2, <1>3, <1>5, <1>6, RowMove

\* Any other change of a live row leaves the run row alone.
LEMMA RowRewrite ==
  ASSUME EngineInv, UNCHANGED <<req, run>>,
         NEW r \in Runs, NEW i \in Attempts(r), IsLive(rows[r][i]),
         NEW row \in Row, row.step = rows[r][i].step, row.count = rows[r][i].count,
         rows' = [rows EXCEPT ![r][i] = row]
  PROVE  [Promise!Next]_(Promise!vars)
<1>1. \A q \in Runs : SameAttempts(q)
  BY LiveRowRewritten
<1>2. rows \in [Runs -> Seq(Row)] /\ i \in DOMAIN rows[r]
  BY DEF EngineInv, TypeOK, Attempts
<1>3. LET S == [rows EXCEPT ![r][i] = row] IN
         /\ S \in [Runs -> Seq(Row)]
         /\ \A q \in Runs :
              /\ Len(S[q]) = Len(rows[q])
              /\ DOMAIN S[q] = DOMAIN rows[q]
              /\ \A j \in DOMAIN rows[q] : S[q][j] = IF q = r /\ j = i THEN row ELSE rows[q][j]
  BY <1>2, RowReplaced
<1>4. /\ rows' \in [Runs -> Seq(Row)]
      /\ \A j \in Attempts(r) \ {i} : rows'[r][j] = rows[r][j]
  BY <1>3 DEF Attempts
<1>5. \A q \in Runs \ {r} : rows'[q] = rows[q]
  BY <1>2
<1> QED
  BY <1>1, <1>4, <1>5, RowMove

\* So does a new status of a live row.
LEMMA StatusRewrite ==
  ASSUME EngineInv, UNCHANGED <<req, run>>,
         NEW r \in Runs, NEW i \in Attempts(r), IsLive(rows[r][i]),
         NEW v \in ActionStatus, rows' = [rows EXCEPT ![r][i].status = v]
  PROVE  [Promise!Next]_(Promise!vars)
<1>1. \A q \in Runs : SameAttempts(q)
  BY LiveRowMoved
<1>2. /\ rows' \in [Runs -> Seq(Row)]
      /\ \A j \in Attempts(r) \ {i} : rows'[r][j] = rows[r][j]
  BY RowsSet DEF EngineInv, Attempts
<1>3. \A q \in Runs \ {r} : rows'[q] = rows[q]
  BY DEF EngineInv, TypeOK
<1> QED
  BY <1>1, <1>2, <1>3, RowMove

\* Every step of the engine is a step of StepRunner, or none.
LEMMA PromiseStep ==
  ASSUME RescheduleFrom = {"running", "waiting"}, EngineInv, [Next]_vars
  PROVE  [Promise!Next]_(Promise!vars)
<1>1. ASSUME UNCHANGED <<req, run, rows>>
      PROVE  [Promise!Next]_(Promise!vars)
  BY <1>1 DEF Promise!vars, Phase, Position, LastRow, HasLive, Attempts, Steps
<1>2. ASSUME NEW r \in Runs, RunNext(r)
      PROVE  [Promise!Next]_(Promise!vars)
  <2>1. CASE Create(r)
    <3>1. PICK v \in {"pending_approval", "scheduled"} : SetRun(r, v)
      BY <2>1 DEF Create
    <3> QED
      BY <2>1, <3>1, RunRowMove DEF Create, RunStatus
  <2>2. CASE Approve(r)
    BY <2>2, RunRowMove DEF Approve, RunStatus
  <2>3. CASE ScheduleRun(r)
    <3>1. UNCHANGED req /\ Selected(r) /\ run[r] \in Monitored
      BY <2>3 DEF ScheduleRun, Selected
    <3>2. CASE NextStep(r) = 0
      <4>1. PICK v \in ExitStatus(r) : SetRun(r, v) /\ UNCHANGED rows
        BY <2>3, <3>2 DEF ScheduleRun
      <4>2. v \in RunFinal /\ v \in RunStatus
        BY DEF ExitStatus, RunFinal, RunStatus
      <4> QED
        BY <3>1, <4>1, <4>2, RunRowMove
    <3>3. CASE Postpone(r, "retrying") \/ Postpone(r, "sleeping")
      <4>1. PICK v \in {"retrying", "sleeping"} : SetRun(r, v) /\ UNCHANGED rows
        BY <3>3 DEF Postpone
      <4> QED
        BY <3>1, <4>1, RunRowMove DEF RunStatus
    <3>4. CASE NextStep(r) # 0 /\ StartStep(r, NextStep(r))
      BY <3>1, <3>4, StepBegins
    <3> QED
      BY <2>3, <3>2, <3>3, <3>4 DEF ScheduleRun
  <2>4. CASE FailSchedule(r)
    BY <2>4, RunRowMove DEF FailSchedule, RunStatus, RunFinal
  <2>5. CASE CancelWrite(r)
    BY <2>5, RunRowMove DEF CancelWrite, RunStatus, RunFinal
  <2>6. CASE TimeoutMark(r)
    BY <2>6, RunRowMove DEF TimeoutMark, RunStatus, RunFinal
  <2>7. CASE CancelCheck(r) \/ Expire(r)
    BY <1>1, <2>7 DEF CancelCheck, Expire
  <2> QED
    BY <1>2, <2>1, <2>2, <2>3, <2>4, <2>5, <2>6, <2>7 DEF RunNext
<1>3. ASSUME NEW r \in Runs, NEW i \in Attempts(r), RowNext(r, i)
      PROVE  [Promise!Next]_(Promise!vars)
  <2>1. CASE \E c \in Consumers : ClaimAction(c, r, i)
    BY <1>1, <2>1 DEF ClaimAction
  <2>2. CASE ResumeChildren(r, i)
    <3>1. rows \in [Runs -> Seq(Row)] /\ rows[r][i] \in Row
      BY DEF EngineInv, TypeOK, Attempts
    <3>2. PICK row \in Row : /\ row = Resumed(rows[r][i])
                             /\ row.step = rows[r][i].step /\ row.count = rows[r][i].count
      BY <3>1, RowFields
    <3>3. /\ rows' = [rows EXCEPT ![r][i] = row] /\ UNCHANGED <<req, run>>
          /\ IsLive(rows[r][i])
      BY <2>2, <3>1, <3>2 DEF ResumeChildren, Attempts, IsLive, ActionFinal, Resumed
    <3> QED
      BY <3>2, <3>3, RowRewrite
  <2>3. CASE AgentPoll(r, i)
    <3> DEFINE v == IF run[r] = "cancelled" THEN "skipped" ELSE "running"
    <3>1. /\ v \in ActionStatus /\ rows' = [rows EXCEPT ![r][i].status = v]
          /\ UNCHANGED <<req, run>> /\ IsLive(rows[r][i])
      BY <2>3 DEF AgentPoll, ActionStatus, IsLive, ActionFinal
    <3> HIDE DEF v
    <3> QED
      BY <3>1, StatusRewrite
  <2>4. CASE AgentTemplateError(r, i) \/ AgentResult(r, i)
    <3>1. PICK v \in ActionFinal : EndRow(r, i, v)
      BY <2>4 DEF AgentTemplateError, AgentResult, ActionFinal
    <3>2. UNCHANGED req /\ IsLive(rows[r][i])
      BY <2>4 DEF AgentTemplateError, AgentResult, IsLive, ActionFinal
    <3> QED
      BY <3>1, <3>2, RowEnds
  <2> QED
    BY <1>3, <2>1, <2>2, <2>3, <2>4 DEF RowNext
<1>4. ASSUME NEW c \in Consumers, ConsumerNext(c)
      PROVE  [Promise!Next]_(Promise!vars)
  <2>1. CASE Execute(c) \/ Abort(c)
    <3>1. PICK r \in Runs : \E i \in Attempts(r) : \E row \in Row :
            /\ IsLive(rows[r][i]) /\ SameButHistory(row, rows[r][i])
            /\ rows' = [rows EXCEPT ![r][i] = row] /\ UNCHANGED <<req, run>>
      BY <2>1, HistoryRow
    <3> QED
      BY <3>1, RowRewrite DEF SameButHistory
  <2>2. CASE ~(Execute(c) \/ Abort(c))
    <3>1. claims[c] # NoClaim /\ UNCHANGED req
      BY <1>4, <2>2, Holding DEF ConsumerNext, SkipCancelled, EndUnrun, Commit, WaitForChildren
    <3> PICK r \in Runs : r = claims[c].run
      BY <3>1, ClaimedRow
    <3> PICK i \in Attempts(r) : i = claims[c].row
      BY <3>1, ClaimedRow
    <3>2. IsLive(rows[r][i]) /\ rows \in [Runs -> Seq(Row)] /\ rows[r][i] \in Row
      BY <3>1, ClaimedRow DEF IsLive, ActionFinal, EngineInv, TypeOK, Attempts
    <3>3. CASE SkipCancelled(c)
      <4>1. rows' = [rows EXCEPT ![r][i].status = "skipped"] /\ UNCHANGED run
        BY <3>3 DEF SkipCancelled
      <4>2. "skipped" \in ActionStatus
        BY DEF ActionStatus, ActionFinal
      <4> QED
        BY <3>1, <3>2, <4>1, <4>2, StatusRewrite
    <3>4. CASE WaitForChildren(c)
      <4>1. rows' = [rows EXCEPT ![r][i].status = "waiting_children"] /\ UNCHANGED run
        BY <3>4 DEF WaitForChildren
      <4>2. "waiting_children" \in ActionStatus
        BY DEF ActionStatus
      <4> QED
        BY <3>1, <3>2, <4>1, <4>2, StatusRewrite
    <3>5. CASE EndUnrun(c) \/ Commit(c)
      <4>1. PICK v \in ActionFinal : EndRow(r, i, v)
        BY <3>5 DEF EndUnrun, Commit, ActionFinal
      <4> QED
        BY <3>1, <3>2, <4>1, RowEnds
    <3> QED
      BY <1>4, <2>2, <3>3, <3>4, <3>5 DEF ConsumerNext
  <2> QED
    BY <2>1, <2>2
<1>5. CASE TimeoutScan \/ UNCHANGED vars
  BY <1>1, <1>5 DEF TimeoutScan, vars
<1> QED
  BY <1>2, <1>3, <1>4, <1>5 DEF Next

\* Before anything is started, every run is new.
LEMMA PromiseInit == Init => Promise!Init
<1> SUFFICES ASSUME Init PROVE Promise!Init
  OBVIOUS
<1>1. TypeOK
  BY EngineInvInit DEF EngineInv
<1>2. \A r \in Runs : Len(Steps(r)) \in Nat
  BY <1>1, StepsType
<1>3. \A r \in Runs : Phase(r) = "new" /\ Position(r) = 0
  BY PhaseIs DEF Init, Position
<1> QED
  BY <1>2, <1>3 DEF Promise!Init

\* Consumers, transactions, agents, cancels and timeouts together do what
\* StepRunner promises to who started the run: one step at a time, never back
\* to an earlier one, and nothing after the end; if an action that ends
\* reschedules only runs that execute.
THEOREM PromiseImplemented ==
  ASSUME RescheduleFrom = {"running", "waiting"}
  PROVE  Spec => ImplementsPromise
<1>1. EngineInv /\ [Next]_vars => [Promise!Next]_(Promise!vars)
  BY PromiseStep
<1> QED
  BY <1>1, PromiseInit, EngineCorrect, PTL DEF Spec, ImplementsPromise, Promise!Spec

----------------------------------------------------------------------------
(* Who attends to the actions of a run, and what the agents are shown.     *)

Hidden == {"running", "waiting"}

\* Where a row may be before it ends: rows of agents wait or run there, all
\* others are queued or have children.
Sorted ==
  \A r \in Runs : \A i \in Attempts(r) : IsLive(rows[r][i]) =>
    rows[r][i].status \in (IF rows[r][i].agent THEN {"waiting", "running"}
                           ELSE {"scheduled", "waiting_children"})

\* A transaction that has found its run cancelled holds a row of a run that is over.
Doomed ==
  \A c \in Consumers : claims[c] # NoClaim /\ claims[c].cancelled =>
    run[claims[c].run] \in RunFinal

AttendedInv == EngineInv /\ Sorted /\ Doomed /\ Attended

\* The statuses a row may go to.
Leads(row, new, cancelled) ==
  IF row.agent
  THEN \/ row.status = "waiting" /\ new = (IF cancelled THEN "skipped" ELSE "running")
       \/ row.status = "waiting" /\ ~cancelled /\ new = "failed"
       \/ row.status = "running" /\ new \in ActionFinal
  ELSE \/ row.status = "scheduled" /\ new \in ActionFinal \cup {"waiting_children"}
       \/ row.status = "waiting_children" /\ new = "scheduled"

\* What a step may do to the rows of a run: nothing that shows, ...
Still(r) ==
  /\ DOMAIN rows'[r] = DOMAIN rows[r]
  /\ \A j \in Attempts(r) :
       rows'[r][j].agent = rows[r][j].agent /\ rows'[r][j].status = rows[r][j].status
  /\ run'[r] = run[r] \/ run'[r] \notin Hidden

\* ... start an attempt, ...
Started(r) ==
  \E row \in Row :
    /\ rows'[r] = Append(rows[r], row) /\ ~HasLive(r)
    /\ run[r] # "cancelled"
    /\ row.status = (IF row.agent THEN "waiting" ELSE "scheduled")
    /\ run'[r] = (IF row.agent THEN "waiting" ELSE "running")

\* ... or move one, whose end brings the run back into sight.
Led(r, i) ==
  /\ DOMAIN rows'[r] = DOMAIN rows[r]
  /\ \A j \in Attempts(r) : rows'[r][j].agent = rows[r][j].agent
  /\ \A j \in Attempts(r) \ {i} : rows'[r][j].status = rows[r][j].status
  /\ Leads(rows[r][i], rows'[r][i].status, run[r] = "cancelled")
  /\ IF rows'[r][i].status \in ActionFinal THEN run'[r] \notin Hidden ELSE run'[r] = run[r]

OnlyRun(r) ==
  /\ Still(r) \/ Started(r) \/ \E i \in Attempts(r) : Led(r, i)
  /\ \A q \in Runs \ {r} : Still(q)

\* A step that writes no action row and hides no run.
LEMMA StillRows ==
  ASSUME UNCHANGED rows, \A q \in Runs : run'[q] = run[q] \/ run'[q] \notin Hidden
  PROVE  \A q \in Runs : Still(q)
BY DEF Still, Attempts

\* A step that replaces one row, and its run's status if the row ends.
LEMMA RowPut ==
  ASSUME EngineInv, NEW r \in Runs, NEW i \in Attempts(r), NEW row \in Row,
         row.agent = rows[r][i].agent,
         rows' = [rows EXCEPT ![r][i] = row],
         \A q \in Runs \ {r} : run'[q] = run[q],
         \/ row.status = rows[r][i].status /\ run'[r] = run[r]
         \/ /\ Leads(rows[r][i], row.status, run[r] = "cancelled")
            /\ IF row.status \in ActionFinal THEN run'[r] \notin Hidden ELSE run'[r] = run[r]
  PROVE  OnlyRun(r)
<1>1. rows \in [Runs -> Seq(Row)] /\ i \in DOMAIN rows[r]
  BY DEF EngineInv, TypeOK, Attempts
<1>2. \A q \in Runs :
        /\ DOMAIN rows'[q] = DOMAIN rows[q]
        /\ \A j \in Attempts(q) : rows'[q][j] = IF q = r /\ j = i THEN row ELSE rows[q][j]
  <2>1. LET S == [rows EXCEPT ![r][i] = row] IN
         /\ S \in [Runs -> Seq(Row)]
         /\ \A q \in Runs :
              /\ Len(S[q]) = Len(rows[q])
              /\ DOMAIN S[q] = DOMAIN rows[q]
              /\ \A j \in DOMAIN rows[q] : S[q][j] = IF q = r /\ j = i THEN row ELSE rows[q][j]
    BY <1>1, RowReplaced
  <2> QED
    BY <2>1 DEF Attempts
<1>3. \A q \in Runs \ {r} : Still(q)
  BY <1>2 DEF Still
<1>4. \A j \in Attempts(r) : rows'[r][j].agent = rows[r][j].agent
  BY <1>2
<1>5. \A j \in Attempts(r) \ {i} : rows'[r][j].status = rows[r][j].status
  BY <1>2
<1>6. rows'[r][i] = row /\ DOMAIN rows'[r] = DOMAIN rows[r]
  BY <1>2
<1>7. CASE row.status = rows[r][i].status /\ run'[r] = run[r]
  <2>1. Still(r)
    BY <1>4, <1>5, <1>6, <1>7 DEF Still
  <2> QED
    BY <1>3, <2>1 DEF OnlyRun
<1>8. CASE /\ Leads(rows[r][i], row.status, run[r] = "cancelled")
           /\ IF row.status \in ActionFinal THEN run'[r] \notin Hidden ELSE run'[r] = run[r]
  <2>1. Led(r, i)
    BY <1>4, <1>5, <1>6, <1>8 DEF Led
  <2> QED
    BY <1>3, <2>1 DEF OnlyRun
<1> QED
  BY <1>7, <1>8

\* The same for a step that gives a row a new status.
LEMMA StatusPut ==
  ASSUME EngineInv, NEW r \in Runs, NEW i \in Attempts(r), NEW v \in ActionStatus,
         rows' = [rows EXCEPT ![r][i].status = v],
         \A q \in Runs \ {r} : run'[q] = run[q],
         Leads(rows[r][i], v, run[r] = "cancelled"),
         IF v \in ActionFinal THEN run'[r] \notin Hidden ELSE run'[r] = run[r]
  PROVE  OnlyRun(r)
<1>1. rows \in [Runs -> Seq(Row)] /\ i \in DOMAIN rows[r] /\ rows[r][i] \in Row
  BY DEF EngineInv, TypeOK, Attempts
<1> DEFINE row == [rows[r][i] EXCEPT !.status = v]
<1>2. row \in Row /\ rows' = [rows EXCEPT ![r][i] = row]
  BY <1>1, StatusUpdate
<1>3. row.status = v /\ row.agent = rows[r][i].agent
  BY <1>1 DEF Row
<1> HIDE DEF row
<1> QED
  BY <1>2, <1>3, RowPut

\* A row that ends brings its run back into sight.
LEMMA RowEnded ==
  ASSUME EngineInv, NEW r \in Runs, NEW i \in Attempts(r), NEW v \in ActionFinal,
         EndRow(r, i, v), Leads(rows[r][i], v, run[r] = "cancelled")
  PROVE  OnlyRun(r)
<1>1. v \in ActionStatus /\ rows' = [rows EXCEPT ![r][i].status = v]
  BY DEF EndRow, ActionStatus
<1>2. \A q \in Runs : run'[q] = IF q = r /\ run[r] \in RescheduleFrom THEN "scheduled" ELSE run[q]
  BY Rescheduled DEF EndRow, EngineInv
<1>3. run'[r] \notin Hidden
  BY <1>2, RescheduleAssumption DEF Hidden
<1> QED
  BY <1>1, <1>2, <1>3, StatusPut

\* Every step changes the rows of one run at most, as OnlyRun says.
LEMMA RowsStep ==
  ASSUME EngineInv, Sorted, Doomed, [Next]_vars
  PROVE  (\A q \in Runs : Still(q)) \/ \E r \in Runs : OnlyRun(r)
<1>0. TypeOK /\ rows \in [Runs -> Seq(Row)]
  BY DEF EngineInv, TypeOK
<1>1. ASSUME NEW r \in Runs, RunNext(r)
      PROVE  (\A q \in Runs : Still(q)) \/ OnlyRun(r)
  <2>1. CASE UNCHANGED rows /\ \E v \in RunStatus \ Hidden : SetRun(r, v)
    <3>1. \A q \in Runs : run'[q] = run[q] \/ run'[q] \notin Hidden
      BY <1>0, <2>1, RunSet
    <3> QED
      BY <2>1, <3>1, StillRows
  <2>2. CASE UNCHANGED <<rows, run>>
    BY <2>2, StillRows
  <2>3. CASE ScheduleRun(r) /\ NextStep(r) # 0 /\ StartStep(r, NextStep(r))
    <3>1. Selected(r) /\ ~HasLive(r) /\ run[r] # "cancelled"
      BY <2>3, QuietRun DEF ScheduleRun, Selected, Monitored, RunFinal
    <3>2. PICK row \in Row, status \in {"running", "waiting"} :
            /\ row.status = (IF row.agent THEN "waiting" ELSE "scheduled")
            /\ status = (IF row.agent THEN "waiting" ELSE "running")
            /\ rows' = [rows EXCEPT ![r] = Append(@, row)]
            /\ run' = [run EXCEPT ![r] = status]
      BY <2>3, <3>1, StepStarted
    <3>3. /\ rows'[r] = Append(rows[r], row) /\ run'[r] = status
          /\ \A q \in Runs \ {r} : rows'[q] = rows[q] /\ run'[q] = run[q]
      BY <1>0, <3>2 DEF TypeOK
    <3>4. Started(r)
      BY <3>1, <3>2, <3>3 DEF Started
    <3>5. \A q \in Runs \ {r} : Still(q)
      BY <3>3 DEF Still, Attempts
    <3> QED
      BY <3>4, <3>5 DEF OnlyRun
  <2>4. CASE ScheduleRun(r) /\ ~(NextStep(r) # 0 /\ StartStep(r, NextStep(r)))
    <3>1. UNCHANGED rows /\ \E v \in ExitStatus(r) \cup {"retrying", "sleeping"} : SetRun(r, v)
      BY <2>4 DEF ScheduleRun, Postpone
    <3>2. ExitStatus(r) \cup {"retrying", "sleeping"} \subseteq RunStatus \ Hidden
      BY DEF ExitStatus, RunStatus, Hidden
    <3> QED
      BY <3>1, <3>2, <2>1
  <2>5. CASE Create(r) \/ Approve(r) \/ FailSchedule(r) \/ CancelWrite(r) \/ TimeoutMark(r)
    <3>1. UNCHANGED rows
      BY <2>5 DEF Create, Approve, FailSchedule, CancelWrite, TimeoutMark
    <3>2. \E v \in {"pending_approval", "scheduled", "failed", "cancelled", "timed_out"} : SetRun(r, v)
      BY <2>5 DEF Create, Approve, FailSchedule, CancelWrite, TimeoutMark
    <3> QED
      BY <3>1, <3>2, <2>1 DEF RunStatus, Hidden
  <2>6. CASE CancelCheck(r) \/ Expire(r)
    BY <2>2, <2>6 DEF CancelCheck, Expire
  <2> QED
    BY <1>1, <2>3, <2>4, <2>5, <2>6 DEF RunNext
<1>2. ASSUME NEW r \in Runs, NEW i \in Attempts(r), RowNext(r, i)
      PROVE  (\A q \in Runs : Still(q)) \/ OnlyRun(r)
  <2>0. rows[r][i] \in Row
    BY <1>0 DEF Attempts
  <2>1. CASE \E c \in Consumers : ClaimAction(c, r, i)
    BY <2>1, StillRows DEF ClaimAction
  <2>2. CASE ResumeChildren(r, i)
    <3>1. PICK row \in Row : /\ row = Resumed(rows[r][i])
                             /\ row.status = "scheduled" /\ row.agent = rows[r][i].agent
      BY <2>0, RowFields
    <3>2. rows' = [rows EXCEPT ![r][i] = row] /\ UNCHANGED run
      BY <1>0, <2>2, <3>1 DEF ResumeChildren, Attempts, Resumed
    <3>3. Leads(rows[r][i], row.status, run[r] = "cancelled") /\ row.status \notin ActionFinal
      BY <2>2, <3>1 DEF ResumeChildren, Leads, Sorted, IsLive, ActionFinal
    <3> QED
      BY <3>1, <3>2, <3>3, RowPut
  <2>3. CASE AgentPoll(r, i)
    <3> DEFINE v == IF run[r] = "cancelled" THEN "skipped" ELSE "running"
    <3>1. /\ v \in ActionStatus /\ rows' = [rows EXCEPT ![r][i].status = v] /\ UNCHANGED run
      BY <2>3 DEF AgentPoll, ActionStatus, ActionFinal
    <3>2. rows[r][i].agent /\ rows[r][i].status = "waiting"
      BY <2>3 DEF AgentPoll, Sorted, IsLive, ActionFinal
    <3>3. Leads(rows[r][i], v, run[r] = "cancelled")
      BY <3>2 DEF Leads
    <3>4. IF v \in ActionFinal THEN run'[r] \notin Hidden ELSE run'[r] = run[r]
      BY <3>1 DEF ActionFinal, Hidden
    <3> HIDE DEF v
    <3> QED
      BY <3>1, <3>3, <3>4, StatusPut
  <2>4. CASE AgentTemplateError(r, i)
    <3>1. /\ EndRow(r, i, "failed") /\ run[r] # "cancelled"
          /\ rows[r][i].agent /\ rows[r][i].status = "waiting"
      BY <2>4 DEF AgentTemplateError, Sorted, IsLive, ActionFinal
    <3> QED
      BY <3>1, RowEnded DEF Leads, ActionFinal
  <2>5. CASE AgentResult(r, i)
    <3>1. PICK v \in ActionFinal : EndRow(r, i, v)
      BY <2>5 DEF AgentResult
    <3>2. rows[r][i].agent /\ rows[r][i].status = "running"
      BY <2>5 DEF AgentResult, Sorted, IsLive, ActionFinal
    <3> QED
      BY <3>1, <3>2, RowEnded DEF Leads
  <2> QED
    BY <1>2, <2>1, <2>2, <2>3, <2>4, <2>5 DEF RowNext
<1>3. ASSUME NEW c \in Consumers, ConsumerNext(c)
      PROVE  (\A q \in Runs : Still(q)) \/ \E r \in Runs : OnlyRun(r)
  <2>1. CASE Execute(c) \/ Abort(c)
    <3>1. PICK r \in Runs : \E i \in Attempts(r) : \E row \in Row :
            /\ rows[r][i].status = "scheduled" /\ SameButHistory(row, rows[r][i])
            /\ rows' = [rows EXCEPT ![r][i] = row] /\ UNCHANGED run
      BY <2>1, HistoryRow
    <3>2. PICK i \in Attempts(r) : \E row \in Row :
            /\ rows[r][i].status = "scheduled" /\ SameButHistory(row, rows[r][i])
            /\ rows' = [rows EXCEPT ![r][i] = row] /\ UNCHANGED run
      BY <3>1
    <3>3. PICK row \in Row :
            /\ rows[r][i].status = "scheduled" /\ SameButHistory(row, rows[r][i])
            /\ rows' = [rows EXCEPT ![r][i] = row] /\ UNCHANGED run
      BY <3>2
    <3> QED
      BY <3>3, RowPut DEF SameButHistory
  <2>2. CASE ~(Execute(c) \/ Abort(c))
    <3>1. claims[c] # NoClaim
      BY <1>3, <2>2, Holding DEF ConsumerNext, SkipCancelled, EndUnrun, Commit, WaitForChildren
    <3> PICK r \in Runs : r = claims[c].run
      BY <3>1, ClaimedRow
    <3> PICK i \in Attempts(r) : i = claims[c].row
      BY <3>1, ClaimedRow
    <3>2. rows[r][i] \in Row /\ rows[r][i].status = "scheduled" /\ ~rows[r][i].agent
      <4>1. rows[r][i].status = "scheduled" /\ IsLive(rows[r][i])
        BY <3>1, ClaimedRow DEF IsLive, ActionFinal
      <4>2. rows[r][i] \in Row
        BY <1>0 DEF Attempts
      <4> QED
        BY <4>1, <4>2 DEF Sorted
    <3>3. \A v \in ActionFinal \cup {"waiting_children"} : Leads(rows[r][i], v, run[r] = "cancelled")
      BY <3>2 DEF Leads
    <3>4. CASE SkipCancelled(c)
      <4>1. rows' = [rows EXCEPT ![r][i].status = "skipped"] /\ UNCHANGED run /\ claims[c].cancelled
        BY <3>4 DEF SkipCancelled
      <4>2. run'[r] \notin Hidden /\ "skipped" \in ActionStatus /\ "skipped" \in ActionFinal
        BY <3>1, <4>1 DEF Doomed, RunFinal, Hidden, ActionStatus, ActionFinal
      <4> QED
        BY <3>3, <4>1, <4>2, StatusPut
    <3>5. CASE WaitForChildren(c)
      <4>1. rows' = [rows EXCEPT ![r][i].status = "waiting_children"] /\ UNCHANGED run
        BY <3>5 DEF WaitForChildren
      <4>2. "waiting_children" \in ActionStatus /\ "waiting_children" \notin ActionFinal
        BY DEF ActionStatus, ActionFinal
      <4> QED
        BY <3>3, <4>1, <4>2, StatusPut
    <3>6. CASE EndUnrun(c) \/ Commit(c)
      <4>1. PICK v \in ActionFinal : EndRow(r, i, v)
        BY <3>6 DEF EndUnrun, Commit, ActionFinal
      <4> QED
        BY <3>3, <4>1, RowEnded
    <3> QED
      BY <1>3, <2>2, <3>4, <3>5, <3>6 DEF ConsumerNext
  <2> QED
    BY <2>1, <2>2
<1>4. CASE TimeoutScan \/ UNCHANGED vars
  BY <1>4, StillRows DEF TimeoutScan, vars
<1> QED
  BY <1>1, <1>2, <1>3, <1>4 DEF Next

\* Nothing revives the run of a transaction that has found it cancelled: what
\* could is held by that transaction.
LEMMA DoomedStep ==
  ASSUME EngineInv, Sorted, Doomed, [Next]_vars
  PROVE  Doomed'
<1>0. /\ TypeOK /\ run \in [Runs -> RunStatus]
      /\ claims \in [Consumers -> Claim \cup {NoClaim}]
  BY DEF EngineInv, TypeOK
<1> SUFFICES ASSUME NEW c \in Consumers, claims'[c] # NoClaim, claims'[c].cancelled
             PROVE  run'[claims'[c].run] \in RunFinal
  BY DEF Doomed
<1>1. CASE claims'[c] = claims[c]
  <2> PICK r \in Runs : r = claims[c].run
    BY <1>1, ClaimedRow
  <2> PICK i \in Attempts(r) : i = claims[c].row
    BY <1>1, ClaimedRow
  <2>1. run[r] \in RunFinal /\ rows[r][i].status = "scheduled" /\ IsLive(rows[r][i])
    BY <1>1, ClaimedRow DEF Doomed, IsLive, ActionFinal
  <2>2. \A j \in Attempts(r) : IsLive(rows[r][j]) => j = i
    BY <2>1 DEF EngineInv, LiveIsLatest
  <2>3. ASSUME NEW q \in Runs, RunNext(q) PROVE run'[r] \in RunFinal
    <3>1. CASE q = r
      BY <1>0, <2>1, <2>3, <3>1 DEF RunNext, Create, Approve, ScheduleRun, FailSchedule,
         CancelCheck, CancelWrite, Expire, TimeoutMark, SetRun, Selected, Monitored, RunFinal
    <3>2. CASE q # r
      <4>1. run'[r] = run[r]
        BY <1>0, <2>3, <3>2 DEF RunNext, Create, Approve, ScheduleRun, FailSchedule,
           CancelCheck, CancelWrite, Expire, TimeoutMark, SetRun, StartStep, Postpone
      <4> QED
        BY <2>1, <4>1
    <3> QED
      BY <3>1, <3>2
  <2>4. ASSUME NEW q \in Runs, NEW j \in Attempts(q), RowNext(q, j) PROVE run'[r] \in RunFinal
    <3>1. CASE AgentTemplateError(q, j) \/ AgentResult(q, j)
      <4>1. /\ IsLive(rows[q][j]) /\ rows[q][j].status # "scheduled"
            /\ \E v : EndRow(q, j, v)
        BY <3>1 DEF AgentTemplateError, AgentResult, IsLive, ActionFinal
      <4>2. q # r
        BY <2>1, <2>2, <4>1
      <4> QED
        BY <2>1, <4>1, <4>2, EndsElsewhere
    <3>2. CASE ~(AgentTemplateError(q, j) \/ AgentResult(q, j))
      BY <2>1, <2>4, <3>2 DEF RowNext, ClaimAction, ResumeChildren, AgentPoll
    <3> QED
      BY <3>1, <3>2
  <2>5. ASSUME NEW d \in Consumers, ConsumerNext(d) PROVE run'[r] \in RunFinal
    <3>1. CASE EndUnrun(d) \/ Commit(d)
      <4>1. claims[d] # NoClaim /\ Release(d) /\ \E v : EndRow(claims[d].run, claims[d].row, v)
        BY <3>1, Holding DEF EndUnrun, Commit
      <4>2. d # c
        BY <1>0, <1>1, <4>1 DEF Release
      <4>3. <<claims[d].run, claims[d].row>> # <<r, i>>
        BY <1>1, <4>1, <4>2 DEF EngineInv, ClaimsDisjoint
      <4>4. /\ claims[d].run \in Runs /\ claims[d].row \in Attempts(claims[d].run)
            /\ IsLive(rows[claims[d].run][claims[d].row])
        BY <4>1, ClaimedRow DEF IsLive, ActionFinal
      <4>5. claims[d].run # r
        BY <2>2, <4>3, <4>4
      <4> QED
        BY <2>1, <4>1, <4>4, <4>5, EndsElsewhere
    <3>2. CASE ~(EndUnrun(d) \/ Commit(d))
      BY <2>1, <2>5, <3>2 DEF ConsumerNext, SkipCancelled, Execute, WaitForChildren, Abort
    <3> QED
      BY <3>1, <3>2
  <2>6. CASE TimeoutScan \/ UNCHANGED vars
    BY <2>1, <2>6 DEF TimeoutScan, vars
  <2> QED
    BY <1>1, <2>3, <2>4, <2>5, <2>6 DEF Next
<1>2. CASE claims'[c] # claims[c]
  <2>1. PICK r \in Runs : \E i \in Attempts(r) : ClaimAction(c, r, i)
    <3>1. ASSUME Execute(c) PROVE FALSE
      <4>1. claims'[c] = [claims[c] EXCEPT !.phase = "executed"] /\ ~claims[c].cancelled
        BY <1>0, <3>1 DEF Execute
      <4>2. claims[c] \in Claim
        BY <3>1, Holding, ClaimedRow DEF Execute
      <4>3. claims'[c].cancelled = claims[c].cancelled
        BY <4>1, <4>2 DEF Claim
      <4> QED
        BY <4>1, <4>3
    <3>2. ASSUME NEW d \in Consumers, ConsumerNext(d) PROVE FALSE
      <4>1. CASE d = c
        BY <1>0, <3>1, <3>2, <4>1 DEF ConsumerNext, SkipCancelled, EndUnrun, Commit,
                                     WaitForChildren, Abort, Release
      <4>2. CASE d # c
        BY <1>0, <1>2, <3>2, <4>2 DEF ConsumerNext, SkipCancelled, EndUnrun, Execute, Commit,
                                     WaitForChildren, Abort, Release
      <4> QED
        BY <4>1, <4>2
    <3>3. ASSUME NEW r \in Runs, RunNext(r) PROVE FALSE
      BY <1>2, <3>3 DEF RunNext, Create, Approve, ScheduleRun, FailSchedule, CancelCheck,
                        CancelWrite, Expire, TimeoutMark
    <3>4. ~(TimeoutScan \/ UNCHANGED vars)
      BY <1>2 DEF TimeoutScan, vars
    <3>5. PICK r \in Runs : \E i \in Attempts(r) : RowNext(r, i)
      BY <3>2, <3>3, <3>4 DEF Next
    <3>6. PICK d \in Consumers, i \in Attempts(r) : ClaimAction(d, r, i)
      BY <1>2, <3>5 DEF RowNext, ResumeChildren, AgentPoll, AgentTemplateError, AgentResult
    <3>7. d = c
      BY <1>0, <1>2, <3>6 DEF ClaimAction
    <3> QED
      BY <3>6, <3>7
  <2>2. PICK i : /\ UNCHANGED run
                 /\ claims'[c] = [phase |-> "claimed", run |-> r, row |-> i,
                                  cancelled |-> run[r] = "cancelled"]
    BY <1>0, <2>1 DEF ClaimAction
  <2>3. claims'[c].run = r /\ run[r] = "cancelled"
    <3> DEFINE claim == [phase |-> "claimed", run |-> r, row |-> i, cancelled |-> run[r] = "cancelled"]
    <3>1. claim.run = r /\ claim.cancelled = (run[r] = "cancelled")
      OBVIOUS
    <3>2. claims'[c] = claim
      BY <2>2
    <3> HIDE DEF claim
    <3> QED
      BY <3>1, <3>2
  <2> QED
    BY <2>2, <2>3 DEF RunFinal
<1> QED
  BY <1>1, <1>2

\* A new row takes its place after the others, which keep theirs.
LEMMA Appended ==
  ASSUME EngineInv, NEW r \in Runs, NEW row \in Row, rows'[r] = Append(rows[r], row)
  PROVE  /\ Len(rows[r]) + 1 \in DOMAIN rows'[r] /\ Len(rows[r]) + 1 \notin Attempts(r)
         /\ rows'[r][Len(rows[r]) + 1] = row
         /\ DOMAIN rows'[r] = Attempts(r) \cup {Len(rows[r]) + 1}
         /\ \A j \in Attempts(r) : rows'[r][j] = rows[r][j]
<1>1. rows[r] \in Seq(Row)
  BY DEF EngineInv, TypeOK
<1> QED
  BY <1>1 DEF Attempts

LEMMA AttendedInvStep == AttendedInv /\ [Next]_vars => AttendedInv'
<1> SUFFICES ASSUME AttendedInv, [Next]_vars
             PROVE  AttendedInv'
  OBVIOUS
<1>1. EngineInv /\ Sorted /\ Doomed /\ Attended
  BY DEF AttendedInv
<1>2. EngineInv' /\ Doomed'
  BY <1>1, EngineInvNext, DoomedStep
<1>3. \A q \in Runs : Still(q) \/ Started(q) \/ \E i \in Attempts(q) : Led(q, i)
  BY <1>1, RowsStep DEF OnlyRun
<1>4. Sorted'
  <2> SUFFICES ASSUME NEW r \in Runs, NEW j \in DOMAIN rows'[r], IsLive(rows'[r][j])
               PROVE  rows'[r][j].status \in (IF rows'[r][j].agent THEN {"waiting", "running"}
                                              ELSE {"scheduled", "waiting_children"})
    BY DEF Sorted, Attempts, IsLive
  <2>1. CASE Still(r)
    BY <1>1, <2>1 DEF Still, Sorted, Attempts, IsLive
  <2>2. CASE Started(r)
    <3>1. PICK row \in Row : /\ rows'[r] = Append(rows[r], row)
                             /\ row.status = (IF row.agent THEN "waiting" ELSE "scheduled")
      BY <2>2 DEF Started
    <3>2. CASE j \in Attempts(r)
      BY <1>1, <3>1, <3>2, Appended DEF Sorted, IsLive
    <3>3. CASE j \notin Attempts(r)
      <4>1. rows'[r][j] = row
        BY <1>1, <3>1, <3>3, Appended
      <4> QED
        BY <3>1, <4>1
    <3> QED
      BY <3>2, <3>3
  <2>3. CASE \E i \in Attempts(r) : Led(r, i)
    <3>1. PICK i \in Attempts(r) : Led(r, i)
      BY <2>3
    <3>2. CASE j = i
      <4>1. /\ rows'[r][i].agent = rows[r][i].agent
            /\ Leads(rows[r][i], rows'[r][i].status, run[r] = "cancelled")
            /\ rows'[r][i].status \notin {"completed", "failed", "skipped"}
        BY <3>1, <3>2 DEF Led, IsLive, ActionFinal
      <4> QED
        BY <3>2, <4>1 DEF Leads, ActionFinal
    <3>3. CASE j # i
      BY <1>1, <3>1, <3>3 DEF Led, Sorted, IsLive, Attempts
    <3> QED
      BY <3>2, <3>3
  <2> QED
    BY <1>3, <2>1, <2>2, <2>3
<1>5. Attended'
  <2> DEFINE Serves(row, agent) ==
               /\ row.agent <=> agent
               /\ row.status \in (IF agent THEN {"waiting", "running"} ELSE {"scheduled", "waiting_children"})
  <2>1. \A r \in Runs : run[r] \in Hidden =>
          \E i \in Attempts(r) : Serves(rows[r][i], run[r] = "waiting")
    BY <1>1 DEF Attended, Hidden
  <2> SUFFICES ASSUME NEW r \in Runs, run'[r] \in Hidden
               PROVE  \E i \in DOMAIN rows'[r] : Serves(rows'[r][i], run'[r] = "waiting")
    BY DEF Attended, Hidden, Attempts
  <2>2. CASE Still(r)
    <3>1. run'[r] = run[r]
      BY <2>2 DEF Still
    <3>2. PICK i \in Attempts(r) : Serves(rows[r][i], run[r] = "waiting")
      BY <2>1, <3>1
    <3>3. Serves(rows'[r][i], run'[r] = "waiting") /\ i \in DOMAIN rows'[r]
      BY <2>2, <3>1, <3>2 DEF Still, Attempts
    <3> QED
      BY <3>3
  <2>3. CASE Started(r)
    <3>1. PICK row \in Row : /\ rows'[r] = Append(rows[r], row)
                             /\ row.status = (IF row.agent THEN "waiting" ELSE "scheduled")
                             /\ run'[r] = (IF row.agent THEN "waiting" ELSE "running")
      BY <2>3 DEF Started
    <3>2. Serves(row, run'[r] = "waiting")
      BY <3>1 DEF Row
    <3> QED
      BY <1>1, <3>1, <3>2, Appended
  <2>4. CASE \E i \in Attempts(r) : Led(r, i)
    <3>1. PICK i \in Attempts(r) : Led(r, i)
      BY <2>4
    <3>2. /\ rows'[r][i].status \notin ActionFinal /\ run'[r] = run[r]
          /\ IsLive(rows[r][i]) /\ i \in DOMAIN rows'[r]
      BY <3>1 DEF Led, Leads, IsLive, ActionFinal, Attempts
    <3>3. PICK j \in Attempts(r) : Serves(rows[r][j], run[r] = "waiting")
      BY <2>1, <3>2
    <3>4. j = i
      <4>1. IsLive(rows[r][j])
        BY <3>3 DEF IsLive, ActionFinal
      <4> QED
        BY <1>1, <3>2, <4>1 DEF EngineInv, LiveIsLatest
    <3>5. Serves(rows'[r][i], run'[r] = "waiting")
      BY <3>1, <3>2, <3>3, <3>4 DEF Led, Leads, ActionFinal
    <3> QED
      BY <3>2, <3>5
  <2> QED
    BY <1>3, <2>2, <2>3, <2>4
<1> QED
  BY <1>2, <1>4, <1>5 DEF AttendedInv

LEMMA AttendedInvInit == Init => AttendedInv
BY EngineInvInit DEF Init, AttendedInv, Sorted, Doomed, Attended, Attempts

\* For any consumers, cancels, timeouts and aborts no run is stranded: one that
\* RunConsumer does not look at has an action that a consumer, its children or
\* its agent will move on (run_consumer.go, runner.go, agent.go).
THEOREM AttendedCorrect == Spec => []Attended
<1>1. AttendedInv => Attended
  BY DEF AttendedInv
<1>2. Spec => []AttendedInv
  BY AttendedInvInit, AttendedInvStep, PTL DEF Spec
<1> QED
  BY <1>1, <1>2, PTL

----------------------------------------------------------------------------
(* Repeated executions.                                                    *)

\* A consumer has executed the action and has neither committed nor rolled back.
InExecution(r, i) ==
  \E c \in Consumers : Holds(c, "executed") /\ claims[c].run = r /\ claims[c].row = i

\* The account of an action: one execution more than were lost at most, and none
\* more while it is queued and in nobody's execution.
Covered(row) == row.ran <= row.lost + 1
Repaid(row) == row.ran <= row.lost
Accounted(r, i) ==
  /\ Covered(rows[r][i])
  /\ rows[r][i].status = "scheduled" /\ ~InExecution(r, i) => Repaid(rows[r][i])
AccountsInv == \A r \in Runs : \A i \in Attempts(r) : Accounted(r, i)

\* A row whose history a step leaves alone keeps its account, unless the step
\* queues it or ends the transaction that has executed it.
LEMMA AccountKept ==
  ASSUME NEW r, NEW i, Accounted(r, i),
         rows'[r][i].ran = rows[r][i].ran, rows'[r][i].lost = rows[r][i].lost,
         rows'[r][i].status = "scheduled" =>
           /\ rows[r][i].status = "scheduled"
           /\ \A c \in Consumers :
                Holds(c, "executed") /\ claims[c].run = r /\ claims[c].row = i =>
                  claims'[c] = claims[c]
  PROVE  Accounted(r, i)'
<1>1. ASSUME InExecution(r, i), rows'[r][i].status = "scheduled" PROVE InExecution(r, i)'
  BY <1>1 DEF InExecution, Holds
<1> QED
  BY <1>1 DEF Accounted, Covered, Repaid

\* A step that writes no row and ends no transaction that has executed its action.
LEMMA AccountsStill ==
  ASSUME AccountsInv, UNCHANGED rows,
         \A c \in Consumers : Holds(c, "executed") => claims'[c] = claims[c]
  PROVE  AccountsInv'
<1> SUFFICES ASSUME NEW r \in Runs, NEW i \in DOMAIN rows'[r] PROVE Accounted(r, i)'
  BY DEF AccountsInv, Attempts
<1>1. Accounted(r, i)
  BY DEF AccountsInv, Attempts
<1> QED
  BY <1>1, AccountKept

\* A step that writes one row, whose account is in order afterwards.
LEMMA AccountsPut ==
  ASSUME EngineInv, AccountsInv, NEW q \in Runs, NEW k \in Attempts(q), NEW row \in Row,
         rows' = [rows EXCEPT ![q][k] = row], Covered(row),
         \/ row.status # "scheduled"
         \/ Repaid(row)
         \/ \E c \in Consumers :
              claims'[c].phase = "executed" /\ claims'[c].run = q /\ claims'[c].row = k,
         \A c \in Consumers : Holds(c, "executed") =>
           claims'[c] = claims[c] \/ (claims[c].run = q /\ claims[c].row = k)
  PROVE  AccountsInv'
<1>1. rows \in [Runs -> Seq(Row)] /\ k \in DOMAIN rows[q]
  BY DEF EngineInv, TypeOK, Attempts
<1>2. LET S == [rows EXCEPT ![q][k] = row] IN
         /\ S \in [Runs -> Seq(Row)]
         /\ \A p \in Runs :
              /\ Len(S[p]) = Len(rows[p])
              /\ DOMAIN S[p] = DOMAIN rows[p]
              /\ \A j \in DOMAIN rows[p] : S[p][j] = IF p = q /\ j = k THEN row ELSE rows[p][j]
  BY <1>1, RowReplaced
<1> SUFFICES ASSUME NEW r \in Runs, NEW i \in DOMAIN rows'[r] PROVE Accounted(r, i)'
  BY DEF AccountsInv, Attempts
<1>3. i \in Attempts(r) /\ rows'[r][i] = IF r = q /\ i = k THEN row ELSE rows[r][i]
  BY <1>2 DEF Attempts
<1>4. CASE r = q /\ i = k
  BY <1>3, <1>4 DEF Accounted, InExecution, Holds
<1>5. CASE ~(r = q /\ i = k)
  <2>1. Accounted(r, i) /\ rows'[r][i] = rows[r][i]
    BY <1>3, <1>5 DEF AccountsInv
  <2>2. \A c \in Consumers : Holds(c, "executed") /\ claims[c].run = r /\ claims[c].row = i =>
          claims'[c] = claims[c]
    BY <1>5
  <2> QED
    BY <2>1, <2>2, AccountKept
<1> QED
  BY <1>4, <1>5

\* A step that gives a row a status that is not queued.
LEMMA AccountsMarked ==
  ASSUME EngineInv, AccountsInv, NEW q \in Runs, NEW k \in Attempts(q), NEW v \in ActionStatus,
         v # "scheduled", rows' = [rows EXCEPT ![q][k].status = v],
         \A c \in Consumers : Holds(c, "executed") =>
           claims'[c] = claims[c] \/ (claims[c].run = q /\ claims[c].row = k)
  PROVE  AccountsInv'
<1>1. rows \in [Runs -> Seq(Row)] /\ k \in DOMAIN rows[q] /\ rows[q][k] \in Row
  BY DEF EngineInv, TypeOK, Attempts
<1> DEFINE row == [rows[q][k] EXCEPT !.status = v]
<1>2. row \in Row /\ rows' = [rows EXCEPT ![q][k] = row]
  BY <1>1, StatusUpdate
<1>3. row.status = v /\ row.ran = rows[q][k].ran /\ row.lost = rows[q][k].lost
  BY <1>1 DEF Row
<1>4. Covered(row) /\ row.status # "scheduled"
  BY <1>3 DEF AccountsInv, Accounted, Covered
<1> HIDE DEF row
<1> QED
  BY <1>2, <1>4, AccountsPut

\* A run is moved: at most one row is added, which has not been executed.
LEMMA AccountsRun ==
  ASSUME EngineInv, AccountsInv, NEW q \in Runs, RunNext(q)
  PROVE  AccountsInv'
<1>0. rows \in [Runs -> Seq(Row)]
  BY DEF EngineInv, TypeOK
<1>1. UNCHANGED claims
  BY DEF RunNext, Create, Approve, ScheduleRun, FailSchedule, CancelCheck, CancelWrite,
         Expire, TimeoutMark
<1>2. CASE UNCHANGED rows
  BY <1>1, <1>2, AccountsStill
<1>3. CASE Selected(q) /\ NextStep(q) # 0 /\ StartStep(q, NextStep(q))
  <2>1. PICK row \in Row : /\ row.ran = 0 /\ row.lost = 0
                           /\ rows' = [rows EXCEPT ![q] = Append(@, row)]
    BY <1>3, StepStarted
  <2> SUFFICES ASSUME NEW r \in Runs, NEW i \in DOMAIN rows'[r] PROVE Accounted(r, i)'
    BY DEF AccountsInv, Attempts
  <2>2. CASE i \in Attempts(r) /\ rows'[r][i] = rows[r][i]
    BY <1>1, <2>2, AccountKept DEF AccountsInv
  <2>3. CASE rows'[r][i] = row
    BY <2>1, <2>3 DEF Accounted, Covered, Repaid
  <2>4. CASE r = q
    <3>1. rows'[r] = Append(rows[r], row)
      BY <1>0, <2>1, <2>4
    <3>2. rows'[r][i] = row \/ (i \in Attempts(r) /\ rows'[r][i] = rows[r][i])
      BY <1>0, <3>1 DEF Attempts
    <3> QED
      BY <2>2, <2>3, <3>2
  <2>5. CASE r # q
    <3>1. rows'[r] = rows[r]
      BY <1>0, <2>1, <2>5
    <3> QED
      BY <2>2, <3>1 DEF Attempts
  <2> QED
    BY <2>4, <2>5
<1> QED
  BY <1>2, <1>3 DEF RunNext, Create, Approve, ScheduleRun, Postpone, FailSchedule,
                    CancelCheck, CancelWrite, Expire, TimeoutMark

\* A row is claimed, queued again by its children, or moved by its agent.
LEMMA AccountsRow ==
  ASSUME EngineInv, AccountsInv, NEW q \in Runs, NEW k \in Attempts(q), RowNext(q, k)
  PROVE  AccountsInv'
<1>0. TypeOK /\ rows \in [Runs -> Seq(Row)]
  BY DEF EngineInv, TypeOK
<1>1. ASSUME NEW c \in Consumers, ClaimAction(c, q, k) PROVE AccountsInv'
  <2>1. NoClaim.phase # "executed" /\ claims[c] = NoClaim /\ UNCHANGED rows
    BY <1>1 DEF ClaimAction, NoClaim
  <2>2. \A d \in Consumers : Holds(d, "executed") => claims'[d] = claims[d]
    BY <1>0, <1>1, <2>1 DEF ClaimAction, Holds, TypeOK
  <2> QED
    BY <2>1, <2>2, AccountsStill
<1>2. CASE ResumeChildren(q, k)
  <2>1. rows[q][k] \in Row
    BY <1>0 DEF Attempts
  <2>2. PICK row \in Row : row = Resumed(rows[q][k]) /\ row.ran = 0 /\ row.lost = 0
    BY <2>1, RowFields
  <2>3. rows' = [rows EXCEPT ![q][k] = row] /\ UNCHANGED claims
    BY <1>0, <1>2, <2>2 DEF ResumeChildren, Attempts, Resumed
  <2>4. Covered(row) /\ Repaid(row)
    BY <2>2 DEF Covered, Repaid
  <2> QED
    BY <2>3, <2>4, AccountsPut
<1>3. CASE AgentPoll(q, k) \/ AgentTemplateError(q, k) \/ AgentResult(q, k)
  <2>1. PICK v \in ActionStatus : v # "scheduled" /\ rows' = [rows EXCEPT ![q][k].status = v]
    BY <1>3 DEF AgentPoll, AgentTemplateError, AgentResult, EndRow, ActionStatus, ActionFinal
  <2>2. UNCHANGED claims
    BY <1>3 DEF AgentPoll, AgentTemplateError, AgentResult
  <2> QED
    BY <2>1, <2>2, AccountsMarked
<1> QED
  BY <1>1, <1>2, <1>3 DEF RowNext

\* An execution is counted, or one that was counted is lost with its transaction:
\* nobody else holds the row, so it was in nobody's execution before it was
\* executed, and is in nobody's after the transaction has rolled back.
LEMMA AccountsHistory ==
  ASSUME EngineInv, AccountsInv, NEW c \in Consumers, Execute(c) \/ Abort(c)
  PROVE  AccountsInv'
<1>1. PICK q \in Runs : \E k \in Attempts(q) : \E row \in Row :
        /\ claims[c] # NoClaim /\ claims[c] \in Claim /\ claims[c].run = q /\ claims[c].row = k
        /\ rows[q][k] \in Row /\ rows[q][k].status = "scheduled"
        /\ Execute(c) => OneMore(row, rows[q][k])
        /\ Abort(c) => LostIf(row, rows[q][k], Holds(c, "executed"))
        /\ rows' = [rows EXCEPT ![q][k] = row]
  BY HistoryRow
<1>2. PICK k \in Attempts(q) : \E row \in Row :
        /\ claims[c] # NoClaim /\ claims[c] \in Claim /\ claims[c].run = q /\ claims[c].row = k
        /\ rows[q][k] \in Row /\ rows[q][k].status = "scheduled"
        /\ Execute(c) => OneMore(row, rows[q][k])
        /\ Abort(c) => LostIf(row, rows[q][k], Holds(c, "executed"))
        /\ rows' = [rows EXCEPT ![q][k] = row]
  BY <1>1
<1>3. PICK row \in Row :
        /\ claims[c] # NoClaim /\ claims[c] \in Claim /\ claims[c].run = q /\ claims[c].row = k
        /\ rows[q][k] \in Row /\ rows[q][k].status = "scheduled"
        /\ Execute(c) => OneMore(row, rows[q][k])
        /\ Abort(c) => LostIf(row, rows[q][k], Holds(c, "executed"))
        /\ rows' = [rows EXCEPT ![q][k] = row]
  BY <1>2
<1>4. /\ rows[q][k].ran \in Nat /\ rows[q][k].lost \in Nat
      /\ rows[q][k].ran <= rows[q][k].lost + 1
  BY <1>3 DEF Row, AccountsInv, Accounted, Covered
<1>5. ASSUME ~Holds(c, "executed") PROVE rows[q][k].ran <= rows[q][k].lost
  <2>1. ~InExecution(q, k)
    <3> SUFFICES ASSUME NEW d \in Consumers, Holds(d, "executed"),
                        claims[d].run = q, claims[d].row = k
                 PROVE  FALSE
      BY DEF InExecution
    <3>1. claims[d] # NoClaim /\ d # c
      BY <1>5, Holding
    <3> QED
      BY <1>3, <3>1 DEF EngineInv, ClaimsDisjoint
  <2> QED
    BY <1>3, <2>1 DEF AccountsInv, Accounted, Repaid
<1>6. \A d \in Consumers : Holds(d, "executed") =>
        claims'[d] = claims[d] \/ (claims[d].run = q /\ claims[d].row = k)
  BY <1>3, HistoryClaim
<1>7. CASE Execute(c)
  <2>1. ~Holds(c, "executed")
    BY <1>7 DEF Execute, Holds
  <2>2. claims'[c].phase = "executed" /\ claims'[c].run = q /\ claims'[c].row = k
    <3>1. PICK claim \in Claim : /\ claim = [claims[c] EXCEPT !.phase = "executed"]
                                 /\ claim.phase = "executed"
                                 /\ claim.run = q /\ claim.row = k
      BY <1>3, ClaimFields DEF Claim
    <3>2. claims'[c] = claim
      BY <1>7, <3>1 DEF Execute, EngineInv, TypeOK
    <3> QED
      BY <3>1, <3>2
  <2>3. Covered(row)
    BY <1>3, <1>4, <1>5, <1>7, <2>1 DEF Covered, OneMore
  <2> QED
    BY <1>3, <1>6, <2>2, <2>3, AccountsPut
<1>8. CASE Abort(c)
  <2>1. Covered(row) /\ Repaid(row)
    BY <1>3, <1>4, <1>5, <1>8 DEF Covered, Repaid, LostIf
  <2> QED
    BY <1>3, <1>6, <2>1, AccountsPut
<1> QED
  BY <1>7, <1>8

\* A transaction that commits takes its row out of the queue.
LEMMA AccountsCommit ==
  ASSUME EngineInv, AccountsInv, NEW c \in Consumers,
         SkipCancelled(c) \/ EndUnrun(c) \/ Commit(c) \/ WaitForChildren(c)
  PROVE  AccountsInv'
<1>1. claims[c] # NoClaim
  BY Holding DEF SkipCancelled, EndUnrun, Commit, WaitForChildren
<1> PICK q \in Runs : q = claims[c].run
  BY <1>1, ClaimedRow
<1> PICK k \in Attempts(q) : k = claims[c].row
  BY <1>1, ClaimedRow
<1>2. \A d \in Consumers \ {c} : claims'[d] = claims[d]
  BY DEF EngineInv, TypeOK, SkipCancelled, EndUnrun, Commit, WaitForChildren, Release
<1>3. \A d \in Consumers : Holds(d, "executed") =>
        claims'[d] = claims[d] \/ (claims[d].run = q /\ claims[d].row = k)
  BY <1>2
<1>4. PICK v \in ActionStatus : v # "scheduled" /\ rows' = [rows EXCEPT ![q][k].status = v]
  BY DEF SkipCancelled, EndUnrun, Commit, WaitForChildren, EndRow, ActionStatus, ActionFinal
<1> QED
  BY <1>3, <1>4, AccountsMarked, ZenonT(30)

\* For any consumers and aborts, an action is executed once and once more for
\* each transaction that had executed it and rolled back (run_consumer.go).
THEOREM RepeatsExplainedCorrect == Spec => []RepeatsExplained
<1>1. Init => AccountsInv
  BY DEF Init, AccountsInv, Attempts
<1>2. EngineInv /\ AccountsInv /\ [Next]_vars => AccountsInv'
  <2> SUFFICES ASSUME EngineInv, AccountsInv, [Next]_vars PROVE AccountsInv'
    OBVIOUS
  <2>1. ASSUME NEW c \in Consumers, ConsumerNext(c) PROVE AccountsInv'
    BY <2>1, AccountsHistory, AccountsCommit DEF ConsumerNext
  <2>2. CASE TimeoutScan \/ UNCHANGED vars
    BY <2>2, AccountsStill DEF TimeoutScan, vars
  <2> QED
    BY <2>1, <2>2, AccountsRun, AccountsRow DEF Next
<1>3. AccountsInv => RepeatsExplained
  BY DEF AccountsInv, Accounted, Covered, RepeatsExplained
<1> QED
  BY <1>1, <1>2, <1>3, EngineCorrect, PTL DEF Spec

\* A run that executes has exactly one action in flight, with somebody who moves
\* it on, and no other run has more than one.
THEOREM OneActionCorrect == Spec => []OneAction
<1>1. OneLiveAction /\ Attended => OneAction
  BY DEF OneAction
<1> QED
  BY <1>1, OneLiveActionCorrect, AttendedCorrect, PTL

\* What AgentAction sees of a row.
Shown(r, i) == IF AgentRow(r, i) THEN rows[r][i].status ELSE "none"

LEMMA ShownStill ==
  ASSUME NEW r \in Runs, Still(r), NEW i
  PROVE  Shown(r, i)' = Shown(r, i)
BY DEF Still, Shown, AgentRow, Attempts

\* A step that changes no row that AgentAction sees is an empty report to it.
LEMMA ContractSame ==
  ASSUME \A b \in Runs \X (1 .. MaxRows) : Shown(b[1], b[2])' = Shown(b[1], b[2])
  PROVE  AgentRows!Next
<1> DEFINE A == Runs \X (1 .. MaxRows)
           st == [b \in A |-> Shown(b[1], b[2])]
           nt == [b \in A |-> Shown(b[1], b[2])']
           outcome == [b \in {} |-> "failed"]
<1>1. (\E o \in [{} -> AgentRows!Outcomes] : nt = [b \in A |-> IF b \in {} THEN o[b] ELSE st[b]])
      => AgentRows!Report({})
  BY DEF AgentRows!Report, Shown
<1>2. AgentRows!Report({}) => AgentRows!Next
  BY DEF AgentRows!Next
<1>3. nt = st /\ st = [b \in A |-> st[b]]
  OBVIOUS
<1>4. outcome \in [{} -> AgentRows!Outcomes]
  OBVIOUS
<1> HIDE DEF st, nt, outcome
<1>5. nt = [b \in A |-> IF b \in {} THEN outcome[b] ELSE st[b]]
  BY <1>3
<1> QED
  BY <1>1, <1>2, <1>4, <1>5

\* A step that changes at most one row that AgentAction sees is one of its steps
\* if the row moves the way it says.
LEMMA ContractMove ==
  ASSUME NEW a \in Runs \X (1 .. MaxRows), NEW from, NEW to,
         Shown(a[1], a[2]) = from, Shown(a[1], a[2])' = to,
         \A b \in (Runs \X (1 .. MaxRows)) \ {a} : Shown(b[1], b[2])' = Shown(b[1], b[2]),
         \/ to = from
         \/ from = "none" /\ run[a[1]] # "cancelled" /\ to = "waiting"
         \/ from = "waiting" /\ to = (IF run[a[1]] = "cancelled" THEN "skipped" ELSE "running")
         \/ from = "waiting" /\ run[a[1]] # "cancelled" /\ to = "failed"
         \/ from = "running" /\ to \in ActionFinal
  PROVE  AgentRows!Next
<1> DEFINE A == Runs \X (1 .. MaxRows)
           st == [b \in A |-> Shown(b[1], b[2])]
           nt == [b \in A |-> Shown(b[1], b[2])']
           ca == {b \in A : run[b[1]] = "cancelled"}
           Move(b) == AgentRows!Assign(b) \/ AgentRows!HandOut(b)
                      \/ AgentRows!Withdraw(b) \/ AgentRows!Refuse(b)
<1>1. /\ \A b \in A : Move(b) => AgentRows!Next
      /\ \A batch \in SUBSET A : AgentRows!Report(batch) => AgentRows!Next
  BY DEF AgentRows!Next
<1>2. \A s : nt = [st EXCEPT ![a] = s] => AgentRows!To(a, s)
  BY DEF AgentRows!To, Shown
<1>3. /\ st[a] = "none" /\ a \notin ca /\ AgentRows!To(a, "waiting") => Move(a)
      /\ st[a] = "waiting" /\ a \notin ca /\ AgentRows!To(a, "running") => Move(a)
      /\ st[a] = "waiting" /\ a \in ca /\ AgentRows!To(a, "skipped") => Move(a)
      /\ st[a] = "waiting" /\ a \notin ca /\ AgentRows!To(a, "failed") => Move(a)
  BY DEF AgentRows!Assign, AgentRows!HandOut, AgentRows!Withdraw, AgentRows!Refuse, Shown
<1>4. ASSUME NEW batch \in SUBSET A, NEW outcome \in [batch -> AgentRows!Outcomes],
             \A b \in batch : st[b] = "running",
             nt = [b \in A |-> IF b \in batch THEN outcome[b] ELSE st[b]]
      PROVE  AgentRows!Next
  <2>1. AgentRows!Report(batch)
    BY <1>4 DEF AgentRows!Report, Shown
  <2> QED
    BY <1>1, <2>1
<1>5. /\ st[a] = from /\ nt[a] = to
      /\ \A b \in A \ {a} : nt[b] = st[b]
      /\ st = [b \in A |-> st[b]] /\ nt = [b \in A |-> nt[b]]
      /\ a \in ca <=> run[a[1]] = "cancelled"
  OBVIOUS
<1> HIDE DEF Move, st, nt, ca
<1>6. nt = [st EXCEPT ![a] = to]
  BY <1>5
<1>7. CASE to = from
  <2>1. \A b \in A : Shown(b[1], b[2])' = Shown(b[1], b[2])
    BY <1>7
  <2> QED
    BY <2>1, ContractSame
<1>8. CASE from = "running" /\ to \in ActionFinal
  <2> DEFINE outcome == [b \in {a} |-> to]
  <2>1. outcome \in [{a} -> AgentRows!Outcomes]
    BY <1>8 DEF AgentRows!Outcomes, ActionFinal
  <2>2. nt = [b \in A |-> IF b \in {a} THEN outcome[b] ELSE st[b]]
    BY <1>5
  <2>3. \A b \in {a} : st[b] = "running"
    BY <1>5, <1>8
  <2> HIDE DEF outcome
  <2> QED
    BY <1>4, <2>1, <2>2, <2>3
<1>9. CASE from = "none" /\ run[a[1]] # "cancelled" /\ to = "waiting"
  BY <1>1, <1>2, <1>3, <1>5, <1>6, <1>9
<1>10. CASE from = "waiting" /\ to = (IF run[a[1]] = "cancelled" THEN "skipped" ELSE "running")
  BY <1>1, <1>2, <1>3, <1>5, <1>6, <1>10
<1>11. CASE from = "waiting" /\ run[a[1]] # "cancelled" /\ to = "failed"
  BY <1>1, <1>2, <1>3, <1>5, <1>6, <1>11
<1> QED
  BY <1>7, <1>8, <1>9, <1>10, <1>11

\* Every step of the engine is a step of AgentAction, or shows it nothing.
LEMMA ContractStep ==
  ASSUME EngineInv, Sorted, Doomed, [Next]_vars
  PROVE  [AgentRows!Next]_(AgentRows!vars)
<1> DEFINE A == Runs \X (1 .. MaxRows)
           Same(b) == Shown(b[1], b[2])' = Shown(b[1], b[2])
<1>1. ASSUME NEW r \in Runs, NEW i, \A q \in Runs \ {r} : Still(q),
             \A j : j # i => Shown(r, j)' = Shown(r, j),
             \/ Shown(r, i)' = Shown(r, i)
             \/ /\ Shown(r, i) = "none" /\ run[r] # "cancelled"
                /\ Shown(r, i)' = "waiting"
             \/ /\ Shown(r, i) = "waiting"
                /\ Shown(r, i)' = (IF run[r] = "cancelled" THEN "skipped" ELSE "running")
             \/ /\ Shown(r, i) = "waiting" /\ run[r] # "cancelled"
                /\ Shown(r, i)' = "failed"
             \/ Shown(r, i) = "running" /\ Shown(r, i)' \in ActionFinal
      PROVE  [AgentRows!Next]_(AgentRows!vars)
  <2>1. ASSUME NEW b \in A, b # <<r, i>> PROVE Same(b)
    <3>1. CASE b[1] = r
      <4>1. b[2] # i
        BY <2>1, <3>1
      <4> QED
        BY <1>1, <3>1, <4>1
    <3>2. CASE b[1] # r
      <4>1. b[1] \in Runs /\ Still(b[1])
        BY <1>1, <3>2
      <4> QED
        BY <4>1, ShownStill
    <3> QED
      BY <3>1, <3>2
  <2>2. CASE i \in 1 .. MaxRows
    <3> DEFINE a == <<r, i>>
    <3>1. a \in A /\ a[1] = r /\ a[2] = i
      BY <2>2
    <3> HIDE DEF a
    <3>2. \A b \in A \ {a} : Same(b)
      BY <2>1 DEF a
    <3>3. AgentRows!Next
      BY <1>1, <3>1, <3>2, ContractMove
    <3> QED
      BY <3>3
  <2>3. CASE i \notin 1 .. MaxRows
    <3>1. \A b \in A : Same(b)
      BY <2>1, <2>3
    <3> QED
      BY <3>1, ContractSame
  <2> QED
    BY <2>2, <2>3
<1>2. CASE \A q \in Runs : Still(q)
  <2>1. \A b \in A : Same(b)
    BY <1>2, ShownStill
  <2> QED
    BY <2>1, ContractSame
<1>3. ASSUME NEW r \in Runs, OnlyRun(r) PROVE [AgentRows!Next]_(AgentRows!vars)
  <2>1. CASE Still(r)
    BY <1>2, <1>3, <2>1 DEF OnlyRun
  <2>2. CASE Started(r)
    <3>1. PICK row \in Row : /\ rows'[r] = Append(rows[r], row) /\ run[r] # "cancelled"
                             /\ row.status = (IF row.agent THEN "waiting" ELSE "scheduled")
      BY <2>2 DEF Started
    <3>2. PICK n : /\ n \notin Attempts(r) /\ rows'[r][n] = row
                   /\ DOMAIN rows'[r] = Attempts(r) \cup {n}
                   /\ \A j \in Attempts(r) : rows'[r][j] = rows[r][j]
      BY <3>1, Appended
    <3>3. \A j : j # n => Shown(r, j)' = Shown(r, j)
      BY <3>2 DEF Shown, AgentRow, Attempts
    <3>4. Shown(r, n) = "none"
      BY <3>2 DEF Shown, AgentRow, Attempts
    <3>5. Shown(r, n)' = IF row.agent THEN "waiting" ELSE "none"
      BY <3>1, <3>2 DEF Shown, AgentRow, Attempts
    <3> QED
      BY <1>1, <1>3, <3>1, <3>3, <3>4, <3>5 DEF OnlyRun
  <2>3. ASSUME NEW i \in Attempts(r), Led(r, i) PROVE [AgentRows!Next]_(AgentRows!vars)
    <3>1. \A j : j # i => Shown(r, j)' = Shown(r, j)
      BY <2>3 DEF Led, Shown, AgentRow, Attempts
    <3>2. CASE ~rows[r][i].agent
      <4>1. Shown(r, i)' = Shown(r, i)
        BY <2>3, <3>2 DEF Led, Shown, AgentRow, Attempts
      <4> QED
        BY <1>1, <1>3, <3>1, <4>1 DEF OnlyRun
    <3>3. CASE rows[r][i].agent
      <4>1. Shown(r, i) = rows[r][i].status /\ Shown(r, i)' = rows'[r][i].status
        BY <2>3, <3>3 DEF Led, Shown, AgentRow, Attempts
      <4>2. Leads(rows[r][i], rows'[r][i].status, run[r] = "cancelled")
        BY <2>3 DEF Led
      <4>3. \/ /\ Shown(r, i) = "waiting"
               /\ Shown(r, i)' = (IF run[r] = "cancelled" THEN "skipped" ELSE "running")
            \/ Shown(r, i) = "waiting" /\ run[r] # "cancelled" /\ Shown(r, i)' = "failed"
            \/ Shown(r, i) = "running" /\ Shown(r, i)' \in ActionFinal
        BY <3>3, <4>1, <4>2 DEF Leads
      <4> QED
        BY <1>1, <1>3, <3>1, <4>3 DEF OnlyRun
    <3> QED
      BY <3>2, <3>3
  <2> QED
    BY <1>3, <2>1, <2>2, <2>3 DEF OnlyRun
<1> QED
  BY <1>2, <1>3, RowsStep

\* The engine keeps its side of AgentAction, for any runs and consumers: it never
\* withdraws an action from the agent that has it, nor takes a second outcome.
THEOREM RowsContract == Spec => RowsKeepContract
<1>1. Init => AgentRows!Init
  BY DEF Init, AgentRows!Init, AgentRow, Attempts
<1>2. AttendedInv /\ [Next]_vars => [AgentRows!Next]_(AgentRows!vars)
  BY ContractStep DEF AttendedInv
<1>3. Spec => []AttendedInv
  BY AttendedInvInit, AttendedInvStep, PTL DEF Spec
<1> QED
  BY <1>1, <1>2, <1>3, PTL DEF Spec, RowsKeepContract, AgentRows!Spec

=============================================================================
