----------------------- MODULE NotificationSendProofs -----------------------
(***************************************************************************)
(* The theorems of NotificationSend, for every set of resources, events,   *)
(* notifications and senders and every value of the bounds.                *)
(***************************************************************************)
EXTENDS NotificationSend, FiniteSetTheorems, TLAPS

WithPlaybook == "playbook" \in {notif.to, notif.fallback}
Children(p) == {i \in DOMAIN rows : rows[i].parent = p}
Jobs == {"pending", "fallback"}
Busy(w) == w \in Senders /\ tasks[w] # Idle
Queues(i) == rows[i].status \in Queued

(***************************************************************************)
(* What a sender holds.  A consumer of notification.send holds a row of    *)
(* its own, started, which only the playbook engine may have moved on; a   *)
(* job holds a queued row with retries left.  (k is the task, row the row  *)
(* it holds, queued whether a playbook.run event of that row is queued.)   *)
(***************************************************************************)
EventTask(k, row, queued) ==
  /\ k.kind = "event" /\ k.attempts < MaxAttempts
  /\ row.status \notin Queued
  /\ k.phase = "started" => row.delivered = 0
  /\ k.phase \in {"started", "delivered", "stale", "failed"} => row.status = "started" /\ ~queued
  /\ k.phase = "triggered" =>
       WithPlaybook /\ row.status \in {"started", "pending_playbook_completion", "error"}
JobTask(k, row, rolledBack) ==
  /\ k.kind \in Jobs /\ k.phase \in {"started", "delivered", "triggered", "stale", "failed"}
  /\ row.status \in Queued /\ row.retries < MaxRetries
  /\ k.phase = "triggered" => WithPlaybook
  /\ k.phase # "delivered" => row.delivered <= rolledBack
Holding(w) ==
  \/ EventTask(tasks[w], rows[tasks[w].row], tasks[w].row \in runEvents)
  \/ JobTask(tasks[w], rows[tasks[w].row], crashes)
Held == \A w \in Senders : Busy(w) => Holding(w)
Apart == \A v, w \in Senders : Busy(v) /\ Busy(w) /\ v # w => tasks[v].row # tasks[w].row

\* Who waits for the playbook engine.
Waits(i) == WithPlaybook /\ rows[i].status \in {"started", "pending_playbook_run", "sent"}
Triggered == \A i \in runEvents : Waits(i)

\* What has been sent of a row: nothing but by transactions rolled back, as
\* long as it is queued and not at this moment in the hands of a job.
Delivering(i) ==
  \E w \in Senders : /\ Busy(w) /\ tasks[w].kind \in Jobs
                     /\ tasks[w].phase = "delivered" /\ tasks[w].row = i
Account(i) == Queues(i) => Delivering(i) \/ rows[i].delivered <= crashes
Accounted == \A i \in DOMAIN rows : Account(i)

\* A row has as many children as it has failed; one more when the playbook it
\* triggered was refused, after which it triggers none.
Refusable(p) == p \in runEvents \/ rows[p].status \in Queued \cup {"started"}
Allowed(p) == rows[p].retries + (IF WithPlaybook /\ ~Refusable(p) THEN 1 ELSE 0)
Older == \A p \in DOMAIN rows : rows[p].parent < p
Parented == \A p \in DOMAIN rows : Cardinality(Children(p)) <= Allowed(p)

SendInv ==
  TypeOK /\ Held /\ Apart /\ Triggered /\ OncePerRow /\ Accounted /\ Older /\ Parented

----------------------------------------------------------------------------
(* Rows.                                                                   *)

\* The history and the fields of its rows have their types.
LEMMA RowsType ==
  ASSUME TypeOK
  PROVE  /\ rows \in Seq(Row) /\ Len(rows) \in Nat /\ DOMAIN rows = 1 .. Len(rows)
         /\ \A i \in DOMAIN rows : /\ rows[i] \in Row
                                   /\ rows[i].res \in Resources /\ rows[i].event \in Events
                                   /\ rows[i].status \in Status
                                   /\ rows[i].retries \in 0 .. MaxRetries
                                   /\ rows[i].parent \in Nat /\ rows[i].delivered \in Nat
<1>1. rows \in Seq(Row) /\ Len(rows) \in Nat /\ DOMAIN rows = 1 .. Len(rows)
  BY DEF TypeOK
<1>2. \A i \in DOMAIN rows : rows[i] \in Row
  BY <1>1
<1> QED
  BY <1>1, <1>2 DEF Row

\* A sender is idle or at a row of the history.
LEMMA TasksType ==
  ASSUME TypeOK, NEW w \in Senders
  PROVE  /\ tasks[w] # Idle => tasks[w] \in Task /\ tasks[w].row \in DOMAIN rows
         /\ tasks[w] = Idle => tasks[w].kind = "idle"
         /\ tasks[w] \in Task => tasks[w] # Idle
<1>1. tasks[w] \in Task \cup {Idle}
  BY DEF TypeOK
<1>2. tasks[w] # Idle => tasks[w].row \in DOMAIN rows
  BY DEF TypeOK
<1>3. Idle.kind = "idle"
  BY DEF Idle
<1>4. Idle \notin Task
  BY <1>3 DEF Task
<1> QED
  BY <1>1, <1>2, <1>3, <1>4

\* What writing one row, or adding one, makes of the history.
LEMMA RowWritten ==
  ASSUME TypeOK, NEW i \in DOMAIN rows, NEW row \in Row
  PROVE  LET R == [rows EXCEPT ![i] = row] IN
         /\ R \in Seq(Row) /\ Len(R) = Len(rows) /\ DOMAIN R = DOMAIN rows
         /\ \A j \in DOMAIN rows : R[j] = IF j = i THEN row ELSE rows[j]
BY RowsType

\* What appending a row makes of the history.
LEMMA RowAdded ==
  ASSUME NEW R \in Seq(Row), NEW row \in Row, NEW S, S = Append(R, row)
  PROVE  /\ S \in Seq(Row) /\ Len(S) = Len(R) + 1 /\ DOMAIN S = DOMAIN R \cup {Len(R) + 1}
         /\ \A j \in DOMAIN R : S[j] = R[j]
         /\ S[Len(R) + 1] = row
<1>1. DOMAIN R = 1 .. Len(R) /\ Len(R) \in Nat
  OBVIOUS
<1>2. S \in Seq(Row) /\ Len(S) = Len(R) + 1 /\ S[Len(R) + 1] = row
  OBVIOUS
<1>3. DOMAIN S = 1 .. Len(R) + 1
  BY <1>2
<1>4. \A j \in DOMAIN R : S[j] = R[j]
  BY <1>1
<1> QED
  BY <1>1, <1>2, <1>3, <1>4

\* The updates of a row that the actions make.
LEMMA RowFields ==
  ASSUME NEW row \in Row
  PROVE  /\ \A v \in Status :
              LET new == [row EXCEPT !.status = v] IN
              /\ new \in Row /\ new.status = v /\ new.retries = row.retries
              /\ new.parent = row.parent /\ new.delivered = row.delivered
              /\ new.res = row.res /\ new.event = row.event
         /\ LET new == [row EXCEPT !.delivered = @ + 1] IN
              /\ new \in Row /\ new.status = row.status /\ new.retries = row.retries
              /\ new.parent = row.parent /\ new.delivered = row.delivered + 1
              /\ new.res = row.res /\ new.event = row.event
         /\ \A v \in Status : row.retries < MaxRetries =>
              LET new == [row EXCEPT !.status = v, !.retries = @ + 1] IN
              /\ new \in Row /\ new.status = v /\ new.retries = row.retries + 1
              /\ new.parent = row.parent /\ new.delivered = row.delivered
              /\ new.res = row.res /\ new.event = row.event
<1>1. row.retries \in 0 .. MaxRetries /\ MaxRetries \in Nat /\ row.delivered \in Nat
  BY BoundsAssumption DEF Row
<1>2. \A v \in Status :
        LET new == [row EXCEPT !.status = v] IN
        /\ new \in Row /\ new.status = v /\ new.retries = row.retries
        /\ new.parent = row.parent /\ new.delivered = row.delivered
        /\ new.res = row.res /\ new.event = row.event
  BY DEF Row
<1>3. LET new == [row EXCEPT !.delivered = @ + 1] IN
      /\ new \in Row /\ new.status = row.status /\ new.retries = row.retries
      /\ new.parent = row.parent /\ new.delivered = row.delivered + 1
      /\ new.res = row.res /\ new.event = row.event
  BY <1>1 DEF Row
<1>4. ASSUME NEW v \in Status, row.retries < MaxRetries
      PROVE  LET new == [row EXCEPT !.status = v, !.retries = @ + 1] IN
             /\ new \in Row /\ new.status = v /\ new.retries = row.retries + 1
             /\ new.parent = row.parent /\ new.delivered = row.delivered
             /\ new.res = row.res /\ new.event = row.event
  <2>1. row.retries + 1 \in 0 .. MaxRetries
    BY <1>1, <1>4
  <2> QED
    BY <2>1 DEF Row
<1> QED
  BY <1>2, <1>3, <1>4

\* A new row has not been sent or retried.
LEMMA NewRowType ==
  ASSUME NEW r \in Resources, NEW e \in Events, NEW status \in Status, NEW parent \in Nat
  PROVE  LET new == NewRow(r, e, status, parent) IN
         /\ new \in Row /\ new.status = status /\ new.retries = 0
         /\ new.parent = parent /\ new.delivered = 0
BY BoundsAssumption DEF NewRow, Row

----------------------------------------------------------------------------
(* The invariant from step to step.                                        *)

\* The children of the rows when the history grows by at most one row.
LEMMA ChildrenStep ==
  ASSUME SendInv, NEW n \in Nat, NEW m \in {n, n + 1},
         DOMAIN rows = 1 .. n, DOMAIN rows' = 1 .. m,
         \A j \in 1 .. n : rows'[j].parent = rows[j].parent,
         m # n => rows'[m].parent \in 0 .. n
  PROVE  /\ Older'
         /\ \A p \in 1 .. n :
              /\ Cardinality(Children(p)) \in Nat
              /\ m = n \/ rows'[m].parent # p => Cardinality(Children(p)') = Cardinality(Children(p))
              /\ Cardinality(Children(p)') \in {Cardinality(Children(p)), Cardinality(Children(p)) + 1}
         /\ m # n => Cardinality(Children(m)') = 0
<1>1. \A j \in 1 .. n : rows[j].parent \in Nat /\ rows[j].parent < j
  BY RowsType DEF SendInv, Older
<1>2. Older'
  BY <1>1 DEF Older
<1>3. ASSUME NEW p \in 1 .. n
      PROVE  /\ Cardinality(Children(p)) \in Nat
             /\ m = n \/ rows'[m].parent # p => Cardinality(Children(p)') = Cardinality(Children(p))
             /\ Cardinality(Children(p)') \in {Cardinality(Children(p)), Cardinality(Children(p)) + 1}
  <2>1. IsFiniteSet(Children(p)) /\ Cardinality(Children(p)) \in Nat
    <3>1. Children(p) \in SUBSET (1 .. n) /\ IsFiniteSet(1 .. n)
      BY FS_Interval DEF Children
    <3>2. IsFiniteSet(Children(p))
      BY <3>1, FS_Subset
    <3> QED
      BY <3>2, FS_CardinalityType
  <2>2. CASE m = n \/ rows'[m].parent # p
    <3>1. Children(p)' = Children(p)
      BY <2>2 DEF Children
    <3> QED
      BY <2>1, <3>1
  <2>3. CASE m = n + 1 /\ rows'[m].parent = p
    <3>1. Children(p)' = Children(p) \cup {m} /\ m \notin Children(p)
      BY <2>3 DEF Children
    <3>2. Cardinality(Children(p) \cup {m}) = Cardinality(Children(p)) + 1
      BY <2>1, <3>1, FS_AddElement
    <3> QED
      BY <2>1, <2>3, <3>1, <3>2
  <2> QED
    BY <2>2, <2>3
<1>4. ASSUME m # n
      PROVE  Cardinality(Children(m)') = 0
  <2>1. Children(m)' = {}
    BY <1>1, <1>4 DEF Children
  <2> QED
    BY <2>1, FS_EmptySet
<1> QED
  BY <1>2, <1>3, <1>4

\* A sender whose task and row a step leaves alone holds what it held.
LEMMA HoldingKept ==
  ASSUME SendInv, NEW w \in Senders, Busy(w), tasks'[w] = tasks[w],
         rows'[tasks[w].row] = rows[tasks[w].row],
         tasks[w].row \in runEvents' <=> tasks[w].row \in runEvents,
         UNCHANGED notif, crashes' \in {crashes, crashes + 1}, crashes \in Nat
  PROVE  Holding(w)'
<1>1. Holding(w) /\ (WithPlaybook' <=> WithPlaybook)
  BY DEF SendInv, Held, WithPlaybook
<1>2. rows[tasks[w].row].delivered \in Nat
  BY RowsType, TasksType DEF SendInv, Busy
<1>3. CASE EventTask(tasks[w], rows[tasks[w].row], tasks[w].row \in runEvents)
  BY <1>1, <1>3 DEF Holding, EventTask
<1>4. CASE JobTask(tasks[w], rows[tasks[w].row], crashes)
  <2>1. \A n : n <= crashes /\ n \in Nat => n <= crashes'
    OBVIOUS
  <2> QED
    BY <1>1, <1>2, <1>4, <2>1 DEF Holding, JobTask
<1> QED
  BY <1>1, <1>3, <1>4 DEF Holding

\* A step that touches one row, i, and the task of one sender, w, which holds
\* row i or none, and which adds at most one row.
LEMMA OneTouched ==
  ASSUME SendInv, TypeOK', UNCHANGED notif, crashes' \in {crashes, crashes + 1},
         NEW i \in Nat, NEW w, NEW n \in Nat, NEW m \in {n, n + 1},
         DOMAIN rows = 1 .. n, DOMAIN rows' = 1 .. m,
         \A j \in 1 .. n : j # i => rows'[j] = rows[j] /\ (j \in runEvents' <=> j \in runEvents),
         m # n => /\ rows'[m].parent \in {0} \cup ({i} \cap 1 .. n)
                  /\ rows'[m].delivered = 0 /\ rows'[m].retries = 0
                  /\ m \notin runEvents',
         \A v \in Senders : v # w =>
           tasks'[v] = tasks[v] /\ (Busy(v) => tasks[v].row # i),
         Busy(w) => tasks[w].row = i,
         Busy(w)' => Holding(w)' /\ tasks'[w].row \in {i} \cup ({m} \ {n}),
         i \in 1 .. n =>
           /\ rows'[i].parent = rows[i].parent
           /\ i \in runEvents' => Waits(i)'
           /\ rows'[i].delivered <= 1 + crashes'
           /\ Account(i)'
           /\ rows'[i].retries >= rows[i].retries
           /\ \/ rows'[i].retries > rows[i].retries \/ m = n \/ rows'[m].parent = 0
              \/ WithPlaybook /\ Refusable(i) /\ ~Refusable(i)'
           /\ WithPlaybook /\ ~Refusable(i) => ~Refusable(i)'
  PROVE  SendInv'
<1>1. crashes \in Nat /\ crashes' \in Nat /\ runEvents' \subseteq 1 .. m
  BY BoundsAssumption DEF SendInv, TypeOK
<1>2. /\ \A j \in 1 .. n : rows[j].delivered \in Nat /\ rows[j].retries \in Nat
      /\ \A j \in 1 .. m : rows'[j].delivered \in Nat /\ rows'[j].retries \in Nat
  <2>1. \A j \in 1 .. n : rows[j].delivered \in Nat /\ rows[j].retries \in Nat
    BY RowsType, BoundsAssumption DEF SendInv
  <2>2. ASSUME NEW j \in 1 .. m PROVE rows'[j].delivered \in Nat /\ rows'[j].retries \in Nat
    <3>1. rows'[j] \in Row
      BY DEF TypeOK
    <3> QED
      BY <3>1, BoundsAssumption DEF Row
  <2> QED
    BY <2>1, <2>2
<1>3. \A v \in Senders : Busy(v) => tasks[v].row \in 1 .. n
  BY TasksType DEF SendInv, Busy
<1>4. \A v \in Senders : v # w => (Busy(v)' <=> Busy(v))
  BY DEF Busy
<1>5. Held'
  <2> SUFFICES ASSUME NEW v \in Senders, Busy(v)' PROVE Holding(v)'
    BY DEF Held
  <2>1. CASE v = w
    BY <2>1
  <2>2. CASE v # w
    <3>1. /\ Busy(v) /\ tasks'[v] = tasks[v] /\ tasks[v].row \in 1 .. n /\ tasks[v].row # i
      BY <1>3, <1>4, <2>2
    <3>2. /\ rows'[tasks[v].row] = rows[tasks[v].row]
          /\ tasks[v].row \in runEvents' <=> tasks[v].row \in runEvents
      BY <3>1
    <3> QED
      BY <1>1, <3>1, <3>2, HoldingKept
  <2> QED
    BY <2>1, <2>2
<1>6. Apart'
  <2> SUFFICES ASSUME NEW u \in Senders, NEW v \in Senders, Busy(u)', Busy(v)', u # v
               PROVE  tasks'[u].row # tasks'[v].row
    BY DEF Apart
  <2>1. CASE u # w /\ v # w
    BY <1>4, <2>1 DEF SendInv, Apart
  <2>2. CASE u = w
    <3>1. Busy(v) /\ tasks'[v] = tasks[v] /\ tasks[v].row \in 1 .. n /\ tasks[v].row # i
      BY <1>3, <1>4, <2>2
    <3> QED
      BY <2>2, <3>1
  <2>3. CASE v = w
    <3>1. Busy(u) /\ tasks'[u] = tasks[u] /\ tasks[u].row \in 1 .. n /\ tasks[u].row # i
      BY <1>3, <1>4, <2>3
    <3> QED
      BY <2>3, <3>1
  <2> QED
    BY <2>1, <2>2, <2>3
<1>7. Triggered'
  <2> SUFFICES ASSUME NEW j \in runEvents' PROVE Waits(j)'
    BY DEF Triggered
  <2>1. j \in 1 .. n
    BY <1>1
  <2>2. CASE j # i
    BY <2>1, <2>2 DEF SendInv, Triggered, Waits, WithPlaybook
  <2> QED
    BY <2>1, <2>2
<1>8. OncePerRow'
  <2> SUFFICES ASSUME NEW j \in 1 .. m PROVE rows'[j].delivered <= 1 + crashes'
    BY DEF OncePerRow
  <2>1. CASE j \in 1 .. n /\ j # i
    <3>1. rows[j].delivered <= 1 + crashes
      BY <2>1 DEF SendInv, OncePerRow
    <3> QED
      BY <1>1, <1>2, <2>1, <3>1
  <2>2. CASE j \notin 1 .. n
    BY <1>1, <2>2
  <2> QED
    BY <2>1, <2>2
<1>9. Accounted'
  <2> SUFFICES ASSUME NEW j \in 1 .. m PROVE Account(j)'
    BY DEF Accounted
  <2>1. CASE j \in 1 .. n /\ j # i
    <3>1. Account(j) /\ rows'[j] = rows[j]
      BY <2>1 DEF SendInv, Accounted
    <3>2. CASE ~Queues(j)
      BY <3>1, <3>2 DEF Account, Queues
    <3>3. CASE rows[j].delivered <= crashes
      <4>1. rows'[j].delivered <= crashes'
        BY <1>1, <1>2, <2>1, <3>1, <3>3
      <4> QED
        BY <4>1 DEF Account
    <3>4. CASE Delivering(j)
      <4>1. PICK v \in Senders : /\ Busy(v) /\ tasks[v].kind \in Jobs
                                 /\ tasks[v].phase = "delivered" /\ tasks[v].row = j
        BY <3>4 DEF Delivering
      <4>2. v # w
        BY <2>1, <4>1
      <4>3. Delivering(j)'
        BY <1>4, <4>1, <4>2 DEF Delivering
      <4> QED
        BY <4>3 DEF Account
    <3> QED
      BY <3>1, <3>2, <3>3, <3>4 DEF Account
  <2>2. CASE j \notin 1 .. n
    <3>1. rows'[j].delivered <= crashes'
      BY <1>1, <2>2
    <3> QED
      BY <3>1 DEF Account
  <2> QED
    BY <2>1, <2>2
<1>10. Older' /\ Parented'
  <2>1. /\ \A j \in 1 .. n : rows'[j].parent = rows[j].parent
        /\ m # n => rows'[m].parent \in 0 .. n
    OBVIOUS
  <2>2. /\ Older'
        /\ \A p \in 1 .. n :
             /\ Cardinality(Children(p)) \in Nat
             /\ m = n \/ rows'[m].parent # p => Cardinality(Children(p)') = Cardinality(Children(p))
             /\ Cardinality(Children(p)') \in {Cardinality(Children(p)), Cardinality(Children(p)) + 1}
        /\ m # n => Cardinality(Children(m)') = 0
    BY <2>1, ChildrenStep
  <2>3. WithPlaybook' <=> WithPlaybook
    BY DEF WithPlaybook
  <2>4. ASSUME NEW p \in 1 .. m PROVE Cardinality(Children(p)') <= Allowed(p)'
    <3>0. Allowed(p)' \in Nat
      BY <1>2 DEF Allowed
    <3>1. CASE p \notin 1 .. n
      BY <2>2, <3>0, <3>1
    <3>2. CASE p \in 1 .. n /\ p # i
      <4>1. Allowed(p)' = Allowed(p)
        BY <2>3, <3>2 DEF Allowed, Refusable
      <4>2. Cardinality(Children(p)') = Cardinality(Children(p))
        BY <2>2, <3>2
      <4> QED
        BY <3>2, <4>1, <4>2 DEF SendInv, Parented
    <3>3. CASE p \in 1 .. n /\ p = i
      <4> DEFINE c == Cardinality(Children(p))
                 d == Cardinality(Children(p)')
                 a == Allowed(p)
                 b == Allowed(p)'
      <4>1. c \in Nat /\ c <= a /\ d \in {c, c + 1} /\ (m = n \/ rows'[m].parent # p => d = c)
        BY <2>2, <3>3 DEF SendInv, Parented
      <4>2. a \in Nat /\ b \in Nat /\ a <= b
        BY <1>2, <2>3, <3>3 DEF Allowed
      <4>3. d = c + 1 => a + 1 <= b
        <5>1. CASE d = c
          BY <4>1, <5>1
        <5>2. CASE d = c + 1 /\ rows'[p].retries > rows[p].retries
          BY <1>2, <2>3, <3>3, <5>2 DEF Allowed
        <5>3. CASE d = c + 1 /\ ~(rows'[p].retries > rows[p].retries)
          <6>1. m # n /\ rows'[m].parent = p
            BY <4>1, <5>3
          <6>2. WithPlaybook /\ Refusable(p) /\ ~Refusable(p)'
            BY <3>3, <5>3, <6>1
          <6> QED
            BY <1>2, <2>3, <3>3, <6>2 DEF Allowed
        <5> QED
          BY <4>1, <5>1, <5>2, <5>3
      <4> HIDE DEF c, d, a, b
      <4>4. d <= b
        BY <4>1, <4>2, <4>3
      <4> QED
        BY <4>4 DEF d, b
    <3> QED
      BY <3>1, <3>2, <3>3
  <2> QED
    BY <2>2, <2>4 DEF Parented
<1> QED
  BY <1>5, <1>6, <1>7, <1>8, <1>9, <1>10 DEF SendInv

\* What OneTouched asks of a step: row i and sender w alone are touched, and row
\* m is the last one.
Touched(i, w, n, m) ==
  /\ TypeOK' /\ UNCHANGED notif /\ crashes' \in {crashes, crashes + 1}
  /\ DOMAIN rows = 1 .. n /\ DOMAIN rows' = 1 .. m
  /\ \A j \in 1 .. n : j # i => rows'[j] = rows[j] /\ (j \in runEvents' <=> j \in runEvents)
  /\ m # n => /\ rows'[m].parent \in {0} \cup ({i} \cap 1 .. n)
              /\ rows'[m].delivered = 0 /\ rows'[m].retries = 0
              /\ m \notin runEvents'
  /\ \A v \in Senders : v # w => tasks'[v] = tasks[v] /\ (Busy(v) => tasks[v].row # i)
  /\ Busy(w) => tasks[w].row = i
  /\ Busy(w)' => Holding(w)' /\ tasks'[w].row \in {i} \cup ({m} \ {n})
  /\ i \in 1 .. n =>
       /\ rows'[i].parent = rows[i].parent
       /\ i \in runEvents' => Waits(i)'
       /\ rows'[i].delivered <= 1 + crashes'
       /\ Account(i)'
       /\ rows'[i].retries >= rows[i].retries
       /\ \/ rows'[i].retries > rows[i].retries \/ m = n \/ rows'[m].parent = 0
          \/ WithPlaybook /\ Refusable(i) /\ ~Refusable(i)'
       /\ WithPlaybook /\ ~Refusable(i) => ~Refusable(i)'

\* A step that touches row i and sender w alone keeps the invariant.
LEMMA TouchedKeeps ==
  ASSUME SendInv, NEW i \in Nat, NEW w, NEW n \in Nat, NEW m \in {n, n + 1}, Touched(i, w, n, m)
  PROVE  SendInv'
BY OneTouched DEF Touched

\* A step that leaves the history, the senders and the playbook.run events.
LEMMA NothingTouched ==
  ASSUME SendInv, TypeOK', UNCHANGED <<notif, rows, tasks, runEvents, crashes>>
  PROVE  SendInv'
<1>1. Held' /\ Apart'
  BY DEF SendInv, Held, Apart, Busy, Holding, EventTask, JobTask, WithPlaybook
<1>2. Triggered' /\ OncePerRow' /\ Accounted'
  BY DEF SendInv, Triggered, Waits, WithPlaybook, OncePerRow, Accounted, Account, Queues,
         Delivering, Busy
<1>3. Older' /\ Parented'
  BY DEF SendInv, Older, Parented, Children, Allowed, Refusable, WithPlaybook
<1> QED
  BY <1>1, <1>2, <1>3 DEF SendInv

----------------------------------------------------------------------------
(* The environment and addNotificationEvent.                               *)

\* The invariant does not depend on health, silences and their count.
LEMMA ChangeKept ==
  ASSUME TypeOK, Change
  PROVE  changes' \in 0 .. MaxChanges
<1>1. changes \in 0 .. MaxChanges /\ MaxChanges \in Nat
  BY BoundsAssumption DEF TypeOK
<1> QED
  BY <1>1 DEF Change

\* A change of health or of a silence keeps the invariant.
LEMMA EnvironmentKeeps ==
  ASSUME SendInv, NEW r \in Resources, HealthChange(r) \/ SilenceChange(r)
  PROVE  SendInv'
<1>0. TypeOK
  BY DEF SendInv
<1>1. CASE HealthChange(r)
  <2>1. changes' \in 0 .. MaxChanges
    BY <1>0, <1>1, ChangeKept DEF HealthChange
  <2>2. health' \in [Resources -> Healths] /\ events' \in SUBSET Event
    BY <1>0, <1>1 DEF HealthChange, TypeOK
  <2>3. TypeOK' /\ UNCHANGED <<notif, rows, tasks, runEvents, crashes>>
    BY <1>0, <1>1, <2>1, <2>2 DEF HealthChange, TypeOK
  <2> QED
    BY <2>3, NothingTouched
<1>2. CASE SilenceChange(r)
  <2>1. changes' \in 0 .. MaxChanges
    BY <1>0, <1>2, ChangeKept DEF SilenceChange
  <2>2. TypeOK' /\ UNCHANGED <<notif, rows, tasks, runEvents, crashes>>
    BY <1>0, <1>2, <2>1 DEF SilenceChange, TypeOK
  <2> QED
    BY <2>2, NothingTouched
<1> QED
  BY <1>1, <1>2

\* The repeat interval passing keeps the invariant.
LEMMA AgeKeeps ==
  ASSUME SendInv, Age
  PROVE  SendInv'
<1>0. TypeOK
  BY DEF SendInv
<1>1. changes' \in 0 .. MaxChanges
  BY <1>0, ChangeKept DEF Age
<1>2. aged' \in 0 .. Len(rows)
  <2>1. PICK n \in Nat : n = Len(rows)
    BY <1>0, RowsType
  <2>2. aged \in 0 .. n /\ aged' \in aged + 1 .. n
    BY <1>0, <2>1 DEF Age, TypeOK
  <2> QED
    BY <2>1, <2>2
<1>3. TypeOK' /\ UNCHANGED <<notif, rows, tasks, runEvents, crashes>>
  BY <1>0, <1>1, <1>2 DEF Age, TypeOK
<1> QED
  BY <1>3, NothingTouched

\* A new row that no sender holds and no row is the parent of.
LEMMA RowSaved ==
  ASSUME SendInv, NEW r \in Resources, NEW e \in Events, NEW status \in Status,
         rows' = Append(rows, NewRow(r, e, status, 0)),
         UNCHANGED <<notif, health, silenced, sends, aged, tasks, runEvents, changes, failures,
                     crashes>>,
         events' \in SUBSET Event, adding' \in SUBSET Event
  PROVE  SendInv'
<1>1. PICK n \in Nat : n = Len(rows) /\ DOMAIN rows = 1 .. n
  BY RowsType DEF SendInv
<1>2. PICK row \in Row : /\ row = NewRow(r, e, status, 0) /\ row.retries = 0
                         /\ row.parent = 0 /\ row.delivered = 0
  BY NewRowType
<1>3. /\ rows' \in Seq(Row) /\ Len(rows') = n + 1 /\ DOMAIN rows' = 1 .. n \cup {n + 1}
      /\ \A j \in 1 .. n : rows'[j] = rows[j]
      /\ rows'[n + 1] = row
  BY <1>1, <1>2, RowsType, RowAdded DEF SendInv
<1>4. runEvents \in SUBSET (1 .. n)
  BY <1>1 DEF SendInv, TypeOK
<1>5. TypeOK'
  <2>1. aged \in 0 .. n
    BY <1>1 DEF SendInv, TypeOK
  <2>2. aged' \in 0 .. Len(rows')
    BY <1>3, <2>1
  <2> QED
    BY <1>1, <1>3, <1>4, <2>2 DEF SendInv, TypeOK
<1>6. \A v \in Senders : Busy(v) => tasks[v].row # 0 /\ tasks'[v] = tasks[v]
  BY <1>1, TasksType DEF SendInv, Busy
<1>7. PICK w : w \notin Senders
  BY NoSetContainsEverything
<1>8. PICK m \in {n, n + 1} : m = n + 1 /\ DOMAIN rows' = 1 .. m /\ m \notin runEvents
  BY <1>3, <1>4
<1>9. ~Busy(w) /\ ~Busy(w)'
  BY <1>7 DEF Busy
<1>10. Touched(0, w, n, m)
  BY <1>1, <1>2, <1>3, <1>5, <1>6, <1>8, <1>9 DEF Touched
<1> QED
  BY <1>8, <1>10, TouchedKeeps

\* What blocks a notification is a status.
LEMMA BlockerType ==
  ASSUME NEW r, NEW e
  PROVE  Blocker(r, e) \in Blocked \cup {""}
BY DEF Blocker, Blocked

\* Handling an event and saving what came of it keep the invariant.
LEMMA IntakeKeeps ==
  ASSUME SendInv, NEW e \in Event,
         AddNotificationEvent(e) \/ SavePending(e) \/ SaveSend(e)
  PROVE  SendInv'
<1>0. TypeOK /\ e.res \in Resources /\ e.event \in Events
  BY DEF SendInv, Event
<1>1. CASE AddNotificationEvent(e)
  <2> DEFINE status == Blocker(e.res, e.event)
  <2>1. events' \in SUBSET Event /\ adding' \in SUBSET Event
    BY <1>0, <1>1 DEF AddNotificationEvent, TypeOK
  <2>2. CASE UNCHANGED rows
    <3>1. TypeOK' /\ UNCHANGED <<notif, rows, tasks, runEvents, crashes>>
      BY <1>0, <1>1, <2>1, <2>2 DEF AddNotificationEvent, TypeOK
    <3> QED
      BY <3>1, NothingTouched
  <2>3. CASE status # "" /\ rows' = Append(rows, NewRow(e.res, e.event, status, 0))
    <3>1. status \in Status
      BY <2>3, BlockerType DEF Status
    <3>2. UNCHANGED <<notif, health, silenced, sends, aged, tasks, runEvents, changes, failures,
                      crashes>>
      BY <1>1 DEF AddNotificationEvent
    <3> HIDE DEF status
    <3> QED
      BY <1>0, <2>1, <2>3, <3>1, <3>2, RowSaved
  <2> QED
    BY <1>1, <2>2, <2>3 DEF AddNotificationEvent, SaveUnsent
<1>2. CASE SavePending(e)
  <2>1. "pending" \in Status /\ events' \in SUBSET Event /\ adding' \in SUBSET Event
    BY <1>0, <1>2 DEF SavePending, TypeOK, Status, Queued
  <2> QED
    BY <1>0, <1>2, <2>1, RowSaved DEF SavePending
<1>3. CASE SaveSend(e)
  <2>1. [res |-> e.res, event |-> e.event, attempts |-> 0] \in Send
    BY <1>0, BoundsAssumption DEF Send
  <2>2. sends' \in SUBSET Send /\ adding' \in SUBSET Event
    BY <1>0, <1>3, <2>1 DEF SaveSend, TypeOK
  <2>3. TypeOK' /\ UNCHANGED <<notif, rows, tasks, runEvents, crashes>>
    BY <1>0, <1>3, <2>2 DEF SaveSend, TypeOK
  <2> QED
    BY <2>3, NothingTouched
<1> QED
  BY <1>1, <1>2, <1>3

----------------------------------------------------------------------------
(* Taking a notification to send.                                          *)

\* Setting the task of one sender.
LEMMA TaskSet ==
  ASSUME TypeOK, NEW w \in Senders, NEW k, tasks' = [tasks EXCEPT ![w] = k]
  PROVE  tasks'[w] = k /\ \A v \in Senders : v # w => tasks'[v] = tasks[v]
BY DEF TypeOK

\* A new task has the type of a task.
LEMMA TaskType ==
  ASSUME NEW kind \in {"event"} \cup Jobs, NEW i \in Nat, NEW attempts \in Nat,
         NEW phase \in {"started", "failed"}
  PROVE  /\ At(kind, i, attempts, phase) \in Task
         /\ At(kind, i, attempts, phase).kind = kind
         /\ At(kind, i, attempts, phase).row = i
         /\ At(kind, i, attempts, phase).attempts = attempts
         /\ At(kind, i, attempts, phase).phase = phase
BY DEF At, Task, Jobs

\* A consumer that takes a notification.send event keeps the invariant: its row is new.
LEMMA TakeSendKeeps ==
  ASSUME SendInv, NEW w \in Senders, NEW s \in sends, TakeSend(w, s)
  PROVE  SendInv'
<1>0. /\ tasks[w] = Idle /\ s.attempts < MaxAttempts /\ s \in Send
      /\ UNCHANGED <<notif, health, silenced, events, adding, aged, runEvents, changes, crashes>>
  BY DEF TakeSend, SendInv, TypeOK
<1> SUFFICES ASSUME /\ sends' = sends \ {s}
                    /\ rows' = Append(rows, NewRow(s.res, s.event, "started", 0))
                    /\ Begin(w, "event", Len(rows) + 1, s.attempts)
                    /\ UNCHANGED failures
             PROVE  SendInv'
  <2>1. CASE /\ failures < MaxFailures /\ failures' = failures + 1
             /\ sends' = (sends \ {s}) \cup {[s EXCEPT !.attempts = @ + 1]}
             /\ UNCHANGED <<rows, tasks>>
    <3>1. failures' \in 0 .. MaxFailures
      BY <2>1, BoundsAssumption DEF SendInv, TypeOK
    <3>2. [s EXCEPT !.attempts = @ + 1] \in Send
      BY <1>0, BoundsAssumption DEF Send
    <3>3. sends' \in SUBSET Send
      BY <2>1, <3>2 DEF SendInv, TypeOK
    <3>4. TypeOK'
      BY <1>0, <2>1, <3>1, <3>3 DEF SendInv, TypeOK
    <3> QED
      BY <1>0, <2>1, <3>4, NothingTouched
  <2> QED
    BY <2>1 DEF TakeSend
<1>1. PICK n \in Nat : n = Len(rows) /\ DOMAIN rows = 1 .. n
  BY RowsType DEF SendInv
<1>2. s \in Send /\ s.res \in Resources /\ s.event \in Events /\ s.attempts \in 0 .. MaxAttempts
  BY DEF SendInv, TypeOK, Send
<1>3. PICK row \in Row : /\ row = NewRow(s.res, s.event, "started", 0) /\ row.retries = 0
                         /\ row.parent = 0 /\ row.delivered = 0 /\ row.status = "started"
  <2>1. "started" \in Status
    BY DEF Status
  <2> QED
    BY <1>2, <2>1, NewRowType
<1>4. PICK m \in {n, n + 1} : m = n + 1
  OBVIOUS
<1>5. /\ rows' \in Seq(Row) /\ Len(rows') = m /\ DOMAIN rows' = 1 .. m
      /\ \A j \in 1 .. n : rows'[j] = rows[j]
      /\ rows'[m] = row
  <2>1. rows' = Append(rows, row)
    BY <1>3
  <2>2. /\ rows' \in Seq(Row) /\ Len(rows') = n + 1 /\ DOMAIN rows' = 1 .. n \cup {n + 1}
        /\ \A j \in 1 .. n : rows'[j] = rows[j]
        /\ rows'[n + 1] = row
    BY <1>1, <2>1, RowsType, RowAdded DEF SendInv
  <2> QED
    BY <1>4, <2>2
<1>6. PICK k \in Task : /\ k = At("event", n + 1, s.attempts, "started")
                        /\ k.kind = "event" /\ k.row = m
                        /\ k.attempts = s.attempts /\ k.phase = "started"
  <2>1. s.attempts \in Nat /\ n + 1 \in Nat
    BY <1>2, BoundsAssumption
  <2> QED
    BY <1>4, <2>1, TaskType
<1>7. tasks[w] = Idle /\ tasks'[w] = k /\ \A v \in Senders : v # w => tasks'[v] = tasks[v]
  BY <1>1, <1>6, <1>0, TaskSet DEF Begin, SendInv
<1>8. /\ runEvents \in SUBSET (1 .. n) /\ m \notin runEvents
      /\ \A v \in Senders : Busy(v) => tasks[v].row \in 1 .. n
  BY <1>1, <1>4, TasksType DEF SendInv, TypeOK, Busy
<1>9. TypeOK'
  <2>1. aged' \in 0 .. Len(rows')
    <3>1. aged \in 0 .. n
      BY <1>1 DEF SendInv, TypeOK
    <3> QED
      BY <1>0, <1>4, <1>5, <3>1
  <2>2. tasks' \in [Senders -> Task \cup {Idle}] /\ sends' \in SUBSET Send
    BY <1>6, <1>7 DEF SendInv, TypeOK, Begin
  <2>3. \A v \in Senders : tasks'[v] # Idle => tasks'[v].row \in DOMAIN rows'
    BY <1>4, <1>5, <1>6, <1>7, <1>8 DEF Busy
  <2>4. runEvents' \in SUBSET DOMAIN rows'
    BY <1>0, <1>4, <1>5, <1>8
  <2> QED
    BY <1>0, <1>5, <2>1, <2>2, <2>3, <2>4 DEF SendInv, TypeOK
<1>10. ~Busy(w) /\ Holding(w)'
  <2>1. s.attempts < MaxAttempts
    BY <1>0
  <2>2. tasks'[w].row = m /\ m \notin runEvents' /\ rows'[m] = row
    BY <1>0, <1>5, <1>6, <1>7, <1>8
  <2>3. EventTask(tasks[w], rows[m], m \in runEvents)'
    BY <1>3, <1>6, <1>7, <2>1, <2>2 DEF EventTask, Queued
  <2> QED
    BY <1>7, <2>2, <2>3 DEF Busy, Holding
<1>11. UNCHANGED <<notif, runEvents, crashes>>
  BY <1>0
<1>12. \A v \in Senders : v # w => tasks'[v] = tasks[v] /\ (Busy(v) => tasks[v].row # 0)
  BY <1>7, <1>8
<1>13. Touched(0, w, n, m)
  BY <1>1, <1>3, <1>4, <1>5, <1>6, <1>7, <1>8, <1>9, <1>10, <1>11, <1>12 DEF Touched
<1> QED
  BY <1>4, <1>13, TouchedKeeps

\* A row that a job can take is in nobody's hands.
LEMMA FreeRow ==
  ASSUME SendInv, NEW i \in DOMAIN rows, Queues(i), ~Locked(i)
  PROVE  /\ \A v \in Senders : Busy(v) => tasks[v].row # i
         /\ i \notin runEvents /\ Refusable(i)
         /\ rows[i].delivered <= crashes
<1>1. ASSUME NEW v \in Senders, Busy(v), tasks[v].row = i
      PROVE  FALSE
  <2>1. Holding(v) /\ tasks[v].kind \notin Jobs
    BY <1>1 DEF SendInv, Held, Locked, Jobs
  <2>2. rows[i].status \notin Queued
    BY <1>1, <2>1 DEF Holding, EventTask, JobTask
  <2> QED
    BY <2>2 DEF Queues
<1>2. i \notin runEvents
  BY DEF SendInv, Triggered, Waits, Queues, Queued
<1>3. rows[i].delivered <= crashes
  BY <1>1 DEF SendInv, Accounted, Account, Delivering
<1> QED
  BY <1>1, <1>2, <1>3 DEF Refusable, Queues

\* A job takes a row.
LEMMA JobTakes ==
  ASSUME SendInv, NEW w \in Senders, NEW i \in DOMAIN rows, Queues(i), Retriable(i), ~Locked(i),
         tasks[w] = Idle, NEW kind \in Jobs, NEW phase \in {"started", "failed"},
         tasks' = [tasks EXCEPT ![w] = At(kind, i, 0, phase)],
         failures' \in 0 .. MaxFailures,
         UNCHANGED <<notif, health, silenced, events, adding, sends, rows, aged, runEvents,
                     changes, crashes>>
  PROVE  SendInv'
<1>1. PICK n \in Nat : n = Len(rows) /\ DOMAIN rows = 1 .. n
  BY RowsType DEF SendInv
<1>2. PICK k \in Task : /\ k = At(kind, i, 0, phase) /\ k.kind = kind /\ k.row = i
                        /\ k.phase = phase
  <2>1. i \in Nat /\ 0 \in Nat /\ kind \in {"event"} \cup Jobs
    BY <1>1
  <2> QED
    BY <2>1, TaskType
<1>3. tasks'[w] = k /\ \A v \in Senders : v # w => tasks'[v] = tasks[v]
  BY <1>2, TaskSet DEF SendInv
<1>4. TypeOK'
  <2>1. tasks' \in [Senders -> Task \cup {Idle}]
    BY <1>2 DEF SendInv, TypeOK
  <2>2. \A v \in Senders : tasks'[v] # Idle => tasks'[v].row \in DOMAIN rows
    BY <1>2, <1>3 DEF SendInv, TypeOK
  <2> QED
    BY <2>1, <2>2 DEF SendInv, TypeOK
<1>5. /\ \A v \in Senders : Busy(v) => tasks[v].row # i
      /\ i \notin runEvents /\ Refusable(i) /\ rows[i].delivered <= crashes
  BY FreeRow
<1>6. ~Busy(w) /\ Holding(w)'
  <2>1. tasks'[w].row = i
    BY <1>2, <1>3
  <2>2. JobTask(tasks[w], rows[i], crashes)'
    BY <1>2, <1>3, <1>5 DEF JobTask, Queues, Retriable
  <2> QED
    BY <2>1, <2>2 DEF Busy, Holding
<1>7. Account(i)' /\ rows[i].delivered <= 1 + crashes /\ rows[i].retries \in Nat
  BY <1>5, RowsType, BoundsAssumption DEF Account, SendInv, OncePerRow
<1>8. i \in Nat /\ Refusable(i)' /\ DOMAIN rows' = 1 .. n
  BY <1>1, <1>5 DEF Refusable
<1>9. Touched(i, w, n, n)
  BY <1>1, <1>2, <1>3, <1>4, <1>5, <1>6, <1>7, <1>8 DEF Touched
<1> QED
  BY <1>8, <1>9, TouchedKeeps

\* What a step of a sender, or of the playbook engine, has to keep typed.
LEMMA TypeStep ==
  ASSUME TypeOK, NEW n \in Nat, n = Len(rows), NEW m \in {n, n + 1},
         rows' \in Seq(Row), Len(rows') = m, DOMAIN rows' = 1 .. m,
         UNCHANGED <<notif, health, silenced, events, adding, aged, changes>>,
         sends' \in SUBSET Send, runEvents' \in SUBSET (1 .. m),
         tasks' \in [Senders -> Task \cup {Idle}],
         \A v \in Senders : tasks'[v] # Idle => tasks'[v].row \in 1 .. m,
         failures' \in 0 .. MaxFailures, crashes' \in 0 .. MaxCrashes
  PROVE  TypeOK'
<1>1. aged' \in 0 .. Len(rows')
  <2>1. aged \in 0 .. n
    BY DEF TypeOK
  <2> QED
    BY <2>1
<1> QED
  BY <1>1 DEF TypeOK

\* A new status of one row.
LEMMA StatusSet ==
  ASSUME TypeOK, NEW i \in DOMAIN rows, NEW v \in Status
  PROVE  LET R == [rows EXCEPT ![i].status = v] IN
         /\ R \in Seq(Row) /\ Len(R) = Len(rows) /\ DOMAIN R = DOMAIN rows
         /\ \A j \in DOMAIN rows : j # i => R[j] = rows[j]
         /\ R[i].status = v /\ R[i].retries = rows[i].retries
         /\ R[i].parent = rows[i].parent /\ R[i].delivered = rows[i].delivered
<1> DEFINE R == [rows EXCEPT ![i].status = v]
<1> DEFINE row == [rows[i] EXCEPT !.status = v]
<1>1. rows[i] \in Row
  BY RowsType
<1>2. /\ row \in Row /\ row.status = v /\ row.retries = rows[i].retries
      /\ row.parent = rows[i].parent /\ row.delivered = rows[i].delivered
  BY <1>1, RowFields
<1>3. R = [rows EXCEPT ![i] = row]
  OBVIOUS
<1> HIDE DEF row, R
<1>4. /\ R \in Seq(Row) /\ Len(R) = Len(rows) /\ DOMAIN R = DOMAIN rows
      /\ \A j \in DOMAIN rows : R[j] = IF j = i THEN row ELSE rows[j]
  BY <1>2, <1>3, RowWritten
<1> QED
  BY <1>2, <1>4 DEF R

\* A job postpones, skips or blocks a row without sending it.
LEMMA RowMarked ==
  ASSUME SendInv, NEW i \in DOMAIN rows, Queues(i), ~Locked(i), NEW v \in Status,
         v # "started", rows' = [rows EXCEPT ![i].status = v],
         UNCHANGED <<notif, health, silenced, events, adding, sends, tasks, aged, runEvents,
                     changes, failures, crashes>>
  PROVE  SendInv'
<1>1. PICK n \in Nat : n = Len(rows) /\ DOMAIN rows = 1 .. n
  BY RowsType DEF SendInv
<1>2. /\ rows' \in Seq(Row) /\ Len(rows') = n /\ DOMAIN rows' = 1 .. n
      /\ \A j \in 1 .. n : j # i => rows'[j] = rows[j]
      /\ rows'[i].status = v /\ rows'[i].retries = rows[i].retries
      /\ rows'[i].parent = rows[i].parent /\ rows'[i].delivered = rows[i].delivered
  <2>1. TypeOK
    BY DEF SendInv
  <2> QED
    BY <1>1, <2>1, StatusSet
<1>3. TypeOK'
  BY <1>1, <1>2 DEF SendInv, TypeOK
<1>4. /\ \A u \in Senders : Busy(u) => tasks[u].row # i
      /\ i \notin runEvents /\ Refusable(i) /\ rows[i].delivered <= crashes
  BY FreeRow
<1>5. PICK w : w \notin Senders
  BY NoSetContainsEverything
<1>6. ~Busy(w) /\ ~Busy(w)'
  BY <1>5 DEF Busy
<1>7. /\ Account(i)' /\ rows'[i].delivered <= 1 + crashes /\ rows[i].retries \in Nat
      /\ i \in Nat /\ crashes \in Nat
  BY <1>1, <1>2, <1>4, RowsType, BoundsAssumption DEF Account, SendInv, OncePerRow, TypeOK
<1>8. Touched(i, w, n, n)
  BY <1>1, <1>2, <1>3, <1>4, <1>6, <1>7 DEF Touched
<1> QED
  BY <1>7, <1>8, TouchedKeeps

\* A job that takes a pending row, or settles it at once, keeps the invariant.
LEMMA TakePendingKeeps ==
  ASSUME SendInv, NEW w \in Senders, NEW i \in DOMAIN rows, TakePending(w, i)
  PROVE  SendInv'
<1> DEFINE r == rows[i].res
           blocker == Blocker(r, rows[i].event)
           mark(status) == rows' = [rows EXCEPT ![i].status = status] /\ UNCHANGED <<tasks, failures>>
<1>1. /\ tasks[w] = Idle /\ Retriable(i) /\ ~Locked(i) /\ Queues(i)
      /\ UNCHANGED <<notif, health, silenced, events, adding, sends, aged, runEvents, changes, crashes>>
  BY DEF TakePending, Taken, Queues, Queued
<1>2. ASSUME NEW v \in {"evaluating-waitfor", "skipped"} \cup Blocked, mark(v)
      PROVE  SendInv'
  <2>1. v \in Status /\ v # "started"
    BY DEF Status, Queued, Blocked
  <2> QED
    BY <1>1, <1>2, <2>1, RowMarked
<1>3. CASE Begin(w, "pending", i, 0) /\ UNCHANGED <<rows, failures>>
  <2>1. "pending" \in Jobs /\ failures' \in 0 .. MaxFailures
    BY <1>3 DEF Jobs, SendInv, TypeOK
  <2> QED
    BY <1>1, <1>3, <2>1, JobTakes DEF Begin
<1>4. CASE /\ failures < MaxFailures /\ failures' = failures + 1
           /\ tasks' = [tasks EXCEPT ![w] = At("pending", i, 0, "failed")]
           /\ UNCHANGED rows
  <2>1. "pending" \in Jobs /\ failures' \in 0 .. MaxFailures
    <3>1. failures \in 0 .. MaxFailures
      BY DEF SendInv, TypeOK
    <3> QED
      BY <1>4, <3>1, BoundsAssumption DEF Jobs
  <2> QED
    BY <1>1, <1>4, <2>1, JobTakes
<1>5. blocker # "" => blocker \in Blocked
  BY BlockerType
<1> QED
  BY <1>2, <1>3, <1>4, <1>5 DEF TakePending

\* A job that takes a fallback attempt keeps the invariant.
LEMMA TakeFallbackKeeps ==
  ASSUME SendInv, NEW w \in Senders, NEW i \in DOMAIN rows, TakeFallback(w, i)
  PROVE  SendInv'
<1>1. /\ tasks[w] = Idle /\ Retriable(i) /\ ~Locked(i) /\ Queues(i)
      /\ "fallback" \in Jobs /\ failures' \in 0 .. MaxFailures
  BY DEF TakeFallback, Taken, Queues, Queued, Jobs, SendInv, TypeOK
<1> QED
  BY <1>1, JobTakes DEF TakeFallback, Begin

----------------------------------------------------------------------------
(* Sending.                                                                *)

\* What a sender at work holds.
LEMMA HeldRow ==
  ASSUME SendInv, NEW w \in Senders, tasks[w] # Idle
  PROVE  /\ Busy(w) /\ Holding(w) /\ tasks[w] \in Task /\ tasks[w].row \in DOMAIN rows
         /\ \A v \in Senders : v # w /\ Busy(v) => tasks[v].row # tasks[w].row
         /\ tasks[w].kind \in {"event"} \cup Jobs
         /\ tasks[w].kind = "event" =>
              EventTask(tasks[w], rows[tasks[w].row], tasks[w].row \in runEvents)
         /\ tasks[w].kind \in Jobs => JobTask(tasks[w], rows[tasks[w].row], crashes)
<1>1. Busy(w) /\ Holding(w)
  BY DEF Busy, SendInv, Held
<1>2. tasks[w] \in Task /\ tasks[w].row \in DOMAIN rows
  BY TasksType DEF SendInv
<1>3. \A v \in Senders : v # w /\ Busy(v) => tasks[v].row # tasks[w].row
  BY <1>1 DEF SendInv, Apart
<1>4. /\ tasks[w].kind \in {"event"} \cup Jobs
      /\ tasks[w].kind = "event" =>
           EventTask(tasks[w], rows[tasks[w].row], tasks[w].row \in runEvents)
      /\ tasks[w].kind \in Jobs => JobTask(tasks[w], rows[tasks[w].row], crashes)
  BY <1>1 DEF Holding, EventTask, JobTask, Jobs
<1> QED
  BY <1>1, <1>2, <1>3, <1>4

\* Setting the phase of one sender's task.
LEMMA PhaseSet ==
  ASSUME TypeOK, NEW w \in Senders, tasks[w] \in Task,
         NEW phase \in {"delivered", "triggered", "stale", "failed", "logged", "refused"},
         GoTo(w, phase)
  PROVE  /\ tasks' \in [Senders -> Task \cup {Idle}]
         /\ \A v \in Senders : v # w => tasks'[v] = tasks[v]
         /\ tasks'[w] \in Task /\ tasks'[w] # Idle
         /\ tasks'[w].kind = tasks[w].kind /\ tasks'[w].row = tasks[w].row
         /\ tasks'[w].attempts = tasks[w].attempts /\ tasks'[w].phase = phase
<1> DEFINE k == [tasks[w] EXCEPT !.phase = phase]
<1>1. /\ k \in Task /\ k.kind = tasks[w].kind /\ k.row = tasks[w].row
      /\ k.attempts = tasks[w].attempts /\ k.phase = phase
  BY DEF Task
<1>2. tasks' = [tasks EXCEPT ![w] = k] /\ tasks'[w] = k
  BY DEF GoTo, TypeOK
<1> HIDE DEF k
<1>3. k # Idle
  <2>1. k.kind # "idle" /\ Idle.kind = "idle"
    BY <1>1 DEF Idle, Task
  <2> QED
    BY <2>1
<1> QED
  BY <1>1, <1>2, <1>3 DEF TypeOK

\* The sender of a row goes on with its task: what OneTouched asks besides.
LEMMA SenderStep ==
  ASSUME SendInv, NEW w \in Senders, tasks[w] # Idle, NEW i, i = tasks[w].row,
         UNCHANGED <<notif, health, silenced, events, adding, sends, aged, changes>>,
         NEW n \in Nat, n = Len(rows), DOMAIN rows = 1 .. n,
         rows' \in Seq(Row), Len(rows') = n, DOMAIN rows' = 1 .. n,
         \A j \in 1 .. n : j # i => rows'[j] = rows[j],
         runEvents' \in {runEvents, runEvents \cup {i}},
         failures' \in 0 .. MaxFailures,
         crashes' \in {crashes, crashes + 1}, crashes' \in 0 .. MaxCrashes,
         NEW phase \in {"delivered", "triggered", "stale", "failed", "logged", "refused"},
         GoTo(w, phase), Holding(w)',
         rows'[i].parent = rows[i].parent, rows'[i].retries = rows[i].retries,
         i \in runEvents' => Waits(i)',
         rows'[i].delivered <= 1 + crashes', Account(i)',
         Refusable(i) \/ ~Refusable(i)'
  PROVE  SendInv'
<1>1. TypeOK /\ Busy(w) /\ tasks[w] \in Task /\ i \in 1 .. n /\ i \in Nat
  BY HeldRow DEF SendInv
<1>2. \A v \in Senders : v # w /\ Busy(v) => tasks[v].row # i
  BY HeldRow
<1>3. /\ tasks' \in [Senders -> Task \cup {Idle}]
      /\ \A v \in Senders : v # w => tasks'[v] = tasks[v]
      /\ tasks'[w].row = i
  BY <1>1, PhaseSet
<1>4. TypeOK'
  <2>1. /\ runEvents' \in SUBSET (1 .. n)
        /\ sends' \in SUBSET Send /\ n \in {n, n + 1}
    BY <1>1 DEF TypeOK
  <2>2. \A v \in Senders : tasks'[v] # Idle => tasks'[v].row \in 1 .. n
    BY <1>1, <1>3 DEF TypeOK
  <2> QED
    BY <1>1, <1>3, <2>1, <2>2, TypeStep
<1>5. rows[i].retries \in Nat /\ rows'[i].retries >= rows[i].retries
  BY <1>1, RowsType, BoundsAssumption
<1>6. /\ \A j \in 1 .. n : j # i => (j \in runEvents' <=> j \in runEvents)
      /\ \A v \in Senders : v # w => tasks'[v] = tasks[v] /\ (Busy(v) => tasks[v].row # i)
      /\ n \in {n, n + 1} /\ crashes' \in {crashes, crashes + 1}
  BY <1>2, <1>3
<1>7. Touched(i, w, n, n)
  BY <1>1, <1>3, <1>4, <1>5, <1>6 DEF Touched
<1> QED
  BY <1>1, <1>3, <1>7, TouchedKeeps

\* Sending keeps the invariant: what is sent counts on the row of the sender.
LEMMA DeliverKeeps ==
  ASSUME SendInv, NEW w \in Senders, Deliver(w)
  PROVE  SendInv'
<1>1. PICK n \in Nat : n = Len(rows) /\ DOMAIN rows = 1 .. n
  BY RowsType DEF SendInv
<1> PICK i : i = tasks[w].row
  OBVIOUS
<1>2. /\ tasks[w] # Idle /\ tasks[w].phase = "started"
      /\ UNCHANGED <<notif, health, silenced, events, adding, sends, aged, changes, crashes>>
      /\ TypeOK /\ crashes' \in {crashes, crashes + 1} /\ crashes' \in 0 .. MaxCrashes
  BY DEF Deliver, Phase, SendInv, TypeOK
<1>3. /\ Busy(w) /\ tasks[w] \in Task /\ i \in 1 .. n
      /\ tasks[w].kind \in {"event"} \cup Jobs
      /\ tasks[w].kind = "event" => EventTask(tasks[w], rows[i], i \in runEvents)
      /\ tasks[w].kind \in Jobs => JobTask(tasks[w], rows[i], crashes)
      /\ "event" \notin Jobs
  BY <1>1, <1>2, HeldRow DEF Jobs
<1>4. /\ rows[i] \in Row /\ rows[i].delivered \in Nat /\ rows[i].delivered <= crashes
      /\ crashes \in Nat /\ failures \in 0 .. MaxFailures
      /\ i \notin runEvents /\ Refusable(i)
  <2>1. rows[i] \in Row /\ rows[i].delivered \in Nat /\ crashes \in Nat
    BY <1>1, <1>2, <1>3, RowsType, BoundsAssumption DEF TypeOK
  <2>2. failures \in 0 .. MaxFailures
    BY <1>2 DEF TypeOK
  <2>3. CASE tasks[w].kind = "event"
    BY <1>2, <1>3, <2>1, <2>2, <2>3 DEF EventTask, Refusable
  <2>4. CASE tasks[w].kind \in Jobs
    <3>1. rows[i].delivered <= crashes /\ Queues(i)
      BY <1>2, <1>3, <2>4 DEF JobTask, Queues
    <3> QED
      BY <2>1, <2>2, <3>1 DEF Refusable, Queues, SendInv, Triggered, Waits, Queued
  <2> QED
    BY <1>3, <2>3, <2>4
<1>5. ASSUME NEW phase \in {"delivered", "triggered", "stale", "failed"}, GoTo(w, phase)
      PROVE  /\ tasks'[w].kind = tasks[w].kind /\ tasks'[w].row = i
             /\ tasks'[w].attempts = tasks[w].attempts /\ tasks'[w].phase = phase
             /\ Busy(w)'
  BY <1>2, <1>3, <1>5, PhaseSet DEF Busy
<1>6. CASE /\ UNCHANGED <<rows, runEvents>> /\ failures' \in 0 .. MaxFailures
           /\ GoTo(w, "stale") \/ GoTo(w, "failed")
  <2>1. PICK phase \in {"stale", "failed"} : GoTo(w, phase)
    BY <1>6
  <2>2. EventTask(tasks[w], rows[i], i \in runEvents)' \/ JobTask(tasks[w], rows[i], crashes)'
    <3>1. CASE tasks[w].kind = "event"
      BY <1>2, <1>3, <1>5, <1>6, <2>1, <3>1 DEF EventTask
    <3>2. CASE tasks[w].kind \in Jobs
      BY <1>2, <1>3, <1>4, <1>5, <1>6, <2>1, <3>2 DEF JobTask
    <3> QED
      BY <1>3, <3>1, <3>2
  <2>3. Holding(w)'
    BY <1>5, <2>1, <2>2 DEF Holding
  <2>4. Account(i)' /\ rows'[i].delivered <= 1 + crashes'
    BY <1>2, <1>4, <1>6 DEF Account
  <2>5. rows' \in Seq(Row) /\ Len(rows') = n /\ DOMAIN rows' = 1 .. n
    BY <1>1, <1>2, <1>6, RowsType
  <2> QED
    BY <1>1, <1>2, <1>4, <1>6, <2>1, <2>3, <2>4, <2>5, SenderStep
<1>7. CASE /\ GoTo(w, "delivered") /\ UNCHANGED <<runEvents, failures>>
           /\ rows' = [rows EXCEPT ![i].delivered = @ + 1]
  <2> DEFINE row == [rows[i] EXCEPT !.delivered = @ + 1]
  <2>1. /\ row \in Row /\ row.status = rows[i].status /\ row.retries = rows[i].retries
        /\ row.parent = rows[i].parent /\ row.delivered = rows[i].delivered + 1
    BY <1>4, RowFields
  <2>2. rows' = [rows EXCEPT ![i] = row]
    BY <1>7
  <2> HIDE DEF row
  <2>3. /\ rows' \in Seq(Row) /\ Len(rows') = n /\ DOMAIN rows' = 1 .. n
        /\ \A j \in 1 .. n : j # i => rows'[j] = rows[j]
        /\ rows'[i] = row
    BY <1>1, <1>2, <1>3, <2>1, <2>2, RowWritten
  <2>4. EventTask(tasks[w], rows[i], i \in runEvents)' \/ JobTask(tasks[w], rows[i], crashes)'
    <3>1. CASE tasks[w].kind = "event"
      BY <1>2, <1>3, <1>4, <1>5, <1>7, <2>1, <2>3, <3>1 DEF EventTask
    <3>2. CASE tasks[w].kind \in Jobs
      BY <1>2, <1>3, <1>4, <1>5, <1>7, <2>1, <2>3, <3>2 DEF JobTask
    <3> QED
      BY <1>3, <3>1, <3>2
  <2>5. Holding(w)'
    BY <1>5, <1>7, <2>4 DEF Holding
  <2>6. Account(i)'
    <3>1. CASE tasks[w].kind = "event"
      BY <1>3, <2>1, <2>3, <3>1 DEF EventTask, Account, Queues
    <3>2. CASE tasks[w].kind \in Jobs
      <4>1. Delivering(i)'
        BY <1>5, <1>7, <3>2 DEF Delivering
      <4> QED
        BY <4>1 DEF Account
    <3> QED
      BY <1>3, <3>1, <3>2
  <2>7. rows'[i].delivered <= 1 + crashes'
    BY <1>2, <1>4, <2>1, <2>3
  <2> QED
    BY <1>1, <1>2, <1>4, <1>7, <2>1, <2>3, <2>5, <2>6, <2>7, SenderStep
<1>8. CASE /\ GoTo(w, "triggered") /\ UNCHANGED <<rows, failures>> /\ Recipient(w) = "playbook"
           /\ runEvents' = IF tasks[w].kind = "event" THEN runEvents \cup {i} ELSE runEvents
  <2>1. WithPlaybook /\ WithPlaybook'
    BY <1>2, <1>8 DEF WithPlaybook, Recipient
  <2>2. EventTask(tasks[w], rows[i], i \in runEvents)' \/ JobTask(tasks[w], rows[i], crashes)'
    <3>1. CASE tasks[w].kind = "event"
      BY <1>2, <1>3, <1>5, <1>8, <2>1, <3>1 DEF EventTask
    <3>2. CASE tasks[w].kind \in Jobs
      BY <1>2, <1>3, <1>4, <1>5, <1>8, <2>1, <3>2 DEF JobTask
    <3> QED
      BY <1>3, <3>1, <3>2
  <2>3. Holding(w)'
    BY <1>5, <1>8, <2>2 DEF Holding
  <2>4. Account(i)' /\ rows'[i].delivered <= 1 + crashes'
    BY <1>2, <1>4, <1>8 DEF Account
  <2>5. rows' \in Seq(Row) /\ Len(rows') = n /\ DOMAIN rows' = 1 .. n
    BY <1>1, <1>2, <1>8, RowsType
  <2>6. i \in runEvents' => Waits(i)'
    BY <1>2, <1>3, <1>4, <1>8, <2>1 DEF Waits, EventTask
  <2> QED
    BY <1>1, <1>2, <1>4, <1>8, <2>3, <2>4, <2>5, <2>6, SenderStep
<1>9. failures < MaxFailures /\ failures' = failures + 1 => failures' \in 0 .. MaxFailures
  BY <1>4, BoundsAssumption
<1> QED
  BY <1>4, <1>6, <1>7, <1>8, <1>9 DEF Deliver

\* Saving the outcome of a sending keeps the invariant.
LEMMA EndLogKeeps ==
  ASSUME SendInv, NEW w \in Senders, EndLog(w)
  PROVE  SendInv'
<1> PICK i : i = tasks[w].row
  OBVIOUS
<1> PICK v : v = Outcome[tasks[w].phase]
  OBVIOUS
<1> PICK phase : phase = IF tasks[w].phase = "failed" THEN "refused" ELSE "logged"
  OBVIOUS
<1>1. PICK n \in Nat : n = Len(rows) /\ DOMAIN rows = 1 .. n
  BY RowsType DEF SendInv
<1>2. /\ tasks[w] # Idle /\ tasks[w].kind = "event" /\ tasks[w].phase \in DOMAIN Outcome
      /\ GoTo(w, phase)
      /\ UNCHANGED <<notif, health, silenced, events, adding, sends, aged, runEvents, changes,
                     failures>>
      /\ crashes' \in {crashes, crashes + 1} /\ crashes' \in 0 .. MaxCrashes /\ crashes \in Nat
      /\ rows' \in {rows, [rows EXCEPT ![i].status = v]}
      /\ TypeOK
  BY BoundsAssumption DEF EndLog, Phase, SendInv, TypeOK
<1>3. /\ Busy(w) /\ tasks[w] \in Task /\ i \in 1 .. n
      /\ EventTask(tasks[w], rows[i], i \in runEvents)
  BY <1>1, <1>2, HeldRow
<1>4. /\ v \in {"sent", "pending_playbook_run", "skipped", "error"}
      /\ tasks[w].phase # "triggered" => i \notin runEvents
      /\ tasks[w].phase = "triggered" => v = "pending_playbook_run" /\ WithPlaybook
  BY <1>2, <1>3 DEF Outcome, EventTask
<1>5. phase \in {"logged", "refused"}
  OBVIOUS
<1>6. /\ rows' \in Seq(Row) /\ Len(rows') = n /\ DOMAIN rows' = 1 .. n
      /\ \A j \in 1 .. n : j # i => rows'[j] = rows[j]
      /\ rows'[i].status \in {v, rows[i].status} /\ rows'[i].retries = rows[i].retries
      /\ rows'[i].parent = rows[i].parent /\ rows'[i].delivered = rows[i].delivered
  <2>1. v \in Status
    BY <1>4 DEF Status
  <2>2. CASE rows' = [rows EXCEPT ![i].status = v]
    BY <1>1, <1>2, <1>3, <2>1, <2>2, StatusSet
  <2>3. CASE rows' = rows
    BY <1>1, <1>2, <2>3, RowsType
  <2> QED
    BY <1>2, <2>2, <2>3
<1>7. /\ tasks'[w].kind = tasks[w].kind /\ tasks'[w].row = i
      /\ tasks'[w].attempts = tasks[w].attempts /\ tasks'[w].phase = phase
  BY <1>2, <1>3, <1>5, PhaseSet
<1>8. ~Queues(i)' /\ Account(i)'
  BY <1>3, <1>4, <1>6 DEF Queues, Account, Queued, EventTask
<1>9. Holding(w)'
  <2>1. EventTask(tasks[w], rows[i], i \in runEvents)'
    BY <1>2, <1>3, <1>4, <1>5, <1>6, <1>7 DEF EventTask, Queued
  <2> QED
    BY <1>7, <2>1 DEF Holding
<1>10. i \in runEvents' => Waits(i)'
  <2>1. i \in runEvents => Waits(i)
    BY DEF SendInv, Triggered
  <2> QED
    BY <1>2, <1>4, <1>6, <2>1 DEF Waits, WithPlaybook
<1>11. Refusable(i) \/ ~Refusable(i)'
  BY <1>2, <1>4, <1>6 DEF Refusable, Queued
<1>12. rows'[i].delivered <= 1 + crashes' /\ failures' \in 0 .. MaxFailures
  <2>1. rows[i].delivered \in Nat /\ rows[i].delivered <= 1 + crashes
    BY <1>1, <1>2, <1>3, RowsType DEF SendInv, OncePerRow
  <2> QED
    BY <1>2, <1>6, <2>1 DEF TypeOK
<1> QED
  BY <1>1, <1>2, <1>5, <1>6, <1>8, <1>9, <1>10, <1>11, <1>12, SenderStep

\* A sender lets go of its task.
LEMMA TaskLeft ==
  ASSUME TypeOK, NEW w \in Senders, tasks' = [tasks EXCEPT ![w] = Idle]
  PROVE  /\ tasks' \in [Senders -> Task \cup {Idle}]
         /\ \A v \in Senders : v # w => tasks'[v] = tasks[v]
         /\ ~Busy(w)'
         /\ \A v \in Senders : tasks'[v] # Idle => tasks'[v] = tasks[v] /\ tasks[v] # Idle
BY DEF TypeOK, Busy

\* A consumer that commits keeps the invariant.
LEMMA AckKeeps ==
  ASSUME SendInv, NEW w \in Senders, Ack(w)
  PROVE  SendInv'
<1>1. PICK n \in Nat : n = Len(rows) /\ DOMAIN rows = 1 .. n
  BY RowsType DEF SendInv
<1> PICK i : i = tasks[w].row
  OBVIOUS
<1>2. /\ tasks[w] # Idle /\ tasks[w].phase \in {"logged", "refused"}
      /\ tasks' = [tasks EXCEPT ![w] = Idle]
      /\ UNCHANGED <<notif, health, silenced, events, adding, rows, aged, runEvents, changes,
                     failures, crashes>>
      /\ TypeOK
  BY DEF Ack, Phase, SendInv
<1>3. /\ Busy(w) /\ tasks[w] \in Task /\ i \in 1 .. n
      /\ EventTask(tasks[w], rows[i], i \in runEvents)
      /\ \A v \in Senders : v # w /\ Busy(v) => tasks[v].row # i
  BY <1>1, <1>2, HeldRow DEF JobTask
<1>4. sends' \in SUBSET Send
  <2>1. tasks[w].attempts + 1 \in 0 .. MaxAttempts
    BY <1>3, BoundsAssumption DEF EventTask, Task
  <2>2. SendOf(w, tasks[w].attempts + 1) \in Send
    BY <1>1, <1>2, <1>3, <2>1, RowsType DEF SendOf, Send
  <2> QED
    BY <1>2, <2>2 DEF Ack, TypeOK
<1>5. /\ \A v \in Senders : v # w => tasks'[v] = tasks[v] /\ (Busy(v) => tasks[v].row # i)
      /\ ~Busy(w)'
  BY <1>2, <1>3, TaskLeft
<1>6. TypeOK'
  BY <1>2, <1>4, TaskLeft DEF TypeOK
<1>7. Account(i)' /\ rows[i].delivered <= 1 + crashes /\ rows[i].retries \in Nat
  BY <1>1, <1>2, <1>3, RowsType, BoundsAssumption
     DEF EventTask, Account, Queues, SendInv, OncePerRow
<1>8. /\ i \in runEvents => Waits(i)'
      /\ WithPlaybook /\ ~Refusable(i) => ~Refusable(i)'
  BY <1>2 DEF SendInv, Triggered, Waits, WithPlaybook, Refusable
<1>9. /\ n \in {n, n + 1} /\ i \in Nat /\ DOMAIN rows' = 1 .. n
      /\ crashes' \in {crashes, crashes + 1}
  BY <1>1, <1>2, <1>3
<1>10. Touched(i, w, n, n)
  BY <1>1, <1>2, <1>3, <1>5, <1>6, <1>7, <1>8, <1>9 DEF Touched
<1> QED
  BY <1>9, <1>10, TouchedKeeps

\* A transaction that rolls back keeps the invariant: what it sent is accounted to it.
LEMMA CrashKeeps ==
  ASSUME SendInv, NEW w \in Senders, Crash(w)
  PROVE  SendInv'
<1>1. PICK n \in Nat : n = Len(rows) /\ DOMAIN rows = 1 .. n
  BY RowsType DEF SendInv
<1> PICK i : i = tasks[w].row
  OBVIOUS
<1>2. /\ tasks[w] # Idle /\ crashes < MaxCrashes /\ crashes' = crashes + 1
      /\ tasks' = [tasks EXCEPT ![w] = Idle]
      /\ UNCHANGED <<notif, health, silenced, events, adding, rows, aged, runEvents, changes,
                     failures>>
      /\ TypeOK
  BY DEF Crash, SendInv
<1>3. /\ Busy(w) /\ tasks[w] \in Task /\ i \in 1 .. n
      /\ tasks[w].kind = "event" => EventTask(tasks[w], rows[i], i \in runEvents)
      /\ \A v \in Senders : v # w /\ Busy(v) => tasks[v].row # i
  BY <1>1, <1>2, HeldRow
<1>4. sends' \in SUBSET Send
  <2>1. CASE tasks[w].kind = "event"
    <3>1. tasks[w].attempts \in 0 .. MaxAttempts
      BY <1>3, <2>1, BoundsAssumption DEF EventTask, Task
    <3>2. SendOf(w, tasks[w].attempts) \in Send
      BY <1>1, <1>2, <1>3, <3>1, RowsType DEF SendOf, Send
    <3> QED
      BY <1>2, <3>2 DEF Crash, TypeOK
  <2>2. CASE tasks[w].kind # "event"
    BY <1>2, <2>2 DEF Crash, TypeOK
  <2> QED
    BY <2>1, <2>2
<1>5. /\ \A v \in Senders : v # w => tasks'[v] = tasks[v] /\ (Busy(v) => tasks[v].row # i)
      /\ ~Busy(w)'
  BY <1>2, <1>3, TaskLeft
<1>6. TypeOK' /\ crashes \in Nat
  <2>1. crashes \in Nat /\ crashes' \in 0 .. MaxCrashes
    BY <1>2, BoundsAssumption DEF TypeOK
  <2> QED
    BY <1>2, <1>4, <2>1, TaskLeft DEF TypeOK
<1>7. /\ rows[i].delivered \in Nat /\ rows[i].delivered <= 1 + crashes /\ rows[i].retries \in Nat
  BY <1>1, <1>2, <1>3, RowsType, BoundsAssumption DEF SendInv, OncePerRow
<1>8. rows'[i].delivered <= 1 + crashes' /\ Account(i)'
  <2>1. rows'[i].delivered <= crashes' /\ rows'[i].delivered <= 1 + crashes'
    BY <1>2, <1>6, <1>7
  <2> QED
    BY <2>1 DEF Account
<1>9. /\ i \in runEvents => Waits(i)'
      /\ WithPlaybook /\ ~Refusable(i) => ~Refusable(i)'
  BY <1>2 DEF SendInv, Triggered, Waits, WithPlaybook, Refusable
<1>10. /\ n \in {n, n + 1} /\ i \in Nat /\ DOMAIN rows' = 1 .. n
       /\ crashes' \in {crashes, crashes + 1}
  BY <1>1, <1>2, <1>3
<1>11. Touched(i, w, n, n)
  BY <1>1, <1>2, <1>3, <1>5, <1>6, <1>7, <1>8, <1>9, <1>10 DEF Touched
<1> QED
  BY <1>10, <1>11, TouchedKeeps

\* A fallback attempt is a new row whose parent is the row that failed.
LEMMA FallbackAdded ==
  ASSUME TypeOK, NEW i \in DOMAIN rows, NEW R \in Seq(Row), NEW n \in Nat, Len(R) = n,
         DOMAIN R = 1 .. n, rows' \in {R, WithFallback(R, i)}
  PROVE  \E m \in {n, n + 1} :
           /\ rows' \in Seq(Row) /\ Len(rows') = m /\ DOMAIN rows' = 1 .. m
           /\ \A j \in 1 .. n : rows'[j] = R[j]
           /\ m # n => rows'[m].parent = i /\ rows'[m].delivered = 0 /\ rows'[m].retries = 0
<1>1. CASE rows' = R
  BY <1>1
<1>2. CASE rows' # R
  <2>1. /\ rows[i].res \in Resources /\ rows[i].event \in Events /\ i \in Nat
        /\ "attempting_fallback" \in Status
    BY RowsType DEF Status, Queued
  <2>2. PICK row : row = NewRow(rows[i].res, rows[i].event, "attempting_fallback", i)
    OBVIOUS
  <2>3. row \in Row /\ row.parent = i /\ row.delivered = 0 /\ row.retries = 0
    BY <2>1, <2>2, NewRowType
  <2>4. rows' = Append(R, row)
    BY <1>2, <2>2 DEF WithFallback
  <2>5. PICK m \in {n, n + 1} : m = n + 1
    OBVIOUS
  <2>6. /\ rows' \in Seq(Row) /\ Len(rows') = n + 1 /\ DOMAIN rows' = 1 .. n \cup {n + 1}
        /\ \A j \in 1 .. n : rows'[j] = R[j]
        /\ rows'[n + 1] = row
    BY <2>3, <2>4, RowAdded
  <2>7. /\ rows' \in Seq(Row) /\ Len(rows') = m /\ DOMAIN rows' = 1 .. m
        /\ \A j \in 1 .. n : rows'[j] = R[j]
        /\ m # n => rows'[m].parent = i /\ rows'[m].delivered = 0 /\ rows'[m].retries = 0
    BY <2>3, <2>5, <2>6
  <2> QED
    BY <2>7
<1> QED
  BY <1>1, <1>2

\* A job that commits keeps the invariant: a failure adds a retry for its fallback attempt.
LEMMA CommitKeeps ==
  ASSUME SendInv, NEW w \in Senders, Commit(w)
  PROVE  SendInv'
<1>1. PICK n \in Nat : n = Len(rows) /\ DOMAIN rows = 1 .. n
  BY RowsType DEF SendInv
<1> PICK i : i = tasks[w].row
  OBVIOUS
<1> PICK kind : kind = tasks[w].kind
  OBVIOUS
<1>2. /\ tasks[w] # Idle /\ kind \in Jobs
      /\ tasks' = [tasks EXCEPT ![w] = Idle]
      /\ runEvents' = IF tasks[w].phase = "triggered" THEN runEvents \cup {i} ELSE runEvents
      /\ UNCHANGED <<notif, health, silenced, events, adding, sends, aged, changes, failures,
                     crashes>>
      /\ TypeOK
  BY DEF Commit, Phase, Jobs, SendInv
<1>3. /\ Busy(w) /\ tasks[w] \in Task /\ i \in 1 .. n
      /\ JobTask(tasks[w], rows[i], crashes)
      /\ \A v \in Senders : v # w /\ Busy(v) => tasks[v].row # i
  BY <1>1, <1>2, HeldRow
<1>4. /\ Queues(i) /\ Refusable(i) /\ i \notin runEvents /\ rows[i].retries < MaxRetries
      /\ rows[i] \in Row /\ rows[i].retries \in Nat /\ rows[i].delivered \in Nat
      /\ ~(rows[i].retries >= MaxRetries) /\ crashes \in Nat
      /\ rows[i].delivered <= 1 + crashes
  <2>1. Queues(i) /\ rows[i].retries < MaxRetries
    BY <1>3 DEF JobTask, Queues
  <2>2. i \notin runEvents
    BY <2>1 DEF SendInv, Triggered, Waits, Queues, Queued
  <2>3. rows[i] \in Row /\ rows[i].retries \in Nat /\ rows[i].delivered \in Nat /\ crashes \in Nat
    BY <1>1, <1>2, <1>3, RowsType, BoundsAssumption DEF TypeOK
  <2>4. rows[i].delivered <= 1 + crashes
    BY <1>1, <1>3 DEF SendInv, OncePerRow
  <2> QED
    BY <2>1, <2>2, <2>3, <2>4, BoundsAssumption DEF Refusable, Queues
<1>5. /\ \A v \in Senders : v # w => tasks'[v] = tasks[v] /\ (Busy(v) => tasks[v].row # i)
      /\ ~Busy(w)'
      /\ tasks' \in [Senders -> Task \cup {Idle}]
      /\ \A v \in Senders : tasks'[v] # Idle => tasks'[v] = tasks[v] /\ tasks[v] # Idle
  BY <1>2, <1>3, TaskLeft
<1>6. ASSUME NEW m \in {n, n + 1}, rows' \in Seq(Row), Len(rows') = m, DOMAIN rows' = 1 .. m
      PROVE  TypeOK'
  <2>1. /\ runEvents' \in SUBSET (1 .. m) /\ sends' \in SUBSET Send
        /\ failures' \in 0 .. MaxFailures /\ crashes' \in 0 .. MaxCrashes
    BY <1>1, <1>2, <1>3 DEF TypeOK
  <2>2. \A v \in Senders : tasks'[v] # Idle => tasks'[v].row \in 1 .. m
    <3>1. \A v \in Senders : tasks[v] # Idle => tasks[v].row \in 1 .. n
      BY <1>1, <1>2 DEF TypeOK
    <3> QED
      BY <1>5, <3>1
  <2> QED
    BY <1>1, <1>2, <1>5, <1>6, <2>1, <2>2, TypeStep
<1>7. CASE tasks[w].phase # "failed"
  <2>1. rows' = [rows EXCEPT ![i].status = "sent"]
    BY <1>7 DEF Commit
  <2>2. "sent" \in Status
    BY DEF Status
  <2>3. /\ rows' \in Seq(Row) /\ Len(rows') = n /\ DOMAIN rows' = 1 .. n
        /\ \A j \in 1 .. n : j # i => rows'[j] = rows[j]
        /\ rows'[i].status = "sent" /\ rows'[i].retries = rows[i].retries
        /\ rows'[i].parent = rows[i].parent /\ rows'[i].delivered = rows[i].delivered
    BY <1>1, <1>2, <1>3, <2>1, <2>2, StatusSet
  <2>4. TypeOK'
    BY <1>6, <2>3
  <2>5. Account(i)' /\ rows'[i].delivered <= 1 + crashes'
    BY <1>2, <1>4, <2>3 DEF Account, Queues, Queued
  <2>6. i \in runEvents' => Waits(i)'
    BY <1>2, <1>3, <1>4, <2>3 DEF JobTask, Waits, WithPlaybook
  <2>7. /\ n \in {n, n + 1} /\ i \in Nat /\ crashes' \in {crashes, crashes + 1}
        /\ \A j \in 1 .. n : j # i => (j \in runEvents' <=> j \in runEvents)
    BY <1>2, <1>3
  <2>8. Touched(i, w, n, n)
    BY <1>1, <1>2, <1>3, <1>4, <1>5, <2>3, <2>4, <2>5, <2>6, <2>7 DEF Touched
  <2> QED
    BY <2>7, <2>8, TouchedKeeps
<1>8. CASE tasks[w].phase = "failed"
  <2> PICK again : again = IF kind = "pending" THEN "pending" ELSE "attempting_fallback"
    OBVIOUS
  <2>1. again \in Queued /\ again \in Status
    BY DEF Queued, Status
  <2> PICK row : row = [rows[i] EXCEPT !.status = again, !.retries = @ + 1]
    OBVIOUS
  <2>2. /\ row \in Row /\ row.status = again /\ row.retries = rows[i].retries + 1
        /\ row.parent = rows[i].parent /\ row.delivered = rows[i].delivered
    BY <1>4, <2>1, RowFields
  <2>16. TypeOK /\ i \in DOMAIN rows
    BY <1>1, <1>2, <1>3
  <2>3. PICK R \in Seq(Row) :
          /\ Len(R) = n /\ DOMAIN R = 1 .. n
          /\ \A j \in 1 .. n : R[j] = IF j = i THEN row ELSE rows[j]
          /\ rows' \in {R, WithFallback(R, i)}
    <3> PICK Q : Q = [rows EXCEPT ![i] = row]
      OBVIOUS
    <3>1. /\ Q \in Seq(Row) /\ Len(Q) = n /\ DOMAIN Q = 1 .. n
          /\ \A j \in 1 .. n : Q[j] = IF j = i THEN row ELSE rows[j]
      BY <1>1, <1>2, <1>3, <2>2, RowWritten
    <3>2. [rows EXCEPT ![i].status = again, ![i].retries = @ + 1] = Q
      BY <1>1, <1>2, <1>3, RowsType
    <3>3. rows' \in {Q, WithFallback(Q, i)}
      BY <1>4, <1>8, <3>2 DEF Commit
    <3> QED
      BY <3>1, <3>3
  <2>6. PICK m \in {n, n + 1} :
          /\ rows' \in Seq(Row) /\ Len(rows') = m /\ DOMAIN rows' = 1 .. m
          /\ \A j \in 1 .. n : rows'[j] = R[j]
          /\ m # n => rows'[m].parent = i /\ rows'[m].delivered = 0 /\ rows'[m].retries = 0
    BY <2>3, <2>16, FallbackAdded
  <2>7. TypeOK'
    BY <1>6, <2>6
  <2>8. rows'[i] = row /\ \A j \in 1 .. n : j # i => rows'[j] = rows[j]
    BY <1>3, <2>3, <2>6
  <2>9. Account(i)' /\ rows'[i].delivered <= 1 + crashes'
    <3>1. rows[i].delivered <= crashes
      BY <1>3, <1>8 DEF JobTask
    <3> QED
      BY <1>2, <1>4, <2>2, <2>8, <3>1 DEF Account
  <2>10. runEvents' = runEvents /\ (m # n => m \notin runEvents')
    BY <1>1, <1>2, <1>8 DEF TypeOK
  <2>11. Refusable(i)' /\ rows'[i].retries > rows[i].retries /\ rows'[i].retries >= rows[i].retries
    BY <1>4, <2>1, <2>2, <2>8 DEF Refusable
  <2>12. /\ i \in Nat /\ crashes' \in {crashes, crashes + 1}
         /\ m # n => rows'[m].parent \in {0} \cup ({i} \cap 1 .. n)
    BY <1>2, <1>3, <2>6
  <2>13. m # n => /\ rows'[m].parent \in {0} \cup ({i} \cap 1 .. n)
                  /\ rows'[m].delivered = 0 /\ rows'[m].retries = 0
                  /\ m \notin runEvents'
    BY <2>6, <2>10, <2>12
  <2>14. \A j \in 1 .. n : j # i => rows'[j] = rows[j] /\ (j \in runEvents' <=> j \in runEvents)
    BY <2>8, <2>10
  <2>15. /\ rows'[i].parent = rows[i].parent
         /\ i \in runEvents' => Waits(i)'
         /\ WithPlaybook /\ ~Refusable(i) => ~Refusable(i)'
    BY <1>4, <2>2, <2>8, <2>10
  <2>17. /\ UNCHANGED notif /\ crashes' \in {crashes, crashes + 1} /\ i \in Nat
         /\ DOMAIN rows = 1 .. n /\ DOMAIN rows' = 1 .. m
         /\ Busy(w) => tasks[w].row = i
         /\ Busy(w)' => Holding(w)' /\ tasks'[w].row \in {i} \cup ({m} \ {n})
         /\ \A u \in Senders : u # w => tasks'[u] = tasks[u] /\ (Busy(u) => tasks[u].row # i)
    BY <1>1, <1>2, <1>3, <1>5, <2>6
  <2>18. i \in 1 .. n =>
           /\ rows'[i].parent = rows[i].parent
           /\ i \in runEvents' => Waits(i)'
           /\ rows'[i].delivered <= 1 + crashes'
           /\ Account(i)'
           /\ rows'[i].retries >= rows[i].retries
           /\ \/ rows'[i].retries > rows[i].retries \/ m = n \/ rows'[m].parent = 0
              \/ WithPlaybook /\ Refusable(i) /\ ~Refusable(i)'
           /\ WithPlaybook /\ ~Refusable(i) => ~Refusable(i)'
    BY <2>9, <2>11, <2>15
  <2>19. Touched(i, w, n, m)
    BY <2>7, <2>13, <2>14, <2>17, <2>18 DEF Touched
  <2> QED
    BY <2>17, <2>19, TouchedKeeps
<1> QED
  BY <1>7, <1>8

\* The playbook engine taking a playbook.run event keeps the invariant: one refusal per row.
LEMMA StartRunKeeps ==
  ASSUME SendInv, NEW i \in DOMAIN rows, StartRun(i)
  PROVE  SendInv'
<1>1. PICK n \in Nat : n = Len(rows) /\ DOMAIN rows = 1 .. n
  BY RowsType DEF SendInv
<1>2. /\ i \in runEvents /\ runEvents' = runEvents \ {i}
      /\ UNCHANGED <<notif, health, silenced, events, adding, sends, aged, tasks, changes,
                     failures, crashes>>
      /\ TypeOK /\ WithPlaybook /\ WithPlaybook' /\ Waits(i) /\ i \in 1 .. n /\ i \in Nat
  BY <1>1 DEF StartRun, SendInv, Triggered, Waits, WithPlaybook
<1>3. PICK v \in {"pending_playbook_completion", "error"} :
        rows' \in {[rows EXCEPT ![i].status = v], WithFallback([rows EXCEPT ![i].status = v], i)}
  BY DEF StartRun
<1>4. PICK R \in Seq(Row) :
        /\ Len(R) = n /\ DOMAIN R = 1 .. n
        /\ \A j \in 1 .. n : j # i => R[j] = rows[j]
        /\ R[i].status = v /\ R[i].retries = rows[i].retries
        /\ R[i].parent = rows[i].parent /\ R[i].delivered = rows[i].delivered
        /\ rows' \in {R, WithFallback(R, i)}
  <2>1. v \in Status
    BY DEF Status
  <2> PICK Q : Q = [rows EXCEPT ![i].status = v]
    OBVIOUS
  <2>2. /\ Q \in Seq(Row) /\ Len(Q) = n /\ DOMAIN Q = 1 .. n
        /\ \A j \in 1 .. n : j # i => Q[j] = rows[j]
        /\ Q[i].status = v /\ Q[i].retries = rows[i].retries
        /\ Q[i].parent = rows[i].parent /\ Q[i].delivered = rows[i].delivered
    BY <1>1, <1>2, <2>1, StatusSet
  <2> QED
    BY <1>3, <2>2
<1>5. PICK m \in {n, n + 1} :
        /\ rows' \in Seq(Row) /\ Len(rows') = m /\ DOMAIN rows' = 1 .. m
        /\ \A j \in 1 .. n : rows'[j] = R[j]
        /\ m # n => rows'[m].parent = i /\ rows'[m].delivered = 0 /\ rows'[m].retries = 0
  BY <1>1, <1>2, <1>4, FallbackAdded
<1>6. /\ rows'[i].status = v /\ rows'[i].retries = rows[i].retries
      /\ rows'[i].parent = rows[i].parent /\ rows'[i].delivered = rows[i].delivered
      /\ \A j \in 1 .. n : j # i => rows'[j] = rows[j]
  BY <1>2, <1>4, <1>5
<1>7. TypeOK'
  <2>1. /\ runEvents' \in SUBSET (1 .. m) /\ sends' \in SUBSET Send
        /\ failures' \in 0 .. MaxFailures /\ crashes' \in 0 .. MaxCrashes
        /\ tasks' \in [Senders -> Task \cup {Idle}]
    BY <1>1, <1>2 DEF TypeOK
  <2>2. \A u \in Senders : tasks'[u] # Idle => tasks'[u].row \in 1 .. m
    <3>1. \A u \in Senders : tasks[u] # Idle => tasks[u].row \in 1 .. n
      BY <1>1, <1>2 DEF TypeOK
    <3> QED
      BY <1>2, <3>1
  <2> QED
    BY <1>1, <1>2, <1>5, <2>1, <2>2, TypeStep
<1>8. PICK w : /\ Busy(w) => tasks[w].row = i
               /\ \A u \in Senders : u # w => (Busy(u) => tasks[u].row # i)
  <2>1. CASE \E u \in Senders : Busy(u) /\ tasks[u].row = i
    <3>1. PICK w \in Senders : Busy(w) /\ tasks[w].row = i
      BY <2>1
    <3>2. \A u \in Senders : u # w => (Busy(u) => tasks[u].row # i)
      BY <3>1 DEF SendInv, Apart
    <3> QED
      BY <3>1, <3>2
  <2>2. CASE ~\E u \in Senders : Busy(u) /\ tasks[u].row = i
    <3>1. PICK w : w \notin Senders
      BY NoSetContainsEverything
    <3> QED
      BY <2>2, <3>1 DEF Busy
  <2> QED
    BY <2>1, <2>2
<1>9. ASSUME Busy(w)'
      PROVE  Holding(w)' /\ tasks'[w].row = i
  <2>1. Busy(w) /\ w \in Senders /\ tasks[w] # Idle /\ tasks[w].row = i /\ tasks'[w] = tasks[w]
    BY <1>2, <1>8, <1>9 DEF Busy
  <2>2. /\ tasks[w] \in Task /\ tasks[w].kind \in {"event"} \cup Jobs
        /\ tasks[w].kind = "event" => EventTask(tasks[w], rows[i], i \in runEvents)
        /\ tasks[w].kind \in Jobs => JobTask(tasks[w], rows[i], crashes)
    BY <2>1, HeldRow
  <2>3. tasks[w].kind \notin Jobs
    BY <1>2, <2>2 DEF JobTask, Waits, Queued
  <2>4. EventTask(tasks[w], rows[i], i \in runEvents)'
    BY <1>2, <1>6, <2>1, <2>2, <2>3 DEF EventTask, Queued
  <2> QED
    BY <2>1, <2>4 DEF Holding
<1>10. Refusable(i) /\ ~Refusable(i)' /\ Account(i)'
  BY <1>2, <1>6 DEF Refusable, Account, Queues, Queued
<1>11. rows'[i].delivered <= 1 + crashes' /\ rows[i].retries \in Nat
  BY <1>1, <1>2, <1>6, RowsType, BoundsAssumption DEF SendInv, OncePerRow
<1>12. /\ \A u \in Senders : u # w => tasks'[u] = tasks[u] /\ (Busy(u) => tasks[u].row # i)
       /\ crashes' \in {crashes, crashes + 1} /\ i \notin runEvents'
       /\ \A j \in 1 .. n : j # i => (j \in runEvents' <=> j \in runEvents)
       /\ m # n => rows'[m].parent \in {0} \cup ({i} \cap 1 .. n) /\ m \notin runEvents'
  BY <1>1, <1>2, <1>5, <1>8 DEF TypeOK
<1>13. m # n => /\ rows'[m].parent \in {0} \cup ({i} \cap 1 .. n)
                /\ rows'[m].delivered = 0 /\ rows'[m].retries = 0
                /\ m \notin runEvents'
  BY <1>5, <1>12
<1>14. \A j \in 1 .. n : j # i => rows'[j] = rows[j] /\ (j \in runEvents' <=> j \in runEvents)
  BY <1>6, <1>12
<1>15. /\ i \in runEvents' => Waits(i)'
       /\ rows'[i].retries >= rows[i].retries
       /\ WithPlaybook /\ Refusable(i) /\ ~Refusable(i)'
  BY <1>2, <1>6, <1>10, <1>11, <1>12
<1>16. Busy(w)' => Holding(w)' /\ tasks'[w].row \in {i} \cup ({m} \ {n})
  BY <1>9
<1>17. /\ UNCHANGED notif /\ crashes' \in {crashes, crashes + 1} /\ i \in Nat
       /\ DOMAIN rows = 1 .. n /\ DOMAIN rows' = 1 .. m
       /\ Busy(w) => tasks[w].row = i
       /\ \A u \in Senders : u # w => tasks'[u] = tasks[u] /\ (Busy(u) => tasks[u].row # i)
  BY <1>1, <1>2, <1>5, <1>8, <1>12
<1>18. i \in 1 .. n =>
         /\ rows'[i].parent = rows[i].parent
         /\ i \in runEvents' => Waits(i)'
         /\ rows'[i].delivered <= 1 + crashes'
         /\ Account(i)'
         /\ rows'[i].retries >= rows[i].retries
         /\ \/ rows'[i].retries > rows[i].retries \/ m = n \/ rows'[m].parent = 0
            \/ WithPlaybook /\ Refusable(i) /\ ~Refusable(i)'
         /\ WithPlaybook /\ ~Refusable(i) => ~Refusable(i)'
  BY <1>6, <1>10, <1>11, <1>15
<1>19. Touched(i, w, n, m)
  BY <1>7, <1>13, <1>14, <1>16, <1>17, <1>18 DEF Touched
<1> QED
  BY <1>17, <1>19, TouchedKeeps

----------------------------------------------------------------------------
(* The theorems.                                                           *)

\* The invariant holds initially.
LEMMA SendInvInit == Init => SendInv
<1> SUFFICES ASSUME Init PROVE SendInv
  OBVIOUS
<1>1. TypeOK
  BY BoundsAssumption DEF Init, TypeOK
<1>2. \A w : ~Busy(w)
  BY DEF Init, Busy
<1>3. runEvents = {} /\ DOMAIN rows = {}
  BY DEF Init
<1> QED
  BY <1>1, <1>2, <1>3 DEF SendInv, Held, Apart, Triggered, OncePerRow, Accounted, Older, Parented

\* Every step keeps the invariant.
LEMMA SendInvNext == SendInv /\ [Next]_vars => SendInv'
<1> SUFFICES ASSUME SendInv, [Next]_vars PROVE SendInv'
  OBVIOUS
<1>1. CASE \E r \in Resources : HealthChange(r) \/ SilenceChange(r)
  BY <1>1, EnvironmentKeeps
<1>2. CASE \E e \in Event : AddNotificationEvent(e) \/ SavePending(e) \/ SaveSend(e)
  BY <1>2, IntakeKeeps
<1>3. ASSUME NEW w \in Senders, \E s \in sends : TakeSend(w, s)
      PROVE  SendInv'
  BY <1>3, TakeSendKeeps
<1>4. ASSUME NEW w \in Senders, \E i \in DOMAIN rows : TakePending(w, i) \/ TakeFallback(w, i)
      PROVE  SendInv'
  BY <1>4, TakePendingKeeps, TakeFallbackKeeps
<1>5. ASSUME NEW w \in Senders, SenderNext(w) \/ Crash(w)
      PROVE  SendInv'
  BY <1>5, DeliverKeeps, EndLogKeeps, AckKeeps, CommitKeeps, CrashKeeps DEF SenderNext
<1>6. CASE \E i \in DOMAIN rows : StartRun(i)
  BY <1>6, StartRunKeeps
<1>7. CASE Age
  BY <1>7, AgeKeeps
<1>8. CASE UNCHANGED vars
  <2>1. TypeOK' /\ UNCHANGED <<notif, rows, tasks, runEvents, crashes>>
    BY <1>8 DEF vars, SendInv, TypeOK
  <2> QED
    BY <2>1, NothingTouched
<1> QED
  BY <1>1, <1>2, <1>3, <1>4, <1>5, <1>6, <1>7, <1>8 DEF Next

\* SendInv is an invariant of the notification.
THEOREM SendInvCorrect == Spec => []SendInv
BY SendInvInit, SendInvNext, PTL DEF Spec

\* Two senders never work on one row of the history, and none works on a row that
\* somebody else moves: the row of a consumer is its own, started, and only the
\* playbook engine moves it on; a job's is queued and locked until it commits.
THEOREM ApartCorrect == Spec => [](Held /\ Apart)
<1>1. SendInv => Held /\ Apart
  BY DEF SendInv
<1> QED BY <1>1, SendInvCorrect, PTL

\* The variables have their types: every task is about a row of the history.
THEOREM TypeCorrect == Spec => []TypeOK
<1>1. SendInv => TypeOK
  BY DEF SendInv
<1> QED
  BY <1>1, SendInvCorrect, PTL

\* A step that touches row i, and senders that hold it or none, strands no other.
LEMMA StrandedTouched ==
  ASSUME NEW i,
         \A j \in DOMAIN rows' : j # i /\ rows'[j].status = "started" =>
           j \in DOMAIN rows /\ rows[j].status = "started",
         \A v \in Senders : tasks'[v] = tasks[v] \/ (tasks[v] # Idle => tasks[v].row = i)
  PROVE  Stranded' \subseteq Stranded \cup {i}
BY DEF Stranded

\* A row that is added in another status than "started" is not left behind.
LEMMA StrandedAdded ==
  ASSUME TypeOK, NEW R \in Seq(Row), NEW i \in DOMAIN rows, DOMAIN R = DOMAIN rows,
         rows' \in {R, WithFallback(R, i)}, R[i].status # "started",
         \A j \in DOMAIN rows : j # i => R[j].status = rows[j].status
  PROVE  \A j \in DOMAIN rows' : rows'[j].status = "started" =>
           j \in DOMAIN rows /\ j # i /\ rows[j].status = "started"
<1>2. CASE rows' = R
  BY <1>2
<1>3. CASE rows' # R
  <2>1. rows[i].res \in Resources /\ rows[i].event \in Events /\ i \in Nat
    BY RowsType
  <2>2. PICK row \in Row : /\ row.status = "attempting_fallback"
                           /\ rows' = Append(R, row)
    <3>1. "attempting_fallback" \in Status
      BY DEF Status, Queued
    <3> QED
      BY <1>3, <2>1, <3>1, NewRowType DEF WithFallback
  <2>3. /\ DOMAIN rows' = DOMAIN R \cup {Len(R) + 1} /\ rows'[Len(R) + 1] = row
        /\ \A j \in DOMAIN R : rows'[j] = R[j]
    BY <2>2, RowAdded
  <2> QED
    BY <2>2, <2>3
<1> QED
  BY <1>2, <1>3

\* What happens to the events of the queue strands no row.
LEMMA IntakeStrands ==
  ASSUME SendInv, NEW e \in Event, AddNotificationEvent(e) \/ SavePending(e) \/ SaveSend(e)
  PROVE  Stranded' \subseteq Stranded /\ crashes' = crashes
<1>1. UNCHANGED <<tasks, crashes>>
  BY DEF AddNotificationEvent, SavePending, SaveSend
<1>2. CASE UNCHANGED rows
  BY <1>1, <1>2 DEF Stranded
<1>3. ASSUME NEW status \in Status, status # "started",
             rows' = Append(rows, NewRow(e.res, e.event, status, 0))
      PROVE  Stranded' \subseteq Stranded
  <2>1. PICK row \in Row : row.status = status /\ rows' = Append(rows, row)
    BY <1>3, NewRowType DEF Event
  <2>2. PICK n \in Nat : n = Len(rows)
    BY RowsType DEF SendInv
  <2>3. /\ DOMAIN rows' = DOMAIN rows \cup {n + 1} /\ rows'[n + 1] = row
        /\ \A j \in DOMAIN rows : rows'[j] = rows[j]
    BY <2>1, <2>2, RowsType, RowAdded DEF SendInv
  <2> QED
    BY <1>1, <1>3, <2>1, <2>3 DEF Stranded
<1>4. Blocker(e.res, e.event) # "" => Blocker(e.res, e.event) \in Status \ {"started"}
  BY BlockerType DEF Status, Blocked
<1>5. "pending" \in Status \ {"started"}
  BY DEF Status, Queued
<1> QED
  BY <1>1, <1>2, <1>3, <1>4, <1>5 DEF AddNotificationEvent, SaveUnsent, SavePending, SaveSend

\* A sender that takes something up has not given it up.
LEMMA TakingStrands ==
  ASSUME SendInv, NEW w \in Senders,
         \/ \E s \in sends : TakeSend(w, s)
         \/ \E i \in DOMAIN rows : TakePending(w, i) \/ TakeFallback(w, i)
  PROVE  Stranded' \subseteq Stranded /\ crashes' = crashes
<1>1. TypeOK /\ tasks[w] = Idle /\ crashes' = crashes
  BY DEF TakeSend, TakePending, TakeFallback, Taken, SendInv
<1>2. CASE UNCHANGED rows /\ \E k : tasks' = [tasks EXCEPT ![w] = k]
  <2>1. \A v \in Senders : tasks[v] # Idle => tasks'[v] = tasks[v]
    BY <1>1, <1>2 DEF TypeOK
  <2> QED
    BY <1>1, <1>2, <2>1 DEF Stranded
<1>3. ASSUME NEW s \in sends, TakeSend(w, s) PROVE Stranded' \subseteq Stranded
  <2>1. CASE UNCHANGED <<rows, tasks>>
    BY <2>1 DEF Stranded
  <2>2. CASE /\ rows' = Append(rows, NewRow(s.res, s.event, "started", 0))
             /\ Begin(w, "event", Len(rows) + 1, s.attempts)
    <3>1. PICK n \in Nat : n = Len(rows) /\ DOMAIN rows = 1 .. n
      BY <1>1, RowsType
    <3>2. PICK row \in Row : rows' = Append(rows, row)
      <4>1. s.res \in Resources /\ s.event \in Events /\ "started" \in Status
        BY <1>1 DEF TypeOK, Send, Status
      <4> QED
        BY <2>2, <4>1, NewRowType
    <3>3. DOMAIN rows' = DOMAIN rows \cup {n + 1} /\ \A j \in DOMAIN rows : rows'[j] = rows[j]
      BY <1>1, <3>1, <3>2, RowsType, RowAdded
    <3>4. /\ tasks'[w] = At("event", n + 1, s.attempts, "started")
          /\ \A v \in Senders : v # w => tasks'[v] = tasks[v]
      BY <1>1, <2>2, <3>1, TaskSet DEF Begin
    <3>5. Stranded' \subseteq Stranded \cup {n + 1}
      BY <1>1, <3>3, <3>4, StrandedTouched
    <3>6. tasks'[w] # Idle /\ tasks'[w].row = n + 1 /\ tasks'[w].phase = "started"
      BY <3>4, TasksType DEF At, Idle
    <3>7. n + 1 \notin Stranded'
      BY <3>6 DEF Stranded
    <3> QED
      BY <3>5, <3>7
  <2> QED
    BY <1>3, <2>1, <2>2 DEF TakeSend
<1>4. ASSUME NEW i \in DOMAIN rows, NEW v \in Status \ {"started"},
             rows' = [rows EXCEPT ![i].status = v], UNCHANGED tasks
      PROVE  Stranded' \subseteq Stranded
  <2>1. /\ DOMAIN rows' = DOMAIN rows /\ rows'[i].status = v
        /\ \A j \in DOMAIN rows : j # i => rows'[j] = rows[j]
    BY <1>1, <1>4, StatusSet
  <2> QED
    BY <1>4, <2>1 DEF Stranded
<1>5. ASSUME NEW i \in DOMAIN rows, TakePending(w, i) PROVE Stranded' \subseteq Stranded
  <2>1. {"evaluating-waitfor", "skipped"} \cup Blocked \subseteq Status \ {"started"}
    BY DEF Status, Queued, Blocked
  <2>2. Blocker(rows[i].res, rows[i].event) \in Blocked \cup {""}
    BY BlockerType
  <2> QED
    BY <1>2, <1>4, <1>5, <2>1, <2>2 DEF TakePending, Begin
<1> QED
  BY <1>1, <1>2, <1>3, <1>5 DEF TakeFallback, Begin

\* A sender strands no row when it sends, commits, or saves what came of it, and
\* its own if that fails.
LEMMA SenderStrands ==
  ASSUME SendInv, NEW w \in Senders, SenderNext(w)
  PROVE  \/ Stranded' \subseteq Stranded /\ crashes' = crashes
         \/ (\E a : Stranded' \subseteq Stranded \cup {a}) /\ crashes' = crashes + 1
<1> PICK i : i = tasks[w].row
  OBVIOUS
<1>1. TypeOK /\ tasks[w] # Idle
  BY TasksType DEF SendInv, SenderNext, Deliver, EndLog, Ack, Commit, Phase
<1>2. /\ tasks[w] \in Task /\ i \in DOMAIN rows /\ rows[i] \in Row /\ "event" \notin Jobs
      /\ tasks[w].kind = "event" => EventTask(tasks[w], rows[i], i \in runEvents)
      /\ tasks[w].kind \in Jobs => JobTask(tasks[w], rows[i], crashes)
  BY <1>1, HeldRow, RowsType DEF Jobs
<1>3. ASSUME \A v \in Senders : v # w => tasks'[v] = tasks[v],
             \A j \in DOMAIN rows' : j # i /\ rows'[j].status = "started" =>
               j \in DOMAIN rows /\ rows[j].status = "started",
             i \in Stranded' => i \in Stranded
      PROVE  Stranded' \subseteq Stranded
  <2>1. Stranded' \subseteq Stranded \cup {i}
    BY <1>3, StrandedTouched
  <2> QED
    BY <1>3, <2>1
<1>4. CASE Deliver(w)
  <2>1. crashes' = crashes
    BY <1>4 DEF Deliver
  <2>2. PICK phase \in {"delivered", "triggered", "stale", "failed"} : GoTo(w, phase)
    BY <1>4 DEF Deliver
  <2>3. /\ \A v \in Senders : v # w => tasks'[v] = tasks[v]
        /\ tasks'[w] # Idle /\ tasks'[w].row = i /\ tasks'[w].phase = phase
    BY <1>1, <1>2, <2>2, PhaseSet
  <2>4. \A j \in DOMAIN rows' : j \in DOMAIN rows /\ (j # i => rows'[j] = rows[j])
    <3>1. rows' = rows \/ rows' = [rows EXCEPT ![i].delivered = @ + 1]
      BY <1>4 DEF Deliver
    <3>2. CASE rows' = [rows EXCEPT ![i].delivered = @ + 1]
      <4> PICK row : row = [rows[i] EXCEPT !.delivered = @ + 1]
        OBVIOUS
      <4>1. row \in Row /\ rows' = [rows EXCEPT ![i] = row]
        BY <1>2, <3>2, RowFields
      <4> QED
        BY <1>1, <1>2, <4>1, RowWritten
    <3> QED
      BY <3>1, <3>2
  <2>5. i \notin Stranded'
    BY <2>3 DEF Stranded
  <2> QED
    BY <1>3, <2>1, <2>3, <2>4, <2>5
<1>5. CASE EndLog(w)
  <2> PICK v : v = Outcome[tasks[w].phase]
    OBVIOUS
  <2>1. v \in Status \ {"started"}
    BY <1>5 DEF EndLog, Phase, Outcome, Status
  <2>2. PICK phase \in {"logged", "refused"} : GoTo(w, phase)
    BY <1>5 DEF EndLog
  <2>3. \A u \in Senders : u # w => tasks'[u] = tasks[u]
    BY <1>1, <1>2, <2>2, PhaseSet
  <2>4. CASE rows' = [rows EXCEPT ![i].status = v] /\ crashes' = crashes
    <3>1. /\ DOMAIN rows' = DOMAIN rows /\ rows'[i].status = v
          /\ \A j \in DOMAIN rows : j # i => rows'[j] = rows[j]
      BY <1>1, <1>2, <2>1, <2>4, StatusSet
    <3>2. i \notin Stranded'
      BY <2>1, <3>1 DEF Stranded
    <3> QED
      BY <1>3, <2>3, <2>4, <3>1, <3>2
  <2>5. CASE rows' = rows /\ crashes' = crashes + 1
    <3>1. Stranded' \subseteq Stranded \cup {i}
      BY <2>3, <2>5, StrandedTouched
    <3> QED
      BY <2>5, <3>1
  <2> QED
    BY <1>5, <2>4, <2>5 DEF EndLog
<1>6. CASE Ack(w)
  <2>1. /\ UNCHANGED <<rows, crashes>> /\ tasks' = [tasks EXCEPT ![w] = Idle]
        /\ tasks[w].phase \in {"logged", "refused"}
    BY <1>6 DEF Ack, Phase
  <2>2. \A v \in Senders : v # w => tasks'[v] = tasks[v]
    BY <1>1, <2>1, TaskLeft
  <2> QED
    BY <2>1, <2>2 DEF Stranded
<1>7. CASE Commit(w)
  <2>1. crashes' = crashes /\ tasks' = [tasks EXCEPT ![w] = Idle] /\ tasks[w].kind \in Jobs
    BY <1>7 DEF Commit, Jobs
  <2>2. \A v \in Senders : v # w => tasks'[v] = tasks[v]
    BY <1>1, <2>1, TaskLeft
  <2>3. rows[i].retries \in Nat /\ rows[i].retries < MaxRetries /\ ~(rows[i].retries >= MaxRetries)
    <3>1. rows[i].retries \in Nat /\ rows[i].retries < MaxRetries
      BY <1>1, <1>2, <2>1, RowsType DEF JobTask
    <3> QED
      BY <3>1, BoundsAssumption
  <2>4. PICK row \in Row : /\ row.status # "started"
                           /\ rows' \in {[rows EXCEPT ![i] = row], WithFallback([rows EXCEPT ![i] = row], i)}
    <3>1. CASE tasks[w].phase # "failed"
      <4> PICK row : row = [rows[i] EXCEPT !.status = "sent"]
        OBVIOUS
      <4>1. "sent" \in Status
        BY DEF Status
      <4>2. row \in Row /\ row.status = "sent"
        BY <1>2, <4>1, RowFields
      <4>3. rows' = [rows EXCEPT ![i] = row]
        BY <1>7, <3>1 DEF Commit
      <4> QED
        BY <4>2, <4>3
    <3>2. CASE tasks[w].phase = "failed"
      <4> PICK again : again = IF tasks[w].kind = "pending" THEN "pending" ELSE "attempting_fallback"
        OBVIOUS
      <4> PICK row : row = [rows[i] EXCEPT !.status = again, !.retries = @ + 1]
        OBVIOUS
      <4>1. again \in Status /\ again # "started"
        BY DEF Status, Queued
      <4>2. row \in Row /\ row.status = again
        BY <1>2, <2>3, <4>1, RowFields
      <4> PICK R : R = [rows EXCEPT ![i] = row]
        OBVIOUS
      <4>3. [rows EXCEPT ![i].status = again, ![i].retries = @ + 1] = R
        BY <1>1, <1>2, RowsType
      <4>4. rows' \in {R, WithFallback(R, i)}
        BY <1>7, <2>3, <3>2, <4>3 DEF Commit
      <4>5. rows' \in {[rows EXCEPT ![i] = row], WithFallback([rows EXCEPT ![i] = row], i)}
        BY <4>4
      <4>6. row.status # "started"
        BY <4>1, <4>2
      <4> QED
        BY <4>2, <4>5, <4>6, Zenon
    <3> QED
      BY <3>1, <3>2
  <2>5. PICK R \in Seq(Row) : /\ DOMAIN R = DOMAIN rows /\ rows' \in {R, WithFallback(R, i)}
                              /\ R[i].status # "started"
                              /\ \A j \in DOMAIN rows : j # i => R[j].status = rows[j].status
    <3> PICK Q : Q = [rows EXCEPT ![i] = row]
      OBVIOUS
    <3>1. /\ Q \in Seq(Row) /\ DOMAIN Q = DOMAIN rows
          /\ \A j \in DOMAIN rows : Q[j] = IF j = i THEN row ELSE rows[j]
      BY <1>1, <1>2, RowWritten
    <3> QED
      BY <1>2, <2>4, <3>1
  <2>6. \A j \in DOMAIN rows' : rows'[j].status = "started" =>
          j \in DOMAIN rows /\ j # i /\ rows[j].status = "started"
    BY <1>1, <1>2, <2>5, StrandedAdded
  <2>7. i \notin Stranded'
    BY <2>6 DEF Stranded
  <2> QED
    BY <1>3, <2>1, <2>2, <2>6, <2>7
<1> QED
  BY <1>4, <1>5, <1>6, <1>7 DEF SenderNext

\* At each step the rows left behind grow by no more than the rollbacks.
LEMMA StrandedStep ==
  ASSUME SendInv, [Next]_vars
  PROVE  \/ Stranded' \subseteq Stranded /\ crashes' = crashes
         \/ (\E a : Stranded' \subseteq Stranded \cup {a}) /\ crashes' = crashes + 1
<1>1. CASE UNCHANGED vars \/ Age \/ \E r \in Resources : HealthChange(r) \/ SilenceChange(r)
  BY <1>1 DEF vars, Age, HealthChange, SilenceChange, Stranded
<1>2. ASSUME NEW w \in Senders, Crash(w)
      PROVE  (\E a : Stranded' \subseteq Stranded \cup {a}) /\ crashes' = crashes + 1
  <2>1. /\ UNCHANGED rows /\ crashes' = crashes + 1 /\ tasks' = [tasks EXCEPT ![w] = Idle]
        /\ TypeOK
    BY <1>2 DEF Crash, SendInv
  <2>2. \A v \in Senders : v # w => tasks'[v] = tasks[v]
    BY <2>1, TaskLeft
  <2> PICK i : i = tasks[w].row
    OBVIOUS
  <2>3. Stranded' \subseteq Stranded \cup {i}
    BY <2>1, <2>2, StrandedTouched
  <2> QED
    BY <2>1, <2>3
<1>3. ASSUME NEW i \in DOMAIN rows, StartRun(i)
      PROVE  Stranded' \subseteq Stranded /\ crashes' = crashes
  <2>1. TypeOK /\ UNCHANGED <<tasks, crashes>>
    BY <1>3 DEF StartRun, SendInv
  <2>2. PICK v \in {"pending_playbook_completion", "error"} :
          rows' \in {[rows EXCEPT ![i].status = v], WithFallback([rows EXCEPT ![i].status = v], i)}
    BY <1>3 DEF StartRun
  <2> PICK R : R = [rows EXCEPT ![i].status = v]
    OBVIOUS
  <2>3. v \in Status /\ v # "started"
    BY DEF Status
  <2>4. /\ R \in Seq(Row) /\ DOMAIN R = DOMAIN rows /\ R[i].status = v
        /\ \A j \in DOMAIN rows : j # i => R[j] = rows[j]
    BY <2>1, <2>3, StatusSet
  <2>5. \A j \in DOMAIN rows' : rows'[j].status = "started" =>
          j \in DOMAIN rows /\ j # i /\ rows[j].status = "started"
    BY <2>1, <2>2, <2>3, <2>4, StrandedAdded
  <2> QED
    BY <2>1, <2>5 DEF Stranded
<1> QED
  BY <1>1, <1>2, <1>3, IntakeStrands, TakingStrands, SenderStrands DEF Next

\* However many jobs and consumers there are, a row is sent once, and once more
\* for every transaction rolled back, and every row that stays "started" has such a
\* transaction, or a save that failed, of its own to blame (events.go, job.go).
THEOREM CrashesExplainCorrect == Spec => []CrashesExplain
<1> DEFINE Explained == IsFiniteSet(Stranded) /\ Cardinality(Stranded) <= crashes
<1>1. Init => Explained
  <2> SUFFICES ASSUME Init PROVE Explained
    OBVIOUS
  <2>1. Stranded = {}
    BY DEF Init, Stranded
  <2> QED
    BY <2>1, FS_EmptySet DEF Init
<1>2. SendInv /\ Explained /\ [Next]_vars => Explained'
  <2> SUFFICES ASSUME SendInv, Explained, [Next]_vars PROVE Explained'
    OBVIOUS
  <2>1. crashes \in Nat
    BY BoundsAssumption DEF SendInv, TypeOK
  <2>2. Cardinality(Stranded) \in Nat
    BY FS_CardinalityType
  <2>3. CASE Stranded' \subseteq Stranded /\ crashes' = crashes
    <3>1. IsFiniteSet(Stranded') /\ Cardinality(Stranded') <= Cardinality(Stranded)
      BY <2>3, FS_Subset
    <3>2. Cardinality(Stranded') \in Nat
      BY <3>1, FS_CardinalityType
    <3> QED
      BY <2>1, <2>2, <2>3, <3>1, <3>2
  <2>4. CASE (\E a : Stranded' \subseteq Stranded \cup {a}) /\ crashes' = crashes + 1
    <3>1. PICK a : Stranded' \subseteq Stranded \cup {a}
      BY <2>4
    <3>2. /\ IsFiniteSet(Stranded \cup {a})
          /\ Cardinality(Stranded \cup {a}) <= Cardinality(Stranded) + 1
          /\ Cardinality(Stranded \cup {a}) \in Nat
      BY <2>2, FS_AddElement
    <3>3. IsFiniteSet(Stranded') /\ Cardinality(Stranded') <= Cardinality(Stranded \cup {a})
      BY <3>1, <3>2, FS_Subset
    <3>4. Cardinality(Stranded') \in Nat
      BY <3>3, FS_CardinalityType
    <3> QED
      BY <2>1, <2>2, <2>4, <3>2, <3>3, <3>4
  <2> QED
    BY <2>3, <2>4, StrandedStep
<1>3. SendInv /\ Explained => CrashesExplain
  BY DEF SendInv, CrashesExplain
<1> HIDE DEF Explained
<1> QED
  BY <1>1, <1>2, <1>3, SendInvCorrect, PTL DEF Spec

\* The failures of a row and one refused playbook bound the fallback attempts
\* it generates, for every limit of the retries.
THEOREM FallbacksBoundedCorrect == Spec => []FallbacksBounded
<1>1. ASSUME SendInv
      PROVE  FallbacksBounded
  <2>1. ASSUME NEW p \in DOMAIN rows
        PROVE  Cardinality({i \in DOMAIN rows : rows[i].parent = p})
                 <= MaxRetries + (IF WithPlaybook THEN 1 ELSE 0)
    <3>1. PICK c : c = Cardinality(Children(p))
      OBVIOUS
    <3>2. rows[p].retries \in 0 .. MaxRetries /\ MaxRetries \in Nat
      BY <1>1, RowsType, BoundsAssumption DEF SendInv
    <3>3. c <= Allowed(p) /\ c \in Nat
      <4>1. IsFiniteSet(DOMAIN rows) /\ Children(p) \subseteq DOMAIN rows
        BY <1>1, RowsType, FS_Interval DEF SendInv, Children
      <4>2. c \in Nat
        BY <3>1, <4>1, FS_Subset, FS_CardinalityType
      <4> QED
        BY <1>1, <3>1, <4>2 DEF SendInv, Parented
    <3>4. c <= MaxRetries + (IF WithPlaybook THEN 1 ELSE 0)
      BY <3>2, <3>3 DEF Allowed
    <3> QED
      BY <3>1, <3>4 DEF Children
  <2> QED
    BY <2>1 DEF FallbacksBounded, WithPlaybook
<1> QED
  BY <1>1, SendInvCorrect, PTL

\* A row that was skipped or blocked, and a message that was sent or refused
\* for good, keeps its status in every step.
THEOREM SettledStaysCorrect == Spec => SettledStays
<1>1. ASSUME SendInv, [Next]_vars, NEW i \in DOMAIN rows, Settled(i)
      PROVE  rows'[i].status = rows[i].status
  <2>1. /\ TypeOK /\ rows[i].status \notin Queued \cup {"started", "pending_playbook_completion"}
        /\ rows[i].status \in {"sent", "error"} => ~WithPlaybook
    BY <1>1 DEF SendInv, Settled, Blocked, Queued, WithPlaybook
  <2>2. ASSUME NEW R \in Seq(Row), NEW j, rows' \in {R, WithFallback(R, j)},
               DOMAIN R = DOMAIN rows, R[i].status = rows[i].status
        PROVE  rows'[i].status = rows[i].status
    <3>1. CASE rows' = R
      BY <2>2, <3>1
    <3>2. CASE rows' # R
      <4>1. PICK row : rows' = Append(R, row)
        BY <2>2, <3>2 DEF WithFallback
      <4> QED
        BY <2>2, <4>1
    <3> QED
      BY <3>1, <3>2
  <2>3. ASSUME NEW j \in DOMAIN rows, j # i, NEW v \in Status,
               rows' = [rows EXCEPT ![j].status = v]
        PROVE  rows'[i].status = rows[i].status
    BY <2>1, <2>3, RowsType
  <2>4. CASE UNCHANGED rows
    BY <2>4
  <2>5. CASE \E row : rows' = Append(rows, row)
    BY <2>1, <2>5, RowsType
  <2>6. ASSUME NEW w \in Senders, NEW j \in DOMAIN rows, TakePending(w, j)
        PROVE  rows'[i].status = rows[i].status
    <3>1. j # i
      BY <2>1, <2>6 DEF TakePending, Taken, Queued
    <3>2. rows' = rows \/ \E v \in Status : rows' = [rows EXCEPT ![j].status = v]
      <4>1. {"evaluating-waitfor", "skipped"} \cup Blocked \subseteq Status
        BY DEF Status, Queued
      <4>2. Blocker(rows[j].res, rows[j].event) \in Blocked \cup {""}
        BY DEF Blocker, Blocked
      <4> QED
        BY <2>6, <4>1, <4>2 DEF TakePending
    <3> QED
      BY <2>3, <3>1, <3>2
  <2>7. ASSUME NEW w \in Senders, SenderNext(w)
        PROVE  rows'[i].status = rows[i].status
    <3> PICK j : j = tasks[w].row
      OBVIOUS
    <3>1. tasks[w] # Idle
      BY <2>1, <2>7, TasksType DEF SenderNext, Deliver, EndLog, Ack, Commit, Phase
    <3>2. /\ Busy(w) /\ tasks[w] \in Task /\ j \in DOMAIN rows
          /\ tasks[w].kind = "event" => EventTask(tasks[w], rows[j], j \in runEvents)
          /\ tasks[w].kind \in Jobs => JobTask(tasks[w], rows[j], crashes)
      BY <1>1, <3>1, HeldRow DEF Busy
    <3>3. CASE Deliver(w)
      <4>1. rows' = rows \/ rows' = [rows EXCEPT ![j].delivered = @ + 1]
        BY <3>3 DEF Deliver
      <4>2. CASE rows' = [rows EXCEPT ![j].delivered = @ + 1]
        <5>1. rows[j] \in Row
          BY <2>1, <3>2, RowsType
        <5> PICK row : row = [rows[j] EXCEPT !.delivered = @ + 1]
          OBVIOUS
        <5>2. row \in Row /\ row.status = rows[j].status
          BY <5>1, RowFields
        <5>3. rows' = [rows EXCEPT ![j] = row]
          BY <2>1, <3>2, <4>2, RowsType
        <5> QED
          BY <2>1, <3>2, <5>2, <5>3, RowWritten
      <4> QED
        BY <4>1, <4>2
    <3>4. CASE EndLog(w)
      <4>1. j # i
        BY <2>1, <3>2, <3>4 DEF EndLog, EventTask, Phase, Outcome
      <4>2. PICK v : v = Outcome[tasks[w].phase]
        OBVIOUS
      <4>3. v \in Status
        BY <3>4, <4>2 DEF EndLog, Phase, Outcome, Status
      <4>4. rows' = rows \/ rows' = [rows EXCEPT ![j].status = v]
        BY <3>4, <4>2 DEF EndLog
      <4> QED
        BY <2>3, <2>4, <3>2, <4>1, <4>3, <4>4
    <3>5. CASE Ack(w)
      BY <2>4, <3>5 DEF Ack
    <3>6. CASE Commit(w)
      <4>1. j # i
        BY <2>1, <3>2, <3>6 DEF Commit, JobTask, Jobs
      <4>2. PICK R \in Seq(Row) : /\ rows' \in {R, WithFallback(R, j)}
                                  /\ DOMAIN R = DOMAIN rows /\ R[i].status = rows[i].status
        <5>1. PICK row \in Row : LET Q == [rows EXCEPT ![j] = row] IN rows' \in {Q, WithFallback(Q, j)}
          <6>1. rows[j] \in Row /\ rows[j].retries < MaxRetries /\ ~(rows[j].retries >= MaxRetries)
            <7>1. rows[j] \in Row /\ rows[j].retries \in Nat /\ rows[j].retries < MaxRetries
              BY <2>1, <3>2, <3>6, RowsType DEF Commit, JobTask, Jobs
            <7> QED
              BY <7>1, BoundsAssumption
          <6>2. ASSUME NEW v \in Status
                PROVE  /\ [rows[j] EXCEPT !.status = v] \in Row
                       /\ [rows[j] EXCEPT !.status = v, !.retries = @ + 1] \in Row
            BY <6>1, RowFields
          <6>3. {"sent", "pending", "attempting_fallback"} \subseteq Status
            BY DEF Status, Queued
          <6>4. ASSUME NEW v
                PROVE  /\ [rows EXCEPT ![j].status = v] = [rows EXCEPT ![j] = [rows[j] EXCEPT !.status = v]]
                       /\ [rows EXCEPT ![j].status = v, ![j].retries = @ + 1]
                            = [rows EXCEPT ![j] = [rows[j] EXCEPT !.status = v, !.retries = @ + 1]]
            BY <2>1, <3>2, RowsType
          <6>5. \E v \in Status : LET Q == [rows EXCEPT ![j] = [rows[j] EXCEPT !.status = v]]
                                    Q1 == [rows EXCEPT ![j] = [rows[j] EXCEPT !.status = v, !.retries = @ + 1]]
                                IN rows' \in {Q, WithFallback(Q, j), Q1, WithFallback(Q1, j)}
            <7>1. CASE tasks[w].phase # "failed"
              <8>1. rows' = [rows EXCEPT ![j].status = "sent"]
                BY <3>6, <7>1 DEF Commit
              <8>2. rows' = [rows EXCEPT ![j] = [rows[j] EXCEPT !.status = "sent"]]
                BY <6>4, <8>1
              <8> QED
                BY <6>3, <8>2
            <7>2. CASE tasks[w].phase = "failed"
              <8> PICK v : v = IF tasks[w].kind = "pending" THEN "pending" ELSE "attempting_fallback"
                OBVIOUS
              <8>1. rows' \in {[rows EXCEPT ![j].status = v, ![j].retries = @ + 1],
                               WithFallback([rows EXCEPT ![j].status = v, ![j].retries = @ + 1], j)}
                BY <3>6, <6>1, <7>2 DEF Commit
              <8>2. v \in Status
                BY <6>3
              <8> PICK Q : Q = [rows EXCEPT ![j] = [rows[j] EXCEPT !.status = v, !.retries = @ + 1]]
                OBVIOUS
              <8>3. [rows EXCEPT ![j].status = v, ![j].retries = @ + 1] = Q
                BY <6>4
              <8>4. rows' \in {Q, WithFallback(Q, j)}
                BY <8>1, <8>3
              <8> QED
                BY <8>2, <8>4
            <7> QED
              BY <7>1, <7>2
          <6> QED
            BY <6>2, <6>5
        <5>2. [rows EXCEPT ![j] = row] \in Seq(Row) /\ DOMAIN [rows EXCEPT ![j] = row] = DOMAIN rows
              /\ [rows EXCEPT ![j] = row][i] = rows[i]
          BY <2>1, <3>2, <4>1, RowWritten
        <5> QED
          BY <5>1, <5>2
      <4> QED
        BY <2>2, <4>2
    <3> QED
      BY <2>7, <3>3, <3>4, <3>5, <3>6 DEF SenderNext
  <2>8. ASSUME NEW j \in DOMAIN rows, StartRun(j)
        PROVE  rows'[i].status = rows[i].status
    <3>1. Waits(j) /\ j # i
      <4>1. Waits(j)
        BY <1>1, <2>8 DEF StartRun, SendInv, Triggered
      <4> QED
        BY <1>1, <2>1, <4>1 DEF Waits, Settled, Blocked
    <3>2. PICK v \in {"pending_playbook_completion", "error"} :
            rows' \in {[rows EXCEPT ![j].status = v], WithFallback([rows EXCEPT ![j].status = v], j)}
      BY <2>8 DEF StartRun
    <3>3. PICK R \in Seq(Row) : /\ rows' \in {R, WithFallback(R, j)}
                                /\ DOMAIN R = DOMAIN rows /\ R[i].status = rows[i].status
      <4>1. v \in Status
        BY DEF Status
      <4> PICK Q : Q = [rows EXCEPT ![j].status = v]
        OBVIOUS
      <4>2. PICK n \in Nat : n = Len(rows) /\ DOMAIN rows = 1 .. n
        BY <2>1, RowsType
      <4>3. Q \in Seq(Row) /\ DOMAIN Q = 1 .. n /\ \A k \in 1 .. n : k # j => Q[k] = rows[k]
        BY <2>1, <4>1, <4>2, StatusSet
      <4> QED
        BY <3>1, <3>2, <4>2, <4>3
    <3> QED
      BY <2>2, <3>3
  <2>9. CASE UNCHANGED vars
    BY <2>4, <2>9 DEF vars
  <2>10. CASE \/ \E r \in Resources : HealthChange(r) \/ SilenceChange(r)
              \/ Age
              \/ \E e \in Event : SaveSend(e)
              \/ \E w \in Senders : Crash(w) \/ \E j \in DOMAIN rows : TakeFallback(w, j)
    BY <2>4, <2>10 DEF HealthChange, SilenceChange, Age, SaveSend, Crash, TakeFallback
  <2>11. CASE \/ \E e \in Event : AddNotificationEvent(e) \/ SavePending(e)
              \/ \E w \in Senders : \E s \in sends : TakeSend(w, s)
    BY <2>4, <2>5, <2>11 DEF AddNotificationEvent, SaveUnsent, SavePending, TakeSend
  <2> QED
    BY <1>1, <2>6, <2>7, <2>8, <2>9, <2>10, <2>11 DEF Next
<1>2. SendInv /\ [Next]_vars => [\A i \in DOMAIN rows : Settled(i) => rows'[i].status = rows[i].status]_vars
  BY <1>1
<1> QED
  BY SendInvCorrect, <1>2, PTL DEF Spec, SettledStays

=============================================================================
