------------------------ MODULE PluginRegistryProofs ------------------------
(***************************************************************************)
(* The theorems of PluginRegistry, for every number of plugins, names,     *)
(* versions, upgrade requests, runtimes and jobs.                          *)
(***************************************************************************)
EXTENDS PluginRegistry, TLAPS

Reg == {i \in Ids : Registered(i)}
RunAt == [i \in Ids |-> RunOf(i)]
Starting == {"start", "path", "set", "launch", "unset"}

(***************************************************************************)
(* Who does what: only the reconciler saves, deletes and rolls back, what  *)
(* it reconciles has its row and, once saved, its entry; and of the stale  *)
(* entries it deletes none is left registered that is not on its list.     *)
(* (k is a worker's record, reg what is registered and ids the rows.)      *)
(* What a start installs is a version.                                     *)
(***************************************************************************)
Persisting(w, k, reg, ids) ==
  /\ k.job = "persist" /\ w = Reconciler /\ k.pc \in Starting \cup {"upsert", "pop", "stop", "undo"}
  /\ k.id \in Crds \cap ids /\ k.ask \in Specs
  /\ k.pc # "upsert" => k.id \in reg
RollingBack(w, k, reg, ids) ==
  /\ k.job = "rollback" /\ w = Reconciler /\ k.pc \in Starting
  /\ k.id \in Crds \cap ids \cap reg
Deleting(w, k, reg) ==
  /\ k.job = "delete" /\ w = Reconciler /\ k.pc \in {"pop", "stop", "remove", "row"}
  /\ k.id \in Crds /\ k.todo = {}
  /\ k.pc = "row" => k.id \notin reg
Stale(k) == Crds \cap Namesakes(k.newer)
DeletingStale(w, k, reg) ==
  /\ k.job = "stale" /\ w = Reconciler /\ k.pc \in {"pop", "stop", "remove", "row"}
  /\ k.pc = "row" => k.todo = {}
  /\ k.pc # "row" => k.id \in Ids
  /\ Stale(k) \cap reg \subseteq k.todo \cup (IF k.pc = "row" THEN {} ELSE {k.id})
Upgrading(w, k) ==
  /\ k.job = "upgrade" /\ w \in Upgraders /\ k.pc \in Starting \cup {"resolve", "pop", "stop", "prune"}
  /\ k.id \in Crds
BusyAs(w, k, reg, ids) ==
  /\ k.pc = "path" => k.at \in Versions
  /\ \/ k.pc = "idle" \/ Persisting(w, k, reg, ids) \/ RollingBack(w, k, reg, ids)
     \/ Deleting(w, k, reg) \/ DeletingStale(w, k, reg) \/ Upgrading(w, k)
Busy == \A w \in Workers : BusyAs(w, work[w], Reg, rows)

(***************************************************************************)
(* Runtimes: the one in an entry was made for it; the one a worker stops   *)
(* has been taken out; the one it launches was made for what it starts.    *)
(***************************************************************************)
EntryRuns == \A i \in Ids : RunAt[i] # 0 => RunAt[i] \in 1 .. created /\ runtime[RunAt[i]].of = i
MineAs(k, run, rt, made) ==
  /\ k.mine \in 0 .. made
  /\ k.pc = "stop" /\ k.mine # 0 => \A i \in Ids : run[i] # k.mine
  /\ k.pc \in {"launch", "unset"} => k.mine # 0 /\ rt[k.mine].of = k.id
Mines == \A w \in Workers : MineAs(work[w], RunAt, runtime, created)
Routed == \A i \in Ids : RunAt[i] # 0 /\ runtime[RunAt[i]].state = "down" =>
  \E w \in Workers : work[w].pc = "unset" /\ work[w].mine = RunAt[i]

Persisted == Reg \cap Crds \subseteq rows

RegistryInv == TypeOK /\ Busy /\ RefsExact /\ Persisted /\ EntryRuns /\ Mines /\ Routed

\* The parts of the type.
Runtime == [of : Crds \cup {None}, state : {"free", "new", "up", "down"}, at : Versions \cup Addresses \cup {None}]
EntriesType ==
  /\ entries \in [Ids -> Entry \cup {None}]
  /\ \A i \in Crds : Registered(i) => entries[i].spec # None
  /\ refs \in [Names -> Ids \cup {None}]
RestType ==
  /\ rows \subseteq Crds /\ runtime \in [Runtimes -> Runtime] /\ created \in 0 .. MaxRuntimes
  /\ latest \in Versions /\ disk \subseteq {Source[i] : i \in Crds} \X Versions
  /\ work \in [Workers -> Work] /\ jobs \in 0 .. MaxJobs

\* The type, in parts.
LEMMA TypeParts == TypeOK <=> EntriesType /\ RestType
  BY DEF TypeOK, EntriesType, RestType, Runtime

\* Nothing is registered at first.
LEMMA RegistryInit == Init => RegistryInv
<1> SUFFICES ASSUME Init PROVE RegistryInv
  OBVIOUS
<1> USE ConstantsAssumption DEF Init
<1>0. Reg = {} /\ RunAt = [i \in Ids |-> 0]
  BY DEF Reg, RunAt, RunOf, Registered
<1>1. TypeOK
  <2>1. Idle \in Work
    BY DEF Idle, Work, PCs
  <2>2. Free \in Runtime
    BY DEF Free, Runtime
  <2>3. EntriesType
    <3>1. \A i \in Crds : ~Registered(i)
      BY DEF Registered, Ids
    <3> QED BY <3>1 DEF EntriesType
  <2>4. RestType
    <3>1. runtime \in [Runtimes -> Runtime] /\ work \in [Workers -> Work]
      BY <2>1, <2>2
    <3> QED BY <3>1 DEF RestType
  <2> QED BY <2>3, <2>4, TypeParts
<1>2. Busy /\ Persisted
  BY <1>0 DEF Busy, BusyAs, Idle, Persisted
<1>3. RefsExact
  BY DEF RefsExact, Registered
<1>4. EntryRuns /\ Mines /\ Routed
  BY <1>0 DEF EntryRuns, Mines, MineAs, Routed, Idle
<1> QED BY <1>1, <1>2, <1>3, <1>4 DEF RegistryInv
----------------------------------------------------------------------------
(* What the methods of the registry do.                                    *)

\* An upsert registers, keeps all runtimes, and the references exact, as long
\* as the name is free or the entry's own.
LEMMA UpsertEffect ==
  ASSUME TypeOK, RefsExact, NEW i \in Ids, NEW spec \in Specs \cup {None}, Upsert(i, spec),
         Upsertable(i) \/ Registered(i), spec # None \/ i \in Proxied
  PROVE  EntriesType' /\ RefsExact' /\ Reg' = Reg \cup {i} /\ RunAt' = RunAt
<1> USE ConstantsAssumption, NoneAssumption
<1> DEFINE e == IF Registered(i) THEN [entries[i] EXCEPT !.spec = spec] ELSE [spec |-> spec, path |-> None, run |-> 0]
<1>1. entries' = [entries EXCEPT ![i] = e] /\ refs' = [refs EXCEPT ![Name[i]] = i]
  BY DEF Upsert
<1>2. e \in Entry /\ e.spec = spec /\ e.run = RunOf(i)
  BY DEF TypeOK, Registered, Entry, RunOf
<1> HIDE DEF e
<1>3. entries' \in [Ids -> Entry \cup {None}] /\ entries'[i] = e /\ e # None /\ \A j \in Ids \ {i} : entries'[j] = entries[j]
  BY <1>1, <1>2 DEF TypeOK
<1>4. EntriesType'
  BY <1>1, <1>2, <1>3 DEF TypeOK, EntriesType, Registered
<1>5. Reg' = Reg \cup {i}
  BY <1>3 DEF Reg, Registered
<1>6. RunAt' = RunAt
  <2>1. \A j \in Ids : RunOf(j)' = RunOf(j)
    BY <1>2, <1>3 DEF RunOf, Registered
  <2> QED BY <2>1 DEF RunAt
<1>7. RefsExact'
  BY <1>1, <1>3 DEF RefsExact, Registered, Upsertable, TypeOK
<1> QED BY <1>4, <1>5, <1>6, <1>7

\* A removal removes the entry, its runtime and its reference, and no other.
LEMMA RemoveEffect ==
  ASSUME TypeOK, RefsExact, NEW i \in Ids, Remove(i)
  PROVE  EntriesType' /\ RefsExact' /\ Reg' = Reg \ {i} /\ RunAt' = [RunAt EXCEPT ![i] = 0]
<1> USE ConstantsAssumption
<1>1. entries' = [entries EXCEPT ![i] = None]
      /\ refs' = [refs EXCEPT ![Name[i]] = IF Registered(i) /\ refs[Name[i]] = i THEN None ELSE refs[Name[i]]]
  BY DEF Remove, WithoutIndex
<1>2. EntriesType'
  BY <1>1 DEF TypeOK, EntriesType, Registered
<1>3. Reg' = Reg \ {i}
  BY <1>1 DEF TypeOK, Reg, Registered
<1>4. RunAt' = [RunAt EXCEPT ![i] = 0]
  <2>1. \A j \in Ids : RunOf(j)' = IF j = i THEN 0 ELSE RunOf(j)
    BY <1>1 DEF TypeOK, RunOf, Registered
  <2> QED BY <2>1 DEF RunAt
<1>5. RefsExact'
  BY <1>1 DEF TypeOK, RefsExact, Registered
<1> QED BY <1>2, <1>3, <1>4, <1>5

\* A step that changes the runtime or the path of an entry alone.
LEMMA EntryEffect ==
  ASSUME TypeOK, RefsExact, UNCHANGED refs, NEW i \in Ids, NEW e \in Entry \cup {None},
         entries' = [entries EXCEPT ![i] = e],
         Registered(i) => e \in Entry /\ e.spec = entries[i].spec, ~Registered(i) => e = None
  PROVE  /\ EntriesType' /\ RefsExact' /\ Reg' = Reg
         /\ RunAt' = [RunAt EXCEPT ![i] = IF Registered(i) THEN e.run ELSE 0]
<1> USE ConstantsAssumption, NoneAssumption
<1>1. entries' \in [Ids -> Entry \cup {None}] /\ entries'[i] = e /\ \A j \in Ids \ {i} : entries'[j] = entries[j]
  BY DEF TypeOK
<1>2. \A j \in Ids : Registered(j)' <=> Registered(j)
  BY <1>1 DEF Registered
<1>3. EntriesType'
  BY <1>1 DEF TypeOK, EntriesType, Registered
<1>4. RunAt' = [RunAt EXCEPT ![i] = IF Registered(i) THEN e.run ELSE 0]
  <2>1. \A j \in Ids : RunOf(j)' = IF j = i /\ Registered(i) THEN e.run ELSE IF j = i THEN 0 ELSE RunOf(j)
    BY <1>1 DEF RunOf, Registered
  <2> QED BY <2>1 DEF RunAt
<1>5. Reg' = Reg
  BY <1>2 DEF Reg
<1>6. RefsExact'
  BY <1>1 DEF TypeOK, RefsExact, Registered
<1> QED BY <1>3, <1>4, <1>5, <1>6

\* PopRuntime takes the runtime out, if there is one.
LEMMA PopEffect ==
  ASSUME TypeOK, RefsExact, UNCHANGED refs, NEW i \in Ids, PopRuntime(i)
  PROVE  EntriesType' /\ RefsExact' /\ Reg' = Reg /\ RunAt' = [RunAt EXCEPT ![i] = 0]
<1> DEFINE e == IF Registered(i) THEN [entries[i] EXCEPT !.run = 0] ELSE None
<1>1. entries' = [entries EXCEPT ![i] = e]
  BY DEF PopRuntime
<1>2. e \in Entry \cup {None} /\ (Registered(i) => e \in Entry /\ e.spec = entries[i].spec /\ e.run = 0)
  <2>1. CASE Registered(i)
    <3>1. entries[i] \in Entry
      BY <2>1 DEF TypeOK, Registered
    <3> QED BY <2>1, <3>1, ConstantsAssumption DEF Entry
  <2> QED BY <2>1
<1>3. ~Registered(i) => e = None
  OBVIOUS
<1> HIDE DEF e
<1>4. RunAt' = [RunAt EXCEPT ![i] = IF Registered(i) THEN e.run ELSE 0] /\ EntriesType' /\ RefsExact' /\ Reg' = Reg
  BY <1>1, <1>2, <1>3, EntryEffect
<1> QED BY <1>2, <1>4

\* Steps that leave the entries alone.
LEMMA SameEffect ==
  ASSUME TypeOK, RefsExact, UNCHANGED <<entries, refs>>
  PROVE  EntriesType' /\ RefsExact' /\ Reg' = Reg /\ RunAt' = RunAt
  BY DEF TypeOK, EntriesType, RefsExact, Reg, RunAt, RunOf, Registered
----------------------------------------------------------------------------
(* What a step of a worker leaves true of the others.                      *)

\* The upgraders do not touch what the reconciler relies on.
LEMMA BusyKept ==
  ASSUME Busy, NEW w \in Workers, NEW k, work' = [work EXCEPT ![w] = k], work \in [Workers -> Work],
         w = Reconciler \/ (Reg' = Reg /\ rows' = rows),
         BusyAs(w, k, Reg', rows')
  PROVE  Busy'
<1> SUFFICES ASSUME NEW v \in Workers PROVE BusyAs(v, work'[v], Reg', rows')
  BY DEF Busy
<1>1. CASE v = w
  BY <1>1
<1>2. CASE v # w /\ Reg' = Reg /\ rows' = rows
  BY <1>2 DEF Busy
<1>3. CASE v # w /\ w = Reconciler
  <2>1. BusyAs(v, work[v], Reg, rows) /\ work'[v] = work[v]
    BY <1>3 DEF Busy
  <2> QED BY <1>3, <2>1 DEF BusyAs, Persisting, RollingBack, Deleting, DeletingStale
<1> QED BY <1>1, <1>2, <1>3

\* New runtimes are none that a worker has, and those that there were stay
\* whose they are.
LEMMA MinesKept ==
  ASSUME TypeOK, Mines, NEW w \in Workers, NEW k, work' = [work EXCEPT ![w] = k],
         created' \in Nat, created <= created',
         \A s \in 1 .. created : runtime'[s].of = runtime[s].of,
         \A i \in Ids : RunAt'[i] \in {0, RunAt[i]} \/ RunAt'[i] > created,
         MineAs(k, RunAt', runtime', created')
  PROVE  Mines'
<1> SUFFICES ASSUME NEW v \in Workers PROVE MineAs(work'[v], RunAt', runtime', created')
  BY DEF Mines
<1>1. CASE v = w
  BY <1>1 DEF TypeOK
<1>2. CASE v # w
  <2>1. work'[v] = work[v] /\ MineAs(work[v], RunAt, runtime, created) /\ created \in Nat
    BY <1>2 DEF Mines, TypeOK
  <2> QED BY <2>1 DEF MineAs
<1> QED BY <1>1, <1>2
----------------------------------------------------------------------------
(* Steps that neither make, stop nor launch a runtime.                     *)

\* Such a step may take runtimes out of entries, but not one that its worker
\* is about to take out because its start has failed.
LEMMA QuietStep ==
  ASSUME RegistryInv, NEW w \in Workers, NEW k \in Work, work' = [work EXCEPT ![w] = k],
         work[w].pc # "unset", k.pc \notin {"stop", "launch", "unset"}, k.mine \in {0, work[w].mine},
         UNCHANGED <<runtime, created>>, EntriesType', RefsExact',
         \A i \in Ids : RunAt'[i] \in {0, RunAt[i]},
         w = Reconciler \/ (Reg' = Reg /\ rows' = rows), BusyAs(w, k, Reg', rows'), Reg' \cap Crds \subseteq rows',
         rows' \subseteq Crds, latest' \in Versions, disk' \subseteq {Source[i] : i \in Crds} \X Versions,
         jobs' \in 0 .. MaxJobs
  PROVE  RegistryInv'
<1> USE DEF RegistryInv
<1>1. TypeOK'
  <2>1. RestType
    BY TypeParts
  <2>2. RestType'
    BY <2>1 DEF RestType
  <2>3. (TypeOK <=> EntriesType /\ RestType)'
    BY TypeParts, PTL
  <2> QED BY <2>2, <2>3
<1>2. Busy'
  BY BusyKept DEF TypeOK
<1>3. EntryRuns'
  BY DEF EntryRuns
<1>4. Mines'
  <2>1. created \in Nat /\ work[w].mine \in 0 .. created
    BY ConstantsAssumption DEF TypeOK, Mines, MineAs
  <2>2. MineAs(k, RunAt', runtime', created')
    BY <2>1 DEF MineAs
  <2>3. /\ created' \in Nat /\ created <= created' /\ \A s \in 1 .. created : runtime'[s].of = runtime[s].of
        /\ \A i \in Ids : RunAt'[i] \in {0, RunAt[i]} \/ RunAt'[i] > created
    BY <2>1
  <2>4. TypeOK /\ Mines
    OBVIOUS
  <2> HIDE DEF RegistryInv
  <2> QED BY <2>2, <2>3, <2>4, MinesKept
<1>5. Routed'
  <2>1. ASSUME NEW i \in Ids, RunAt'[i] # 0, runtime'[RunAt'[i]].state = "down"
        PROVE  \E v \in Workers : work'[v].pc = "unset" /\ work'[v].mine = RunAt'[i]
    <3>1. PICK v \in Workers : work[v].pc = "unset" /\ work[v].mine = RunAt[i]
      BY <2>1 DEF Routed
    <3> QED BY <2>1, <3>1 DEF TypeOK
  <2> QED BY <2>1 DEF Routed
<1> QED BY <1>1, <1>2, <1>3, <1>4, <1>5 DEF Persisted

\* What remains of a job that has failed, that has ended, or that goes on with
\* the next stale entry.
LEMMA FailedRecord ==
  ASSUME RegistryInv, NEW w \in Workers, work[w].pc \in Starting, Failed(w)
  PROVE  \E k \in Work : /\ work' = [work EXCEPT ![w] = k] /\ k.pc \in {"undo", "idle"}
                         /\ k.mine \in {0, work[w].mine} /\ BusyAs(w, k, Reg, rows)
<1>1. work[w] \in Work /\ BusyAs(w, work[w], Reg, rows)
  BY DEF RegistryInv, TypeOK, Busy
<1>2. CASE work[w].job = "persist"
  <2> DEFINE k == [work[w] EXCEPT !.pc = "undo"]
  <2>1. k \in Work /\ k.pc = "undo" /\ k.mine = work[w].mine /\ k.job = "persist" /\ k.id = work[w].id /\ k.ask = work[w].ask
    BY <1>1, <1>2 DEF Work, PCs
  <2>2. work' = [work EXCEPT ![w] = k]
    BY <1>2 DEF Failed, Go
  <2>3. Persisting(w, work[w], Reg, rows)
    BY <1>1, <1>2 DEF BusyAs, Persisting, RollingBack, Deleting, DeletingStale, Upgrading, Starting
  <2> HIDE DEF k
  <2>4. BusyAs(w, k, Reg, rows)
    BY <2>1, <2>3 DEF BusyAs, Persisting, Starting
  <2> QED BY <2>1, <2>2, <2>4
<1>3. CASE work[w].job # "persist"
  <2>1. Idle \in Work /\ Idle.pc = "idle" /\ Idle.mine = 0
    BY ConstantsAssumption DEF Idle, Work, PCs
  <2>2. work' = [work EXCEPT ![w] = Idle]
    BY <1>3 DEF Failed, End
  <2> QED BY <2>1, <2>2 DEF BusyAs
<1> QED BY <1>2, <1>3

\* The record a worker has after a start that succeeded.
LEMMA SucceededRecord ==
  ASSUME RegistryInv, NEW w \in Workers, work[w].pc \in Starting, Succeeded(w)
  PROVE  \E k \in Work : /\ work' = [work EXCEPT ![w] = k] /\ k.pc \in {"prune", "idle"}
                         /\ k.mine \in {0, work[w].mine} /\ BusyAs(w, k, Reg, rows)
<1>1. work[w] \in Work /\ BusyAs(w, work[w], Reg, rows)
  BY DEF RegistryInv, TypeOK, Busy
<1>2. CASE work[w].job = "upgrade" /\ work[w].old # None
  <2> DEFINE k == [work[w] EXCEPT !.pc = "prune"]
  <2>1. k \in Work /\ k.pc = "prune" /\ k.mine = work[w].mine /\ k.job = "upgrade" /\ k.id = work[w].id
    BY <1>1, <1>2 DEF Work, PCs
  <2>2. work' = [work EXCEPT ![w] = k]
    BY <1>2 DEF Succeeded, Go
  <2>3. Upgrading(w, work[w])
    BY <1>1, <1>2 DEF BusyAs, Persisting, RollingBack, Deleting, DeletingStale, Upgrading, Starting
  <2> HIDE DEF k
  <2>4. BusyAs(w, k, Reg, rows)
    BY <2>1, <2>3 DEF BusyAs, Upgrading
  <2> QED BY <2>1, <2>2, <2>4
<1>3. CASE ~(work[w].job = "upgrade" /\ work[w].old # None)
  <2>1. Idle \in Work /\ Idle.pc = "idle" /\ Idle.mine = 0
    BY ConstantsAssumption DEF Idle, Work, PCs
  <2>2. work' = [work EXCEPT ![w] = Idle]
    BY <1>3 DEF Succeeded, End
  <2> QED BY <2>1, <2>2 DEF BusyAs
<1> QED BY <1>2, <1>3

\* A worker that has ended is not busy.
LEMMA IdleRecord ==
  ASSUME NEW w, NEW reg, NEW ids
  PROVE  Idle \in Work /\ Idle.pc = "idle" /\ Idle.mine = 0 /\ BusyAs(w, Idle, reg, ids)
  BY ConstantsAssumption DEF Idle, Work, PCs, BusyAs

\* What is left after a step of the rest of the state.
LEMMA Rest ==
  ASSUME RegistryInv
  PROVE  /\ rows \subseteq Crds /\ latest \in Versions /\ disk \subseteq {Source[i] : i \in Crds} \X Versions
         /\ jobs \in 0 .. MaxJobs /\ created \in 0 .. MaxRuntimes /\ runtime \in [Runtimes -> Runtime]
         /\ work \in [Workers -> Work] /\ Reg \cap Crds \subseteq rows /\ TypeOK /\ RefsExact
         /\ \A w \in Workers : BusyAs(w, work[w], Reg, rows) /\ work[w] \in Work
         /\ Reg \subseteq Ids /\ Crds \subseteq Ids /\ RunAt \in [Ids -> 0 .. MaxRuntimes]
<1>1. RunAt \in [Ids -> 0 .. MaxRuntimes]
  <2>1. ASSUME NEW i \in Ids PROVE RunOf(i) \in 0 .. MaxRuntimes
    BY ConstantsAssumption DEF RegistryInv, TypeOK, RunOf, Registered, Entry
  <2> QED BY <2>1 DEF RunAt
<1> QED BY <1>1 DEF RegistryInv, TypeOK, Runtime, Persisted, Busy, Reg, Ids
----------------------------------------------------------------------------
(* The steps of a reconciliation.                                          *)

\* The upsert of an entry leaves its name indexed, or changes nothing.
LEMMA PersistUpsertStep == ASSUME RegistryInv, NEW w \in Workers, PersistUpsert(w) PROVE RegistryInv'
<1>1. TypeOK /\ RefsExact /\ work[w] \in Work /\ BusyAs(w, work[w], Reg, rows) /\ work[w].pc = "upsert"
  BY Rest DEF PersistUpsert, At
<1>2. Persisting(w, work[w], Reg, rows)
  BY <1>1 DEF BusyAs, RollingBack, Deleting, DeletingStale, Upgrading, Starting
<1>3. work[w].job = "persist" /\ w = Reconciler /\ work[w].id \in Crds \cap rows /\ work[w].ask \in Specs /\ work[w].id \in Ids
  BY <1>2 DEF Persisting, Ids
<1>4. CASE Upsertable(work[w].id)
  <2> DEFINE pc == IF BinaryChanged(w) THEN "pop" ELSE "start"
             k == [work[w] EXCEPT !.pc = pc]
  <2>1. Upsert(work[w].id, work[w].ask) /\ work' = [work EXCEPT ![w] = k]
    BY <1>4 DEF PersistUpsert, Id, Go
  <2>2. EntriesType' /\ RefsExact' /\ Reg' = Reg \cup {work[w].id} /\ RunAt' = RunAt
    BY <1>1, <1>3, <1>4, <2>1, ConstantsAssumption, UpsertEffect
  <2>3. k \in Work /\ k.pc \in {"pop", "start"} /\ k.mine = work[w].mine /\ k.job = "persist"
        /\ k.id = work[w].id /\ k.ask = work[w].ask
    BY <1>1, <1>3 DEF Work, PCs
  <2>4. UNCHANGED <<rows, runtime, created, latest, disk, jobs>>
    BY DEF PersistUpsert
  <2> HIDE DEF k
  <2>5. BusyAs(w, k, Reg', rows')
    BY <1>3, <2>2, <2>3, <2>4 DEF BusyAs, Persisting, Starting
  <2>6. Reg' \cap Crds \subseteq rows'
    BY <1>3, <2>2, <2>4, Rest
  <2> QED BY <1>1, <1>3, <2>1, <2>2, <2>3, <2>4, <2>5, <2>6, Rest, QuietStep
<1>5. CASE ~Upsertable(work[w].id)
  <2>1. work' = [work EXCEPT ![w] = Idle] /\ UNCHANGED <<entries, refs, rows, runtime, created, latest, disk, jobs>>
    BY <1>5 DEF PersistUpsert, Id, End
  <2>2. EntriesType' /\ RefsExact' /\ Reg' = Reg /\ RunAt' = RunAt
    BY <1>1, <2>1, SameEffect
  <2> QED BY <1>1, <1>3, <2>1, <2>2, Rest, IdleRecord, QuietStep
<1> QED BY <1>4, <1>5

\* The undo of a failed start takes the entry out, or puts the previous spec back.
LEMMA PersistUndoStep == ASSUME RegistryInv, NEW w \in Workers, PersistUndo(w) PROVE RegistryInv'
<1>1. TypeOK /\ RefsExact /\ work[w] \in Work /\ BusyAs(w, work[w], Reg, rows) /\ work[w].pc = "undo"
  BY Rest DEF PersistUndo, At
<1>2. Persisting(w, work[w], Reg, rows)
  BY <1>1 DEF BusyAs, RollingBack, Deleting, DeletingStale, Upgrading, Starting
<1>3. work[w].job = "persist" /\ w = Reconciler /\ work[w].id \in Crds \cap rows \cap Reg /\ work[w].id \in Ids
  BY <1>1, <1>2 DEF Persisting, Ids
<1>4. UNCHANGED <<rows, runtime, created, latest, disk, jobs>>
  BY DEF PersistUndo
<1>5. CASE work[w].prev = None
  <2>1. Remove(work[w].id) /\ work' = [work EXCEPT ![w] = Idle]
    BY <1>5 DEF PersistUndo, Id, End
  <2>2. EntriesType' /\ RefsExact' /\ Reg' = Reg \ {work[w].id} /\ RunAt' = [RunAt EXCEPT ![work[w].id] = 0]
    BY <1>1, <1>3, <2>1, RemoveEffect
  <2>3. \A i \in Ids : RunAt'[i] \in {0, RunAt[i]}
    BY <2>2, Rest
  <2> QED BY <1>1, <1>3, <1>4, <2>1, <2>2, <2>3, Rest, IdleRecord, QuietStep
<1>6. CASE work[w].prev # None
  <2> DEFINE k == [work[w] EXCEPT !.job = "rollback", !.pc = "start"]
  <2>1. Upsert(work[w].id, work[w].prev) /\ work[w].prev \in Specs
        /\ (work' = [work EXCEPT ![w] = k] \/ work' = [work EXCEPT ![w] = Idle])
    BY <1>1, <1>6 DEF PersistUndo, Id, End, Work
  <2>2. Registered(work[w].id)
    BY <1>3 DEF Reg
  <2>3. EntriesType' /\ RefsExact' /\ Reg' = Reg \cup {work[w].id} /\ RunAt' = RunAt
    BY <1>1, <1>3, <1>6, <2>1, <2>2, UpsertEffect
  <2>4. k \in Work /\ k.pc = "start" /\ k.mine = work[w].mine /\ k.job = "rollback" /\ k.id = work[w].id
    BY <1>1 DEF Work, PCs, Jobs
  <2> HIDE DEF k
  <2>5. BusyAs(w, k, Reg', rows')
    BY <1>3, <1>4, <2>3, <2>4 DEF BusyAs, RollingBack, Starting
  <2>6. Reg' = Reg
    BY <1>3, <2>3
  <2>7. CASE work' = [work EXCEPT ![w] = k]
    BY <1>1, <1>3, <1>4, <2>3, <2>4, <2>5, <2>6, <2>7, Rest, QuietStep
  <2>8. CASE work' = [work EXCEPT ![w] = Idle]
    BY <1>1, <1>3, <1>4, <2>3, <2>6, <2>8, Rest, IdleRecord, QuietStep
  <2> QED BY <2>1, <2>7, <2>8
<1> QED BY <1>5, <1>6

\* A deletion takes the entry out with its name, and keeps the row for the last.
LEMMA DeleteRemoveStep == ASSUME RegistryInv, NEW w \in Workers, DeleteRemove(w) PROVE RegistryInv'
<1>1. TypeOK /\ RefsExact /\ work[w] \in Work /\ BusyAs(w, work[w], Reg, rows) /\ work[w].pc = "remove"
  BY Rest DEF DeleteRemove, At
<1>2. w = Reconciler /\ work[w].id \in Ids /\ (Deleting(w, work[w], Reg) \/ DeletingStale(w, work[w], Reg))
  BY <1>1 DEF BusyAs, Persisting, RollingBack, Deleting, DeletingStale, Upgrading, Starting, Ids
<1>3. UNCHANGED <<rows, runtime, created, latest, disk, jobs>> /\ Remove(work[w].id)
  BY DEF DeleteRemove, Id
<1>4. EntriesType' /\ RefsExact' /\ Reg' = Reg \ {work[w].id} /\ RunAt' = [RunAt EXCEPT ![work[w].id] = 0]
  BY <1>1, <1>2, <1>3, RemoveEffect
<1>5. \A i \in Ids : RunAt'[i] \in {0, RunAt[i]}
  BY <1>4, Rest
<1>6. ASSUME NEW k \in Work, work' = [work EXCEPT ![w] = k], k.pc \in {"row", "pop"}, k.mine = work[w].mine,
             BusyAs(w, k, Reg', rows')
      PROVE  RegistryInv'
  BY <1>1, <1>2, <1>3, <1>4, <1>5, <1>6, Rest, QuietStep
<1>7. CASE work[w].todo = {}
  <2> DEFINE k == [work[w] EXCEPT !.pc = "row"]
  <2>1. work' = [work EXCEPT ![w] = k]
    BY <1>7 DEF DeleteRemove, NextStale, Go
  <2>2. k \in Work /\ k.pc = "row" /\ k.mine = work[w].mine /\ k.job = work[w].job /\ k.id = work[w].id
        /\ k.todo = work[w].todo /\ k.newer = work[w].newer
    BY <1>1 DEF Work, PCs
  <2> HIDE DEF k
  <2>3. BusyAs(w, k, Reg', rows')
    BY <1>1, <1>2, <1>4, <1>7, <2>2 DEF BusyAs, Deleting, DeletingStale, Stale
  <2> QED BY <1>6, <2>1, <2>2, <2>3
<1>8. CASE work[w].todo # {}
  <2>1. PICK next \in work[w].todo : work' = [work EXCEPT ![w].pc = "pop", ![w].id = next, ![w].todo = @ \ {next}]
    BY <1>8 DEF DeleteRemove, NextStale
  <2> DEFINE k == [work[w] EXCEPT !.pc = "pop", !.id = next, !.todo = work[w].todo \ {next}]
  <2>2. work' = [work EXCEPT ![w] = k]
    BY <1>1, <2>1, Rest DEF Work
  <2>3. next \in Ids
    BY <1>1 DEF Work
  <2>4. k \in Work /\ k.pc = "pop" /\ k.mine = work[w].mine /\ k.job = work[w].job /\ k.id = next
        /\ k.todo = work[w].todo \ {next} /\ k.newer = work[w].newer
    BY <1>1, <2>3 DEF Work, PCs
  <2> HIDE DEF k
  <2>5. DeletingStale(w, work[w], Reg)
    BY <1>2, <1>8 DEF Deleting
  <2>6. BusyAs(w, k, Reg', rows')
    BY <1>1, <1>4, <2>3, <2>4, <2>5 DEF BusyAs, DeletingStale, Stale
  <2> QED BY <1>6, <2>2, <2>4, <2>6
<1> QED BY <1>7, <1>8

\* The rows that go are of plugins that are no longer registered.
LEMMA DeleteRowStep == ASSUME RegistryInv, NEW w \in Workers, DeleteRow(w) PROVE RegistryInv'
<1>1. TypeOK /\ RefsExact /\ work[w] \in Work /\ BusyAs(w, work[w], Reg, rows) /\ work[w].pc = "row"
  BY Rest DEF DeleteRow, At
<1>2. w = Reconciler /\ (Deleting(w, work[w], Reg) \/ DeletingStale(w, work[w], Reg))
  BY <1>1 DEF BusyAs, Persisting, RollingBack, Deleting, DeletingStale, Upgrading, Starting
<1>3. /\ UNCHANGED <<entries, refs, runtime, created, latest, disk, jobs>> /\ work' = [work EXCEPT ![w] = Idle]
      /\ rows' = rows \ (IF work[w].job = "delete" THEN {work[w].id} ELSE Namesakes(work[w].newer))
  BY DEF DeleteRow, Id, End
<1>4. EntriesType' /\ RefsExact' /\ Reg' = Reg /\ RunAt' = RunAt
  BY <1>1, <1>3, SameEffect
<1>5. Reg' \cap Crds \subseteq rows'
  <2>1. CASE Deleting(w, work[w], Reg)
    BY <1>1, <1>3, <1>4, <2>1, Rest DEF Deleting
  <2>2. CASE DeletingStale(w, work[w], Reg)
    BY <1>1, <1>3, <1>4, <2>2, Rest DEF DeletingStale, Stale
  <2> QED BY <1>2, <2>1, <2>2
<1> QED BY <1>1, <1>2, <1>3, <1>4, <1>5, Rest, IdleRecord, QuietStep
----------------------------------------------------------------------------
(* The steps of a start and of a stop.                                     *)

\* The stopper takes the runtime out of the entry, and has it from then on.
LEMMA StopPopStep == ASSUME RegistryInv, NEW w \in Workers, StopPop(w) PROVE RegistryInv'
<1>1. TypeOK /\ RefsExact /\ work[w] \in Work /\ BusyAs(w, work[w], Reg, rows) /\ work[w].pc = "pop"
  BY Rest DEF StopPop, At
<1> DEFINE i == work[w].id
           k == [work[w] EXCEPT !.pc = "stop", !.mine = RunOf(i)]
<1>2. /\ i \in Ids /\ PopRuntime(i) /\ work' = [work EXCEPT ![w] = k]
      /\ UNCHANGED <<refs, rows, runtime, created, latest, disk, jobs>>
  BY <1>1 DEF StopPop, Id, BusyAs, Persisting, RollingBack, Deleting, DeletingStale, Upgrading, Starting, Ids
<1>3. EntriesType' /\ RefsExact' /\ Reg' = Reg /\ RunAt' = [RunAt EXCEPT ![i] = 0]
  BY <1>1, <1>2, PopEffect
<1>4. RunOf(i) = RunAt[i] /\ RunAt[i] \in 0 .. MaxRuntimes
  BY <1>2, Rest DEF RunAt
<1>5. /\ k \in Work /\ k.pc = "stop" /\ k.mine = RunAt[i] /\ k.job = work[w].job /\ k.id = i /\ k.ask = work[w].ask
      /\ k.todo = work[w].todo /\ k.newer = work[w].newer
  BY <1>1, <1>4 DEF Work, PCs
<1> HIDE DEF k
<1>6. \A j \in Ids : RunAt'[j] = IF j = i THEN 0 ELSE RunAt[j]
  BY <1>2, <1>3, Rest
<1> HIDE DEF i
<1>7. TypeOK'
  <2>1. RestType
    BY <1>1, TypeParts
  <2>2. RestType'
    BY <1>2, <1>5, <2>1 DEF RestType
  <2>3. (TypeOK <=> EntriesType /\ RestType)'
    BY TypeParts, PTL
  <2> QED BY <1>3, <2>2, <2>3
<1>8. Busy'
  <2>1. BusyAs(w, k, Reg', rows')
    BY <1>1, <1>2, <1>3, <1>5 DEF BusyAs, Persisting, RollingBack, Deleting, DeletingStale, Upgrading, Starting, Stale, i
  <2> QED BY <1>2, <1>3, <2>1, Rest, BusyKept DEF RegistryInv
<1>9. EntryRuns'
  BY <1>2, <1>6 DEF EntryRuns, RegistryInv
<1>10. Mines'
  <2>1. created \in Nat /\ (RunAt[i] # 0 => RunAt[i] \in 1 .. created /\ runtime[RunAt[i]].of = i)
    BY <1>1, <1>2, Rest, ConstantsAssumption DEF TypeOK, RegistryInv, EntryRuns
  <2>2. ASSUME NEW j \in Ids, k.mine # 0 PROVE RunAt'[j] # k.mine
    BY <1>2, <1>5, <1>6, <2>1, <2>2 DEF RegistryInv, EntryRuns
  <2>3. MineAs(k, RunAt', runtime', created')
    BY <1>2, <1>4, <1>5, <2>1, <2>2 DEF MineAs
  <2>4. /\ created' \in Nat /\ created <= created' /\ \A s \in 1 .. created : runtime'[s].of = runtime[s].of
        /\ \A j \in Ids : RunAt'[j] \in {0, RunAt[j]} \/ RunAt'[j] > created
    BY <1>2, <1>6, <2>1
  <2> QED BY <1>1, <1>2, <2>3, <2>4, MinesKept DEF RegistryInv
<1>11. Routed'
  <2> SUFFICES ASSUME NEW j \in Ids, RunAt'[j] # 0, runtime'[RunAt'[j]].state = "down"
               PROVE  \E v \in Workers : work'[v].pc = "unset" /\ work'[v].mine = RunAt'[j]
    BY DEF Routed
  <2>1. PICK v \in Workers : work[v].pc = "unset" /\ work[v].mine = RunAt[j]
    BY <1>2, <1>6 DEF RegistryInv, Routed
  <2> QED BY <1>1, <1>2, <1>6, <2>1, Rest
<1> QED BY <1>2, <1>3, <1>7, <1>8, <1>9, <1>10, <1>11, Rest DEF RegistryInv, Persisted

\* The runtime stopped is no entry's, so nothing routes to it.
LEMMA StopStopStep == ASSUME RegistryInv, NEW w \in Workers, StopStop(w) PROVE RegistryInv'
<1>1. TypeOK /\ RefsExact /\ work[w] \in Work /\ BusyAs(w, work[w], Reg, rows) /\ work[w].pc = "stop"
  BY Rest DEF StopStop, At
<1> DEFINE pc == IF work[w].job \in {"delete", "stale"} THEN "remove" ELSE "start"
           k == [work[w] EXCEPT !.mine = 0, !.pc = pc]
<1>2. /\ work' = [work EXCEPT ![w] = k] /\ UNCHANGED <<entries, refs, rows, created, latest, disk, jobs>>
      /\ runtime' = [s \in Runtimes |-> IF s = work[w].mine /\ runtime[s].state = "up"
                                        THEN [runtime[s] EXCEPT !.state = "down"] ELSE runtime[s]]
  BY DEF StopStop
<1>3. EntriesType' /\ RefsExact' /\ Reg' = Reg /\ RunAt' = RunAt
  BY <1>1, <1>2, SameEffect
<1>4. /\ k \in Work /\ k.pc = pc /\ k.mine = 0 /\ k.job = work[w].job /\ k.id = work[w].id /\ k.ask = work[w].ask
      /\ k.todo = work[w].todo /\ k.newer = work[w].newer
  <2>1. pc \in PCs /\ 0 \in 0 .. MaxRuntimes
    BY ConstantsAssumption DEF PCs
  <2> HIDE DEF pc
  <2> QED BY <1>1, <2>1 DEF Work
<1>p. pc \in {"remove", "start"} /\ (pc = "remove" <=> work[w].job \in {"delete", "stale"})
  OBVIOUS
<1> HIDE DEF k, pc
<1>5. runtime' \in [Runtimes -> Runtime] /\ \A s \in Runtimes : runtime'[s].of = runtime[s].of
  <2>1. ASSUME NEW s \in Runtimes PROVE runtime'[s] \in Runtime /\ runtime'[s].of = runtime[s].of
    BY <1>2, Rest DEF Runtime
  <2> QED BY <1>2, <2>1
<1>6. \A s \in Runtimes : s # work[w].mine => runtime'[s] = runtime[s]
  BY <1>2
<1>7. TypeOK'
  <2>1. RestType
    BY <1>1, TypeParts
  <2>2. RestType'
    BY <1>2, <1>4, <1>5, <2>1 DEF RestType
  <2>3. (TypeOK <=> EntriesType /\ RestType)'
    BY TypeParts, PTL
  <2> QED BY <1>3, <2>2, <2>3
<1>8. Busy'
  <2>1. BusyAs(w, k, Reg', rows')
    BY <1>1, <1>2, <1>3, <1>4, <1>p DEF BusyAs, Persisting, RollingBack, Deleting, DeletingStale, Upgrading, Starting, Stale
  <2> QED BY <1>2, <1>3, <2>1, Rest, BusyKept DEF RegistryInv
<1>9. created \in 0 .. MaxRuntimes /\ MaxRuntimes \in Nat /\ 1 .. created \subseteq Runtimes
  BY Rest, ConstantsAssumption DEF Runtimes
<1>10. EntryRuns'
  BY <1>2, <1>3, <1>5, <1>9 DEF EntryRuns, RegistryInv
<1>11. Mines'
  <2>1. MineAs(k, RunAt', runtime', created')
    BY <1>2, <1>4, <1>9, <1>p DEF MineAs
  <2>2. /\ created' \in Nat /\ created <= created' /\ \A s \in 1 .. created : runtime'[s].of = runtime[s].of
        /\ \A i \in Ids : RunAt'[i] \in {0, RunAt[i]} \/ RunAt'[i] > created
    BY <1>2, <1>3, <1>5, <1>9
  <2> QED BY <1>1, <1>2, <2>1, <2>2, MinesKept DEF RegistryInv
<1>12. Routed'
  <2> SUFFICES ASSUME NEW j \in Ids, RunAt[j] # 0, runtime'[RunAt[j]].state = "down"
               PROVE  \E v \in Workers : work'[v].pc = "unset" /\ work'[v].mine = RunAt[j]
    BY <1>3 DEF Routed
  <2>1. RunAt[j] \in 1 .. created /\ RunAt[j] # work[w].mine
    BY <1>1 DEF RegistryInv, EntryRuns, Mines, MineAs
  <2>2. PICK v \in Workers : work[v].pc = "unset" /\ work[v].mine = RunAt[j]
    BY <1>6, <1>9, <2>1 DEF RegistryInv, Routed
  <2> QED BY <1>1, <1>2, <2>2, Rest
<1> QED BY <1>2, <1>3, <1>7, <1>8, <1>10, <1>11, <1>12, Rest DEF RegistryInv, Persisted

\* What StartPlugin reads and installs is typed, and touches no entry.
LEMMA StartPluginStep == ASSUME RegistryInv, NEW w \in Workers, StartPlugin(w) PROVE RegistryInv'
<1>1. TypeOK /\ RefsExact /\ work[w] \in Work /\ BusyAs(w, work[w], Reg, rows) /\ work[w].pc = "start"
  BY Rest DEF StartPlugin, At
<1>2. work[w].id \in Crds /\ work[w].id \in Ids
  BY <1>1 DEF BusyAs, Persisting, RollingBack, Deleting, DeletingStale, Upgrading, Starting, Ids
<1>3. UNCHANGED <<entries, refs, rows, runtime, created, latest, jobs>>
  BY DEF StartPlugin
<1>4. EntriesType' /\ RefsExact' /\ Reg' = Reg /\ RunAt' = RunAt
  BY <1>1, <1>3, SameEffect
<1>5. CASE Failed(w) /\ UNCHANGED disk
  <2>1. PICK k \in Work : /\ work' = [work EXCEPT ![w] = k] /\ k.pc \in {"undo", "idle"}
                          /\ k.mine \in {0, work[w].mine} /\ BusyAs(w, k, Reg, rows)
    BY <1>1, <1>5, FailedRecord DEF Starting
  <2> QED BY <1>1, <1>3, <1>4, <1>5, <2>1, Rest, QuietStep
<1>6. CASE ~(Failed(w) /\ UNCHANGED disk)
  <2> DEFINE v == IF entries[work[w].id].spec = Latest THEN latest ELSE entries[work[w].id].spec
             k == [work[w] EXCEPT !.at = v, !.pc = IF v \in Addresses THEN "set" ELSE "path"]
  <2>1. /\ Registered(work[w].id) /\ work' = [work EXCEPT ![w] = k]
        /\ disk' = IF v \in Addresses THEN disk ELSE disk \cup {<<Source[work[w].id], v>>}
    BY <1>1, <1>6, Rest DEF StartPlugin, Id, Work
  <2>2. v \in Versions \cup Addresses
    BY <1>1, <1>2, <2>1, Rest DEF TypeOK, Entry, Registered, Specs
  <2>3. k \in Work /\ k.pc \in {"set", "path"} /\ k.mine = work[w].mine /\ k.job = work[w].job /\ k.id = work[w].id
        /\ k.ask = work[w].ask
    <3> HIDE DEF v
    <3> DEFINE pc == IF v \in Addresses THEN "set" ELSE "path"
    <3>1. pc \in {"set", "path"} /\ pc \in PCs
      BY DEF PCs
    <3>2. v \in Versions \cup Addresses \cup {None}
      BY <2>2
    <3>3. k = [work[w] EXCEPT !.at = v, !.pc = pc]
      OBVIOUS
    <3> HIDE DEF pc, k
    <3> QED BY <1>1, <3>1, <3>2, <3>3 DEF Work
  <2>4. disk' \subseteq {Source[i] : i \in Crds} \X Versions
    BY <1>2, <2>1, <2>2, Rest
  <2>6. k.pc = "path" => k.at \in Versions
    BY <1>1, <2>2 DEF Work
  <2> HIDE DEF k, v
  <2>5. BusyAs(w, k, Reg', rows')
    BY <1>1, <1>3, <1>4, <2>3, <2>6 DEF BusyAs, Persisting, RollingBack, Deleting, DeletingStale, Upgrading, Starting
  <2> QED BY <1>1, <1>3, <1>4, <2>1, <2>3, <2>4, <2>5, Rest, QuietStep
<1> QED BY <1>5, <1>6

\* The installed path goes into an entry that is there.
LEMMA StartPathStep == ASSUME RegistryInv, NEW w \in Workers, StartPath(w) PROVE RegistryInv'
<1>1. TypeOK /\ RefsExact /\ work[w] \in Work /\ BusyAs(w, work[w], Reg, rows) /\ work[w].pc = "path"
  BY Rest DEF StartPath, At
<1>2. work[w].id \in Ids
  BY <1>1 DEF BusyAs, Persisting, RollingBack, Deleting, DeletingStale, Upgrading, Starting, Ids
<1>3. UNCHANGED <<refs, rows, runtime, created, latest, disk, jobs>>
  BY DEF StartPath
<1>4. CASE ~Registered(work[w].id)
  <2>1. Failed(w) /\ UNCHANGED entries
    BY <1>4 DEF StartPath, Id
  <2>2. PICK k \in Work : /\ work' = [work EXCEPT ![w] = k] /\ k.pc \in {"undo", "idle"}
                          /\ k.mine \in {0, work[w].mine} /\ BusyAs(w, k, Reg, rows)
    BY <1>1, <2>1, FailedRecord DEF Starting
  <2>3. EntriesType' /\ RefsExact' /\ Reg' = Reg /\ RunAt' = RunAt
    BY <1>1, <1>3, <2>1, SameEffect
  <2> QED BY <1>1, <1>3, <2>2, <2>3, Rest, QuietStep
<1>5. CASE Registered(work[w].id)
  <2> DEFINE i == work[w].id
             e == [entries[i] EXCEPT !.path = work[w].at]
             k == [work[w] EXCEPT !.pc = "set"]
  <2>1. entries' = [entries EXCEPT ![i] = e] /\ work' = [work EXCEPT ![w] = k]
    BY <1>5 DEF StartPath, Id, Go
  <2>2. entries[i] \in Entry
    BY <1>1, <1>2, <1>5 DEF TypeOK, Registered
  <2>3. work[w].at \in Versions
    BY <1>1 DEF BusyAs
  <2>4. k \in Work /\ k.pc = "set" /\ k.mine = work[w].mine /\ k.job = work[w].job /\ k.id = work[w].id /\ k.ask = work[w].ask
    BY <1>1 DEF Work, PCs
  <2>5. e \in Entry /\ e.spec = entries[i].spec /\ e.run = entries[i].run
    BY <2>2, <2>3 DEF Entry
  <2> HIDE DEF e, k
  <2>6. EntriesType' /\ RefsExact' /\ Reg' = Reg /\ RunAt' = [RunAt EXCEPT ![i] = e.run]
    BY <1>1, <1>2, <1>3, <1>5, <2>1, <2>5, EntryEffect
  <2>7. RunAt[i] = e.run
    BY <1>2, <1>5, <2>5 DEF RunAt, RunOf
  <2>8. RunAt' = RunAt
    BY <1>2, <2>6, <2>7, Rest
  <2>9. BusyAs(w, k, Reg', rows')
    BY <1>1, <1>3, <2>4, <2>6 DEF BusyAs, Persisting, RollingBack, Deleting, DeletingStale, Upgrading, Starting
  <2> QED BY <1>1, <1>3, <2>1, <2>4, <2>6, <2>8, <2>9, Rest, QuietStep
<1> QED BY <1>4, <1>5

\* A new runtime is nobody else's.
LEMMA StartSetStep == ASSUME RegistryInv, NEW w \in Workers, StartSet(w) PROVE RegistryInv'
<1>1. TypeOK /\ RefsExact /\ work[w] \in Work /\ BusyAs(w, work[w], Reg, rows) /\ work[w].pc = "set"
  BY Rest DEF StartSet, At
<1> DEFINE i == work[w].id
           s == created + 1
<1>2. i \in Crds /\ i \in Ids
  BY <1>1 DEF BusyAs, Persisting, RollingBack, Deleting, DeletingStale, Upgrading, Starting, Ids
<1>3. UNCHANGED <<refs, rows, latest, disk, jobs>>
  BY DEF StartSet
\* There is no entry to put a runtime into, or it has one.
<1>4. CASE (Failed(w) \/ Succeeded(w)) /\ UNCHANGED <<entries, runtime, created>>
  <2>1. PICK k \in Work : /\ work' = [work EXCEPT ![w] = k] /\ k.pc \in {"undo", "prune", "idle"}
                          /\ k.mine \in {0, work[w].mine} /\ BusyAs(w, k, Reg, rows)
    BY <1>1, <1>4, FailedRecord, SucceededRecord DEF Starting
  <2>2. EntriesType' /\ RefsExact' /\ Reg' = Reg /\ RunAt' = RunAt
    BY <1>1, <1>3, <1>4, SameEffect
  <2> QED BY <1>1, <1>3, <1>4, <2>1, <2>2, Rest, QuietStep
<1>5. CASE ~((Failed(w) \/ Succeeded(w)) /\ UNCHANGED <<entries, runtime, created>>)
  <2> DEFINE e == [entries[i] EXCEPT !.run = s]
             state == IF work[w].at \in Addresses THEN "up" ELSE "new"
             made == [of |-> i, state |-> state, at |-> work[w].at]
  <2>1. /\ Registered(i) /\ RunOf(i) = 0 /\ created < MaxRuntimes
        /\ entries' = [entries EXCEPT ![i] = e] /\ created' = s /\ runtime' = [runtime EXCEPT ![s] = made]
        /\ IF work[w].at \in Addresses THEN Succeeded(w)
           ELSE work' = [work EXCEPT ![w] = [work[w] EXCEPT !.pc = "launch", !.mine = s]]
    <3>1. /\ Registered(i) /\ RunOf(i) = 0 /\ created < MaxRuntimes
          /\ entries' = [entries EXCEPT ![i].run = s] /\ created' = s /\ runtime' = [runtime EXCEPT ![s] = made]
          /\ IF work[w].at \in Addresses THEN Succeeded(w)
             ELSE work' = [work EXCEPT ![w].pc = "launch", ![w].mine = s]
      BY <1>5 DEF StartSet, Id
    <3> QED BY <1>1, <1>2, <3>1, Rest DEF TypeOK, Work
  <2>2. created \in Nat /\ MaxRuntimes \in Nat /\ s \in 1 .. MaxRuntimes
    BY <2>1, Rest, ConstantsAssumption
  <2>3. e \in Entry /\ e.spec = entries[i].spec /\ e.run = s
    BY <1>1, <1>2, <2>1, <2>2 DEF TypeOK, Registered, Entry
  <2>4. EntriesType' /\ RefsExact' /\ Reg' = Reg /\ RunAt' = [RunAt EXCEPT ![i] = s]
    <3> HIDE DEF e, s, made, i
    <3>1. /\ EntriesType' /\ RefsExact' /\ Reg' = Reg
          /\ RunAt' = [RunAt EXCEPT ![i] = IF Registered(i) THEN e.run ELSE 0]
      BY <1>1, <1>2, <1>3, <2>1, <2>3, EntryEffect
    <3> QED BY <2>1, <2>3, <3>1
  <2>5. made \in Runtime /\ made.of = i /\ made.state # "down"
    BY <1>1, <1>2 DEF Runtime, Work
  <2>6. \E k \in Work : /\ work' = [work EXCEPT ![w] = k] /\ BusyAs(w, k, Reg, rows)
                        /\ \/ k.pc \in {"prune", "idle"} /\ k.mine \in {0, work[w].mine}
                           \/ k.pc = "launch" /\ k.mine = s /\ k.id = i
    <3>1. CASE work[w].at \in Addresses
      BY <1>1, <2>1, <3>1, SucceededRecord DEF Starting
    <3>2. CASE work[w].at \notin Addresses
      <4> DEFINE k == [work[w] EXCEPT !.pc = "launch", !.mine = s]
      <4>1. k \in Work /\ k.pc = "launch" /\ k.mine = s /\ k.id = i /\ k.job = work[w].job /\ k.ask = work[w].ask
        <5>1. s \in 0 .. MaxRuntimes /\ "launch" \in PCs
          BY <2>2 DEF PCs
        <5> HIDE DEF s
        <5> QED BY <1>1, <5>1 DEF Work
      <4>2. work' = [work EXCEPT ![w] = k]
        BY <2>1, <3>2
      <4> HIDE DEF k, s
      <4>3. BusyAs(w, k, Reg, rows)
        BY <1>1, <4>1 DEF BusyAs, Persisting, RollingBack, Deleting, DeletingStale, Upgrading, Starting
      <4> QED BY <4>1, <4>2, <4>3
    <3> QED BY <3>1, <3>2
  <2>7. PICK k \in Work : /\ work' = [work EXCEPT ![w] = k] /\ BusyAs(w, k, Reg, rows)
                          /\ \/ k.pc \in {"prune", "idle"} /\ k.mine \in {0, work[w].mine}
                             \/ k.pc = "launch" /\ k.mine = s /\ k.id = i
    BY <2>6
  <2> HIDE DEF e, made
  <2>8. /\ runtime'[s] = made /\ runtime' \in [Runtimes -> Runtime] /\ s \in Runtimes
        /\ \A t \in 1 .. created : t \in Runtimes /\ runtime'[t] = runtime[t]
    BY <2>1, <2>2, <2>5, Rest DEF Runtimes
  <2>9. /\ \A j \in Ids : RunAt'[j] = IF j = i THEN s ELSE RunAt[j]
        /\ \A j \in Ids : RunAt[j] # 0 => RunAt[j] \in 1 .. created
    BY <1>2, <2>4, Rest DEF RegistryInv, EntryRuns
  <2>10. TypeOK'
    <3>1. RestType
      BY <1>1, TypeParts
    <3>2. RestType'
      BY <1>3, <2>1, <2>2, <2>7, <2>8, <3>1 DEF RestType
    <3>3. (TypeOK <=> EntriesType /\ RestType)'
      BY TypeParts, PTL
    <3> QED BY <2>4, <3>2, <3>3
  <2>11. Busy'
    BY <1>3, <2>4, <2>7, Rest, BusyKept DEF RegistryInv
  <2>12. EntryRuns'
    BY <1>2, <2>1, <2>2, <2>5, <2>8, <2>9 DEF EntryRuns, RegistryInv
  <2>13. Mines'
    <3>1. work[w].mine \in 0 .. created
      BY DEF RegistryInv, Mines, MineAs
    <3>2. MineAs(k, RunAt', runtime', created')
      BY <2>1, <2>2, <2>5, <2>7, <2>8, <3>1 DEF MineAs
    <3>3. /\ created' \in Nat /\ created <= created' /\ \A t \in 1 .. created : runtime'[t].of = runtime[t].of
          /\ \A j \in Ids : RunAt'[j] \in {0, RunAt[j]} \/ RunAt'[j] > created
      BY <2>1, <2>2, <2>8, <2>9
    <3> QED BY <1>1, <2>7, <3>2, <3>3, MinesKept DEF RegistryInv
  <2>14. Routed'
    <3> SUFFICES ASSUME NEW j \in Ids, RunAt'[j] # 0, runtime'[RunAt'[j]].state = "down"
                 PROVE  \E v \in Workers : work'[v].pc = "unset" /\ work'[v].mine = RunAt'[j]
      BY DEF Routed
    <3>1. j # i /\ RunAt'[j] = RunAt[j] /\ runtime'[RunAt[j]] = runtime[RunAt[j]]
      BY <2>5, <2>8, <2>9
    <3>2. PICK v \in Workers : work[v].pc = "unset" /\ work[v].mine = RunAt[j]
      BY <3>1 DEF RegistryInv, Routed
    <3> QED BY <1>1, <2>7, <3>1, <3>2, Rest
  <2> QED BY <1>3, <2>4, <2>10, <2>11, <2>12, <2>13, <2>14, Rest DEF RegistryInv, Persisted
<1> QED BY <1>4, <1>5

\* A launch that fails leaves its runtime down, with its worker at unset.
LEMMA StartLaunchStep == ASSUME RegistryInv, NEW w \in Workers, StartLaunch(w) PROVE RegistryInv'
<1>1. TypeOK /\ RefsExact /\ work[w] \in Work /\ BusyAs(w, work[w], Reg, rows) /\ work[w].pc = "launch"
  BY Rest DEF StartLaunch, At
<1> DEFINE s == work[w].mine
<1>2. s \in 1 .. created /\ s \in Runtimes /\ runtime[s].of = work[w].id /\ created \in Nat
  <2>1. s \in 0 .. created /\ s # 0 /\ runtime[s].of = work[w].id
    BY <1>1 DEF RegistryInv, Mines, MineAs
  <2> QED BY <2>1, Rest, ConstantsAssumption DEF Runtimes
<1>3. UNCHANGED <<entries, refs, rows, created, latest, disk, jobs>>
  BY DEF StartLaunch
<1>4. EntriesType' /\ RefsExact' /\ Reg' = Reg /\ RunAt' = RunAt
  BY <1>1, <1>3, SameEffect
<1>5. \E k \in Work : /\ work' = [work EXCEPT ![w] = k] /\ BusyAs(w, k, Reg, rows)
                      /\ \/ k.pc \in {"prune", "idle"} /\ k.mine \in {0, s} /\ runtime' = [runtime EXCEPT ![s].state = "up"]
                         \/ k.pc = "unset" /\ k.mine = s /\ k.id = work[w].id /\ runtime' = [runtime EXCEPT ![s].state = "down"]
  <2>1. CASE Succeeded(w) /\ runtime' = [runtime EXCEPT ![s].state = "up"]
    BY <1>1, <2>1, SucceededRecord DEF Starting
  <2>2. CASE Go(w, "unset") /\ runtime' = [runtime EXCEPT ![s].state = "down"]
    <3> DEFINE k == [work[w] EXCEPT !.pc = "unset"]
    <3>1. k \in Work /\ k.pc = "unset" /\ k.mine = s /\ k.id = work[w].id /\ k.job = work[w].job /\ k.ask = work[w].ask
      BY <1>1 DEF Work, PCs
    <3>2. work' = [work EXCEPT ![w] = k]
      BY <2>2 DEF Go
    <3> HIDE DEF k, s
    <3>3. BusyAs(w, k, Reg, rows)
      BY <1>1, <3>1 DEF BusyAs, Persisting, RollingBack, Deleting, DeletingStale, Upgrading, Starting
    <3> QED BY <2>2, <3>1, <3>2, <3>3
  <2> QED BY <2>1, <2>2 DEF StartLaunch
<1>6. PICK k \in Work : /\ work' = [work EXCEPT ![w] = k] /\ BusyAs(w, k, Reg, rows)
                        /\ \/ k.pc \in {"prune", "idle"} /\ k.mine \in {0, s} /\ runtime' = [runtime EXCEPT ![s].state = "up"]
                           \/ k.pc = "unset" /\ k.mine = s /\ k.id = work[w].id /\ runtime' = [runtime EXCEPT ![s].state = "down"]
  BY <1>5
<1>7. /\ runtime' \in [Runtimes -> Runtime] /\ \A t \in Runtimes : runtime'[t].of = runtime[t].of
      /\ \A t \in Runtimes \ {s} : runtime'[t] = runtime[t]
      /\ runtime'[s].state = IF k.pc = "unset" THEN "down" ELSE "up"
  <2>1. \E state \in {"up", "down"} : runtime' = [runtime EXCEPT ![s] = [runtime[s] EXCEPT !.state = state]]
                                     /\ (state = "down" <=> k.pc = "unset")
    BY <1>6
  <2>2. PICK state \in {"up", "down"} : runtime' = [runtime EXCEPT ![s] = [runtime[s] EXCEPT !.state = state]]
                                     /\ (state = "down" <=> k.pc = "unset")
    BY <2>1
  <2>3. [runtime[s] EXCEPT !.state = state] \in Runtime /\ [runtime[s] EXCEPT !.state = state].of = runtime[s].of
        /\ [runtime[s] EXCEPT !.state = state].state = state
    BY <1>2, Rest DEF Runtime
  <2> QED BY <1>2, <2>2, <2>3, Rest
<1> HIDE DEF s
<1>8. TypeOK'
  <2>1. RestType
    BY <1>1, TypeParts
  <2>2. RestType'
    BY <1>3, <1>6, <1>7, <2>1 DEF RestType
  <2>3. (TypeOK <=> EntriesType /\ RestType)'
    BY TypeParts, PTL
  <2> QED BY <1>4, <2>2, <2>3
<1>9. Busy'
  BY <1>3, <1>4, <1>6, Rest, BusyKept DEF RegistryInv
<1>10. 1 .. created \subseteq Runtimes
  BY Rest, ConstantsAssumption DEF Runtimes
<1>11. EntryRuns'
  BY <1>3, <1>4, <1>7, <1>10 DEF EntryRuns, RegistryInv
<1>12. Mines'
  <2>1. MineAs(k, RunAt', runtime', created')
    BY <1>2, <1>3, <1>6, <1>7 DEF MineAs
  <2>2. /\ created' \in Nat /\ created <= created' /\ \A t \in 1 .. created : runtime'[t].of = runtime[t].of
        /\ \A j \in Ids : RunAt'[j] \in {0, RunAt[j]} \/ RunAt'[j] > created
    BY <1>2, <1>3, <1>4, <1>7, <1>10
  <2> QED BY <1>1, <1>6, <2>1, <2>2, MinesKept DEF RegistryInv
<1>13. Routed'
  <2> SUFFICES ASSUME NEW j \in Ids, RunAt[j] # 0, runtime'[RunAt[j]].state = "down"
               PROVE  \E v \in Workers : work'[v].pc = "unset" /\ work'[v].mine = RunAt[j]
    BY <1>4 DEF Routed
  <2>1. RunAt[j] \in Runtimes
    BY <1>10 DEF RegistryInv, EntryRuns
  <2>2. CASE RunAt[j] = s
    BY <1>1, <1>6, <1>7, <2>2, Rest
  <2>3. CASE RunAt[j] # s
    <3>1. PICK v \in Workers : work[v].pc = "unset" /\ work[v].mine = RunAt[j]
      BY <1>7, <2>1, <2>3 DEF RegistryInv, Routed
    <3> QED BY <1>1, <1>6, <3>1, Rest
  <2> QED BY <2>2, <2>3
<1> QED BY <1>3, <1>4, <1>8, <1>9, <1>11, <1>12, <1>13, Rest DEF RegistryInv, Persisted

\* The failed start takes out what the entry has, so nothing routes to its runtime.
LEMMA StartUnsetStep == ASSUME RegistryInv, NEW w \in Workers, StartUnset(w) PROVE RegistryInv'
<1>1. TypeOK /\ RefsExact /\ work[w] \in Work /\ BusyAs(w, work[w], Reg, rows) /\ work[w].pc = "unset"
  BY Rest DEF StartUnset, At
<1> DEFINE i == work[w].id
<1>2. i \in Ids
  BY <1>1 DEF BusyAs, Persisting, RollingBack, Deleting, DeletingStale, Upgrading, Starting, Ids
<1>3. PopRuntime(i) /\ Failed(w) /\ UNCHANGED <<refs, rows, runtime, created, latest, disk, jobs>>
  BY DEF StartUnset, Id
<1>4. EntriesType' /\ RefsExact' /\ Reg' = Reg /\ RunAt' = [RunAt EXCEPT ![i] = 0]
  BY <1>1, <1>2, <1>3, PopEffect
<1>5. \A j \in Ids : RunAt'[j] = IF j = i THEN 0 ELSE RunAt[j]
  BY <1>2, <1>4, Rest
<1>6. PICK k \in Work : /\ work' = [work EXCEPT ![w] = k] /\ k.pc \in {"undo", "idle"}
                        /\ k.mine \in {0, work[w].mine} /\ BusyAs(w, k, Reg, rows)
  BY <1>1, <1>3, FailedRecord DEF Starting
<1>7. TypeOK'
  <2>1. RestType
    BY <1>1, TypeParts
  <2>2. RestType'
    BY <1>3, <1>6, <2>1 DEF RestType
  <2>3. (TypeOK <=> EntriesType /\ RestType)'
    BY TypeParts, PTL
  <2> QED BY <1>4, <2>2, <2>3
<1>8. Busy'
  BY <1>3, <1>4, <1>6, Rest, BusyKept DEF RegistryInv
<1>9. EntryRuns'
  BY <1>3, <1>5 DEF EntryRuns, RegistryInv
<1>10. Mines'
  <2>1. created \in Nat /\ work[w].mine \in 0 .. created
    BY Rest, ConstantsAssumption DEF RegistryInv, Mines, MineAs
  <2>2. MineAs(k, RunAt', runtime', created')
    BY <1>3, <1>6, <2>1 DEF MineAs
  <2>3. /\ created' \in Nat /\ created <= created' /\ \A s \in 1 .. created : runtime'[s].of = runtime[s].of
        /\ \A j \in Ids : RunAt'[j] \in {0, RunAt[j]} \/ RunAt'[j] > created
    BY <1>3, <1>5, <2>1
  <2> QED BY <1>1, <1>6, <2>2, <2>3, MinesKept DEF RegistryInv
\* The runtime that this worker has launched in vain is no longer in its entry.
<1>11. Routed'
  <2> SUFFICES ASSUME NEW j \in Ids, RunAt'[j] # 0, runtime'[RunAt'[j]].state = "down"
               PROVE  \E v \in Workers : work'[v].pc = "unset" /\ work'[v].mine = RunAt'[j]
    BY DEF Routed
  <2>1. j # i /\ RunAt'[j] = RunAt[j] /\ RunAt[j] # 0
    BY <1>5
  <2>2. PICK v \in Workers : work[v].pc = "unset" /\ work[v].mine = RunAt[j]
    BY <1>3, <2>1 DEF RegistryInv, Routed
  <2>3. runtime[RunAt[j]].of = j
    BY <2>1 DEF RegistryInv, EntryRuns
  <2>4. v # w
    BY <1>1, <2>1, <2>2, <2>3 DEF RegistryInv, Mines, MineAs
  <2> QED BY <1>6, <2>1, <2>2, <2>4, Rest
<1> QED BY <1>3, <1>4, <1>7, <1>8, <1>9, <1>10, <1>11, Rest DEF RegistryInv, Persisted
----------------------------------------------------------------------------
(* The steps of an upgrade, the beginnings of jobs, and the environment.   *)

\* Resolving and pruning touch the disk only.
LEMMA UpgradeSteps ==
  ASSUME RegistryInv, NEW w \in Workers, UpgradeResolve(w) \/ UpgradePrune(w) PROVE RegistryInv'
<1>1. TypeOK /\ RefsExact /\ work[w] \in Work /\ BusyAs(w, work[w], Reg, rows) /\ work[w].pc \in {"resolve", "prune"}
  BY Rest DEF UpgradeResolve, UpgradePrune, At
<1>2. Upgrading(w, work[w]) /\ work[w].id \in Crds
  BY <1>1 DEF BusyAs, Persisting, RollingBack, Deleting, DeletingStale, Upgrading, Starting
<1>3. UNCHANGED <<entries, refs, rows, runtime, created, latest, jobs>>
  BY DEF UpgradeResolve, UpgradePrune
<1>4. EntriesType' /\ RefsExact' /\ Reg' = Reg /\ RunAt' = RunAt
  BY <1>1, <1>3, SameEffect
<1>5. disk' \subseteq {Source[i] : i \in Crds} \X Versions
  BY <1>2, Rest DEF UpgradeResolve, UpgradePrune, Id
<1>6. CASE work' = [work EXCEPT ![w] = Idle]
  BY <1>1, <1>3, <1>4, <1>5, <1>6, Rest, IdleRecord, QuietStep
<1>7. CASE work' = [work EXCEPT ![w] = [work[w] EXCEPT !.pc = "pop"]]
  <2> DEFINE k == [work[w] EXCEPT !.pc = "pop"]
  <2>1. k \in Work /\ k.pc = "pop" /\ k.mine = work[w].mine /\ k.job = work[w].job /\ k.id = work[w].id
    BY <1>1 DEF Work, PCs
  <2>2. work' = [work EXCEPT ![w] = k]
    BY <1>7
  <2> HIDE DEF k
  <2>3. BusyAs(w, k, Reg', rows')
    BY <1>2, <2>1 DEF BusyAs, Upgrading
  <2> QED BY <1>1, <1>3, <1>4, <1>5, <2>1, <2>2, <2>3, Rest, QuietStep
<1> QED BY <1>6, <1>7 DEF UpgradeResolve, UpgradePrune, End, Go, Id

\* A job that begins has a record of its own, with nothing else in it.
LEMMA BeginStep ==
  ASSUME RegistryInv, NEW w \in Workers, work[w].pc = "idle", NEW k \in Work, work' = [work EXCEPT ![w] = k],
         k.pc \in {"upsert", "pop", "row", "resolve"}, k.mine = 0, jobs' \in 0 .. MaxJobs,
         UNCHANGED <<entries, refs, runtime, created, latest, disk>>,
         rows \subseteq rows', rows' \subseteq Crds, w = Reconciler \/ rows' = rows, BusyAs(w, k, Reg, rows')
  PROVE  RegistryInv'
<1>1. EntriesType' /\ RefsExact' /\ Reg' = Reg /\ RunAt' = RunAt
  BY Rest, SameEffect
<1> QED BY <1>1, Rest, QuietStep

\* An idle worker's record is typed.
LEMMA IdleTyped == Idle \in Work
BY ConstantsAssumption DEF Idle, Work, Jobs, PCs

\* A save adds the row before the entry.
LEMMA PersistBeginStep == ASSUME RegistryInv, PersistBegin PROVE RegistryInv'
<1>1. PICK i \in Crds, spec \in Specs :
        /\ Begin(Reconciler, [Idle EXCEPT !.job = "persist", !.pc = "upsert", !.id = i, !.ask = spec,
                                          !.prev = IF Registered(i) THEN entries[i].spec ELSE None])
        /\ rows' = rows \cup {i}
  BY DEF PersistBegin
<1> DEFINE prev == IF Registered(i) THEN entries[i].spec ELSE None
           k == [Idle EXCEPT !.job = "persist", !.pc = "upsert", !.id = i, !.ask = spec, !.prev = prev]
<1>2. prev \in Specs \cup {None}
  BY Rest DEF TypeOK, Entry, Registered
<1>3. k \in Work
  <2>1. "persist" \in Jobs /\ "upsert" \in PCs /\ i \in Ids
    BY DEF Jobs, PCs, Ids
  <2> HIDE DEF prev
  <2> QED BY <1>2, <2>1, IdleTyped DEF Work
<1>4. work' = [work EXCEPT ![Reconciler] = k] /\ work[Reconciler].pc = "idle" /\ jobs' \in 0 .. MaxJobs
  <2>2. Begin(Reconciler, k)
    BY <1>1
  <2> HIDE DEF k
  <2>3. jobs \in 0 .. MaxJobs /\ MaxJobs \in Nat
    BY Rest, ConstantsAssumption
  <2>4. jobs < MaxJobs /\ jobs' = jobs + 1 /\ work' = [work EXCEPT ![Reconciler] = k] /\ work[Reconciler].pc = "idle"
    BY <2>2 DEF Begin, At
  <2> QED BY <2>3, <2>4
<1>5. UNCHANGED <<entries, refs, runtime, created, latest, disk>>
  BY DEF PersistBegin
<1>6. BusyAs(Reconciler, k, Reg, rows')
  BY <1>1 DEF BusyAs, Persisting, Idle
<1> HIDE DEF k
<1>7. Reconciler \in Workers /\ k.pc = "upsert" /\ k.mine = 0
  BY DEF Workers, k, Idle
<1> QED BY <1>1, <1>3, <1>4, <1>5, <1>6, <1>7, Rest, BeginStep

\* A deletion begins with a persisted plugin.
LEMMA DeleteBeginStep == ASSUME RegistryInv, DeleteBegin PROVE RegistryInv'
<1>1. PICK i \in rows : Begin(Reconciler, [Idle EXCEPT !.job = "delete", !.pc = "pop", !.id = i])
  BY DEF DeleteBegin
<1> DEFINE k == [Idle EXCEPT !.job = "delete", !.pc = "pop", !.id = i]
<1>2. i \in Crds
  BY Rest
<1>3. k \in Work
  <2>1. "delete" \in Jobs /\ "pop" \in PCs /\ i \in Ids
    BY <1>2 DEF Jobs, PCs, Ids
  <2> QED BY <2>1, IdleTyped DEF Work
<1>4. work' = [work EXCEPT ![Reconciler] = k] /\ work[Reconciler].pc = "idle" /\ jobs' \in 0 .. MaxJobs
  <2>2. Begin(Reconciler, k)
    BY <1>1
  <2> HIDE DEF k
  <2>3. jobs \in 0 .. MaxJobs /\ MaxJobs \in Nat
    BY Rest, ConstantsAssumption
  <2>4. jobs < MaxJobs /\ jobs' = jobs + 1 /\ work' = [work EXCEPT ![Reconciler] = k] /\ work[Reconciler].pc = "idle"
    BY <2>2 DEF Begin, At
  <2> QED BY <2>3, <2>4
<1>5. UNCHANGED <<entries, refs, rows, runtime, created, latest, disk>>
  BY DEF DeleteBegin
<1>6. BusyAs(Reconciler, k, Reg, rows)
  BY <1>2 DEF BusyAs, Deleting, Idle
<1> HIDE DEF k
<1>7. Reconciler \in Workers /\ k.pc = "pop" /\ k.mine = 0
  BY DEF Workers, k, Idle
<1> QED BY <1>3, <1>4, <1>5, <1>6, <1>7, Rest, BeginStep

\* A deletion of stale plugins begins with those that are registered.
LEMMA StaleBeginStep == ASSUME RegistryInv, StaleBegin PROVE RegistryInv'
<1>1. PICK i \in Crds, spec \in Specs :
        LET stale == {j \in Namesakes(i) \cup {i} :
                        Registered(j) /\ ~(j = i /\ Binary(entries[i].spec) = Binary(spec))}
        IN \E first \in IF stale = {} THEN {None} ELSE stale :
             Begin(Reconciler, [Idle EXCEPT !.job = "stale", !.pc = IF first = None THEN "row" ELSE "pop",
                                            !.id = first, !.newer = i, !.todo = stale \ {first}])
  BY DEF StaleBegin
<1> DEFINE stale == {j \in Namesakes(i) \cup {i} :
                       Registered(j) /\ ~(j = i /\ Binary(entries[i].spec) = Binary(spec))}
<1>2. stale \subseteq Ids /\ Crds \cap Namesakes(i) \cap Reg \subseteq stale
  BY DEF Namesakes, Ids, Reg
<1>3. PICK first \in IF stale = {} THEN {None} ELSE stale :
        Begin(Reconciler, [Idle EXCEPT !.job = "stale", !.pc = IF first = None THEN "row" ELSE "pop",
                                       !.id = first, !.newer = i, !.todo = stale \ {first}])
  BY <1>1
<1> HIDE DEF stale
<1> DEFINE k == [Idle EXCEPT !.job = "stale", !.pc = IF first = None THEN "row" ELSE "pop",
                          !.id = first, !.newer = i, !.todo = stale \ {first}]
<1>4. None \notin Ids /\ first \in Ids \cup {None} /\ (first = None => stale = {}) /\ (first # None => first \in stale)
  BY <1>2, ConstantsAssumption
<1>5. k \in Work
  <2>1. "stale" \in Jobs /\ (IF first = None THEN "row" ELSE "pop") \in PCs
    BY DEF Jobs, PCs
  <2>2. stale \ {first} \in SUBSET Ids
    BY <1>2
  <2> QED BY <1>4, <2>1, <2>2, IdleTyped DEF Work
<1>6. work' = [work EXCEPT ![Reconciler] = k] /\ work[Reconciler].pc = "idle" /\ jobs' \in 0 .. MaxJobs
  <2>2. Begin(Reconciler, k)
    BY <1>3
  <2> HIDE DEF k
  <2>3. jobs \in 0 .. MaxJobs /\ MaxJobs \in Nat
    BY Rest, ConstantsAssumption
  <2>4. jobs < MaxJobs /\ jobs' = jobs + 1 /\ work' = [work EXCEPT ![Reconciler] = k] /\ work[Reconciler].pc = "idle"
    BY <2>2 DEF Begin, At
  <2> QED BY <2>3, <2>4
<1>7. UNCHANGED <<entries, refs, rows, runtime, created, latest, disk>>
  BY DEF StaleBegin
<1>8. BusyAs(Reconciler, k, Reg, rows)
  BY <1>2, <1>4 DEF BusyAs, DeletingStale, Stale, Idle
<1>9. Reconciler \in Workers /\ k.pc \in {"pop", "row"} /\ k.mine = 0
  BY DEF Workers, Idle
<1> HIDE DEF k
<1> QED BY <1>5, <1>6, <1>7, <1>8, <1>9, Rest, BeginStep

\* An upgrade begins with a registered plugin.
LEMMA UpgradeBeginStep == ASSUME RegistryInv, UpgradeBegin PROVE RegistryInv'
<1>1. PICK w \in Upgraders, i \in Crds :
        Registered(i) /\ Begin(w, [Idle EXCEPT !.job = "upgrade", !.pc = "resolve", !.id = i, !.old = entries[i].path])
  BY DEF UpgradeBegin
<1> DEFINE k == [Idle EXCEPT !.job = "upgrade", !.pc = "resolve", !.id = i, !.old = entries[i].path]
<1>2. entries[i].path \in Versions \cup {None}
  BY <1>1, Rest DEF TypeOK, Entry, Registered
<1>3. k \in Work
  <2>1. "upgrade" \in Jobs /\ "resolve" \in PCs /\ i \in Ids
    BY DEF Jobs, PCs, Ids
  <2> QED BY <1>2, <2>1, IdleTyped DEF Work
<1>4. work' = [work EXCEPT ![w] = k] /\ work[w].pc = "idle" /\ jobs' \in 0 .. MaxJobs
  <2>2. Begin(w, k)
    BY <1>1
  <2> HIDE DEF k
  <2>3. jobs \in 0 .. MaxJobs /\ MaxJobs \in Nat
    BY Rest, ConstantsAssumption
  <2>4. jobs < MaxJobs /\ jobs' = jobs + 1 /\ work' = [work EXCEPT ![w] = k] /\ work[w].pc = "idle"
    BY <2>2 DEF Begin, At
  <2> QED BY <2>3, <2>4
<1>5. UNCHANGED <<entries, refs, rows, runtime, created, latest, disk>>
  BY DEF UpgradeBegin
<1>6. BusyAs(w, k, Reg, rows)
  BY DEF BusyAs, Upgrading, Idle
<1>7. w \in Workers /\ k.pc = "resolve" /\ k.mine = 0
  BY DEF Workers, Idle
<1> HIDE DEF k
<1> QED BY <1>3, <1>4, <1>5, <1>6, <1>7, Rest, BeginStep

\* What agents report is not of the reconciler's concern.
LEMMA UpsertProxiedStep == ASSUME RegistryInv, UpsertProxied PROVE RegistryInv'
<1>1. PICK i \in Proxied : Upsertable(i) /\ Upsert(i, None)
  BY DEF UpsertProxied
<1>2. UNCHANGED <<rows, runtime, created, latest, disk, work, jobs>>
  BY DEF UpsertProxied
<1>3. i \in Ids /\ i \notin Crds
  BY ConstantsAssumption DEF Ids
<1>4. EntriesType' /\ RefsExact' /\ Reg' = Reg \cup {i} /\ RunAt' = RunAt
  BY <1>1, <1>3, Rest, UpsertEffect
<1>5. TypeOK'
  <2>1. RestType
    BY Rest, TypeParts
  <2>2. RestType'
    BY <1>2, <2>1 DEF RestType
  <2>3. (TypeOK <=> EntriesType /\ RestType)'
    BY TypeParts, PTL
  <2> QED BY <1>4, <2>2, <2>3
<1>6. Busy'
  <2> SUFFICES ASSUME NEW w \in Workers PROVE BusyAs(w, work[w], Reg', rows)
    BY <1>2 DEF Busy
  <2>1. BusyAs(w, work[w], Reg, rows)
    BY Rest
  <2> QED BY <1>3, <1>4, <2>1 DEF BusyAs, Persisting, RollingBack, Deleting, DeletingStale, Upgrading, Stale
<1> QED BY <1>2, <1>3, <1>4, <1>5, <1>6 DEF RegistryInv, Persisted, EntryRuns, Mines, Routed

\* A publication changes only what "latest" resolves to.
LEMMA PublishStep == ASSUME RegistryInv, Publish \/ UNCHANGED vars PROVE RegistryInv'
<1>1. UNCHANGED <<entries, refs, rows, runtime, created, disk, work, jobs>> /\ latest' \in Versions
  BY Rest DEF Publish, vars
<1>2. EntriesType' /\ RefsExact' /\ Reg' = Reg /\ RunAt' = RunAt
  BY <1>1, Rest, SameEffect
<1>3. TypeOK'
  <2>1. RestType
    BY Rest, TypeParts
  <2>2. RestType'
    BY <1>1, <2>1 DEF RestType
  <2>3. (TypeOK <=> EntriesType /\ RestType)'
    BY TypeParts, PTL
  <2> QED BY <1>2, <2>2, <2>3
<1> QED BY <1>1, <1>2, <1>3 DEF RegistryInv, Busy, Persisted, EntryRuns, Mines, Routed

\* A restart empties the registry and ends every job.
LEMMA RestartStep == ASSUME RegistryInv, Restart PROVE RegistryInv'
<1>1. /\ entries' = [i \in Ids |-> None] /\ refs' = [n \in Names |-> None] /\ work' = [w \in Workers |-> Idle]
      /\ UNCHANGED <<rows, created, latest, disk>> /\ jobs' \in 0 .. MaxJobs
  BY Rest, ConstantsAssumption DEF Restart
<1>2. Reg' = {} /\ RunAt' = [i \in Ids |-> 0]
  BY <1>1 DEF Reg, RunAt, RunOf, Registered
<1>3. EntriesType'
  <2>1. \A i \in Crds : ~Registered(i)'
    BY <1>1, Rest DEF Registered
  <2> QED BY <1>1, <2>1 DEF EntriesType
<1>4. runtime' \in [Runtimes -> Runtime]
  <2>1. Free \in Runtime
    BY DEF Free, Runtime
  <2>2. \A s \in Runtimes : [runtime[s] EXCEPT !.state = "down"] \in Runtime
    BY Rest DEF Runtime
  <2> QED BY <2>1, <2>2, Rest DEF Restart
<1>5. TypeOK'
  <2>1. RestType'
    BY <1>1, <1>4, Rest, IdleRecord DEF RestType
  <2>2. (TypeOK <=> EntriesType /\ RestType)'
    BY TypeParts, PTL
  <2> QED BY <1>3, <2>1, <2>2
<1>6. RefsExact'
  BY <1>1, ConstantsAssumption DEF RefsExact, Registered
<1>7. Busy' /\ Persisted'
  BY <1>1, <1>2, IdleRecord DEF Busy, Persisted
<1>8. EntryRuns' /\ Mines' /\ Routed'
  <2>1. created \in Nat /\ Idle.pc = "idle" /\ Idle.mine = 0
    BY Rest, ConstantsAssumption, IdleRecord
  <2> QED BY <1>1, <1>2, <2>1 DEF EntryRuns, Mines, MineAs, Routed
<1> QED BY <1>5, <1>6, <1>7, <1>8 DEF RegistryInv
----------------------------------------------------------------------------
(* The reconciler by itself.                                               *)

Alone == \A w \in Upgraders : At(w, "idle")
SpecAt == [i \in Ids |-> IF Registered(i) THEN entries[i].spec ELSE None]

(***************************************************************************)
(* What the reconciler, whose record is k, can count on while no upgrade   *)
(* is under way: runs is the runtime of each entry, specs its spec and rt  *)
(* the runtimes.                                                           *)
(*   Owned: a new runtime is the one it launches, and one that is up is an *)
(*     entry's or the one it stops.                                        *)
(*   Vacant: it removes or replaces no entry that still has a runtime.     *)
(*   Launching: the runtime it launches is in the entry, at what was       *)
(*     resolved, and the one it takes out has failed.                      *)
(*   Asked: the entry has the spec that is being put in place.             *)
(*   InPlace: of every other entry, what runs is what its spec pins.       *)
(***************************************************************************)
Owned(k, runs, rt) ==
  \A s \in Runtimes :
    /\ rt[s].state = "new" => k.pc = "launch" /\ k.mine = s
    /\ rt[s].state = "up" => (\E i \in Ids : runs[i] = s) \/ (k.pc = "stop" /\ k.mine = s)

Changes(k) == k.prev = None \/ Binary(k.prev) # Binary(k.ask)
Vacant(k, runs) ==
  /\ k.pc \in {"stop", "remove"} => runs[k.id] = 0
  /\ k.job = "rollback" /\ k.pc \in {"start", "path", "set"} => runs[k.id] = 0
  /\ k.job = "persist" /\ k.pc \in {"start", "path", "set", "undo"} /\ Changes(k) => runs[k.id] = 0

Launching(k, runs, rt) ==
  /\ k.pc \in {"launch", "unset"} => runs[k.id] = k.mine
  /\ k.pc = "launch" => rt[k.mine].at = k.at
  /\ k.pc = "unset" => rt[k.mine].state = "down"

Asked(k, specs) ==
  /\ k.pc = "upsert" => k.prev = specs[k.id]
  /\ k.job = "persist" /\ k.pc \notin {"idle", "upsert"} => specs[k.id] = k.ask
  /\ k.pc \in {"path", "set", "launch"} /\ specs[k.id] \in Versions => k.at = specs[k.id]

InHand(k, i) == k.id = i /\ (k.pc \in {"launch", "unset"} \/ (k.pc = "pop" /\ k.job = "persist"))
InPlace(k, runs, specs, rt) ==
  \A i \in Crds : runs[i] # 0 /\ specs[i] \in Versions /\ ~InHand(k, i) =>
    rt[runs[i]] = [of |-> i, state |-> "up", at |-> specs[i]]

AloneAs(k, runs, specs, rt) ==
  Owned(k, runs, rt) /\ Vacant(k, runs) /\ Launching(k, runs, rt) /\ Asked(k, specs) /\ InPlace(k, runs, specs, rt)
AloneInv == AloneAs(work[Reconciler], RunAt, SpecAt, runtime)

\* Whether a version is pinned is decided by the spec alone.
LEMMA BinaryKept ==
  ASSUME NEW prev \in Specs, NEW ask \in Specs, Binary(prev) = Binary(ask), prev \in Versions \/ ask \in Versions
  PROVE  prev = ask
  BY ConstantsAssumption DEF Binary

\* What the reconciler knows, and how the entries are seen here.
LEMMA Known ==
  ASSUME RegistryInv, AloneInv
  PROVE  /\ Reconciler \in Workers /\ work[Reconciler] \in Work
         /\ BusyAs(Reconciler, work[Reconciler], Reg, rows)
         /\ AloneAs(work[Reconciler], RunAt, SpecAt, runtime)
         /\ SpecAt \in [Ids -> Specs \cup {None}]
         /\ \A i \in Ids : /\ RunAt[i] = RunOf(i)
                           /\ Registered(i) => SpecAt[i] = entries[i].spec
                           /\ ~Registered(i) => SpecAt[i] = None /\ RunAt[i] = 0
         /\ \A i \in Crds : SpecAt[i] = None <=> ~Registered(i)
         /\ \A i \in Ids : RunAt[i] # 0 => /\ RunAt[i] \in 1 .. created /\ RunAt[i] \in Runtimes
                                           /\ runtime[RunAt[i]].of = i
<1>1. Reconciler \in Workers /\ AloneAs(work[Reconciler], RunAt, SpecAt, runtime)
  BY DEF Workers, AloneInv
<1>2. \A i \in Ids : Registered(i) => entries[i] \in Entry
  BY Rest DEF TypeOK, Registered
<1>3. SpecAt \in [Ids -> Specs \cup {None}]
  BY <1>2 DEF SpecAt, Entry
<1>4. \A i \in Ids : /\ RunAt[i] = RunOf(i)
                     /\ Registered(i) => SpecAt[i] = entries[i].spec
                     /\ ~Registered(i) => SpecAt[i] = None /\ RunAt[i] = 0
  BY DEF RunAt, SpecAt, RunOf
<1>5. \A i \in Crds : SpecAt[i] = None <=> ~Registered(i)
  BY <1>4, Rest DEF TypeOK
<1>6. \A i \in Ids : RunAt[i] # 0 => /\ RunAt[i] \in 1 .. created /\ RunAt[i] \in Runtimes
                                     /\ runtime[RunAt[i]].of = i
  BY Rest, ConstantsAssumption DEF RegistryInv, EntryRuns, Runtimes
<1> QED BY <1>1, <1>3, <1>4, <1>5, <1>6, Rest

\* How the methods of the registry change the specs.
LEMMA SpecUpsert ==
  ASSUME TypeOK, NEW i \in Ids, NEW spec \in Specs \cup {None}, Upsert(i, spec)
  PROVE  SpecAt' = [SpecAt EXCEPT ![i] = spec]
<1> DEFINE e == IF Registered(i) THEN [entries[i] EXCEPT !.spec = spec] ELSE [spec |-> spec, path |-> None, run |-> 0]
<1>1. entries' = [entries EXCEPT ![i] = e]
  BY DEF Upsert
<1>2. e \in Entry /\ e.spec = spec
  BY ConstantsAssumption DEF TypeOK, Registered, Entry
<1> HIDE DEF e
<1>3. e # None
  BY <1>2, NoneAssumption
<1>4. \A j \in Ids : entries'[j] = IF j = i THEN e ELSE entries[j]
  BY <1>1 DEF TypeOK
<1> QED BY <1>2, <1>3, <1>4 DEF SpecAt, Registered

\* A removed entry has no spec.
LEMMA SpecRemove ==
  ASSUME TypeOK, NEW i \in Ids, Remove(i)
  PROVE  SpecAt' = [SpecAt EXCEPT ![i] = None]
<1>1. \A j \in Ids : entries'[j] = IF j = i THEN None ELSE entries[j]
  BY DEF TypeOK, Remove
<1> QED BY <1>1 DEF SpecAt, Registered

\* Of an entry whose runtime or path alone changes.
LEMMA SpecEntry ==
  ASSUME TypeOK, NEW i \in Ids, NEW e, entries' = [entries EXCEPT ![i] = e],
         Registered(i) => e # None /\ e.spec = entries[i].spec, ~Registered(i) => e = None
  PROVE  SpecAt' = SpecAt
<1>1. \A j \in Ids : entries'[j] = IF j = i THEN e ELSE entries[j]
  BY DEF TypeOK
<1> QED BY <1>1 DEF SpecAt, Registered

\* PopRuntime keeps the spec.
LEMMA SpecPop ==
  ASSUME TypeOK, NEW i \in Ids, PopRuntime(i)
  PROVE  SpecAt' = SpecAt
<1> DEFINE e == IF Registered(i) THEN [entries[i] EXCEPT !.run = 0] ELSE None
<1>1. entries' = [entries EXCEPT ![i] = e]
  BY DEF PopRuntime
<1>2. CASE Registered(i)
  <2>1. entries[i] \in Entry
    BY <1>2 DEF TypeOK, Registered
  <2>2. e \in Entry /\ e.spec = entries[i].spec
    BY <1>2, <2>1, ConstantsAssumption DEF Entry
  <2>3. e # None
    BY <2>2, NoneAssumption
  <2> HIDE DEF e
  <2> QED BY <1>1, <1>2, <2>2, <2>3, SpecEntry
<1>3. CASE ~Registered(i)
  <2>1. e = None
    BY <1>3
  <2> HIDE DEF e
  <2> QED BY <1>1, <1>3, <2>1, SpecEntry
<1> QED BY <1>2, <1>3

\* Steps that leave the entries alone keep specs and runtimes.
LEMMA SpecSame == ASSUME UNCHANGED entries PROVE SpecAt' = SpecAt /\ RunAt' = RunAt
BY DEF SpecAt, RunAt, RunOf, Registered

\* A job ends with the entries and the runtimes as they are.
LEMMA IdleAlone ==
  ASSUME RegistryInv, AloneInv, work' = [work EXCEPT ![Reconciler] = Idle],
         RunAt' = RunAt, SpecAt' = SpecAt, runtime' = runtime,
         work[Reconciler].pc \notin {"launch", "unset", "stop", "pop"}
  PROVE  AloneInv'
<1>1. work'[Reconciler] = Idle /\ Idle.pc = "idle"
  BY Known, Rest DEF Idle
<1>2. AloneAs(Idle, RunAt, SpecAt, runtime)
  BY <1>1, Known DEF AloneAs, Owned, Vacant, Launching, Asked, InPlace, InHand
<1> QED BY <1>1, <1>2 DEF AloneInv

\* A start that fails leaves the entry with a runtime in place, or with none.
LEMMA FailedAlone ==
  ASSUME RegistryInv, AloneInv, Failed(Reconciler), SpecAt' = SpecAt, runtime' = runtime,
         \/ work[Reconciler].pc \in {"start", "path", "set"} /\ RunAt' = RunAt
         \/ work[Reconciler].pc = "unset" /\ RunAt' = [RunAt EXCEPT ![work[Reconciler].id] = 0]
  PROVE  AloneInv'
<1> DEFINE k == work[Reconciler]
<1>1. /\ k \in Work /\ k.id \in Ids /\ work \in [Workers -> Work] /\ Reconciler \in Workers
      /\ AloneAs(k, RunAt, SpecAt, runtime)
  BY Known, Rest DEF BusyAs, Persisting, RollingBack, Deleting, DeletingStale, Upgrading, Starting, Ids
<1>2. \A i \in Ids : RunAt'[i] = IF k.pc = "unset" /\ i = k.id THEN 0 ELSE RunAt[i]
  BY <1>1, Rest
<1>3. PICK n : n = work'[Reconciler]
  OBVIOUS
<1>4. \/ n.pc = "idle"
      \/ n.pc = "undo" /\ n.job = "persist" /\ n.job = k.job /\ n.id = k.id /\ n.prev = k.prev /\ n.ask = k.ask
  <2>1. CASE k.job = "persist"
    BY <1>1, <1>3, <2>1 DEF Failed, Go, Work
  <2>2. CASE k.job # "persist"
    BY <1>1, <1>3, <2>2 DEF Failed, End, Idle
  <2> QED BY <2>1, <2>2
<1>5. Owned(n, RunAt', runtime)
  BY <1>1, <1>2, <1>4 DEF AloneAs, Owned, Launching
<1>6. Vacant(n, RunAt') /\ Launching(n, RunAt', runtime) /\ Asked(n, SpecAt)
  BY <1>1, <1>2, <1>4 DEF AloneAs, Vacant, Launching, Asked, Changes
<1>7. InPlace(n, RunAt', SpecAt, runtime)
  BY <1>1, <1>2, <1>4 DEF AloneAs, InPlace, InHand, Ids
<1> QED BY <1>3, <1>5, <1>6, <1>7 DEF AloneInv, AloneAs

\* Only an upgrade goes on after a start that succeeded.
LEMMA SucceededAlone ==
  ASSUME RegistryInv, AloneInv, Succeeded(Reconciler), work[Reconciler].pc # "idle"
  PROVE  work' = [work EXCEPT ![Reconciler] = Idle]
<1>1. work[Reconciler].job # "upgrade"
  BY Known, ConstantsAssumption DEF BusyAs, Persisting, RollingBack, Deleting, DeletingStale, Upgrading
<1> QED BY <1>1 DEF Succeeded, End

\* The entry gets the spec that is asked for.
LEMMA PersistUpsertAlone == ASSUME RegistryInv, AloneInv, PersistUpsert(Reconciler) PROVE AloneInv'
<1> DEFINE k == work[Reconciler]
<1>1. k.pc = "upsert" /\ runtime' = runtime
  BY DEF PersistUpsert, At
<1>2. /\ k \in Work /\ work \in [Workers -> Work] /\ Reconciler \in Workers /\ AloneAs(k, RunAt, SpecAt, runtime)
      /\ k.job = "persist" /\ k.id \in Crds /\ k.id \in Ids /\ k.ask \in Specs /\ k.prev = SpecAt[k.id]
  BY <1>1, Known, Rest DEF BusyAs, Persisting, RollingBack, Deleting, DeletingStale, Upgrading, Starting, Ids,
                           AloneAs, Asked
<1>3. CASE ~Upsertable(Id(Reconciler))
  BY <1>1, <1>3, IdleAlone, SpecSame DEF PersistUpsert, End
<1>4. CASE Upsertable(Id(Reconciler))
  <2>1. Upsert(k.id, k.ask) /\ Go(Reconciler, IF BinaryChanged(Reconciler) THEN "pop" ELSE "start")
    BY <1>4 DEF PersistUpsert, Id
  <2>2. RunAt' = RunAt /\ SpecAt' = [SpecAt EXCEPT ![k.id] = k.ask]
    BY <1>2, <1>4, <2>1, Rest, UpsertEffect, SpecUpsert, ConstantsAssumption DEF Id
  <2>3. PICK n : n = work'[Reconciler]
    OBVIOUS
  <2>4. /\ n.pc = IF BinaryChanged(Reconciler) THEN "pop" ELSE "start"
        /\ n.job = "persist" /\ n.id = k.id /\ n.prev = k.prev /\ n.ask = k.ask
    BY <1>2, <2>1, <2>3 DEF Go, Work
  <2>5. \A i \in Ids : SpecAt'[i] = IF i = k.id THEN k.ask ELSE SpecAt[i]
    BY <1>2, <2>2, Known
  <2>6. n.pc = "start" /\ Changes(n) => RunAt[k.id] = 0
    BY <1>2, <2>4, Known DEF BinaryChanged, Changes
  <2>7. Owned(n, RunAt, runtime)
    BY <1>1, <1>2, <2>4 DEF AloneAs, Owned
  <2>8. Vacant(n, RunAt) /\ Launching(n, RunAt, runtime) /\ Asked(n, SpecAt')
    BY <1>2, <2>4, <2>5, <2>6 DEF Vacant, Launching, Asked
  <2>9. InPlace(n, RunAt, SpecAt', runtime)
    <3> SUFFICES ASSUME NEW i \in Crds, RunAt[i] # 0, SpecAt'[i] \in Versions, ~InHand(n, i)
                 PROVE  runtime[RunAt[i]] = [of |-> i, state |-> "up", at |-> SpecAt'[i]]
      BY DEF InPlace
    <3>1. SpecAt'[i] = SpecAt[i]
      <4>1. CASE i = k.id
        <5>1. n.pc = "start" /\ ~Changes(n)
          BY <2>4, <2>6, <4>1 DEF InHand
        <5>2. k.prev \in Specs
          BY <1>2, <2>4, <5>1, Known DEF Changes
        <5> QED BY <1>2, <2>4, <2>5, <4>1, <5>1, <5>2, BinaryKept DEF Changes
      <4>2. CASE i # k.id
        BY <2>5, <4>2, Rest
      <4> QED BY <4>1, <4>2
    <3> QED BY <1>1, <1>2, <3>1 DEF AloneAs, InPlace, InHand
  <2> QED BY <1>1, <2>2, <2>3, <2>7, <2>8, <2>9 DEF AloneInv, AloneAs
<1> QED BY <1>3, <1>4

\* The entry that is rolled back has its old spec again, and a process of it or none.
LEMMA PersistUndoAlone == ASSUME RegistryInv, AloneInv, PersistUndo(Reconciler) PROVE AloneInv'
<1> DEFINE k == work[Reconciler]
<1>1. k.pc = "undo" /\ runtime' = runtime
  BY DEF PersistUndo, At
<1>2. /\ k \in Work /\ work \in [Workers -> Work] /\ Reconciler \in Workers /\ AloneAs(k, RunAt, SpecAt, runtime)
      /\ k.job = "persist" /\ k.id \in Crds /\ k.id \in Ids /\ k.ask \in Specs /\ k.id \in Reg
      /\ k.ask = SpecAt[k.id] /\ (Changes(k) => RunAt[k.id] = 0)
  BY <1>1, Known, Rest DEF BusyAs, Persisting, RollingBack, Deleting, DeletingStale, Upgrading, Starting, Ids,
                           AloneAs, Asked, Vacant
<1>3. PICK n : n = work'[Reconciler]
  OBVIOUS
<1>4. CASE k.prev = None
  <2>1. Remove(k.id) /\ End(Reconciler)
    BY <1>4 DEF PersistUndo, Id
  <2>2. RunAt' = [RunAt EXCEPT ![k.id] = 0] /\ SpecAt' = [SpecAt EXCEPT ![k.id] = None]
    BY <1>2, <2>1, Rest, RemoveEffect, SpecRemove
  <2>3. /\ RunAt' = RunAt
        /\ \A i \in Ids : SpecAt'[i] = IF i = k.id THEN None ELSE SpecAt[i]
    BY <1>2, <1>4, <2>2, Rest, Known DEF Changes
  <2>4. n.pc = "idle"
    BY <1>2, <1>3, <2>1 DEF End, Idle
  <2>5. AloneAs(n, RunAt, SpecAt', runtime)
    BY <1>1, <1>2, <1>4, <2>3, <2>4, Rest DEF AloneAs, Owned, Vacant, Launching, Asked, InPlace, InHand, Changes
  <2> QED BY <1>1, <1>3, <2>3, <2>5 DEF AloneInv
<1>5. CASE k.prev # None
  <2>1. Upsert(k.id, k.prev) /\ k.prev \in Specs /\ k.prev \in Specs \cup {None} /\ Registered(k.id)
    BY <1>2, <1>5 DEF PersistUndo, Id, Work, Reg
  <2>2. RunAt' = RunAt /\ SpecAt' = [SpecAt EXCEPT ![k.id] = k.prev]
    BY <1>2, <1>5, <2>1, Rest, UpsertEffect, SpecUpsert
  <2>3. \A i \in Ids : SpecAt'[i] = IF i = k.id THEN k.prev ELSE SpecAt[i]
    BY <1>2, <2>2, Known
  <2>4. \/ n.pc = "idle"
        \/ n.pc = "start" /\ n.job = "rollback" /\ n.id = k.id /\ Changes(k)
    <3>1. CASE BinaryChanged(Reconciler)
      BY <1>2, <1>3, <1>5, <3>1 DEF PersistUndo, Work, BinaryChanged, Changes
    <3>2. CASE ~BinaryChanged(Reconciler)
      BY <1>2, <1>3, <1>5, <3>2 DEF PersistUndo, End, Idle
    <3> QED BY <3>1, <3>2
  <2>5. Owned(n, RunAt, runtime) /\ Vacant(n, RunAt) /\ Launching(n, RunAt, runtime) /\ Asked(n, SpecAt')
    BY <1>1, <1>2, <2>4 DEF AloneAs, Owned, Vacant, Launching, Asked
  <2>6. InPlace(n, RunAt, SpecAt', runtime)
    <3> SUFFICES ASSUME NEW i \in Crds, RunAt[i] # 0, SpecAt'[i] \in Versions
                 PROVE  runtime[RunAt[i]] = [of |-> i, state |-> "up", at |-> SpecAt'[i]]
      BY DEF InPlace
    <3>1. SpecAt'[i] = SpecAt[i]
      <4>1. CASE i = k.id
        BY <1>2, <2>1, <2>3, <4>1, BinaryKept DEF Changes
      <4>2. CASE i # k.id
        BY <2>3, <4>2, Rest
      <4> QED BY <4>1, <4>2
    <3> QED BY <1>1, <1>2, <3>1 DEF AloneAs, InPlace, InHand
  <2> QED BY <1>1, <1>3, <2>2, <2>5, <2>6 DEF AloneInv, AloneAs
<1> QED BY <1>4, <1>5

\* The runtime taken out of an entry is in the reconciler's hand.
LEMMA StopPopAlone == ASSUME RegistryInv, AloneInv, StopPop(Reconciler) PROVE AloneInv'
<1> DEFINE k == work[Reconciler]
<1>1. k.pc = "pop" /\ runtime' = runtime /\ PopRuntime(k.id) /\ UNCHANGED refs
  BY DEF StopPop, At, Id
<1>2. /\ k \in Work /\ work \in [Workers -> Work] /\ Reconciler \in Workers /\ AloneAs(k, RunAt, SpecAt, runtime)
      /\ k.id \in Ids /\ RunAt[k.id] = RunOf(k.id)
  BY <1>1, Known, Rest DEF BusyAs, Persisting, RollingBack, Deleting, DeletingStale, Upgrading, Starting, Ids
<1>3. RunAt' = [RunAt EXCEPT ![k.id] = 0] /\ SpecAt' = SpecAt
  BY <1>1, <1>2, Rest, PopEffect, SpecPop
<1>4. \A i \in Ids : RunAt'[i] = IF i = k.id THEN 0 ELSE RunAt[i]
  BY <1>2, <1>3, Rest
<1>5. PICK n : n = work'[Reconciler]
  OBVIOUS
<1>6. n.pc = "stop" /\ n.mine = RunAt[k.id] /\ n.job = k.job /\ n.id = k.id /\ n.ask = k.ask
  BY <1>2, <1>5 DEF StopPop, Id, Work
<1>7. Owned(n, RunAt', runtime) /\ Vacant(n, RunAt')
  BY <1>1, <1>2, <1>4, <1>6 DEF AloneAs, Owned, Vacant
<1>8. Launching(n, RunAt', runtime) /\ Asked(n, SpecAt)
  BY <1>1, <1>2, <1>6 DEF AloneAs, Launching, Asked
<1>9. InPlace(n, RunAt', SpecAt, runtime)
  BY <1>1, <1>2, <1>4, <1>6, Rest DEF AloneAs, InPlace, InHand
<1> QED BY <1>1, <1>3, <1>5, <1>7, <1>8, <1>9 DEF AloneInv, AloneAs

\* What is stopped has been up, since nothing else launches.
LEMMA StopStopAlone == ASSUME RegistryInv, AloneInv, StopStop(Reconciler) PROVE AloneInv'
<1> DEFINE k == work[Reconciler]
<1>1. k.pc = "stop" /\ RunAt' = RunAt /\ SpecAt' = SpecAt
  BY SpecSame DEF StopStop, At
<1>2. /\ k \in Work /\ work \in [Workers -> Work] /\ Reconciler \in Workers /\ AloneAs(k, RunAt, SpecAt, runtime)
      /\ k.id \in Ids /\ (k.mine # 0 => \A i \in Ids : RunAt[i] # k.mine)
  BY <1>1, Known, Rest DEF BusyAs, Persisting, RollingBack, Deleting, DeletingStale, Upgrading, Starting, Ids,
                           RegistryInv, Mines, MineAs
<1>3. PICK n : n = work'[Reconciler]
  OBVIOUS
<1>4. n.pc \in {"remove", "start"} /\ n.job = k.job /\ n.id = k.id /\ n.ask = k.ask
  BY <1>2, <1>3 DEF StopStop, Work
<1>5. \A s \in Runtimes : IF s = k.mine /\ runtime[s].state = "up" THEN runtime'[s].state = "down"
                          ELSE runtime'[s] = runtime[s]
  BY Rest DEF StopStop, Runtime
<1>6. Owned(n, RunAt, runtime')
  BY <1>1, <1>2, <1>4, <1>5 DEF AloneAs, Owned
<1>7. Vacant(n, RunAt) /\ Launching(n, RunAt, runtime') /\ Asked(n, SpecAt)
  BY <1>1, <1>2, <1>4 DEF AloneAs, Vacant, Launching, Asked
<1>8. InPlace(n, RunAt, SpecAt, runtime')
  <2> SUFFICES ASSUME NEW i \in Crds, RunAt[i] # 0, SpecAt[i] \in Versions
               PROVE  runtime'[RunAt[i]] = [of |-> i, state |-> "up", at |-> SpecAt[i]]
    BY DEF InPlace
  <2>1. runtime[RunAt[i]] = [of |-> i, state |-> "up", at |-> SpecAt[i]]
    BY <1>1, <1>2 DEF AloneAs, InPlace, InHand
  <2>2. RunAt[i] \in Runtimes /\ RunAt[i] # k.mine
    BY <1>2, Known, Rest
  <2> QED BY <1>5, <2>1, <2>2
<1> QED BY <1>1, <1>3, <1>6, <1>7, <1>8 DEF AloneInv, AloneAs

\* What is resolved is the version that the spec pins.
LEMMA StartPluginAlone == ASSUME RegistryInv, AloneInv, StartPlugin(Reconciler) PROVE AloneInv'
<1> DEFINE k == work[Reconciler]
           spec == entries[k.id].spec
           v == IF spec = Latest THEN latest ELSE spec
<1>1. k.pc = "start" /\ RunAt' = RunAt /\ SpecAt' = SpecAt /\ runtime' = runtime
  BY SpecSame DEF StartPlugin, At
<1>2. /\ k \in Work /\ work \in [Workers -> Work] /\ Reconciler \in Workers /\ AloneAs(k, RunAt, SpecAt, runtime)
      /\ k.id \in Ids
  BY <1>1, Known, Rest DEF BusyAs, Persisting, RollingBack, Deleting, DeletingStale, Upgrading, Starting, Ids
<1>3. CASE Failed(Reconciler)
  BY <1>1, <1>3, FailedAlone
<1>4. CASE ~Failed(Reconciler)
  <2>1. /\ Registered(k.id)
        /\ work' = [work EXCEPT ![Reconciler].at = v, ![Reconciler].pc = IF v \in Addresses THEN "set" ELSE "path"]
    BY <1>4 DEF StartPlugin, Id
  <2>2. SpecAt[k.id] \in Versions => v = SpecAt[k.id]
    BY <1>2, <2>1, Known, ConstantsAssumption
  <2> HIDE DEF v
  <2>3. PICK n : n = work'[Reconciler]
    OBVIOUS
  <2>4. /\ n.pc \in {"set", "path"} /\ n.at = v /\ n.job = k.job /\ n.id = k.id /\ n.ask = k.ask /\ n.prev = k.prev
    BY <1>2, <2>1, <2>3 DEF Work
  <2>5. AloneAs(n, RunAt, SpecAt, runtime)
    BY <1>1, <1>2, <2>2, <2>4 DEF AloneAs, Owned, Vacant, Launching, Asked, InPlace, InHand, Changes
  <2> QED BY <1>1, <2>3, <2>5 DEF AloneInv
<1> QED BY <1>3, <1>4

\* The installed path says nothing of the runtime.
LEMMA StartPathAlone == ASSUME RegistryInv, AloneInv, StartPath(Reconciler) PROVE AloneInv'
<1> DEFINE k == work[Reconciler]
<1>1. k.pc = "path" /\ runtime' = runtime
  BY DEF StartPath, At
<1>2. /\ k \in Work /\ work \in [Workers -> Work] /\ Reconciler \in Workers /\ AloneAs(k, RunAt, SpecAt, runtime)
      /\ k.id \in Ids /\ k.at \in Versions
  BY <1>1, Known, Rest DEF BusyAs, Persisting, RollingBack, Deleting, DeletingStale, Upgrading, Starting, Ids
<1>3. CASE ~Registered(k.id)
  BY <1>1, <1>3, SpecSame, FailedAlone DEF StartPath, Id
<1>4. CASE Registered(k.id)
  <2> DEFINE e == [entries[k.id] EXCEPT !.path = k.at]
  <2>1. entries' = [entries EXCEPT ![k.id] = e] /\ Go(Reconciler, "set") /\ UNCHANGED refs
    BY <1>4 DEF StartPath, Id
  <2>2. entries[k.id] \in Entry
    BY <1>2, <1>4, Rest DEF TypeOK, Registered
  <2>3. e \in Entry /\ e.spec = entries[k.id].spec /\ e.run = entries[k.id].run
    BY <1>2, <2>2 DEF Entry
  <2> HIDE DEF e
  <2>4. SpecAt' = SpecAt
    BY <1>2, <1>4, <2>1, <2>3, Rest, NoneAssumption, SpecEntry
  <2>5. RunAt' = [RunAt EXCEPT ![k.id] = e.run]
    <3>1. RunAt' = [RunAt EXCEPT ![k.id] = IF Registered(k.id) THEN e.run ELSE 0]
      BY <1>2, <1>4, <2>1, <2>3, Rest, EntryEffect
    <3> QED BY <1>4, <3>1
  <2>6. RunAt' = RunAt
    BY <1>2, <1>4, <2>3, <2>5, Known, Rest DEF RunOf
  <2>7. PICK n : n = work'[Reconciler]
    OBVIOUS
  <2>8. n.pc = "set" /\ n.at = k.at /\ n.job = k.job /\ n.id = k.id /\ n.ask = k.ask /\ n.prev = k.prev
    BY <1>2, <2>1, <2>7 DEF Go, Work
  <2>9. AloneAs(n, RunAt, SpecAt, runtime)
    BY <1>1, <1>2, <2>8 DEF AloneAs, Owned, Vacant, Launching, Asked, InPlace, InHand, Changes
  <2> QED BY <1>1, <2>4, <2>6, <2>7, <2>9 DEF AloneInv
<1> QED BY <1>3, <1>4

\* A runtime is set where there is none, and launched next unless it is remote.
LEMMA StartSetAlone == ASSUME RegistryInv, AloneInv, StartSet(Reconciler) PROVE AloneInv'
<1> DEFINE k == work[Reconciler]
           s == created + 1
           remote == k.at \in Addresses
           made == [of |-> k.id, state |-> IF remote THEN "up" ELSE "new", at |-> k.at]
<1>1. k.pc = "set"
  BY DEF StartSet, At
<1>2. /\ k \in Work /\ work \in [Workers -> Work] /\ Reconciler \in Workers /\ AloneAs(k, RunAt, SpecAt, runtime)
      /\ k.id \in Ids
  BY <1>1, Known, Rest DEF BusyAs, Persisting, RollingBack, Deleting, DeletingStale, Upgrading, Starting, Ids
<1>3. CASE Failed(Reconciler) /\ UNCHANGED <<entries, runtime, created>>
  BY <1>1, <1>3, SpecSame, FailedAlone
<1>4. CASE Succeeded(Reconciler) /\ UNCHANGED <<entries, runtime, created>>
  BY <1>1, <1>4, SpecSame, SucceededAlone, IdleAlone
<1>5. CASE /\ Registered(k.id) /\ created < MaxRuntimes
           /\ entries' = [entries EXCEPT ![k.id].run = s]
           /\ runtime' = [runtime EXCEPT ![s] = made]
           /\ IF remote THEN Succeeded(Reconciler)
              ELSE work' = [work EXCEPT ![Reconciler].pc = "launch", ![Reconciler].mine = s]
           /\ RunOf(k.id) = 0 /\ UNCHANGED refs
  <2>1. s \in Runtimes /\ s \in 0 .. MaxRuntimes /\ s # 0 /\ \A i \in Ids : RunAt[i] # s
    BY <1>5, Rest, Known, ConstantsAssumption DEF Runtimes
  <2> HIDE DEF s
  <2>2. entries[k.id] \in Entry
    BY <1>2, <1>5, Rest DEF TypeOK, Registered
  <2> DEFINE e == [entries[k.id] EXCEPT !.run = s]
  <2>3. e \in Entry /\ e.spec = entries[k.id].spec /\ e.run = s /\ entries' = [entries EXCEPT ![k.id] = e]
    BY <1>5, <2>1, <2>2 DEF Entry
  <2> HIDE DEF e
  <2>4. SpecAt' = SpecAt
    BY <1>2, <1>5, <2>3, Rest, NoneAssumption, SpecEntry
  <2>5. \A i \in Ids : RunAt'[i] = IF i = k.id THEN s ELSE RunAt[i]
    <3>1. RunAt' = [RunAt EXCEPT ![k.id] = IF Registered(k.id) THEN e.run ELSE 0]
      BY <1>2, <1>5, <2>3, Rest, EntryEffect
    <3> QED BY <1>2, <1>5, <2>3, <3>1, Rest
  <2>6. RunAt[k.id] = 0
    BY <1>2, <1>5, Known
  <2>7. made.of = k.id /\ made.state = (IF remote THEN "up" ELSE "new") /\ made.at = k.at
    OBVIOUS
  <2> HIDE DEF made
  <2>8. \A t \in Runtimes : runtime'[t] = IF t = s THEN made ELSE runtime[t]
    BY <1>5, Rest
  <2>9. PICK n : n = work'[Reconciler]
    OBVIOUS
  <2>10. IF remote THEN n.pc = "idle"
         ELSE n.pc = "launch" /\ n.mine = s /\ n.job = k.job /\ n.id = k.id /\ n.ask = k.ask /\ n.at = k.at
    <3>1. CASE remote
      <4>1. work' = [work EXCEPT ![Reconciler] = Idle]
        BY <1>1, <1>5, <3>1, SucceededAlone
      <4> QED BY <1>2, <2>9, <3>1, <4>1 DEF Idle
    <3>2. CASE ~remote
      BY <1>2, <1>5, <2>9, <3>2 DEF Work
    <3> QED BY <3>1, <3>2
  <2>11. remote => SpecAt[k.id] \notin Versions
    BY <1>1, <1>2, ConstantsAssumption DEF AloneAs, Asked
  <2>12. Owned(n, RunAt', runtime')
    <3> SUFFICES ASSUME NEW t \in Runtimes
                 PROVE  /\ runtime'[t].state = "new" => n.pc = "launch" /\ n.mine = t
                        /\ runtime'[t].state = "up" => \E i \in Ids : RunAt'[i] = t
      BY DEF Owned
    <3>1. CASE t = s
      BY <1>2, <2>5, <2>7, <2>8, <2>10, <3>1
    <3>2. CASE t # s
      <4>1. runtime'[t] = runtime[t] /\ runtime[t].state # "new"
        BY <1>1, <1>2, <2>8, <3>2 DEF AloneAs, Owned
      <4>2. ASSUME runtime[t].state = "up" PROVE \E i \in Ids : RunAt'[i] = t
        <5>1. PICK i \in Ids : RunAt[i] = t
          BY <1>1, <1>2, <4>2 DEF AloneAs, Owned
        <5>2. i # k.id
          BY <2>6, <5>1, ConstantsAssumption DEF Runtimes
        <5> QED BY <2>5, <5>1, <5>2
      <4> QED BY <4>1, <4>2
    <3> QED BY <3>1, <3>2
  <2>13. Vacant(n, RunAt') /\ Asked(n, SpecAt)
    BY <1>1, <1>2, <2>10 DEF AloneAs, Vacant, Asked
  <2>14. Launching(n, RunAt', runtime')
    BY <1>2, <2>1, <2>5, <2>7, <2>8, <2>10 DEF Launching
  <2>15. InPlace(n, RunAt', SpecAt, runtime')
    <3> SUFFICES ASSUME NEW i \in Crds, RunAt'[i] # 0, SpecAt[i] \in Versions, ~InHand(n, i)
                 PROVE  runtime'[RunAt'[i]] = [of |-> i, state |-> "up", at |-> SpecAt[i]]
      BY DEF InPlace
    <3>1. i \in Ids /\ i # k.id
      BY <2>10, <2>11, Rest DEF InHand
    <3>2. RunAt'[i] = RunAt[i] /\ RunAt[i] # 0 /\ RunAt[i] \in Runtimes /\ RunAt[i] # s
      BY <2>1, <2>5, <3>1, Known
    <3> QED BY <1>1, <1>2, <2>8, <3>1, <3>2 DEF AloneAs, InPlace, InHand
  <2> QED BY <2>4, <2>9, <2>12, <2>13, <2>14, <2>15 DEF AloneInv, AloneAs
<1> QED BY <1>3, <1>4, <1>5 DEF StartSet, Id

\* What is launched is what the spec pins; what is not is about to be taken out.
LEMMA StartLaunchAlone == ASSUME RegistryInv, AloneInv, StartLaunch(Reconciler) PROVE AloneInv'
<1> DEFINE k == work[Reconciler]
<1>1. k.pc = "launch" /\ RunAt' = RunAt /\ SpecAt' = SpecAt
  BY SpecSame DEF StartLaunch, At
<1>2. /\ k \in Work /\ work \in [Workers -> Work] /\ Reconciler \in Workers /\ AloneAs(k, RunAt, SpecAt, runtime)
      /\ k.id \in Ids /\ k.mine # 0 /\ RunAt[k.id] = k.mine /\ runtime[k.mine].at = k.at
  BY <1>1, Known, Rest DEF BusyAs, Persisting, RollingBack, Deleting, DeletingStale, Upgrading, Starting, Ids,
                           RegistryInv, Mines, MineAs, AloneAs, Launching
<1>3. k.mine \in Runtimes /\ runtime[k.mine].of = k.id /\ runtime[k.mine] \in Runtime
  BY <1>2, Known, Rest
<1>4. \A i \in Ids : RunAt[i] = k.mine => i = k.id
  BY <1>2, <1>3, Known
<1>5. PICK n : n = work'[Reconciler]
  OBVIOUS
<1>6. CASE runtime' = [runtime EXCEPT ![k.mine].state = "up"] /\ Succeeded(Reconciler)
  <2>1. n.pc = "idle"
    BY <1>1, <1>2, <1>5, <1>6, SucceededAlone DEF Idle
  <2>2. \A t \in Runtimes : IF t = k.mine THEN runtime'[t] = [of |-> k.id, state |-> "up", at |-> k.at]
                            ELSE runtime'[t] = runtime[t]
    BY <1>2, <1>3, <1>6, Rest DEF Runtime
  <2>3. Owned(n, RunAt, runtime')
    BY <1>1, <1>2, <1>3, <2>1, <2>2 DEF AloneAs, Owned
  <2>4. Vacant(n, RunAt) /\ Launching(n, RunAt, runtime') /\ Asked(n, SpecAt)
    BY <2>1 DEF Vacant, Launching, Asked
  <2>5. InPlace(n, RunAt, SpecAt, runtime')
    <3> SUFFICES ASSUME NEW i \in Crds, RunAt[i] # 0, SpecAt[i] \in Versions
                 PROVE  runtime'[RunAt[i]] = [of |-> i, state |-> "up", at |-> SpecAt[i]]
      BY DEF InPlace
    <3>1. CASE i = k.id
      BY <1>1, <1>2, <1>3, <2>2, <3>1 DEF AloneAs, Asked
    <3>2. CASE i # k.id
      <4>1. RunAt[i] \in Runtimes /\ RunAt[i] # k.mine
        BY <1>4, <3>2, Known, Rest
      <4> QED BY <1>1, <1>2, <2>2, <3>2, <4>1 DEF AloneAs, InPlace, InHand
    <3> QED BY <3>1, <3>2
  <2> QED BY <1>1, <1>5, <2>3, <2>4, <2>5 DEF AloneInv, AloneAs
<1>7. CASE runtime' = [runtime EXCEPT ![k.mine].state = "down"] /\ Go(Reconciler, "unset")
  <2>1. n.pc = "unset" /\ n.mine = k.mine /\ n.job = k.job /\ n.id = k.id /\ n.ask = k.ask
    BY <1>2, <1>5, <1>7 DEF Go, Work
  <2>2. \A t \in Runtimes : IF t = k.mine THEN runtime'[t].state = "down" ELSE runtime'[t] = runtime[t]
    BY <1>3, <1>7, Rest DEF Runtime
  <2>3. Owned(n, RunAt, runtime')
    BY <1>1, <1>2, <2>2 DEF AloneAs, Owned
  <2>4. Vacant(n, RunAt) /\ Launching(n, RunAt, runtime') /\ Asked(n, SpecAt)
    BY <1>1, <1>2, <1>3, <2>1, <2>2 DEF AloneAs, Vacant, Launching, Asked
  <2>5. InPlace(n, RunAt, SpecAt, runtime')
    <3> SUFFICES ASSUME NEW i \in Crds, RunAt[i] # 0, SpecAt[i] \in Versions, ~InHand(n, i)
                 PROVE  runtime'[RunAt[i]] = [of |-> i, state |-> "up", at |-> SpecAt[i]]
      BY DEF InPlace
    <3>1. i # k.id /\ RunAt[i] \in Runtimes /\ RunAt[i] # k.mine
      BY <1>4, <2>1, Known, Rest DEF InHand
    <3> QED BY <1>1, <1>2, <2>2, <3>1 DEF AloneAs, InPlace, InHand
  <2> QED BY <1>1, <1>5, <2>3, <2>4, <2>5 DEF AloneInv, AloneAs
<1> QED BY <1>6, <1>7 DEF StartLaunch

\* The runtime that did not start is the one in the entry.
LEMMA StartUnsetAlone == ASSUME RegistryInv, AloneInv, StartUnset(Reconciler) PROVE AloneInv'
<1> DEFINE k == work[Reconciler]
<1>1. k.pc = "unset" /\ runtime' = runtime /\ PopRuntime(k.id) /\ Failed(Reconciler) /\ UNCHANGED refs
  BY DEF StartUnset, At, Id
<1>2. k.id \in Ids
  BY <1>1, Known, Rest DEF BusyAs, Persisting, RollingBack, Deleting, DeletingStale, Upgrading, Starting, Ids
<1>3. RunAt' = [RunAt EXCEPT ![k.id] = 0] /\ SpecAt' = SpecAt
  BY <1>1, <1>2, Rest, PopEffect, SpecPop
<1> QED BY <1>1, <1>3, FailedAlone

\* An entry is removed when its runtime has been taken out and stopped.
LEMMA DeleteRemoveAlone == ASSUME RegistryInv, AloneInv, DeleteRemove(Reconciler) PROVE AloneInv'
<1> DEFINE k == work[Reconciler]
<1>1. k.pc = "remove" /\ runtime' = runtime /\ Remove(k.id) /\ NextStale(Reconciler)
  BY DEF DeleteRemove, At, Id
<1>2. /\ k \in Work /\ work \in [Workers -> Work] /\ Reconciler \in Workers /\ AloneAs(k, RunAt, SpecAt, runtime)
      /\ k.id \in Ids /\ RunAt[k.id] = 0 /\ k.job \in {"delete", "stale"}
  BY <1>1, Known, Rest DEF BusyAs, Persisting, RollingBack, Deleting, DeletingStale, Upgrading, Starting, Ids,
                           AloneAs, Vacant
<1>3. RunAt' = [RunAt EXCEPT ![k.id] = 0] /\ SpecAt' = [SpecAt EXCEPT ![k.id] = None]
  BY <1>1, <1>2, Rest, RemoveEffect, SpecRemove
<1>4. RunAt' = RunAt /\ \A i \in Ids : SpecAt'[i] = IF i = k.id THEN None ELSE SpecAt[i]
  BY <1>2, <1>3, Rest, Known
<1>5. PICK n : n = work'[Reconciler]
  OBVIOUS
<1>6. n.pc \in {"row", "pop"} /\ n.job = k.job
  <2>1. CASE k.todo = {}
    BY <1>1, <1>2, <1>5, <2>1 DEF NextStale, Go, Work
  <2>2. CASE k.todo # {}
    <3>1. PICK next : work' = [work EXCEPT ![Reconciler] = [k EXCEPT !.pc = "pop", !.id = next, !.todo = k.todo \ {next}]]
      BY <1>1, <1>2, <2>2 DEF NextStale
    <3> QED BY <1>2, <1>5, <3>1 DEF Work
  <2> QED BY <2>1, <2>2
<1>7. AloneAs(n, RunAt, SpecAt', runtime)
  BY <1>1, <1>2, <1>4, <1>6, Rest DEF AloneAs, Owned, Vacant, Launching, Asked, InPlace, InHand
<1> QED BY <1>1, <1>4, <1>5, <1>7 DEF AloneInv

\* The deletion of the row ends the job.
LEMMA DeleteRowAlone == ASSUME RegistryInv, AloneInv, DeleteRow(Reconciler) PROVE AloneInv'
BY SpecSame, IdleAlone DEF DeleteRow, At, End

\* A job begins with the spec that the entry has.
LEMMA BeginAlone ==
  ASSUME RegistryInv, AloneInv, UNCHANGED <<entries, runtime>>, NEW n, work' = [work EXCEPT ![Reconciler] = n],
         At(Reconciler, "idle"), n.pc \in {"upsert", "pop", "row"},
         n.pc = "upsert" \/ n.job # "persist", n.pc = "upsert" => n.prev = SpecAt[n.id]
  PROVE  AloneInv'
<1>1. work'[Reconciler] = n /\ RunAt' = RunAt /\ SpecAt' = SpecAt
  BY Rest, Known, SpecSame
<1>2. AloneAs(n, RunAt, SpecAt, runtime)
  BY Known DEF At, AloneAs, Owned, Vacant, Launching, Asked, InPlace, InHand
<1> QED BY <1>1, <1>2 DEF AloneInv

\* The three ways a job of the reconciler begins.
LEMMA BeginsAlone ==
  ASSUME RegistryInv, AloneInv, PersistBegin \/ DeleteBegin \/ StaleBegin
  PROVE  AloneInv'
<1>1. CASE PersistBegin
  <2>1. PICK i \in Crds, spec \in Specs :
          Begin(Reconciler, [Idle EXCEPT !.job = "persist", !.pc = "upsert", !.id = i, !.ask = spec,
                                         !.prev = IF Registered(i) THEN entries[i].spec ELSE None])
    BY <1>1 DEF PersistBegin
  <2> DEFINE prev == IF Registered(i) THEN entries[i].spec ELSE None
             n == [Idle EXCEPT !.job = "persist", !.pc = "upsert", !.id = i, !.ask = spec, !.prev = prev]
  <2>2. prev = SpecAt[i]
    BY Rest DEF SpecAt
  <2>3. n.pc = "upsert" /\ n.prev = prev /\ n.id = i
    BY DEF Idle
  <2>4. Begin(Reconciler, n)
    BY <2>1
  <2> HIDE DEF n, prev
  <2> QED BY <1>1, <2>2, <2>3, <2>4, BeginAlone DEF Begin, PersistBegin
<1>2. CASE DeleteBegin
  <2>1. PICK i \in rows : Begin(Reconciler, [Idle EXCEPT !.job = "delete", !.pc = "pop", !.id = i])
    BY <1>2 DEF DeleteBegin
  <2> DEFINE n == [Idle EXCEPT !.job = "delete", !.pc = "pop", !.id = i]
  <2>2. n.pc = "pop" /\ n.job = "delete"
    BY DEF Idle
  <2>3. Begin(Reconciler, n)
    BY <2>1
  <2> HIDE DEF n
  <2> QED BY <1>2, <2>2, <2>3, BeginAlone DEF Begin, DeleteBegin
<1>3. CASE StaleBegin
  <2>1. PICK first, newer, todo :
          Begin(Reconciler, [Idle EXCEPT !.job = "stale", !.pc = IF first = None THEN "row" ELSE "pop",
                                         !.id = first, !.newer = newer, !.todo = todo])
    BY <1>3 DEF StaleBegin
  <2> DEFINE n == [Idle EXCEPT !.job = "stale", !.pc = IF first = None THEN "row" ELSE "pop",
                               !.id = first, !.newer = newer, !.todo = todo]
  <2>2. n.pc \in {"row", "pop"} /\ n.job = "stale"
    BY DEF Idle
  <2>3. Begin(Reconciler, n)
    BY <2>1
  <2> HIDE DEF n
  <2> QED BY <1>3, <2>2, <2>3, BeginAlone DEF Begin, StaleBegin
<1> QED BY <1>1, <1>2, <1>3

\* What agents report, what is published and a restart.
LEMMA EnvironmentAlone ==
  ASSUME RegistryInv, AloneInv, UpsertProxied \/ Publish \/ Restart \/ UNCHANGED vars
  PROVE  AloneInv'
<1>1. CASE UpsertProxied
  <2>1. PICK i \in Proxied : Upsertable(i) /\ Upsert(i, None)
    BY <1>1 DEF UpsertProxied
  <2>2. i \in Ids /\ i \notin Crds /\ UNCHANGED <<runtime, work>>
    BY <1>1, ConstantsAssumption DEF Ids, UpsertProxied
  <2>3. RunAt' = RunAt /\ SpecAt' = [SpecAt EXCEPT ![i] = None]
    BY <2>1, <2>2, Rest, UpsertEffect, SpecUpsert
  <2>4. \A j \in Crds : SpecAt'[j] = SpecAt[j]
    BY <2>2, <2>3, Known, Rest
  <2>5. Asked(work[Reconciler], SpecAt')
    <3>1. /\ Asked(work[Reconciler], SpecAt)
          /\ work[Reconciler].pc \in {"path", "set", "launch", "upsert"}
             \/ (work[Reconciler].job = "persist" /\ work[Reconciler].pc # "idle") => work[Reconciler].id \in Crds
      BY Known DEF AloneAs, BusyAs, Persisting, RollingBack, Deleting, DeletingStale, Upgrading, Starting
    <3> QED BY <2>4, <3>1 DEF Asked
  <2>6. InPlace(work[Reconciler], RunAt, SpecAt', runtime)
    BY <2>4, Known DEF AloneAs, InPlace
  <2> QED BY <2>2, <2>3, <2>5, <2>6, Known DEF AloneInv, AloneAs
<1>2. CASE Publish \/ UNCHANGED vars
  BY <1>2, SpecSame DEF Publish, vars, AloneInv
<1>3. CASE Restart
  <2>1. \A i \in Ids : RunAt'[i] = 0 /\ SpecAt'[i] = None
    BY <1>3 DEF Restart, RunAt, SpecAt, RunOf, Registered
  <2>2. work'[Reconciler] = Idle /\ Idle.pc = "idle"
    BY <1>3, Known DEF Restart, Idle
  <2>3. \A s \in Runtimes : runtime'[s].state \in {"free", "down"}
    BY <1>3, Rest DEF Restart, Runtime, Free
  <2> QED BY <2>1, <2>2, <2>3, Rest DEF AloneInv, AloneAs, Owned, Vacant, Launching, Asked, InPlace
<1> QED BY <1>1, <1>2, <1>3

\* While no upgrade begins, only the reconciler does anything.
LEMMA AloneStep == RegistryInv /\ AloneInv /\ Alone /\ Alone' /\ [Next]_vars => AloneInv'
<1> SUFFICES ASSUME RegistryInv, AloneInv, Alone, Alone', [Next]_vars PROVE AloneInv'
  OBVIOUS
<1>1. ASSUME NEW w \in Workers, Step(w) PROVE w = Reconciler
  <2>1. work[w].pc # "idle"
    BY <1>1 DEF Step, PersistUpsert, PersistUndo, StopPop, StopStop, StartPlugin, StartPath, StartSet, StartLaunch,
                StartUnset, DeleteRemove, DeleteRow, UpgradeResolve, UpgradePrune, At
  <2> QED BY <2>1 DEF Alone, At, Workers
<1>2. ~UpgradeBegin
  <2> SUFFICES ASSUME UpgradeBegin PROVE FALSE
    OBVIOUS
  <2>1. PICK w \in Upgraders, i \in Crds :
          Begin(w, [Idle EXCEPT !.job = "upgrade", !.pc = "resolve", !.id = i, !.old = entries[i].path])
    BY DEF UpgradeBegin
  <2>2. work'[w].pc = "resolve"
    BY <2>1, Rest DEF Begin, Idle, Workers
  <2> QED BY <2>2 DEF Alone, At
<1>3. ~(UpgradeResolve(Reconciler) \/ UpgradePrune(Reconciler))
  BY Known, ConstantsAssumption DEF UpgradeResolve, UpgradePrune, At, BusyAs, Persisting, RollingBack, Deleting,
     DeletingStale, Upgrading, Starting
<1>4. CASE \E w \in Workers : Step(w)
  BY <1>1, <1>3, <1>4, PersistUpsertAlone, PersistUndoAlone, StopPopAlone, StopStopAlone, StartPluginAlone,
     StartPathAlone, StartSetAlone, StartLaunchAlone, StartUnsetAlone, DeleteRemoveAlone, DeleteRowAlone DEF Step
<1> QED BY <1>2, <1>4, BeginsAlone, EnvironmentAlone DEF Next

\* At first nothing is registered, and nothing runs.
LEMMA AloneInit == Init => AloneInv
<1> SUFFICES ASSUME Init PROVE AloneInv
  OBVIOUS
<1>1. \A i \in Ids : RunAt[i] = 0
  BY DEF Init, RunAt, RunOf, Registered
<1>2. work[Reconciler] = Idle /\ Idle.pc = "idle" /\ \A s \in Runtimes : runtime[s].state = "free"
  BY DEF Init, Workers, Idle, Free
<1> QED BY <1>1, <1>2 DEF AloneInv, AloneAs, Owned, Vacant, Launching, Asked, InPlace, Ids

----------------------------------------------------------------------------
(* The theorems.                                                           *)

\* The invariant holds of every execution.
THEOREM RegistryCorrect == Spec => []RegistryInv
<1>1. RegistryInv /\ [Next]_vars => RegistryInv'
  BY PersistUpsertStep, PersistUndoStep, StopPopStep, StopStopStep, StartPluginStep, StartPathStep, StartSetStep,
    StartLaunchStep, StartUnsetStep, DeleteRemoveStep, DeleteRowStep, UpgradeSteps, PersistBeginStep, DeleteBeginStep,
    StaleBeginStep, UpgradeBeginStep, UpsertProxiedStep, PublishStep, RestartStep DEF Next, Step
<1> QED BY RegistryInit, <1>1, PTL DEF Spec

\* So does the reconciler's, as long as no upgrade begins.
LEMMA AloneCorrect == Spec /\ ReconcilerAlone => [](RegistryInv /\ AloneInv)
<1>1. ReconcilerAlone <=> []Alone
  BY DEF ReconcilerAlone, Alone
<1> QED BY <1>1, AloneInit, AloneStep, RegistryCorrect, PTL DEF Spec

\* The state has its type.
THEOREM TypeCorrect == Spec => []TypeOK
<1>1. RegistryInv => TypeOK
  BY DEF RegistryInv
<1> QED BY RegistryCorrect, <1>1, PTL

\* A reference resolves to the entry of that name and to no other, and what is
\* registered for a CRD is replayed after a restart.
THEOREM RegistryExactCorrect == Spec => []RegistryExact
<1>1. RegistryInv => RefsExact
  BY DEF RegistryInv
<1>2. RegistryInv => RegisteredIsPersisted
  BY DEF RegistryInv, Persisted, RegisteredIsPersisted, Reg, Ids
<1>3. RegistryInv => RegistryExact
  BY <1>1, <1>2 DEF RegistryExact
<1> QED BY RegistryCorrect, <1>3, PTL

\* No request is routed to a runtime that has been stopped, whatever upgrades
\* and reconciliations overlap.
THEOREM StoppedNotRoutedCorrect == Spec => []StoppedNotRouted
<1>1. RegistryInv => StoppedNotRouted
  BY DEF RegistryInv, Routed, StoppedNotRouted, RunAt, At
<1> QED BY RegistryCorrect, <1>1, PTL

\* The reconciler by itself never leaks a process, whatever fails and whatever is
\* deleted, renamed or replayed: an entry or the reconciler has every one that is up.
THEOREM NoLeakCorrect == Spec => NoLeak
<1>1. RegistryInv /\ AloneInv => Stoppable
  BY Known DEF Stoppable, AloneAs, Owned, RunAt
<1> QED BY <1>1, AloneCorrect, PTL DEF NoLeak

\* And between two reconciliations a plugin that is pinned to a version runs it.
THEOREM PinnedRunsCorrect == Spec => PinnedRuns
<1>1. RegistryInv /\ AloneInv => Pinned
  <2> SUFFICES ASSUME RegistryInv, AloneInv, At(Reconciler, "idle"), NEW i \in Crds,
                      Registered(i), entries[i].spec \in Versions, RunOf(i) # 0
               PROVE  runtime[RunOf(i)] = [of |-> i, state |-> "up", at |-> entries[i].spec]
    BY DEF Pinned
  <2>1. RunAt[i] = RunOf(i) /\ SpecAt[i] = entries[i].spec
    BY Known, Rest
  <2> QED BY <2>1, Known DEF AloneAs, InPlace, InHand, At
<1> QED BY <1>1, AloneCorrect, PTL DEF PinnedRuns
=============================================================================
