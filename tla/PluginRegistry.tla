---------------------------- MODULE PluginRegistry ----------------------------
(***************************************************************************)
(* The registry of plugins (plugin/registry.go) and the two kinds of       *)
(* goroutine that start and stop plugins through it: the reconciler of the *)
(* Plugin CRD (plugin/reconciler), which handles one object at a time, and *)
(* the requests that upgrade a plugin to its latest version                *)
(* (machinery/refresh.go).  Each registry method is atomic, it holds r.mu; *)
(* the goroutines take a runtime out, stop it, install, and set a new one  *)
(* in separate steps.  A runtime is a supervisor (PluginSupervisor), or    *)
(* the connection to a remote plugin.                                      *)
(***************************************************************************)
EXTENDS Naturals, FiniteSets

CONSTANTS
  Crds,         \* plugin ids with a Plugin CRD
  Proxied,      \* plugin ids that agents report
  Names,        \* namespace/name references
  Name,         \* Name[i]: the name of plugin i, fixed for an object's uid
  Versions,     \* published versions
  Addresses,    \* addresses of remote plugins
  Latest,       \* spec.version "latest"
  Source,       \* Source[i]: spec.source of CRD i, which names its directory
  Reconciler,   \* the reconciler
  Upgraders,    \* concurrent upgrade requests
  None,
  MaxRuntimes,  \* bound: runtimes created
  MaxJobs       \* bound: jobs of the reconciler and the upgraders

Ids == Crds \cup Proxied
Workers == {Reconciler} \cup Upgraders
Specs == {Latest} \cup Versions \cup Addresses
Runtimes == 1 .. MaxRuntimes

ASSUME ConstantsAssumption ==
  /\ Crds \cap Proxied = {} /\ Reconciler \notin Upgraders
  /\ Latest \notin Versions /\ {Latest} \cap Addresses = {} /\ Versions \cap Addresses = {}
  /\ None \notin Ids \cup Names \cup Specs
  /\ Name \in [Ids -> Names]
  /\ MaxRuntimes \in Nat /\ MaxJobs \in Nat

VARIABLES
  entries,  \* r.plugins, None where the id is not registered
  refs,     \* r.refs
  rows,     \* the plugin rows that are not deleted
  runtime,  \* runtime[s]: of which plugin, in which state, at which version or address
  created,  \* runtimes created
  latest,   \* the version that "latest" resolves to
  disk,     \* <<source, version>> installed on disk
  work,     \* work[w]: what worker w is doing
  jobs      \* jobs begun

vars == <<entries, refs, rows, runtime, created, latest, disk, work, jobs>>

Registered(i) == entries[i] # None

Entry == [spec : Specs \cup {None}, path : Versions \cup {None}, run : 0 .. MaxRuntimes]

ASSUME NoneAssumption == None \notin Entry

\* at is what StartPlugin has resolved, old what an upgrade replaces, todo what
\* DeleteStalePlugin has left, mine the runtime being stopped or launched.
Idle == [job |-> None, pc |-> "idle", id |-> None, ask |-> None, prev |-> None,
         at |-> None, old |-> None, mine |-> 0, todo |-> {}, newer |-> None]
Free == [of |-> None, state |-> "free", at |-> None]

Jobs == {"persist", "rollback", "delete", "stale", "upgrade"}
PCs == {"idle", "upsert", "resolve", "pop", "stop", "start", "path", "set", "launch", "unset",
        "undo", "remove", "row", "prune"}

Work == [job : Jobs \cup {None}, pc : PCs, id : Ids \cup {None}, ask : Specs \cup {None}, prev : Specs \cup {None},
         at : Versions \cup Addresses \cup {None}, old : Versions \cup {None}, mine : 0 .. MaxRuntimes,
         todo : SUBSET Ids, newer : Crds \cup {None}]

TypeOK ==
  /\ entries \in [Ids -> Entry \cup {None}]
  /\ \A i \in Crds : Registered(i) => entries[i].spec # None
  /\ refs \in [Names -> Ids \cup {None}]
  /\ rows \subseteq Crds
  /\ runtime \in [Runtimes -> [of : Crds \cup {None}, state : {"free", "new", "up", "down"},
                               at : Versions \cup Addresses \cup {None}]]
  /\ created \in 0 .. MaxRuntimes
  /\ latest \in Versions
  /\ disk \subseteq {Source[i] : i \in Crds} \X Versions
  /\ work \in [Workers -> Work]
  /\ jobs \in 0 .. MaxJobs

Init ==
  /\ entries = [i \in Ids |-> None]
  /\ refs = [n \in Names |-> None]
  /\ rows = {}
  /\ runtime = [s \in Runtimes |-> Free]
  /\ created = 0
  /\ latest \in Versions
  /\ disk = {}
  /\ work = [w \in Workers |-> Idle]
  /\ jobs = 0
----------------------------------------------------------------------------
(* The methods of the registry.                                            *)

Namesakes(i) == {j \in Ids \ {i} : Name[j] = Name[i]}

\* upsertLocked refuses a name that another id has, and preserves the runtime
\* and the installed path of an existing entry.
Upsertable(i) == refs[Name[i]] \in {None, i}

Upsert(i, spec) ==
  /\ entries' = [entries EXCEPT ![i] =
       IF Registered(i) THEN [@ EXCEPT !.spec = spec] ELSE [spec |-> spec, path |-> None, run |-> 0]]
  /\ refs' = [refs EXCEPT ![Name[i]] = i]

\* Mutant of WithoutIndex: the name stays indexed.
WithIndex(i) == refs

\* removeIndexes: only the index of this id.
WithoutIndex(i) == [refs EXCEPT ![Name[i]] = IF Registered(i) /\ @ = i THEN None ELSE @]

Remove(i) ==
  /\ entries' = [entries EXCEPT ![i] = None]
  /\ refs' = WithoutIndex(i)

RunOf(i) == IF Registered(i) THEN entries[i].run ELSE 0

\* Mutant of PopRuntime: the runtime is returned but not taken out.
PeekRuntime(i) == UNCHANGED entries

PopRuntime(i) == entries' = [entries EXCEPT ![i] = IF Registered(i) THEN [@ EXCEPT !.run = 0] ELSE None]

----------------------------------------------------------------------------
(* The workers: beginning and ending a job.                                *)

At(w, pc) == work[w].pc = pc
Id(w) == work[w].id
Go(w, pc) == work' = [work EXCEPT ![w].pc = pc]
End(w) == work' = [work EXCEPT ![w] = Idle]

\* A worker takes up a job: rec is Idle but for what the job knows.
Begin(w, rec) ==
  /\ At(w, "idle") /\ jobs < MaxJobs
  /\ jobs' = jobs + 1
  /\ work' = [work EXCEPT ![w] = rec]

\* The reconciler compares source and version, which a remote plugin has none of.
Binary(spec) == IF spec \in Addresses THEN None ELSE spec
\* Mutant of BinaryChanged: a new version does not count.
NeverChanged(w) == FALSE

BinaryChanged(w) == work[w].prev # None /\ Binary(work[w].prev) # Binary(work[w].ask)

\* Where a job goes on when StartPlugin has failed, or has not.
Failed(w) == IF work[w].job = "persist" THEN Go(w, "undo") ELSE End(w)
Succeeded(w) == IF work[w].job = "upgrade" /\ work[w].old # None THEN Go(w, "prune") ELSE End(w)
----------------------------------------------------------------------------
(* PersistPluginFromCRD, also called for every row by ReplayPlugins.       *)

\* The row is saved, unless another row has the name, and the entry is read.
PersistBegin ==
  \E i \in Crds, spec \in Specs :
    /\ rows \cap Namesakes(i) = {}
    /\ Begin(Reconciler, [Idle EXCEPT !.job = "persist", !.pc = "upsert", !.id = i, !.ask = spec,
                                      !.prev = IF Registered(i) THEN entries[i].spec ELSE None])
    /\ rows' = rows \cup {i}
    /\ UNCHANGED <<entries, refs, runtime, created, latest, disk>>

PersistUpsert(w) ==
  /\ At(w, "upsert")
  /\ IF Upsertable(Id(w))
     THEN Upsert(Id(w), work[w].ask) /\ Go(w, IF BinaryChanged(w) THEN "pop" ELSE "start")
     ELSE End(w) /\ UNCHANGED <<entries, refs>>
  /\ UNCHANGED <<rows, runtime, created, latest, disk, jobs>>

\* A start that failed is rolled back: to the previous entry, whose name is
\* its own still, or to none.
PersistUndo(w) ==
  /\ At(w, "undo")
  /\ \/ work[w].prev = None /\ Remove(Id(w)) /\ End(w)
     \/ /\ work[w].prev # None
        /\ Upsert(Id(w), work[w].prev)
        /\ IF BinaryChanged(w)
           THEN work' = [work EXCEPT ![w].job = "rollback", ![w].pc = "start"]
           ELSE End(w)
  /\ UNCHANGED <<rows, runtime, created, latest, disk, jobs>>

----------------------------------------------------------------------------
(* StopPlugin and StartPlugin.                                             *)

\* StopPlugin takes the runtime out of the entry ...
StopPop(w) ==
  /\ At(w, "pop")
  /\ work' = [work EXCEPT ![w].pc = "stop", ![w].mine = RunOf(Id(w))]
  /\ PopRuntime(Id(w))
  /\ UNCHANGED <<refs, rows, runtime, created, latest, disk, jobs>>

\* ... and stops it.  A supervisor stopped before its Start launches all the same.
StopStop(w) ==
  /\ At(w, "stop")
  /\ runtime' = [s \in Runtimes |-> IF s = work[w].mine /\ runtime[s].state = "up"
                                    THEN [runtime[s] EXCEPT !.state = "down"] ELSE runtime[s]]
  /\ work' = [work EXCEPT ![w].mine = 0,
                          ![w].pc = IF work[w].job \in {"delete", "stale"} THEN "remove" ELSE "start"]
  /\ UNCHANGED <<entries, refs, rows, created, latest, disk, jobs>>

\* StartPlugin reads the entry, and installs its binary or dials its address.
StartPlugin(w) ==
  /\ At(w, "start")
  /\ \/ Failed(w) /\ UNCHANGED disk
     \/ LET spec == entries[Id(w)].spec
            v == IF spec = Latest THEN latest ELSE spec
        IN /\ Registered(Id(w))
           /\ work' = [work EXCEPT ![w].at = v, ![w].pc = IF v \in Addresses THEN "set" ELSE "path"]
           /\ disk' = IF v \in Addresses THEN disk ELSE disk \cup {<<Source[Id(w)], v>>}
  /\ UNCHANGED <<entries, refs, rows, runtime, created, latest, jobs>>

\* SetInstalledPath
StartPath(w) ==
  /\ At(w, "path")
  /\ IF Registered(Id(w))
     THEN entries' = [entries EXCEPT ![Id(w)].path = work[w].at] /\ Go(w, "set")
     ELSE Failed(w) /\ UNCHANGED entries
  /\ UNCHANGED <<refs, rows, runtime, created, latest, disk, jobs>>

\* SetRuntimeIfAbsent: of a supervisor still to be started, or of a connection.
StartSet(w) ==
  /\ At(w, "set")
  /\ LET i == Id(w)  s == created + 1  remote == work[w].at \in Addresses IN
     \/ ~Registered(i) /\ Failed(w) /\ UNCHANGED <<entries, runtime, created>>
     \/ RunOf(i) # 0 /\ Succeeded(w) /\ UNCHANGED <<entries, runtime, created>>
     \/ /\ Registered(i) /\ RunOf(i) = 0 /\ created < MaxRuntimes
        /\ entries' = [entries EXCEPT ![i].run = s]
        /\ created' = s
        /\ runtime' = [runtime EXCEPT ![s] =
             [of |-> i, state |-> IF remote THEN "up" ELSE "new", at |-> work[w].at]]
        /\ IF remote THEN Succeeded(w)
           ELSE work' = [work EXCEPT ![w].pc = "launch", ![w].mine = s]
  /\ UNCHANGED <<refs, rows, latest, disk, jobs>>

\* sup.Start
StartLaunch(w) ==
  /\ At(w, "launch")
  /\ \/ /\ runtime' = [runtime EXCEPT ![work[w].mine].state = "up"]
        /\ Succeeded(w)
     \/ /\ runtime' = [runtime EXCEPT ![work[w].mine].state = "down"]
        /\ Go(w, "unset")
  /\ UNCHANGED <<entries, refs, rows, created, latest, disk, jobs>>

\* After a failed Start, whatever runtime the entry has by now is taken out.
StartUnset(w) ==
  /\ At(w, "unset")
  /\ PopRuntime(Id(w))
  /\ Failed(w)
  /\ UNCHANGED <<refs, rows, runtime, created, latest, disk, jobs>>
----------------------------------------------------------------------------
(* DeletePlugin and DeleteStalePlugin: stop, remove, delete the rows.      *)

\* Mutant of DeleteBegin: the entry is dropped, the process is not stopped.
DeleteUnstopped ==
  \E i \in rows :
    /\ Begin(Reconciler, [Idle EXCEPT !.job = "delete", !.pc = "remove", !.id = i])
    /\ UNCHANGED <<entries, refs, rows, runtime, created, latest, disk>>

DeleteBegin ==
  \E i \in rows :
    /\ Begin(Reconciler, [Idle EXCEPT !.job = "delete", !.pc = "pop", !.id = i])
    /\ UNCHANGED <<entries, refs, rows, runtime, created, latest, disk>>

\* kopper calls DeleteStalePlugin(i) when the save of i failed on the name.
StaleBegin ==
  \E i \in Crds, spec \in Specs :
    LET stale == {j \in Namesakes(i) \cup {i} :
                    Registered(j) /\ ~(j = i /\ Binary(entries[i].spec) = Binary(spec))}
    IN /\ rows \cap Namesakes(i) # {}
       /\ \E first \in IF stale = {} THEN {None} ELSE stale :
            Begin(Reconciler, [Idle EXCEPT !.job = "stale", !.pc = IF first = None THEN "row" ELSE "pop",
                                           !.id = first, !.newer = i, !.todo = stale \ {first}])
       /\ UNCHANGED <<entries, refs, rows, runtime, created, latest, disk>>

\* The next stale entry, or the row.
NextStale(w) ==
  IF work[w].todo = {} THEN Go(w, "row")
  ELSE \E next \in work[w].todo :
         work' = [work EXCEPT ![w].pc = "pop", ![w].id = next, ![w].todo = @ \ {next}]

DeleteRemove(w) ==
  /\ At(w, "remove")
  /\ Remove(Id(w))
  /\ NextStale(w)
  /\ UNCHANGED <<rows, runtime, created, latest, disk, jobs>>

DeleteRow(w) ==
  /\ At(w, "row")
  /\ rows' = rows \ (IF work[w].job = "delete" THEN {Id(w)} ELSE Namesakes(work[w].newer))
  /\ End(w)
  /\ UNCHANGED <<entries, refs, runtime, created, latest, disk, jobs>>

----------------------------------------------------------------------------
(* UpgradePlugin, refreshPlugin.                                           *)

\* The request reads the entry ...
UpgradeBegin ==
  \E w \in Upgraders, i \in Crds :
    /\ Registered(i) /\ entries[i].spec = Latest
    /\ Begin(w, [Idle EXCEPT !.job = "upgrade", !.pc = "resolve", !.id = i, !.old = entries[i].path])
    /\ UNCHANGED <<entries, refs, rows, runtime, created, latest, disk>>

\* ... resolves and installs the latest version, and is done if that runs.
UpgradeResolve(w) ==
  /\ At(w, "resolve")
  /\ \/ End(w) /\ UNCHANGED disk
     \/ /\ disk' = disk \cup {<<Source[Id(w)], latest>>}
        /\ IF latest = work[w].old THEN End(w) ELSE Go(w, "pop")
  /\ UNCHANGED <<entries, refs, rows, runtime, created, latest, jobs>>

\* After the restart the old version's directory is removed.
UpgradePrune(w) ==
  /\ At(w, "prune")
  /\ disk' = disk \ {<<Source[Id(w)], work[w].old>>}
  /\ End(w)
  /\ UNCHANGED <<entries, refs, rows, runtime, created, latest, jobs>>
----------------------------------------------------------------------------
(* The environment.                                                        *)

\* An agent reports its plugin (gateway/proxied_report.go).
UpsertProxied ==
  \E i \in Proxied :
    /\ Upsertable(i)
    /\ Upsert(i, None)
    /\ UNCHANGED <<rows, runtime, created, latest, disk, work, jobs>>

\* A version is published.
Publish ==
  /\ latest' \in Versions
  /\ UNCHANGED <<entries, refs, rows, runtime, created, disk, work, jobs>>

\* The host restarts: its children are gone, and so is the registry.
Restart ==
  /\ jobs < MaxJobs /\ jobs' = jobs + 1
  /\ entries' = [i \in Ids |-> None]
  /\ refs' = [n \in Names |-> None]
  /\ runtime' = [s \in Runtimes |-> IF runtime[s].state = "free" THEN Free
                                    ELSE [runtime[s] EXCEPT !.state = "down"]]
  /\ work' = [w \in Workers |-> Idle]
  /\ UNCHANGED <<rows, created, latest, disk>>

Step(w) ==
  \/ PersistUpsert(w) \/ PersistUndo(w)
  \/ StopPop(w) \/ StopStop(w)
  \/ StartPlugin(w) \/ StartPath(w) \/ StartSet(w) \/ StartLaunch(w) \/ StartUnset(w)
  \/ DeleteRemove(w) \/ DeleteRow(w)
  \/ UpgradeResolve(w) \/ UpgradePrune(w)

Next ==
  \/ PersistBegin \/ DeleteBegin \/ StaleBegin \/ UpgradeBegin
  \/ UpsertProxied \/ Publish \/ Restart
  \/ \E w \in Workers : Step(w)

Spec == Init /\ [][Next]_vars
----------------------------------------------------------------------------
(* Properties.                                                             *)

\* A reference resolves to the entry of that name and to no other: no two
\* entries share a name, and no name outlives its entry.
RefsExact ==
  \A n \in Names, i \in Ids : refs[n] = i <=> Registered(i) /\ Name[i] = n

\* Every registered CRD plugin has its row, so that a restart replays it.
RegisteredIsPersisted == \A i \in Crds : Registered(i) => i \in rows

\* The registry is what the rows would bring back, found by the names that
\* the entries have and by no others.
RegistryExact == RefsExact /\ RegisteredIsPersisted

\* No request is routed to a runtime that has been stopped, except while the
\* start that failed has yet to take it out.
StoppedNotRouted ==
  \A i \in Ids : RunOf(i) # 0 /\ runtime[RunOf(i)].state = "down" =>
    \E w \in Workers : At(w, "unset") /\ work[w].mine = RunOf(i)

\* Every runtime that is up can be stopped: the registry or a worker has it.
Stoppable ==
  \A s \in Runtimes : runtime[s].state \in {"new", "up"} =>
    (\E i \in Ids : RunOf(i) = s) \/ (\E w \in Workers : work[w].mine = s)

\* Between two reconciliations what runs is what the spec pins.
Pinned ==
  At(Reconciler, "idle") =>
    \A i \in Crds : Registered(i) /\ entries[i].spec \in Versions /\ RunOf(i) # 0 =>
      runtime[RunOf(i)] = [of |-> i, state |-> "up", at |-> entries[i].spec]

\* No upgrade is ever under way: each of the next two is broken by one that
\* overlaps a reconciliation (see the README).
ReconcilerAlone == [](\A w \in Upgraders : At(w, "idle"))

\* The reconciler by itself never leaks a process, whatever fails and whatever
\* is deleted, renamed or replayed.
NoLeak == ReconcilerAlone => []Stoppable

\* A change of the version, and the rollback of one, always restarts the plugin.
PinnedRuns == ReconcilerAlone => []Pinned
=============================================================================
