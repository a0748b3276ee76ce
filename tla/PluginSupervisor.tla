-------------------------- MODULE PluginSupervisor --------------------------
(***************************************************************************)
(* The supervisor of one plugin binary                                     *)
(* (plugin/machinery/local/supervisor.go): Start launches a process and,   *)
(* for each process, two goroutines.  watchExit restarts the plugin when   *)
(* the process exits, watchBinary when the binary changes on disk.  They   *)
(* share s.client, s.stopped and the restart budget under s.mu, but lock   *)
(* and unlock it several times on the way to a restart; each critical      *)
(* section is one action, and so is each call made outside the lock.       *)
(***************************************************************************)
EXTENDS Naturals, FiniteSets

CONSTANTS
  MaxRestarts,   \* maxRestartsPerHour
  MaxProcs,      \* bound: processes launched
  MaxHours,      \* bound: times the hour of the restart budget passes
  MaxChanges,    \* bound: changes of the binary
  MaxCalls       \* bound: calls of Start after the first

ASSUME BoundsAssumption ==
  /\ MaxRestarts \in Nat /\ MaxProcs \in Nat \ {0} /\ MaxHours \in Nat
  /\ MaxChanges \in Nat /\ MaxCalls \in Nat

Procs == 1 .. MaxProcs

VARIABLES
  client,    \* s.client: the current process, 0 for nil
  stopped,   \* s.stopped
  restarts,  \* s.restarts, within the current hour
  hours,     \* hours that have passed
  launched,  \* processes launched so far
  live,      \* processes that are alive
  exitw,     \* exitw[p]: where the watchExit goroutine of process p is
  binw,      \* binw[p]: where the watchBinary goroutine started with p is
  old,       \* old[p]: the process that goroutine is about to kill, or 0
  stop,      \* Stop: not called, about to kill, returned
  victim,    \* the process Stop is about to kill, or 0
  changes,   \* binary changes so far
  calls      \* calls of Start so far

vars == <<client, stopped, restarts, hours, launched, live, exitw, binw, old, stop, victim, changes, calls>>

ExitPhase == {"none", "watching", "looked", "exited", "clear", "start", "done", "gaveup"}
BinPhase == {"none", "watching", "notified", "armed", "kill", "budget", "start", "done"}

TypeOK ==
  /\ client \in 0 .. MaxProcs
  /\ stopped \in BOOLEAN
  /\ restarts \in Nat /\ hours \in 0 .. MaxHours
  /\ launched \in 0 .. MaxProcs
  /\ live \in SUBSET Procs
  /\ exitw \in [Procs -> ExitPhase]
  /\ binw \in [Procs -> BinPhase]
  /\ old \in [Procs -> 0 .. MaxProcs]
  /\ stop \in {"idle", "kill", "done"} /\ victim \in 0 .. MaxProcs
  /\ changes \in 0 .. MaxChanges /\ calls \in 0 .. MaxCalls + 1

Init ==
  /\ client = 0 /\ stopped = FALSE
  /\ restarts = 0 /\ hours = 0
  /\ launched = 0 /\ live = {}
  /\ exitw = [p \in Procs |-> "none"]
  /\ binw = [p \in Procs |-> "none"]
  /\ old = [p \in Procs |-> 0]
  /\ stop = "idle" /\ victim = 0
  /\ changes = 0 /\ calls = 0
----------------------------------------------------------------------------
(* Start holds s.mu from its first to its last statement.                  *)

\* The goroutine that calls Start moves on to after; one of them is given.
ExitTo(p, after) == exitw' = [exitw EXCEPT ![p] = after]
BinTo(p, after) == binw' = [binw EXCEPT ![p] = after]

\* The process has registered: it is the client and gets its two goroutines.
Launch(exits, bins) ==
  /\ launched < MaxProcs
  /\ launched' = launched + 1
  /\ client' = launched + 1
  /\ live' = live \cup {launched + 1}
  /\ exitw' = [exits EXCEPT ![launched + 1] = "watching"]
  /\ binw' = [bins EXCEPT ![launched + 1] = "watching"]

\* Start is refused while there is a client, else it fails or launches.
Start(exits, bins) ==
  \/ client = 0 /\ Launch(exits, bins)
  \/ UNCHANGED <<client, launched, live>> /\ exitw' = exits /\ binw' = bins

\* startLocalPluginWithHost: the registry has the supervisor before Start is
\* called, so Stop can come first.  A supervisor whose Start failed is dropped.
FirstStart ==
  /\ calls = 0
  /\ calls' = 1
  /\ Launch(exitw, binw)
  /\ UNCHANGED <<stopped, restarts, hours, old, stop, victim, changes>>

\* Start of a supervisor whose Stop has returned, when the plugin can start.
StartAgain ==
  /\ stop = "done" /\ calls \in 1 .. MaxCalls
  /\ calls' = calls + 1
  /\ IF client = 0 THEN Launch(exitw, binw)
     ELSE UNCHANGED <<client, launched, live, exitw, binw>>
  /\ UNCHANGED <<stopped, restarts, hours, old, stop, victim, changes>>
----------------------------------------------------------------------------
(* budgetOK: the count starts again when its hour has passed.              *)

NewHour == hours < MaxHours

SpendRestart ==
  \/ restarts' = restarts + 1 /\ UNCHANGED hours
  \/ NewHour /\ restarts' = 1 /\ hours' = hours + 1

\* Mutant of Affordable: one restart too many.
AffordableOneMore == restarts' <= MaxRestarts + 1

Affordable == restarts' <= MaxRestarts

----------------------------------------------------------------------------
(* watchExit, every 500ms.                                                 *)

\* Mutant of ExitLook: the look at the client is the wrong way round.
ExitLookSwapped(p) ==
  /\ exitw[p] = "watching"
  /\ ExitTo(p, IF stopped \/ client = p THEN "done" ELSE "looked")
  /\ UNCHANGED <<client, stopped, restarts, hours, launched, live, binw, old, stop, victim, changes, calls>>

\* Under the lock: this process is still the client and nobody has stopped it.
ExitLook(p) ==
  /\ exitw[p] = "watching"
  /\ ExitTo(p, IF stopped \/ client # p THEN "done" ELSE "looked")
  /\ UNCHANGED <<client, stopped, restarts, hours, launched, live, binw, old, stop, victim, changes, calls>>

\* cli.Exited()
ExitProbe(p) ==
  /\ exitw[p] = "looked"
  /\ ExitTo(p, IF p \in live THEN "watching" ELSE "exited")
  /\ UNCHANGED <<client, stopped, restarts, hours, launched, live, binw, old, stop, victim, changes, calls>>

ExitBudget(p) ==
  /\ exitw[p] = "exited"
  /\ SpendRestart
  /\ ExitTo(p, IF Affordable THEN "clear" ELSE "gaveup")
  /\ UNCHANGED <<client, stopped, launched, live, binw, old, stop, victim, changes, calls>>

\* Mutant of ExitClear: the client is not reset.
ExitClearNothing(p) ==
  /\ exitw[p] = "clear"
  /\ ExitTo(p, "start")
  /\ UNCHANGED <<client, stopped, restarts, hours, launched, live, binw, old, stop, victim, changes, calls>>

\* s.client = nil, whatever it is by now.
ExitClear(p) ==
  /\ exitw[p] = "clear"
  /\ client' = 0
  /\ ExitTo(p, "start")
  /\ UNCHANGED <<stopped, restarts, hours, launched, live, binw, old, stop, victim, changes, calls>>

ExitStart(p) ==
  /\ exitw[p] = "start"
  /\ Start([exitw EXCEPT ![p] = "done"], binw)
  /\ UNCHANGED <<stopped, restarts, hours, old, stop, victim, changes, calls>>
----------------------------------------------------------------------------
(* watchBinary and restart.                                                *)

\* Every goroutine that watches the directory gets the event ...
BinaryChanged ==
  /\ changes < MaxChanges
  /\ changes' = changes + 1
  /\ binw' = [p \in Procs |-> IF binw[p] \in {"watching", "armed"} THEN "notified" ELSE binw[p]]
  /\ UNCHANGED <<client, stopped, restarts, hours, launched, live, exitw, old, stop, victim, calls>>

\* ... and arms the timer of the debounce unless the supervisor is stopped.
BinEvent(p) ==
  /\ binw[p] = "notified"
  /\ BinTo(p, IF stopped THEN "done" ELSE "armed")
  /\ UNCHANGED <<client, stopped, restarts, hours, launched, live, exitw, old, stop, victim, changes, calls>>

\* The timer fires: restart takes the client ...
BinTake(p) ==
  /\ binw[p] = "armed"
  /\ old' = [old EXCEPT ![p] = client]
  /\ client' = 0
  /\ BinTo(p, "kill")
  /\ UNCHANGED <<stopped, restarts, hours, launched, live, exitw, stop, victim, changes, calls>>

\* ... kills it ...
BinKill(p) ==
  /\ binw[p] = "kill"
  /\ live' = live \ {old[p]}
  /\ old' = [old EXCEPT ![p] = 0]
  /\ BinTo(p, "budget")
  /\ UNCHANGED <<client, stopped, restarts, hours, launched, exitw, stop, victim, changes, calls>>

\* ... and starts another one if the budget allows.
BinBudget(p) ==
  /\ binw[p] = "budget"
  /\ SpendRestart
  /\ BinTo(p, IF Affordable THEN "start" ELSE "done")
  /\ UNCHANGED <<client, stopped, launched, live, exitw, old, stop, victim, changes, calls>>

BinStart(p) ==
  /\ binw[p] = "start"
  /\ Start(exitw, [binw EXCEPT ![p] = "done"])
  /\ UNCHANGED <<stopped, restarts, hours, old, stop, victim, changes, calls>>
----------------------------------------------------------------------------
(* Stop, and the process itself.                                           *)

\* The first critical section marks the supervisor and reads the client ...
StopMark ==
  /\ stop = "idle"
  /\ stopped' = TRUE
  /\ victim' = client
  /\ stop' = "kill"
  /\ UNCHANGED <<client, restarts, hours, launched, live, exitw, binw, old, changes, calls>>

\* ... which is killed outside the lock, and stays the client.
StopKill ==
  /\ stop = "kill"
  /\ live' = live \ {victim}
  /\ victim' = 0
  /\ stop' = "done"
  /\ UNCHANGED <<client, stopped, restarts, hours, launched, exitw, binw, old, changes, calls>>

\* The process exits by itself.
Crash(p) ==
  /\ p \in live
  /\ live' = live \ {p}
  /\ UNCHANGED <<client, stopped, restarts, hours, launched, exitw, binw, old, stop, victim, changes, calls>>

ExitNext(p) == ExitLook(p) \/ ExitProbe(p) \/ ExitBudget(p) \/ ExitClear(p) \/ ExitStart(p)
BinNext(p) == BinEvent(p) \/ BinTake(p) \/ BinKill(p) \/ BinBudget(p) \/ BinStart(p)

Next ==
  \/ FirstStart \/ StartAgain
  \/ BinaryChanged
  \/ StopMark \/ StopKill
  \/ \E p \in Procs : ExitNext(p) \/ BinNext(p) \/ Crash(p)

Spec == Init /\ [][Next]_vars

\* The goroutines run on: each polls or has a timer, and locks are released.
Fairness ==
  /\ \A p \in Procs : WF_vars(ExitNext(p)) /\ WF_vars(BinNext(p))
  /\ WF_vars(StopKill)

FairSpec == Spec /\ Fairness
----------------------------------------------------------------------------
(* Properties.                                                             *)

\* watchExit, "the new client's own watchExit takes over": the current process
\* is watched by a goroutine that has not returned, unless it was stopped or
\* the budget is spent.
Supervised == client # 0 => stopped \/ exitw[client] # "done"

\* maxRestartsPerHour bounds what the two watchers and every earlier process's
\* leftover watcher launch between them, whatever the order they take the lock.
RestartBudget == launched <= calls + MaxRestarts * (hours + 1)

\* A current process that died is replaced, unless the supervisor is stopped
\* or watchExit found the budget spent.
CrashNoticed ==
  \A p \in Procs :
    (client = p /\ p \notin live) ~> (client # p \/ stopped \/ exitw[p] = "gaveup")

\* Stop, "Stop terminates the plugin process.": until Start is called again a
\* stopped supervisor launches nothing.
StoppedStaysDown == [][stopped /\ calls' = calls => launched' = launched]_vars

\* Supervisor, "Supervisor owns the lifecycle of one plugin process.": every
\* live process is the client or about to be killed.
OneProcess ==
  \A p \in live : p = client \/ p = victim \/ \E q \in Procs : old[q] = p

\* The two violations, delimited.  A goroutine may be on its way to a restart:
Restarting ==
  \E p \in Procs : \/ exitw[p] \in {"looked", "exited", "clear", "start"}
                   \/ binw[p] \in {"armed", "kill", "budget", "start"}

\* Stop, again: a Stop that finds no restart under way is final, whatever exits,
\* changes or polls after it, so a late start comes from a restart it overtook.
StopHolds ==
  [][stopped /\ ~Restarting => ~Restarting' /\ (calls' = calls => launched' = launched)]_vars

\* No watchExit is about to clear a client other than the one it saw exit.
NoneOvertaken == \A p \in Procs : exitw[p] = "clear" => client \in {0, p}

\* Supervisor, again: without that, no live process is lost.
NoOrphans == []NoneOvertaken => []OneProcess
=============================================================================
