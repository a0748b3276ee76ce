----------------------- MODULE PluginSupervisorProofs -----------------------
(***************************************************************************)
(* The theorems of PluginSupervisor, for every number of processes,        *)
(* restarts, hours and calls: types, that the current process is always    *)
(* watched, the restart budget, and what delimits the two violations: a    *)
(* Stop that overtakes no restart is final, and no process is lost unless  *)
(* a watchExit clears a client that is not its own.                        *)
(***************************************************************************)
EXTENDS PluginSupervisor, FiniteSetTheorems, TLAPS

\* The goroutines that have been granted a restart and have not called Start.
ExitGranted == {p \in Procs : exitw[p] \in {"clear", "start"}}
BinGranted == {p \in Procs : binw[p] = "start"}

\* What has been granted of the present hour.
Granted == IF restarts <= MaxRestarts THEN restarts ELSE MaxRestarts

\* A goroutine belongs to a process that was launched.
Started == client <= launched
           /\ \A p \in Procs : p > launched => exitw[p] = "none" /\ binw[p] = "none"

\* Whoever is about to call Start from watchExit has cleared its own client.
Cleared == \A p \in Procs : exitw[p] = "start" => client # p

\* A launch is a call of Start, or spends a grant; a grant is within the budget.
Spent ==
  launched + Cardinality(ExitGranted) + Cardinality(BinGranted)
    <= calls + MaxRestarts * hours + Granted

IInv == TypeOK /\ Started /\ Cleared /\ Supervised /\ Spent

\* The sets of granted goroutines are finite, so they can be counted.
LEMMA GrantedFinite ==
  /\ IsFiniteSet(ExitGranted) /\ Cardinality(ExitGranted) \in Nat
  /\ IsFiniteSet(BinGranted) /\ Cardinality(BinGranted) \in Nat
  /\ IsFiniteSet(ExitGranted') /\ Cardinality(ExitGranted') \in Nat
  /\ IsFiniteSet(BinGranted') /\ Cardinality(BinGranted') \in Nat
<1>1. IsFiniteSet(Procs)
  BY FS_Interval, BoundsAssumption DEF Procs
<1>2. ExitGranted \subseteq Procs /\ BinGranted \subseteq Procs
      /\ ExitGranted' \subseteq Procs /\ BinGranted' \subseteq Procs
  BY DEF ExitGranted, BinGranted
<1> QED BY <1>1, <1>2, FS_Subset, FS_CardinalityType

\* One more goroutine granted, or one fewer, counts for one.
LEMMA CountIn ==
  ASSUME NEW S, NEW T, NEW x, IsFiniteSet(S), x \notin S, T = S \cup {x}
  PROVE  Cardinality(T) = Cardinality(S) + 1
BY FS_AddElement

LEMMA CountOut ==
  ASSUME NEW S, NEW T, NEW x, IsFiniteSet(S), x \in S, T = S \ {x}
  PROVE  Cardinality(T) = Cardinality(S) - 1
BY FS_RemoveElement

\* The initial states satisfy the invariant.
LEMMA InitHolds == Init => IInv
<1> SUFFICES ASSUME Init PROVE IInv
  OBVIOUS
<1> USE BoundsAssumption DEF Init
<1>1. TypeOK
  <2>1. client \in 0 .. MaxProcs /\ restarts \in Nat /\ hours \in 0 .. MaxHours
        /\ launched \in 0 .. MaxProcs /\ victim \in 0 .. MaxProcs
        /\ changes \in 0 .. MaxChanges /\ calls \in 0 .. MaxCalls + 1
    OBVIOUS
  <2>2. stopped \in BOOLEAN /\ live \in SUBSET Procs /\ stop \in {"idle", "kill", "done"}
    OBVIOUS
  <2>3. exitw \in [Procs -> ExitPhase] /\ binw \in [Procs -> BinPhase]
    BY DEF ExitPhase, BinPhase
  <2>4. old \in [Procs -> 0 .. MaxProcs]
    OBVIOUS
  <2> QED BY <2>1, <2>2, <2>3, <2>4 DEF TypeOK
<1>2. Started /\ Cleared /\ Supervised
  BY DEF Started, Cleared, Supervised, Procs
<1>3. ExitGranted = {} /\ BinGranted = {}
  BY DEF ExitGranted, BinGranted
<1>4. Cardinality(ExitGranted) = 0 /\ Cardinality(BinGranted) = 0
  BY <1>3, FS_EmptySet
<1>5. Spent
  BY <1>4 DEF Spent, Granted
<1> QED BY <1>1, <1>2, <1>5 DEF IInv

\* A step that leaves the goroutines' grants, the budget and the launches as
\* they are keeps the account.
LEMMA SpentKept ==
  ASSUME TypeOK, Spent, ExitGranted' = ExitGranted, BinGranted' = BinGranted,
         UNCHANGED <<restarts, hours, launched>>, calls' \in Nat, calls' >= calls
  PROVE  Spent'
BY GrantedFinite, BoundsAssumption DEF Spent, Granted, TypeOK

\* A restart granted to one goroutine is paid for by the hour's count.
LEMMA SpentGrant ==
  ASSUME TypeOK, Spent, SpendRestart, UNCHANGED <<launched, calls>>,
         \/ /\ ExitGranted' = ExitGranted /\ BinGranted' = BinGranted
         \/ /\ Affordable
            /\ \/ /\ Cardinality(ExitGranted') = Cardinality(ExitGranted) + 1
                  /\ BinGranted' = BinGranted
               \/ /\ Cardinality(BinGranted') = Cardinality(BinGranted) + 1
                  /\ ExitGranted' = ExitGranted
  PROVE  Spent'
<1> DEFINE used == launched + Cardinality(ExitGranted) + Cardinality(BinGranted)
<1> DEFINE allowed(h) == MaxRestarts * h
<1>1. allowed(hours) \in Nat /\ allowed(hours + 1) = allowed(hours) + MaxRestarts
  BY BoundsAssumption DEF TypeOK
<1>2. used \in Nat /\ used <= calls + allowed(hours) + Granted
  BY GrantedFinite DEF TypeOK, Spent
<1>3. /\ used' \in Nat
      /\ used' = used \/ (Affordable /\ used' = used + 1)
  BY GrantedFinite DEF TypeOK
<1>4. used' <= calls + allowed(hours') + Granted'
  <2> HIDE DEF used, allowed
  <2>1. CASE restarts' = restarts + 1 /\ UNCHANGED hours
    BY <1>1, <1>2, <1>3, <2>1, BoundsAssumption DEF TypeOK, Granted, Affordable
  <2>2. CASE NewHour /\ restarts' = 1 /\ hours' = hours + 1
    BY <1>1, <1>2, <1>3, <2>2, BoundsAssumption DEF TypeOK, Granted, Affordable
  <2> QED BY <2>1, <2>2 DEF SpendRestart
<1> QED BY <1>4 DEF Spent

\* A launch from a call of Start, or from a grant, keeps the account.
LEMMA SpentLaunch ==
  ASSUME TypeOK, Spent, UNCHANGED <<restarts, hours>>,
         calls' \in Nat, launched' \in Nat,
         launched' + Cardinality(ExitGranted') + Cardinality(BinGranted') - calls'
           <= launched + Cardinality(ExitGranted) + Cardinality(BinGranted) - calls
  PROVE  Spent'
<1>1. MaxRestarts * hours \in Nat
  BY BoundsAssumption DEF TypeOK
<1> QED BY <1>1, GrantedFinite, BoundsAssumption DEF Spent, Granted, TypeOK

\* Every step keeps the types.
LEMMA TypeStep == TypeOK /\ [Next]_vars => TypeOK'
<1> SUFFICES ASSUME TypeOK, [Next]_vars PROVE TypeOK'
  OBVIOUS
<1> USE BoundsAssumption DEF TypeOK, Procs, ExitPhase, BinPhase, ExitTo, BinTo, Launch, Start, SpendRestart, NewHour
<1>1. CASE FirstStart
  BY <1>1 DEF FirstStart
<1>2. CASE StartAgain
  <2>1. calls' \in 0 .. MaxCalls + 1
    BY <1>2 DEF StartAgain
  <2>2. CASE Launch(exitw, binw)
    BY <1>2, <2>1, <2>2 DEF StartAgain
  <2>3. CASE UNCHANGED <<client, launched, live, exitw, binw>>
    BY <1>2, <2>1, <2>3 DEF StartAgain
  <2> QED BY <1>2, <2>2, <2>3 DEF StartAgain
<1>3. CASE BinaryChanged
  BY <1>3 DEF BinaryChanged
<1>4. CASE StopMark
  BY <1>4 DEF StopMark
<1>5. CASE StopKill
  BY <1>5 DEF StopKill
<1>6. ASSUME NEW p \in Procs, ExitLook(p) PROVE TypeOK'
  BY <1>6 DEF ExitLook
<1>7. ASSUME NEW p \in Procs, ExitProbe(p) PROVE TypeOK'
  BY <1>7 DEF ExitProbe
<1>8. ASSUME NEW p \in Procs, ExitBudget(p) PROVE TypeOK'
  BY <1>8 DEF ExitBudget
<1>9. ASSUME NEW p \in Procs, ExitClear(p) PROVE TypeOK'
  BY <1>9 DEF ExitClear
<1>10. ASSUME NEW p \in Procs, ExitStart(p) PROVE TypeOK'
  <2>1. CASE client = 0 /\ Launch([exitw EXCEPT ![p] = "done"], binw)
    <3>1. client' \in 0 .. MaxProcs /\ launched' \in 0 .. MaxProcs /\ live' \in SUBSET Procs
      BY <2>1
    <3>2. exitw' \in [Procs -> ExitPhase] /\ binw' \in [Procs -> BinPhase]
      BY <2>1
    <3> QED BY <1>10, <3>1, <3>2 DEF ExitStart
  <2>2. CASE UNCHANGED <<client, launched, live>>
    BY <1>10, <2>2 DEF ExitStart
  <2> QED BY <1>10, <2>1, <2>2 DEF ExitStart
<1>11. ASSUME NEW p \in Procs, BinEvent(p) PROVE TypeOK'
  BY <1>11 DEF BinEvent
<1>12. ASSUME NEW p \in Procs, BinTake(p) PROVE TypeOK'
  BY <1>12 DEF BinTake
<1>13. ASSUME NEW p \in Procs, BinKill(p) PROVE TypeOK'
  <2>1. live' \in SUBSET Procs
    <3>1. live' \subseteq live
      BY <1>13, Zenon DEF BinKill
    <3>2. live \subseteq Procs
      BY Zenon
    <3> QED BY <3>1, <3>2, Zenon
  <2>2. binw' \in [Procs -> BinPhase]
    BY <1>13 DEF BinKill
  <2>3. 0 \in 0 .. MaxProcs
    OBVIOUS
  <2>4. old' \in [Procs -> 0 .. MaxProcs]
    BY <1>13, <2>3 DEF BinKill
  <2> QED BY <1>13, <2>1, <2>2, <2>4 DEF BinKill
<1>14. ASSUME NEW p \in Procs, BinBudget(p) PROVE TypeOK'
  BY <1>14 DEF BinBudget
<1>15. ASSUME NEW p \in Procs, BinStart(p) PROVE TypeOK'
  <2>1. CASE client = 0 /\ Launch(exitw, [binw EXCEPT ![p] = "done"])
    BY <1>15, <2>1 DEF BinStart
  <2>2. CASE UNCHANGED <<client, launched, live>>
    BY <1>15, <2>2 DEF BinStart
  <2> QED BY <1>15, <2>1, <2>2 DEF BinStart
<1>16. ASSUME NEW p \in Procs, Crash(p) PROVE TypeOK'
  BY <1>16 DEF Crash
<1>17. CASE UNCHANGED vars
  BY <1>17 DEF vars
<1> QED
  BY <1>1, <1>2, <1>3, <1>4, <1>5, <1>6, <1>7, <1>8, <1>9, <1>10, <1>11, <1>12, <1>13, <1>14, <1>15, <1>16, <1>17 DEF Next, ExitNext, BinNext

\* Every step keeps the parts of the invariant that are about the client and
\* the goroutines.
LEMMA WatchStep ==
  TypeOK /\ Started /\ Cleared /\ Supervised /\ [Next]_vars => Started' /\ Cleared' /\ Supervised'
<1> SUFFICES ASSUME TypeOK, Started, Cleared, Supervised, [Next]_vars
             PROVE  Started' /\ Cleared' /\ Supervised'
  OBVIOUS
<1> USE BoundsAssumption DEF TypeOK, Started, Cleared, Supervised, Procs, ExitTo, BinTo, Launch, Start
<1>1. CASE FirstStart
  BY <1>1 DEF FirstStart
<1>2. CASE StartAgain
  BY <1>2 DEF StartAgain
<1>3. CASE BinaryChanged
  BY <1>3 DEF BinaryChanged
<1>4. CASE StopMark
  BY <1>4 DEF StopMark
<1>5. CASE StopKill
  BY <1>5 DEF StopKill
<1>6. ASSUME NEW p \in Procs, ExitLook(p) PROVE Started' /\ Cleared' /\ Supervised'
  BY <1>6 DEF ExitLook
<1>7. ASSUME NEW p \in Procs, ExitProbe(p) PROVE Started' /\ Cleared' /\ Supervised'
  BY <1>7 DEF ExitProbe
<1>8. ASSUME NEW p \in Procs, ExitBudget(p) PROVE Started' /\ Cleared' /\ Supervised'
  BY <1>8 DEF ExitBudget
<1>9. ASSUME NEW p \in Procs, ExitClear(p) PROVE Started' /\ Cleared' /\ Supervised'
  BY <1>9 DEF ExitClear
<1>10. ASSUME NEW p \in Procs, ExitStart(p) PROVE Started' /\ Cleared' /\ Supervised'
  BY <1>10 DEF ExitStart
<1>11. ASSUME NEW p \in Procs, BinEvent(p) PROVE Started' /\ Cleared' /\ Supervised'
  BY <1>11 DEF BinEvent
<1>12. ASSUME NEW p \in Procs, BinTake(p) PROVE Started' /\ Cleared' /\ Supervised'
  BY <1>12 DEF BinTake
<1>13. ASSUME NEW p \in Procs, BinKill(p) PROVE Started' /\ Cleared' /\ Supervised'
  BY <1>13 DEF BinKill
<1>14. ASSUME NEW p \in Procs, BinBudget(p) PROVE Started' /\ Cleared' /\ Supervised'
  BY <1>14 DEF BinBudget
<1>15. ASSUME NEW p \in Procs, BinStart(p) PROVE Started' /\ Cleared' /\ Supervised'
  BY <1>15 DEF BinStart
<1>16. ASSUME NEW p \in Procs, Crash(p) PROVE Started' /\ Cleared' /\ Supervised'
  BY <1>16 DEF Crash
<1>17. CASE UNCHANGED vars
  BY <1>17 DEF vars
<1> QED
  BY <1>1, <1>2, <1>3, <1>4, <1>5, <1>6, <1>7, <1>8, <1>9, <1>10, <1>11, <1>12, <1>13, <1>14, <1>15, <1>16, <1>17 DEF Next, ExitNext, BinNext

\* Which steps move the account of Spent, and how.
LEMMA SpentStep == IInv /\ [Next]_vars => Spent'
<1> SUFFICES ASSUME IInv, [Next]_vars PROVE Spent'
  OBVIOUS
<1>0. TypeOK /\ Started /\ Spent /\ TypeOK'
  BY TypeStep DEF IInv
<1>a. calls \in Nat /\ calls' \in Nat /\ launched \in Nat /\ launched' \in Nat
  BY <1>0, BoundsAssumption DEF TypeOK
<1>b. /\ IsFiniteSet(ExitGranted) /\ Cardinality(ExitGranted) \in Nat
      /\ IsFiniteSet(BinGranted) /\ Cardinality(BinGranted) \in Nat
  BY GrantedFinite
<1>1. CASE FirstStart
  <2>1. ExitGranted' = ExitGranted /\ BinGranted' = BinGranted
    BY <1>0, <1>1 DEF FirstStart, Launch, ExitGranted, BinGranted, TypeOK, Started, Procs
  <2>2. launched' = launched + 1 /\ calls' = calls + 1 /\ UNCHANGED <<restarts, hours>>
    BY <1>1 DEF FirstStart, Launch
  <2> QED BY <1>0, <1>a, <1>b, <2>1, <2>2, SpentLaunch
<1>2. CASE StartAgain
  <2>1. ExitGranted' = ExitGranted /\ BinGranted' = BinGranted
    BY <1>0, <1>2 DEF StartAgain, Launch, ExitGranted, BinGranted, TypeOK, Started, Procs
  <2>2. /\ launched' = launched + 1 \/ launched' = launched
        /\ calls' = calls + 1 /\ UNCHANGED <<restarts, hours>>
    BY <1>2 DEF StartAgain, Launch
  <2> QED BY <1>0, <1>a, <1>b, <2>1, <2>2, SpentLaunch
<1>3. CASE BinaryChanged
  <2>1. ExitGranted' = ExitGranted /\ BinGranted' = BinGranted
    BY <1>0, <1>3 DEF BinaryChanged, ExitGranted, BinGranted, TypeOK
  <2>2. UNCHANGED <<restarts, hours, launched, calls>>
    BY <1>3 DEF BinaryChanged
  <2> QED BY <1>0, <1>a, <2>1, <2>2, SpentKept
<1>4. CASE StopMark
  <2>1. ExitGranted' = ExitGranted /\ BinGranted' = BinGranted
    BY <1>0, <1>4 DEF StopMark, ExitGranted, BinGranted, TypeOK
  <2>2. UNCHANGED <<restarts, hours, launched, calls>>
    BY <1>4 DEF StopMark
  <2> QED BY <1>0, <1>a, <2>1, <2>2, SpentKept
<1>5. CASE StopKill
  <2>1. ExitGranted' = ExitGranted /\ BinGranted' = BinGranted
    BY <1>0, <1>5 DEF StopKill, ExitGranted, BinGranted, TypeOK
  <2>2. UNCHANGED <<restarts, hours, launched, calls>>
    BY <1>5 DEF StopKill
  <2> QED BY <1>0, <1>a, <2>1, <2>2, SpentKept
<1>6. ASSUME NEW p \in Procs, ExitLook(p) PROVE Spent'
  <2>1. ExitGranted' = ExitGranted /\ BinGranted' = BinGranted
    BY <1>0, <1>6 DEF ExitLook, ExitTo, BinTo, ExitGranted, BinGranted, TypeOK
  <2>2. UNCHANGED <<restarts, hours, launched, calls>>
    BY <1>6 DEF ExitLook
  <2> QED BY <1>0, <1>a, <2>1, <2>2, SpentKept
<1>7. ASSUME NEW p \in Procs, ExitProbe(p) PROVE Spent'
  <2>1. ExitGranted' = ExitGranted /\ BinGranted' = BinGranted
    BY <1>0, <1>7 DEF ExitProbe, ExitTo, BinTo, ExitGranted, BinGranted, TypeOK
  <2>2. UNCHANGED <<restarts, hours, launched, calls>>
    BY <1>7 DEF ExitProbe
  <2> QED BY <1>0, <1>a, <2>1, <2>2, SpentKept
<1>8. ASSUME NEW p \in Procs, ExitClear(p) PROVE Spent'
  <2>1. ExitGranted' = ExitGranted /\ BinGranted' = BinGranted
    BY <1>0, <1>8 DEF ExitClear, ExitTo, BinTo, ExitGranted, BinGranted, TypeOK
  <2>2. UNCHANGED <<restarts, hours, launched, calls>>
    BY <1>8 DEF ExitClear
  <2> QED BY <1>0, <1>a, <2>1, <2>2, SpentKept
<1>9. ASSUME NEW p \in Procs, BinEvent(p) PROVE Spent'
  <2>1. ExitGranted' = ExitGranted /\ BinGranted' = BinGranted
    BY <1>0, <1>9 DEF BinEvent, ExitTo, BinTo, ExitGranted, BinGranted, TypeOK
  <2>2. UNCHANGED <<restarts, hours, launched, calls>>
    BY <1>9 DEF BinEvent
  <2> QED BY <1>0, <1>a, <2>1, <2>2, SpentKept
<1>10. ASSUME NEW p \in Procs, BinTake(p) PROVE Spent'
  <2>1. ExitGranted' = ExitGranted /\ BinGranted' = BinGranted
    BY <1>0, <1>10 DEF BinTake, ExitTo, BinTo, ExitGranted, BinGranted, TypeOK
  <2>2. UNCHANGED <<restarts, hours, launched, calls>>
    BY <1>10 DEF BinTake
  <2> QED BY <1>0, <1>a, <2>1, <2>2, SpentKept
<1>11. ASSUME NEW p \in Procs, BinKill(p) PROVE Spent'
  <2>1. ExitGranted' = ExitGranted /\ BinGranted' = BinGranted
    BY <1>0, <1>11 DEF BinKill, ExitTo, BinTo, ExitGranted, BinGranted, TypeOK
  <2>2. UNCHANGED <<restarts, hours, launched, calls>>
    BY <1>11 DEF BinKill
  <2> QED BY <1>0, <1>a, <2>1, <2>2, SpentKept
<1>12. ASSUME NEW p \in Procs, Crash(p) PROVE Spent'
  <2>1. ExitGranted' = ExitGranted /\ BinGranted' = BinGranted
    BY <1>0, <1>12 DEF Crash, ExitTo, BinTo, ExitGranted, BinGranted, TypeOK
  <2>2. UNCHANGED <<restarts, hours, launched, calls>>
    BY <1>12 DEF Crash
  <2> QED BY <1>0, <1>a, <2>1, <2>2, SpentKept
<1>13. ASSUME NEW p \in Procs, ExitBudget(p) PROVE Spent'
  <2>1. BinGranted' = BinGranted /\ UNCHANGED <<launched, calls>> /\ SpendRestart
    BY <1>0, <1>13 DEF ExitBudget, ExitTo, BinGranted, TypeOK
  <2>2. CASE Affordable
    <3>1. p \notin ExitGranted /\ ExitGranted' = ExitGranted \cup {p}
      BY <1>0, <1>13, <2>2 DEF ExitBudget, ExitTo, ExitGranted, TypeOK
    <3>2. Cardinality(ExitGranted') = Cardinality(ExitGranted) + 1
      BY <1>b, <3>1, CountIn
    <3> QED BY <1>0, <2>1, <2>2, <3>2, SpentGrant
  <2>3. CASE ~Affordable
    <3>1. ExitGranted' = ExitGranted
      BY <1>0, <1>13, <2>3 DEF ExitBudget, ExitTo, ExitGranted, TypeOK
    <3> QED BY <1>0, <2>1, <3>1, SpentGrant
  <2> QED BY <2>2, <2>3
<1>14. ASSUME NEW p \in Procs, BinBudget(p) PROVE Spent'
  <2>1. ExitGranted' = ExitGranted /\ UNCHANGED <<launched, calls>> /\ SpendRestart
    BY <1>0, <1>14 DEF BinBudget, BinTo, ExitGranted, TypeOK
  <2>2. CASE Affordable
    <3>1. p \notin BinGranted /\ BinGranted' = BinGranted \cup {p}
      BY <1>0, <1>14, <2>2 DEF BinBudget, BinTo, BinGranted, TypeOK
    <3>2. Cardinality(BinGranted') = Cardinality(BinGranted) + 1
      BY <1>b, <3>1, CountIn
    <3> QED BY <1>0, <2>1, <2>2, <3>2, SpentGrant
  <2>3. CASE ~Affordable
    <3>1. BinGranted' = BinGranted
      BY <1>0, <1>14, <2>3 DEF BinBudget, BinTo, BinGranted, TypeOK
    <3> QED BY <1>0, <2>1, <3>1, SpentGrant
  <2> QED BY <2>2, <2>3
<1>15. ASSUME NEW p \in Procs, ExitStart(p) PROVE Spent'
  <2>1. UNCHANGED <<restarts, hours, calls>> /\ (launched' = launched + 1 \/ launched' = launched)
    BY <1>15 DEF ExitStart, Start, Launch
  <2>2. /\ p \in ExitGranted /\ ExitGranted' = ExitGranted \ {p}
        /\ BinGranted' = BinGranted
    <3>1. CASE Launch([exitw EXCEPT ![p] = "done"], binw)
      BY <1>0, <1>15, <3>1 DEF ExitStart, Launch, TypeOK, Started, Procs, ExitGranted, BinGranted
    <3>2. CASE exitw' = [exitw EXCEPT ![p] = "done"] /\ binw' = binw
      BY <1>0, <1>15, <3>2 DEF ExitStart, TypeOK, ExitGranted, BinGranted
    <3> QED BY <1>15, <3>1, <3>2 DEF ExitStart, Start
  <2>3. Cardinality(ExitGranted') = Cardinality(ExitGranted) - 1
    BY <1>b, <2>2, CountOut
  <2> QED BY <1>0, <1>a, <1>b, <2>1, <2>2, <2>3, SpentLaunch
<1>16. ASSUME NEW p \in Procs, BinStart(p) PROVE Spent'
  <2>1. UNCHANGED <<restarts, hours, calls>> /\ (launched' = launched + 1 \/ launched' = launched)
    BY <1>16 DEF BinStart, Start, Launch
  <2>2. /\ p \in BinGranted /\ BinGranted' = BinGranted \ {p}
        /\ ExitGranted' = ExitGranted
    <3>1. CASE Launch(exitw, [binw EXCEPT ![p] = "done"])
      BY <1>0, <1>16, <3>1 DEF BinStart, Launch, TypeOK, Started, Procs, ExitGranted, BinGranted
    <3>2. CASE exitw' = exitw /\ binw' = [binw EXCEPT ![p] = "done"]
      BY <1>0, <1>16, <3>2 DEF BinStart, TypeOK, ExitGranted, BinGranted
    <3> QED BY <1>16, <3>1, <3>2 DEF BinStart, Start
  <2>3. Cardinality(BinGranted') = Cardinality(BinGranted) - 1
    BY <1>b, <2>2, CountOut
  <2> QED BY <1>0, <1>a, <1>b, <2>1, <2>2, <2>3, SpentLaunch
<1>17. CASE UNCHANGED vars
  <2>1. ExitGranted' = ExitGranted /\ BinGranted' = BinGranted /\ UNCHANGED <<restarts, hours, launched, calls>>
    BY <1>17 DEF vars, ExitGranted, BinGranted
  <2> QED BY <1>0, <1>a, <2>1, SpentKept
<1> QED
  BY <1>1, <1>2, <1>3, <1>4, <1>5, <1>6, <1>7, <1>8, <1>9, <1>10, <1>11, <1>12, <1>13, <1>14, <1>15, <1>16, <1>17 DEF Next, ExitNext, BinNext

\* The invariant is inductive, and holds in every reachable state.
LEMMA InvariantHolds == Spec => []IInv
<1>1. Init => IInv
  BY InitHolds
<1>2. IInv /\ [Next]_vars => IInv'
  BY TypeStep, WatchStep, SpentStep DEF IInv
<1> QED BY <1>1, <1>2, PTL DEF Spec

\* Type correctness.
THEOREM TypeCorrect == Spec => []TypeOK
BY InvariantHolds, PTL DEF IInv

\* The current process is watched by a watchExit goroutine that has not
\* returned, unless Stop was called, however the goroutines interleave.
THEOREM SupervisedCorrect == Spec => []Supervised
BY InvariantHolds, PTL DEF IInv

\* The processes launched are bounded by the calls of Start and the budget of
\* the hours that have passed, for any number of goroutines that race for it.
THEOREM RestartBudgetCorrect == Spec => []RestartBudget
<1>1. IInv => RestartBudget
  <2> SUFFICES ASSUME IInv PROVE RestartBudget
    OBVIOUS
  <2>1. TypeOK /\ Spent
    BY DEF IInv
  <2>2. MaxRestarts * (hours + 1) = MaxRestarts * hours + MaxRestarts /\ MaxRestarts * hours \in Nat
    BY <2>1, BoundsAssumption DEF TypeOK
  <2> QED BY <2>1, <2>2, GrantedFinite, BoundsAssumption DEF Spent, Granted, RestartBudget, TypeOK
<1> QED BY <1>1, InvariantHolds, PTL

\* Once a stopped supervisor has no restart under way it has none after any
\* step, and only a call of Start launches a process.
THEOREM StopHoldsCorrect == Spec => StopHolds
<1> DEFINE Holds == stopped /\ ~Restarting => ~Restarting' /\ (calls' = calls => launched' = launched)
<1>1. TypeOK /\ [Next]_vars => [Holds]_vars
  <2> SUFFICES ASSUME TypeOK, Next, stopped, ~Restarting
               PROVE  ~Restarting' /\ (calls' = calls => launched' = launched)
    BY DEF vars, Restarting
  <2>a. \A q \in Procs : /\ exitw[q] \notin {"looked", "exited", "clear", "start"}
                          /\ binw[q] \notin {"armed", "kill", "budget", "start"}
    BY DEF Restarting
  <2> USE DEF TypeOK, Procs, ExitTo, BinTo, Launch, Restarting
  <2>1. CASE FirstStart
    BY <2>a, <2>1 DEF FirstStart
  <2>2. CASE StartAgain
    <3>1. CASE Launch(exitw, binw)
      BY <2>a, <2>2, <3>1 DEF StartAgain
    <3>2. CASE UNCHANGED <<client, launched, live, exitw, binw>>
      BY <2>a, <2>2, <3>2 DEF StartAgain
    <3> QED BY <2>2, <3>1, <3>2 DEF StartAgain
  <2>3. CASE BinaryChanged
    BY <2>a, <2>3 DEF BinaryChanged
  <2>4. CASE StopMark \/ StopKill
    BY <2>a, <2>4 DEF StopMark, StopKill
  <2>5. ASSUME NEW p \in Procs, ExitNext(p)
        PROVE  ~Restarting' /\ (calls' = calls => launched' = launched)
    <3>1. ExitLook(p)
      BY <2>a, <2>5 DEF ExitNext, ExitProbe, ExitBudget, ExitClear, ExitStart
    <3> QED BY <2>a, <3>1 DEF ExitLook
  <2>6. ASSUME NEW p \in Procs, BinNext(p)
        PROVE  ~Restarting' /\ (calls' = calls => launched' = launched)
    <3>1. BinEvent(p)
      BY <2>a, <2>6 DEF BinNext, BinTake, BinKill, BinBudget, BinStart
    <3> QED BY <2>a, <3>1 DEF BinEvent
  <2>7. ASSUME NEW p \in Procs, Crash(p)
        PROVE  ~Restarting' /\ (calls' = calls => launched' = launched)
    BY <2>a, <2>7 DEF Crash
  <2> QED BY <2>1, <2>2, <2>3, <2>4, <2>5, <2>6, <2>7 DEF Next
<1> QED BY <1>1, TypeCorrect, PTL DEF Spec, StopHolds

\* A process watchExit saw exit stays dead, and whoever holds a process to
\* kill is about to kill it; before the first call of Start there is none.
Dead == \A p \in Procs : exitw[p] \in {"exited", "clear", "start"} => p \notin live
Held == /\ \A p \in Procs : old[p] # 0 => binw[p] = "kill"
        /\ stop = "idle" => victim = 0
        /\ calls = 0 => launched = 0

\* Every step keeps what is known of the processes to kill and of the dead.
LEMMA HeldStep == IInv /\ Dead /\ Held /\ [Next]_vars => Dead' /\ Held'
<1> SUFFICES ASSUME IInv, Dead, Held, [Next]_vars PROVE Dead' /\ Held'
  OBVIOUS
<1>0. TypeOK /\ Started
  BY DEF IInv
<1> USE BoundsAssumption, <1>0 DEF TypeOK, Started, Dead, Held, Procs, ExitTo, BinTo, Launch, Start
<1>1. CASE FirstStart
  BY <1>1 DEF FirstStart
<1>2. CASE StartAgain
  <2>1. CASE Launch(exitw, binw)
    BY <1>2, <2>1 DEF StartAgain
  <2>2. CASE UNCHANGED <<client, launched, live, exitw, binw>>
    BY <1>2, <2>2 DEF StartAgain
  <2> QED BY <1>2, <2>1, <2>2 DEF StartAgain
<1>3. CASE BinaryChanged
  BY <1>3 DEF BinaryChanged
<1>4. CASE StopMark \/ StopKill
  BY <1>4 DEF StopMark, StopKill
<1>5. ASSUME NEW p \in Procs, ExitLook(p) \/ ExitProbe(p) PROVE Dead' /\ Held'
  BY <1>5 DEF ExitLook, ExitProbe
<1>6. ASSUME NEW p \in Procs, ExitBudget(p) \/ ExitClear(p) PROVE Dead' /\ Held'
  BY <1>6 DEF ExitBudget, ExitClear
<1>7. ASSUME NEW p \in Procs, ExitStart(p) PROVE Dead' /\ Held'
  <2>1. CASE client = 0 /\ Launch([exitw EXCEPT ![p] = "done"], binw)
    <3>1. /\ launched' = launched + 1 /\ launched + 1 \in Procs
          /\ live' = live \cup {launched + 1}
          /\ exitw'[launched + 1] = "watching"
          /\ \A q \in Procs : exitw'[q] \in {exitw[q], "done", "watching"}
          /\ binw' = [binw EXCEPT ![launched + 1] = "watching"]
          /\ binw[launched + 1] = "none"
      BY <1>7, <2>1 DEF ExitStart
    <3>2. Dead'
      BY <3>1
    <3>3. launched # 0
      BY <1>7 DEF ExitStart
    <3> QED BY <1>7, <2>1, <3>1, <3>2, <3>3 DEF ExitStart
  <2>2. CASE UNCHANGED <<client, launched, live>> /\ exitw' = [exitw EXCEPT ![p] = "done"] /\ binw' = binw
    BY <1>7, <2>2 DEF ExitStart
  <2> QED BY <1>7, <2>1, <2>2 DEF ExitStart
<1>8. ASSUME NEW p \in Procs, BinEvent(p) \/ BinTake(p) PROVE Dead' /\ Held'
  BY <1>8 DEF BinEvent, BinTake
<1>9. ASSUME NEW p \in Procs, BinKill(p) \/ BinBudget(p) PROVE Dead' /\ Held'
  BY <1>9 DEF BinKill, BinBudget
<1>10. ASSUME NEW p \in Procs, BinStart(p) PROVE Dead' /\ Held'
  <2>1. CASE client = 0 /\ Launch(exitw, [binw EXCEPT ![p] = "done"])
    <3>1. /\ launched' = launched + 1 /\ launched + 1 \in Procs
          /\ live' = live \cup {launched + 1}
          /\ exitw' = [exitw EXCEPT ![launched + 1] = "watching"]
          /\ binw[launched + 1] = "none" /\ binw[p] = "start"
      BY <1>10, <2>1 DEF BinStart
    <3>2. Dead'
      BY <3>1
    <3>3. launched # 0
      BY <3>1
    <3> QED BY <1>10, <2>1, <3>1, <3>2, <3>3 DEF BinStart
  <2>2. CASE UNCHANGED <<client, launched, live>> /\ exitw' = exitw /\ binw' = [binw EXCEPT ![p] = "done"]
    BY <1>10, <2>2 DEF BinStart
  <2> QED BY <1>10, <2>1, <2>2 DEF BinStart
<1>11. ASSUME NEW p \in Procs, Crash(p) PROVE Dead' /\ Held'
  BY <1>11 DEF Crash
<1>12. CASE UNCHANGED vars
  BY <1>12 DEF vars
<1> QED
  BY <1>1, <1>2, <1>3, <1>4, <1>5, <1>6, <1>7, <1>8, <1>9, <1>10, <1>11, <1>12 DEF Next, ExitNext, BinNext

\* A step from a state where no watchExit is overtaken loses no process.
LEMMA OneProcessStep ==
  IInv /\ Dead /\ Held /\ NoneOvertaken /\ OneProcess /\ [Next]_vars => OneProcess'
<1> SUFFICES ASSUME IInv, Dead, Held, NoneOvertaken, OneProcess, [Next]_vars PROVE OneProcess'
  OBVIOUS
<1>0. TypeOK /\ Started
  BY DEF IInv
<1>a. \A x : x \in live => x \in Procs /\ x # 0
  BY <1>0 DEF TypeOK, Procs
<1> USE BoundsAssumption, <1>0, <1>a DEF TypeOK, OneProcess, ExitTo, BinTo
<1>1. CASE FirstStart
  BY <1>1 DEF FirstStart, Launch, Started, Held
<1>2. CASE StartAgain
  BY <1>2 DEF StartAgain, Launch
<1>3. CASE BinaryChanged
  BY <1>3 DEF BinaryChanged
<1>4. CASE StopMark \/ StopKill
  BY <1>4 DEF StopMark, StopKill, Held
<1>5. ASSUME NEW p \in Procs, ExitLook(p) \/ ExitProbe(p) \/ ExitBudget(p) PROVE OneProcess'
  BY <1>5 DEF ExitLook, ExitProbe, ExitBudget
<1>6. ASSUME NEW p \in Procs, ExitClear(p) PROVE OneProcess'
  BY <1>6 DEF ExitClear, NoneOvertaken, Dead
<1>7. ASSUME NEW p \in Procs, ExitStart(p) PROVE OneProcess'
  BY <1>7 DEF ExitStart, Start, Launch
<1>8. ASSUME NEW p \in Procs, BinTake(p) PROVE OneProcess'
  <2>1. old[p] = 0
    BY <1>8 DEF BinTake, Held
  <2>2. old'[p] = client /\ \A q \in Procs : q # p => old'[q] = old[q]
    BY <1>8 DEF BinTake
  <2> QED BY <1>8, <2>1, <2>2 DEF BinTake
<1>9. ASSUME NEW p \in Procs, BinKill(p) PROVE OneProcess'
  <2>1. \A q \in Procs : q # p => old'[q] = old[q]
    BY <1>9 DEF BinKill
  <2> QED BY <1>9, <2>1 DEF BinKill
<1>10. ASSUME NEW p \in Procs, BinEvent(p) \/ BinBudget(p) PROVE OneProcess'
  BY <1>10 DEF BinEvent, BinBudget
<1>11. ASSUME NEW p \in Procs, BinStart(p) PROVE OneProcess'
  BY <1>11 DEF BinStart, Start, Launch
<1>12. ASSUME NEW p \in Procs, Crash(p) PROVE OneProcess'
  BY <1>12 DEF Crash
<1>13. CASE UNCHANGED vars
  BY <1>13 DEF vars
<1> QED
  BY <1>1, <1>2, <1>3, <1>4, <1>5, <1>6, <1>7, <1>8, <1>9, <1>10, <1>11, <1>12, <1>13 DEF Next, ExitNext, BinNext

\* In a behaviour in which no watchExit clears another process's client, every
\* live process is the client or about to be killed, however the restarts, Stop
\* and the calls of Start interleave.
THEOREM NoOrphansCorrect == Spec => NoOrphans
<1>1. Init => Dead /\ Held /\ OneProcess
  BY DEF Init, Dead, Held, OneProcess
<1>2. IInv /\ Dead /\ Held /\ NoneOvertaken /\ OneProcess /\ [Next]_vars => Dead' /\ Held' /\ OneProcess'
  BY HeldStep, OneProcessStep
<1> QED BY <1>1, <1>2, InvariantHolds, PTL DEF Spec, NoOrphans
=============================================================================
