-------------------------- MODULE ViewRefreshProofs --------------------------
(***************************************************************************)
(* The theorems of ViewRefresh, for every number of requests, refreshes,   *)
(* fingerprints, versions and failures.  All of them speak of a view that  *)
(* is not being deleted: a refresh that lands after the panels were        *)
(* deleted starts from nothing.                                            *)
(***************************************************************************)
EXTENDS ViewRefresh, TLAPS

Kept == deletion = "none"

\* singleflight: no two refreshes of one fingerprint.
OneFlight == \A l, k \in Flights :
  flight[l].pc # "none" /\ flight[k].pc # "none" /\ flight[l].fp = flight[k].fp => l = k

\* A refresh brings nothing older than what is stored, and nothing is stored
\* that the queries have not returned.
NewerFlight == Kept => \A l \in Flights :
  flight[l].pc = "store" => panels[flight[l].fp] <= flight[l].version /\ flight[l].version <= world
Known == Kept => \A f \in Fingerprints :
  /\ panels[f] <= world /\ shown[f] <= panels[f]
  /\ rows[f] = IF hasTable THEN panels[f] ELSE 0

\* Who waits, waits for a refresh of what they have asked for.
Waits == \A r \in Requests : At(r, "wait") /\ req[r].out.result = "pending" =>
  flight[req[r].flight].pc # "none" /\ flight[req[r].flight].fp = req[r].ask.fp

\* What was shown when a request came is stored, and so is what it has got.
Seen == Kept => \A r \in Requests :
  /\ req[r].pc \in {"look", "stale", "wait", "rows", "panels"} => req[r].ask.seen <= panels[req[r].ask.fp]
  /\ At(r, "wait") /\ req[r].out.result = "fresh" =>
       req[r].ask.seen <= req[r].out.version /\ req[r].out.version <= panels[req[r].ask.fp]
  /\ At(r, "panels") => req[r].rows <= panels[req[r].ask.fp]

ViewInv == TypeOK /\ OneFlight /\ NewerFlight /\ Known /\ Waits /\ Seen

\* Nothing is stored or shown at first.
LEMMA ViewInit == Init => ViewInv
<1> SUFFICES ASSUME Init PROVE ViewInv
  OBVIOUS
<1> USE ConstantsAssumption DEF Init
<1>1. TypeOK
  <2>1. 0 \in Versions /\ 1 \in Versions \ {0}
    BY DEF Versions
  <2>3. hasTable \in BOOLEAN /\ table \in BOOLEAN /\ (table => hasTable)
    BY Zenon
  <2>2. New \in Request /\ [pc |-> "none"] \in Flight
    BY DEF Request, Flight, New
  <2> QED BY <2>1, <2>2, <2>3 DEF TypeOK
<1>2. OneFlight /\ NewerFlight /\ Known /\ Waits /\ Seen
  BY DEF OneFlight, NewerFlight, Known, Waits, Seen, At, New, Versions
<1> QED BY <1>1, <1>2 DEF ViewInv

\* Each step preserves the invariant.
LEMMA ViewSteps == ViewInv /\ Next => ViewInv'
<1> SUFFICES ASSUME ViewInv, Next PROVE ViewInv'
  OBVIOUS
<1> USE ConstantsAssumption DEF ViewInv, setup, stored, At, Kept
<1>1. ASSUME NEW r \in Requests, Ask(r) PROVE ViewInv'
  <2>1. TypeOK'
    BY <1>1 DEF Ask, Refused, Go, TypeOK, Versions, Request, Flight, New, With, Asked, Outcome
  <2>2. OneFlight' /\ NewerFlight' /\ Known'
    BY <1>1, <2>1 DEF Ask, Refused, Go, TypeOK, OneFlight, NewerFlight, Known, Seen, Versions, Flight
  <2>3. Waits' /\ Seen'
    BY <1>1, <2>1 DEF Ask, Refused, Go, TypeOK, OneFlight, NewerFlight, Known, Waits, Seen, Versions, Flight, Request, With, Asked, Outcome
  <2> QED BY <2>1, <2>2, <2>3
<1>2. ASSUME NEW r \in Requests, Look(r) PROVE ViewInv'
  <2>1. TypeOK'
    BY <1>2 DEF Look, Go, TypeOK, Versions, Request, Flight, New, With, Asked, Outcome
  <2>2. OneFlight' /\ NewerFlight' /\ Known'
    BY <1>2, <2>1 DEF Look, Go, TypeOK, OneFlight, NewerFlight, Known, Seen, Versions, Flight
  <2>3. Waits' /\ Seen'
    BY <1>2, <2>1 DEF Look, Go, TypeOK, OneFlight, NewerFlight, Known, Waits, Seen, Versions, Flight, Request, With, Asked, Outcome
  <2> QED BY <2>1, <2>2, <2>3
<1>3. ASSUME NEW r \in Requests, Refresh(r) PROVE ViewInv'
  <2> DEFINE ask == req[r].ask
             new == [pc |-> "query", fp |-> ask.fp, rows |-> ask.rows, version |-> 0]
             out == [result |-> "pending"]
             wait(l) == [pc |-> "wait", ask |-> ask, flight |-> l, out |-> out]
  <2>1. /\ ask \in Asked /\ req[r].pc = "stale"
        /\ UNCHANGED <<setup, stored, deletion, shown, fails>>
    BY <1>3 DEF Refresh, TypeOK, Request, New, With
  <2>2. new \in Flight /\ 0 \in Versions /\ new.pc = "query" /\ new.fp = ask.fp
    BY <2>1 DEF Flight, Asked, Versions
  <2>3. out \in Outcome /\ out.result = "pending"
    BY DEF Outcome
  <2>4. ASSUME NEW l \in Flights
        PROVE  /\ wait(l) \in Request /\ wait(l).pc = "wait" /\ wait(l).ask = ask
               /\ wait(l).flight = l /\ wait(l).out.result = "pending"
    BY <2>1, <2>3 DEF Request
  <2>5. PICK l \in Flights :
          /\ req' = [req EXCEPT ![r] = wait(l)]
          /\ \/ flight[l].pc # "none" /\ flight[l].fp = ask.fp /\ UNCHANGED flight
             \/ /\ \A k \in Flights : flight[k].pc # "none" => flight[k].fp # ask.fp
                /\ flight[l].pc = "none" /\ flight' = [flight EXCEPT ![l] = new]
    BY <1>3 DEF Refresh, Joinable, Go
  <2>6. /\ wait(l) \in Request /\ wait(l).pc = "wait" /\ wait(l).ask = ask
        /\ wait(l).flight = l /\ wait(l).out.result = "pending"
    BY <2>4
  <2> HIDE DEF ask, new, out, wait
  <2>7. TypeOK'
    BY <2>1, <2>2, <2>5, <2>6 DEF TypeOK
  <2>8. OneFlight' /\ NewerFlight' /\ Known'
    BY <2>1, <2>2, <2>5 DEF TypeOK, OneFlight, NewerFlight, Known
  <2>9. ASSUME Waits, NEW q \in Requests, q # r, At(q, "wait"), req[q].out.result = "pending"
        PROVE  flight'[req[q].flight].pc # "none" /\ flight'[req[q].flight].fp = req[q].ask.fp
    <3>1. req[q].flight \in Flights
      BY <2>9 DEF TypeOK, Request, New, With
    <3> QED BY <2>5, <2>9, <3>1 DEF TypeOK, Waits
  <2>10. Waits'
    BY <2>2, <2>5, <2>6, <2>9 DEF TypeOK, Waits
  <2>11. Seen'
    BY <2>1, <2>5, <2>6 DEF TypeOK, Seen, ask
  <2> QED BY <2>7, <2>8, <2>10, <2>11
<1>4. ASSUME NEW r \in Requests, Served(r) PROVE ViewInv'
  <2>1. TypeOK'
    BY <1>4 DEF Served, Answer, Go, Newest, TypeOK, Versions, Request, Flight, New, With, Asked, Outcome
  <2>2. OneFlight' /\ NewerFlight' /\ Known'
    BY <1>4, <2>1 DEF Served, Answer, Go, Newest, TypeOK, OneFlight, NewerFlight, Known, Seen, Versions, Flight
  <2>3. Waits' /\ Seen'
    BY <1>4, <2>1 DEF Served, Answer, Go, Newest, TypeOK, OneFlight, NewerFlight, Known, Waits, Seen, Versions, Flight, Request, With, Asked, Outcome
  <2> QED BY <2>1, <2>2, <2>3
<1>5. ASSUME NEW r \in Requests, Failed(r) PROVE ViewInv'
  <2>1. TypeOK'
    BY <1>5 DEF Failed, FallBack, Refused, Go, TypeOK, Versions, Request, Flight, New, With, Asked, Outcome
  <2>2. OneFlight' /\ NewerFlight' /\ Known'
    BY <1>5, <2>1 DEF Failed, FallBack, Refused, Go, TypeOK, OneFlight, NewerFlight, Known, Seen, Versions, Flight
  <2>3. Waits' /\ Seen'
    BY <1>5, <2>1 DEF Failed, FallBack, Refused, Go, TypeOK, OneFlight, NewerFlight, Known, Waits, Seen, Versions, Flight, Request, With, Asked, Outcome
  <2> QED BY <2>1, <2>2, <2>3
<1>6. ASSUME NEW r \in Requests, Timeout(r) PROVE ViewInv'
  <2>1. TypeOK'
    BY <1>6 DEF Timeout, FallBack, Refused, Go, TypeOK, Versions, Request, Flight, New, With, Asked, Outcome
  <2>2. OneFlight' /\ NewerFlight' /\ Known'
    BY <1>6, <2>1 DEF Timeout, FallBack, Refused, Go, TypeOK, OneFlight, NewerFlight, Known, Seen, Versions, Flight
  <2>3. Waits' /\ Seen'
    BY <1>6, <2>1 DEF Timeout, FallBack, Refused, Go, TypeOK, OneFlight, NewerFlight, Known, Waits, Seen, Versions, Flight, Request, With, Asked, Outcome
  <2> QED BY <2>1, <2>2, <2>3
<1>7. ASSUME NEW r \in Requests, ReadRows(r) PROVE ViewInv'
  <2>1. TypeOK'
    BY <1>7 DEF ReadRows, Refused, Go, TypeOK, Versions, Request, Flight, New, With, Asked, Outcome
  <2>2. OneFlight' /\ NewerFlight' /\ Known'
    BY <1>7, <2>1 DEF ReadRows, Refused, Go, TypeOK, OneFlight, NewerFlight, Known, Seen, Versions, Flight
  <2>3. Waits' /\ Seen'
    BY <1>7, <2>1 DEF ReadRows, Refused, Go, TypeOK, OneFlight, NewerFlight, Known, Waits, Seen, Versions, Flight, Request, With, Asked, Outcome
  <2> QED BY <2>1, <2>2, <2>3
<1>8. ASSUME NEW r \in Requests, ReadPanels(r) PROVE ViewInv'
  <2>1. TypeOK'
    BY <1>8 DEF ReadPanels, Answer, Go, Newest, TypeOK, Versions, Request, Flight, New, With, Asked, Outcome
  <2>2. OneFlight' /\ NewerFlight' /\ Known'
    BY <1>8, <2>1 DEF ReadPanels, Answer, Go, Newest, TypeOK, OneFlight, NewerFlight, Known, Seen, Versions, Flight
  <2>3. Waits' /\ Seen'
    BY <1>8, <2>1 DEF ReadPanels, Answer, Go, Newest, TypeOK, OneFlight, NewerFlight, Known, Waits, Seen, Versions, Flight, Request, With, Asked, Outcome
  <2> QED BY <2>1, <2>2, <2>3
<1>9. ASSUME NEW l \in Flights, Query(l) PROVE ViewInv'
  <2> DEFINE new == [flight[l] EXCEPT !.pc = "store", !.version = world]
  <2>1. /\ flight[l].pc = "query" /\ flight' = [flight EXCEPT ![l] = new]
        /\ UNCHANGED <<setup, stored, deletion, req, shown, fails>>
    BY <1>9 DEF Query
  <2>2. flight[l] \in [pc : {"query", "store"}, fp : Fingerprints, rows : BOOLEAN, version : Versions]
    BY <2>1 DEF TypeOK, Flight
  <2>3. new \in Flight /\ new.pc = "store" /\ new.version = world /\ new.fp = flight[l].fp
    BY <2>2 DEF TypeOK, Flight
  <2> HIDE DEF new
  <2>4. TypeOK'
    BY <2>1, <2>3 DEF TypeOK
  <2>5. OneFlight' /\ NewerFlight' /\ Known'
    BY <2>1, <2>2, <2>3 DEF TypeOK, OneFlight, NewerFlight, Known, Versions
  <2>6. Waits'
    BY <2>1, <2>3 DEF TypeOK, Waits
  <2>7. Seen'
    BY <2>1 DEF Seen
  <2> QED BY <2>4, <2>5, <2>6, <2>7
<1>10. ASSUME NEW l \in Flights, Land(l) PROVE ViewInv'
  <2> DEFINE f == flight[l].fp
             v == flight[l].version
             out == [result |-> "fresh", version |-> v]
  <2>1. flight[l] \in [pc : {"query", "store"}, fp : Fingerprints, rows : BOOLEAN, version : Versions]
    BY <1>10 DEF Land, TypeOK, Flight
  <2>2. f \in Fingerprints /\ v \in Versions /\ out \in Outcome /\ out.result = "fresh" /\ out.version = v
    BY <2>1 DEF Outcome
  <2>3. /\ flight[l].pc = "store" /\ flight' = [flight EXCEPT ![l] = [pc |-> "none"]]
        /\ req' = [r \in Requests |-> IF At(r, "wait") /\ req[r].flight = l /\ req[r].out.result = "pending"
                                      THEN [req[r] EXCEPT !.out = out] ELSE req[r]]
        /\ panels' = [panels EXCEPT ![f] = v]
        /\ UNCHANGED <<setup, deletion, shown, fails>>
    BY <1>10 DEF Land, Store, End
  <2>4. TypeOK'
    BY <1>10 DEF Land, Store, End, TypeOK, Versions, Request, Flight, New, With, Asked, Outcome
  <2>5. OneFlight' /\ NewerFlight' /\ Known'
    BY <1>10, <2>4 DEF Land, Store, End, TypeOK, OneFlight, NewerFlight, Known, Seen, Versions, Flight
  <2> HIDE DEF f, v, out
  <2>6. ASSUME NEW r \in Requests
        PROVE  \/ /\ At(r, "wait") /\ req[r].flight = l /\ req[r].out.result = "pending"
                  /\ req'[r].pc = "wait" /\ req'[r].ask = req[r].ask /\ req'[r].out = out
               \/ /\ ~(At(r, "wait") /\ req[r].flight = l /\ req[r].out.result = "pending")
                  /\ req'[r] = req[r]
    <3>1. CASE At(r, "wait") /\ req[r].flight = l /\ req[r].out.result = "pending"
      <4>1. req[r] \in [pc : {"wait"}, ask : Asked, flight : Flights, out : Outcome]
        BY <3>1 DEF TypeOK, Request, New, With
      <4> QED BY <2>3, <3>1, <4>1
    <3> QED BY <2>3, <3>1
  <2>7. Waits'
    BY <2>2, <2>3, <2>6 DEF TypeOK, Waits
  <2>8. ASSUME Kept, NEW r \in Requests PROVE req[r].pc \in {"look", "stale", "wait", "rows", "panels"} => req[r].ask.fp \in Fingerprints /\ req[r].ask.seen \in Versions
    BY DEF TypeOK, Request, New, With, Asked
  <2>9. Kept => v \in Nat /\ panels[f] <= v
    BY <2>2, <2>3 DEF NewerFlight, Versions, f, v
  <2>10. Kept => \A r \in Requests : At(r, "wait") /\ req[r].flight = l /\ req[r].out.result = "pending" => req[r].ask.fp = f
    BY DEF Waits, f
  <2>11. Seen'
    <3> SUFFICES ASSUME Kept, NEW r \in Requests
                 PROVE  /\ req'[r].pc \in {"look", "stale", "wait", "rows", "panels"} =>
                             req'[r].ask.seen <= panels'[req'[r].ask.fp]
                        /\ req'[r].pc = "wait" /\ req'[r].out.result = "fresh" =>
                             /\ req'[r].ask.seen <= req'[r].out.version
                             /\ req'[r].out.version <= panels'[req'[r].ask.fp]
                        /\ req'[r].pc = "panels" => req'[r].rows <= panels'[req'[r].ask.fp]
      BY <2>3 DEF Seen
    <3>1. \A g \in Fingerprints : panels[g] \in Nat /\ panels'[g] \in Nat /\ panels[g] <= panels'[g]
      BY <2>2, <2>3, <2>9 DEF TypeOK, Versions
    <3>2. CASE At(r, "wait") /\ req[r].flight = l /\ req[r].out.result = "pending"
      <4>1. req[r].ask.fp = f /\ req[r].ask.fp \in Fingerprints /\ req[r].ask.seen \in Nat
        BY <2>8, <2>10, <3>2 DEF Versions
      <4>2. req'[r].pc = "wait" /\ req'[r].ask = req[r].ask /\ req'[r].out = out
        BY <2>6, <3>2
      <4>3. req[r].ask.seen <= panels[f]
        BY <3>2, <4>1 DEF Seen
      <4>4. panels'[f] = v /\ f \in Fingerprints
        BY <2>2, <2>3 DEF TypeOK
      <4>5. out.version = v
        BY DEF out
      <4> QED BY <2>9, <3>1, <4>1, <4>2, <4>3, <4>4, <4>5
    <3>3. CASE ~(At(r, "wait") /\ req[r].flight = l /\ req[r].out.result = "pending")
      <4>1. req'[r] = req[r]
        BY <2>6, <3>3
      <4>2. CASE req[r].pc \in {"look", "stale", "rows"}
        <5>1. req[r].ask.fp \in Fingerprints /\ req[r].ask.seen \in Nat
          BY <2>8, <4>2 DEF Versions
        <5>2. req[r].ask.seen <= panels[req[r].ask.fp]
          BY <4>2 DEF Seen
        <5> QED BY <3>1, <4>1, <4>2, <5>1, <5>2
      <4>3. CASE req[r].pc = "wait"
        <5>1. req[r].ask.fp \in Fingerprints /\ req[r].ask.seen \in Nat
          BY <2>8, <4>3 DEF Versions
        <5>2. req[r].ask.seen <= panels[req[r].ask.fp]
          BY <4>3 DEF Seen
        <5>3. req[r].out.result = "fresh" => /\ req[r].out.version \in Nat
                                            /\ req[r].ask.seen <= req[r].out.version
                                            /\ req[r].out.version <= panels[req[r].ask.fp]
          BY <4>3 DEF Seen, TypeOK, Request, New, With, Outcome, Versions
        <5> QED BY <3>1, <4>1, <4>3, <5>1, <5>2, <5>3
      <4>4. CASE req[r].pc = "panels"
        <5>1. req[r].ask.fp \in Fingerprints /\ req[r].ask.seen \in Nat /\ req[r].rows \in Nat
          BY <4>4 DEF TypeOK, Request, New, With, Asked, Versions
        <5>2. req[r].ask.seen <= panels[req[r].ask.fp] /\ req[r].rows <= panels[req[r].ask.fp]
          BY <4>4 DEF Seen
        <5> QED BY <3>1, <4>1, <4>4, <5>1, <5>2
      <4> QED BY <4>1, <4>2, <4>3, <4>4
    <3> QED BY <3>2, <3>3
  <2> QED BY <2>4, <2>5, <2>7, <2>11
<1>11. ASSUME NEW l \in Flights, FlightFails(l) PROVE ViewInv'
  <2>1. TypeOK'
    BY <1>11 DEF FlightFails, End, TypeOK, Versions, Request, Flight, New, With, Asked, Outcome
  <2>2. OneFlight' /\ NewerFlight' /\ Known'
    BY <1>11, <2>1 DEF FlightFails, End, TypeOK, OneFlight, NewerFlight, Known, Seen, Versions, Flight
  <2>3. Waits' /\ Seen'
    BY <1>11, <2>1 DEF FlightFails, End, TypeOK, OneFlight, NewerFlight, Known, Waits, Seen, Versions, Flight, Request, With, Asked, Outcome
  <2> QED BY <2>1, <2>2, <2>3
<1>12. ASSUME Change PROVE ViewInv'
  <2>1. TypeOK'
    BY <1>12 DEF Change, TypeOK, Versions, Request, Flight, New, With, Asked, Outcome
  <2>2. OneFlight' /\ NewerFlight' /\ Known'
    BY <1>12, <2>1 DEF Change, TypeOK, OneFlight, NewerFlight, Known, Seen, Versions, Flight
  <2>3. Waits' /\ Seen'
    BY <1>12, <2>1 DEF Change, TypeOK, OneFlight, NewerFlight, Known, Waits, Seen, Versions, Flight, Request, With, Asked, Outcome
  <2> QED BY <2>1, <2>2, <2>3
<1>13. ASSUME Restart PROVE ViewInv'
  <2>1. TypeOK'
    BY <1>13 DEF Restart, TypeOK, Versions, Request, Flight, New, With, Asked, Outcome
  <2>2. OneFlight' /\ NewerFlight' /\ Known'
    BY <1>13, <2>1 DEF Restart, TypeOK, OneFlight, NewerFlight, Known, Seen, Versions, Flight
  <2>3. Waits' /\ Seen'
    BY <1>13, <2>1 DEF Restart, TypeOK, OneFlight, NewerFlight, Known, Waits, Seen, Versions, Flight, Request, With, Asked, Outcome
  <2> QED BY <2>1, <2>2, <2>3
<1>14. ASSUME Delete PROVE ViewInv'
  <2>1. /\ deletion' \in {"drop", "panels", "mark", "done"}
        /\ UNCHANGED <<setup, req, flight, shown, fails>>
    BY <1>14 DEF Delete, Begin, DropTable, DeletePanels, MarkDeleted
  <2>2. TypeOK'
    <3>1. CASE DropTable
      <4>1. 0 \in Versions
        BY DEF Versions
      <4>2. table' = FALSE
        BY <3>1 DEF DropTable
      <4>3. table' \in BOOLEAN /\ (table' => hasTable')
        BY <4>2, Zenon
      <4> QED BY <2>1, <3>1, <4>1, <4>3 DEF DropTable, TypeOK
    <3>2. CASE DeletePanels
      <4>1. 0 \in Versions
        BY DEF Versions
      <4> QED BY <2>1, <3>2, <4>1 DEF DeletePanels, TypeOK
    <3>3. CASE UNCHANGED stored
      BY <2>1, <3>3 DEF TypeOK
    <3> QED BY <1>14, <3>1, <3>2, <3>3 DEF Delete, Begin, MarkDeleted
  <2>3. OneFlight' /\ NewerFlight' /\ Known' /\ Waits' /\ Seen'
    BY <2>1 DEF OneFlight, NewerFlight, Known, Waits, Seen
  <2> QED BY <2>2, <2>3
<1> QED
  BY <1>1, <1>2, <1>3, <1>4, <1>5, <1>6, <1>7, <1>8, <1>9, <1>10, <1>11, <1>12, <1>13, <1>14 DEF Next, Proceed

\* So do the steps that change nothing.
LEMMA ViewStutters == ViewInv /\ UNCHANGED vars => ViewInv'
  BY DEF ViewInv, vars, setup, stored, TypeOK, OneFlight, NewerFlight, Known, Waits, Seen, At, Kept

\* The invariant holds of every execution.
THEOREM ViewCorrect == Spec => []ViewInv
<1>1. ViewInv /\ [Next]_vars => ViewInv'
  BY ViewSteps, ViewStutters
<1> QED BY ViewInit, <1>1, PTL DEF Spec

\* The state has its type: each request is at a step of ReadOrPopulateViewTable,
\* each refresh at one of populateView.
THEOREM TypeCorrect == Spec => []TypeOK
<1>1. ViewInv => TypeOK
  BY DEF ViewInv
<1> QED BY ViewCorrect, <1>1, PTL

\* handleViewRefresh shares refreshes: there is one of a fingerprint at a time,
\* and whoever waits for an answer waits for a refresh that goes on, of what
\* they have asked for, also when others gave up on it or the server restarted.
THEOREM SharedCorrect == Spec => [](OneFlight /\ Waits)
<1>1. ViewInv => OneFlight /\ Waits
  BY DEF ViewInv
<1> QED BY ViewCorrect, <1>1, PTL

\* The rows and the panels that are served were stored by the same refresh.
THEOREM StoredTogetherCorrect == Spec => []StoredTogether
<1>1. ViewInv => StoredTogether
  BY DEF ViewInv, Known, Kept, StoredTogether
<1> QED BY ViewCorrect, <1>1, PTL

\* A refresh, as long as it may take, stores nothing older than what is stored.
THEOREM NeverOlderCorrect == Spec => NeverOlder
<1>1. ASSUME ViewInv, [Next]_vars, NEW f \in Fingerprints
      PROVE  panels'[f] >= panels[f] \/ deletion # "none"
  <2>1. panels[f] \in Nat
    BY <1>1 DEF ViewInv, TypeOK, Versions
  <2>2. CASE UNCHANGED panels
    BY <2>1, <2>2
  <2>3. ASSUME NEW l \in Flights, Land(l) PROVE panels'[f] >= panels[f] \/ deletion # "none"
    <3>1. panels' = [panels EXCEPT ![flight[l].fp] = flight[l].version] /\ flight[l].pc = "store"
      BY <2>3 DEF Land, Store
    <3>2. Kept => panels[flight[l].fp] <= flight[l].version
      BY <1>1, <3>1 DEF ViewInv, NewerFlight
    <3>3. flight[l].version \in Nat
      BY <1>1, <3>1 DEF ViewInv, TypeOK, Flight, Versions
    <3> QED BY <1>1, <2>1, <3>1, <3>2, <3>3 DEF ViewInv, TypeOK, Kept
  <2>4. CASE DeletePanels
    BY <2>4 DEF DeletePanels
  <2> QED
    BY <1>1, <2>2, <2>3, <2>4 DEF Next, vars, stored, Ask, Look, Refresh, Served, Failed, Timeout, ReadRows,
      ReadPanels, Proceed, Query, FlightFails, Change, Restart, Delete, Begin, DropTable, MarkDeleted
<1>2. ViewInv /\ [Next]_vars => [\A f \in Fingerprints : panels'[f] >= panels[f] \/ deletion # "none"]_vars
  BY <1>1
<1> QED BY ViewCorrect, <1>2, PTL DEF Spec, NeverOlder

\* Nobody is shown less than what anybody had been shown before they asked.
THEOREM NoGoingBackCorrect == Spec => NoGoingBack
<1> DEFINE Back(r) == ~At(r, "done") /\ At(r, "done")' /\ deletion = "none" =>
                        req'[r].version >= req'[r].ask.seen
<1>1. ASSUME ViewInv, [Next]_vars, NEW r \in Requests PROVE Back(r)
  <2>1. CASE UNCHANGED req
    BY <2>1 DEF At
  <2>2. ASSUME NEW q \in Requests, Served(q) PROVE Back(r)
    <3>1. req[q].pc = "wait" /\ req[q].out.result = "fresh"
          /\ req' = [req EXCEPT ![q] = [pc |-> "done", ask |-> req[q].ask, kind |-> "fresh", version |-> req[q].out.version]]
      BY <2>2 DEF Served, Answer, Go, At
    <3>2. req[q].ask.seen \in Nat /\ req[q].out.version \in Nat
      BY <1>1, <3>1 DEF ViewInv, TypeOK, Request, New, With, Asked, Outcome, Versions
    <3>3. Kept => req[q].ask.seen <= req[q].out.version
      BY <1>1, <3>1 DEF ViewInv, Seen, At
    <3> QED BY <1>1, <3>1, <3>2, <3>3 DEF ViewInv, TypeOK, At, Kept
  <2>3. ASSUME NEW q \in Requests, ReadPanels(q) PROVE Back(r)
    <3> DEFINE v == Newest(req[q].rows, panels[req[q].ask.fp])
    <3>1. req[q].pc = "panels"
          /\ req' = [req EXCEPT ![q] = [pc |-> "done", ask |-> req[q].ask, kind |-> "cache", version |-> v]]
      BY <2>3 DEF ReadPanels, Answer, Go, At
    <3>2. req[q].ask.seen \in Nat /\ req[q].rows \in Nat /\ panels[req[q].ask.fp] \in Nat
      BY <1>1, <3>1 DEF ViewInv, TypeOK, Request, New, With, Asked, Versions
    <3>3. Kept => req[q].ask.seen <= panels[req[q].ask.fp]
      BY <1>1, <3>1 DEF ViewInv, Seen, At
    <3>4. Kept => v >= req[q].ask.seen
      BY <3>2, <3>3 DEF Newest
    <3> HIDE DEF v
    <3> QED BY <1>1, <3>1, <3>4 DEF ViewInv, TypeOK, At, Kept
  <2>4. ASSUME NEW q \in Requests, Ask(q) \/ Look(q) \/ Refresh(q) \/ Failed(q) \/ Timeout(q) \/ ReadRows(q)
        PROVE  Back(r)
    <3>1. \E record : record.pc # "done" /\ req' = [req EXCEPT ![q] = record]
      <4>1. CASE Ask(q)
        BY <4>1 DEF Ask, Refused, Go
      <4>2. CASE Look(q)
        BY <4>2 DEF Look, Go
      <4>3. CASE Refresh(q)
        BY <4>3 DEF Refresh, Go
      <4>4. CASE Failed(q) \/ Timeout(q)
        BY <4>4 DEF Failed, Timeout, FallBack, Refused, Go
      <4>5. CASE ReadRows(q)
        BY <4>5 DEF ReadRows, Refused, Go
      <4> QED BY <2>4, <4>1, <4>2, <4>3, <4>4, <4>5
    <3> QED BY <1>1, <3>1 DEF ViewInv, TypeOK, At
  <2>5. ASSUME NEW l \in Flights, Land(l) \/ FlightFails(l) PROVE Back(r)
    <3>1. PICK out : req' = [q \in Requests |-> IF At(q, "wait") /\ req[q].flight = l /\ req[q].out.result = "pending"
                                              THEN [req[q] EXCEPT !.out = out] ELSE req[q]]
      BY <2>5 DEF Land, FlightFails, End
    <3>2. CASE At(r, "wait")
      <4>1. req[r] \in [pc : {"wait"}, ask : Asked, flight : Flights, out : Outcome]
        BY <1>1, <3>2 DEF ViewInv, TypeOK, Request, New, With, At
      <4> QED BY <3>1, <3>2, <4>1 DEF At
    <3> QED BY <3>1, <3>2 DEF At
  <2>6. CASE Restart
    BY <2>6 DEF Restart, At
  <2> QED
    BY <1>1, <2>1, <2>2, <2>3, <2>4, <2>5, <2>6 DEF Next, vars, Proceed, Query, Change, Delete
<1>2. ViewInv /\ [Next]_vars => [\A r \in Requests : Back(r)]_vars
  BY <1>1
<1> QED BY ViewCorrect, <1>2, PTL DEF Spec, NoGoingBack
=============================================================================
