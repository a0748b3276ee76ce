----------------------------- MODULE ViewRefresh -----------------------------
(***************************************************************************)
(* The data of a view (views/table.go, db/views.go).  What its queries     *)
(* return is stored as rows of a generated table and as a row of panels,   *)
(* for each combination of its variables (a fingerprint), and served from  *)
(* there until it is too old.  Then requests for the same fingerprint      *)
(* share one refresh, which goes on when they have been answered: a        *)
(* request waits for its refresh timeout, and falls back to what is        *)
(* stored.  The view may be deleted at any moment.                         *)
(***************************************************************************)
EXTENDS Naturals

CONSTANTS
  Requests,      \* each makes one request after the other
  Flights,       \* bound: refreshes at a time
  Fingerprints,
  MaxVersion,    \* bound: versions of what the queries return
  MaxFails       \* bound: refreshes that fail and restarts of the server

Versions == 0 .. MaxVersion  \* 0 where nothing is stored

ASSUME ConstantsAssumption ==
  /\ MaxVersion \in Nat \ {0} /\ MaxFails \in Nat

VARIABLES
  hasTable,   \* the view has columns
  world,      \* the version that the queries return now
  table,      \* the generated table exists
  rows,       \* rows[f]: version of the rows in the table
  panels,     \* panels[f]: version of the row of panels, which dates the refresh
  deletion,   \* how far DeleteView is
  req,        \* req[r]: what request r has read, and its last answer
  flight,     \* flight[l]: a refresh, which singleflight runs
  shown,      \* shown[f]: the newest version in any answer (history)
  fails

stored == <<table, rows, panels>>
setup == <<hasTable, world>>
vars == <<setup, stored, deletion, req, flight, shown, fails>>

New == [pc |-> "new"]
Asked == [fp : Fingerprints, rows : BOOLEAN, table : BOOLEAN, seen : Versions]
Outcome == [result : {"pending", "failed"}] \cup [result : {"fresh"}, version : Versions]
With(pcs) == [pc : pcs, ask : Asked]
Request ==
  {New} \cup With({"look", "stale", "rows"})
  \cup [pc : {"wait"}, ask : Asked, flight : Flights, out : Outcome]
  \cup [pc : {"panels"}, ask : Asked, rows : Versions]
  \cup [pc : {"done"}, ask : Asked, kind : {"fresh", "cache"}, version : Versions]
  \cup [pc : {"refused"}]
Flight == [pc : {"none"}] \cup [pc : {"query", "store"}, fp : Fingerprints, rows : BOOLEAN, version : Versions]

TypeOK ==
  /\ hasTable \in BOOLEAN /\ world \in Versions \ {0}
  /\ table \in BOOLEAN /\ (table => hasTable)
  /\ rows \in [Fingerprints -> Versions] /\ panels \in [Fingerprints -> Versions]
  /\ ~table => \A f \in Fingerprints : rows[f] = 0
  /\ deletion \in {"none", "drop", "panels", "mark", "done"}
  /\ req \in [Requests -> Request] /\ flight \in [Flights -> Flight]
  /\ shown \in [Fingerprints -> Versions]
  /\ fails \in Nat

Init ==
  /\ hasTable \in BOOLEAN /\ world = 1
  /\ table = FALSE /\ rows = [f \in Fingerprints |-> 0] /\ panels = [f \in Fingerprints |-> 0]
  /\ deletion = "none"
  /\ req = [r \in Requests |-> New] /\ flight = [l \in Flights |-> [pc |-> "none"]]
  /\ shown = [f \in Fingerprints |-> 0]
  /\ fails = 0
----------------------------------------------------------------------------
At(r, pc) == req[r].pc = pc
Go(r, record) == req' = [req EXCEPT ![r] = record]
Newest(a, b) == IF a > b THEN a ELSE b

\* A request ends with what the newest of its parts is, of a refresh or stored.
Answer(r, kind, version) ==
  /\ Go(r, [pc |-> "done", ask |-> req[r].ask, kind |-> kind, version |-> version])
  /\ shown' = [shown EXCEPT ![req[r].ask.fp] = Newest(@, version)]
Refused(r) == Go(r, [pc |-> "refused"]) /\ UNCHANGED shown

\* What the queries return changes.
Change ==
  /\ world < MaxVersion
  /\ world' = world + 1
  /\ UNCHANGED <<hasTable, stored, deletion, req, flight, shown, fails>>
----------------------------------------------------------------------------
(* Requests.                                                               *)

\* ReadOrPopulateViewTable finds the view and asks whether it has its table,
Ask(r) ==
  /\ req[r].pc \in {"new", "done", "refused"}
  /\ IF deletion = "done" THEN Refused(r)
     ELSE /\ \E f \in Fingerprints, b \in BOOLEAN :
               Go(r, [pc |-> "look", ask |-> [fp |-> f, rows |-> b, table |-> table, seen |-> shown[f]]])
          /\ UNCHANGED shown
  /\ UNCHANGED <<setup, stored, deletion, flight, fails>>

\* and then when it was last refreshed, which may be too long ago for the
\* request: what is stored is served, or refreshed.
Look(r) ==
  LET ask == req[r].ask IN
  /\ At(r, "look")
  /\ \/ /\ panels[ask.fp] # 0 /\ (hasTable => ask.table)
        /\ Go(r, [pc |-> "rows", ask |-> ask])
     \/ Go(r, [pc |-> "stale", ask |-> ask])
  /\ UNCHANGED <<setup, stored, deletion, flight, shown, fails>>

\* Mutant of Joinable: requests with and without rows are refreshed apart.
JoinableRows(r) ==
  {l \in Flights : flight[l].pc # "none" /\ flight[l].fp = req[r].ask.fp /\ flight[l].rows = req[r].ask.rows}

\* The refresh under way with the key of the request.
Joinable(r) == {l \in Flights : flight[l].pc # "none" /\ flight[l].fp = req[r].ask.fp}

\* handleViewRefresh waits for the refresh that is under way, or starts one.
Refresh(r) ==
  LET ask == req[r].ask
      free == {l \in Flights : flight[l].pc = "none"}
      Wait(l) == Go(r, [pc |-> "wait", ask |-> ask, flight |-> l, out |-> [result |-> "pending"]])
  IN
  /\ At(r, "stale")
  /\ \/ \E l \in Joinable(r) : Wait(l) /\ UNCHANGED flight
     \/ LET l == CHOOSE l \in free : TRUE IN
        /\ Joinable(r) = {} /\ free # {}
        /\ Wait(l)
        /\ flight' = [flight EXCEPT ![l] = [pc |-> "query", fp |-> ask.fp, rows |-> ask.rows, version |-> 0]]
  /\ UNCHANGED <<setup, stored, deletion, shown, fails>>

\* The refresh was faster than the timeout.
Served(r) ==
  /\ At(r, "wait")
  /\ req[r].out.result = "fresh" /\ Answer(r, "fresh", req[r].out.version)
  /\ UNCHANGED <<setup, stored, deletion, flight, fails>>

\* It has failed, or the timeout was faster: what is stored is served instead if
\* the table was there to begin with.
FallBack(r) ==
  IF req[r].ask.table THEN Go(r, [pc |-> "rows", ask |-> req[r].ask]) /\ UNCHANGED shown
  ELSE Refused(r)

Failed(r) ==
  /\ At(r, "wait") /\ req[r].out.result = "failed"
  /\ FallBack(r)
  /\ UNCHANGED <<setup, stored, deletion, flight, fails>>

\* Mutant of Timeout: the refresh is given up with the request.
TimeoutCancels(r) ==
  /\ At(r, "wait")
  /\ FallBack(r)
  /\ flight' = [flight EXCEPT ![req[r].flight] = [pc |-> "none"]]
  /\ UNCHANGED <<setup, stored, deletion, fails>>

Timeout(r) ==
  /\ At(r, "wait")
  /\ FallBack(r)
  /\ UNCHANGED <<setup, stored, deletion, flight, fails>>

\* readCachedViewData reads the rows, if they are asked for, which fails without
\* the table (for a view that never has one this is left open), ...
ReadRows(r) ==
  LET ask == req[r].ask IN
  /\ At(r, "rows")
  /\ \/ /\ ask.rows /\ hasTable => table
        /\ Go(r, [pc |-> "panels", ask |-> ask, rows |-> IF ask.rows THEN rows[ask.fp] ELSE 0])
        /\ UNCHANGED shown
     \/ ask.rows /\ ~table /\ Refused(r)
  /\ UNCHANGED <<setup, stored, deletion, flight, fails>>

\* ... and then the panels.
ReadPanels(r) ==
  /\ At(r, "panels")
  /\ Answer(r, "cache", Newest(req[r].rows, panels[req[r].ask.fp]))
  /\ UNCHANGED <<setup, stored, deletion, flight, fails>>
----------------------------------------------------------------------------
(* Refreshes.                                                              *)

\* Run executes the queries.
Query(l) ==
  /\ flight[l].pc = "query"
  /\ flight' = [flight EXCEPT ![l].pc = "store", ![l].version = world]
  /\ UNCHANGED <<setup, stored, deletion, req, shown, fails>>

\* The refresh ends for those who still wait for it.
End(l, out) ==
  /\ flight' = [flight EXCEPT ![l] = [pc |-> "none"]]
  /\ req' = [r \in Requests |-> IF At(r, "wait") /\ req[r].flight = l /\ req[r].out.result = "pending"
                                THEN [req[r] EXCEPT !.out = out] ELSE req[r]]

\* Mutant of Store: the rows and the panels are not stored in one transaction, the
\* second of which may fail.
StoreApart(l) ==
  /\ table' = hasTable
  /\ rows' = [rows EXCEPT ![flight[l].fp] = IF hasTable THEN flight[l].version ELSE 0]
  /\ panels' \in {panels, [panels EXCEPT ![flight[l].fp] = flight[l].version]}

\* The transaction of populateView: the table, its rows and the panels.
Store(l) ==
  /\ table' = hasTable
  /\ rows' = [rows EXCEPT ![flight[l].fp] = IF hasTable THEN flight[l].version ELSE 0]
  /\ panels' = [panels EXCEPT ![flight[l].fp] = flight[l].version]

\* Whatever has become of the view, and whoever still waits.
Land(l) ==
  /\ flight[l].pc = "store"
  /\ Store(l)
  /\ End(l, [result |-> "fresh", version |-> flight[l].version])
  /\ UNCHANGED <<setup, deletion, shown, fails>>

\* A query or the transaction fails, or the refresh takes more than a minute.
FlightFails(l) ==
  /\ flight[l].pc # "none"
  /\ fails < MaxFails /\ fails' = fails + 1
  /\ End(l, [result |-> "failed"])
  /\ UNCHANGED <<setup, stored, deletion, shown>>

Restart ==
  /\ fails < MaxFails /\ fails' = fails + 1
  /\ flight' = [l \in Flights |-> [pc |-> "none"]]
  /\ req' = [r \in Requests |-> IF req[r].pc \in {"new", "done"} THEN req[r] ELSE [pc |-> "refused"]]
  /\ UNCHANGED <<setup, stored, deletion, shown>>
----------------------------------------------------------------------------
(* DeleteView: four statements, none of them in a transaction.             *)

Begin == deletion = "none" /\ deletion' = "drop" /\ UNCHANGED stored
DropTable ==
  /\ deletion = "drop" /\ deletion' = "panels"
  /\ table' = FALSE /\ rows' = [f \in Fingerprints |-> 0]
  /\ UNCHANGED panels
DeletePanels ==
  /\ deletion = "panels" /\ deletion' = "mark"
  /\ panels' = [f \in Fingerprints |-> 0]
  /\ UNCHANGED <<table, rows>>
MarkDeleted == deletion = "mark" /\ deletion' = "done" /\ UNCHANGED stored

Delete ==
  /\ Begin \/ DropTable \/ DeletePanels \/ MarkDeleted
  /\ UNCHANGED <<setup, req, flight, shown, fails>>
----------------------------------------------------------------------------
Proceed(l) == Query(l) \/ Land(l)

Next ==
  \/ \E r \in Requests :
       Ask(r) \/ Look(r) \/ Refresh(r) \/ Served(r) \/ Failed(r) \/ Timeout(r) \/ ReadRows(r) \/ ReadPanels(r)
  \/ \E l \in Flights : Proceed(l) \/ FlightFails(l)
  \/ Change \/ Restart \/ Delete

(***************************************************************************)
(* Fairness: the goroutine of a refresh goes on to its end, for a minute   *)
(* at most, whoever waits for it.                                          *)
(***************************************************************************)
Spec == Init /\ [][Next]_vars /\ \A l \in Flights : WF_vars(Proceed(l))
----------------------------------------------------------------------------
(* Properties.                                                             *)

\* As long as the view is not being deleted, what is served from the table and
\* from the panels was stored by the same refresh.
StoredTogether ==
  deletion = "none" /\ hasTable => \A f \in Fingerprints : rows[f] = panels[f]

\* A refresh never replaces what it has stored by something older, although it
\* may take long, outlive its requests and be followed by others.
NeverOlder ==
  [][\A f \in Fingerprints : panels'[f] >= panels[f] \/ deletion # "none"]_vars

\* Nobody is shown less than what anybody had been shown before they asked,
\* whether they wait for a refresh, join one, or fall back to what is stored.
NoGoingBack ==
  [][\A r \in Requests : ~At(r, "done") /\ At(r, "done")' /\ deletion = "none" =>
       req'[r].version >= req'[r].ask.seen]_vars

\* Who is told to try again does not do so in vain: a refresh that does not
\* fail is stored, although nobody waits for it.
TryAgain ==
  \A l \in Flights, f \in Fingerprints :
    flight[l].pc # "none" /\ flight[l].fp = f /\ fails = MaxFails ~> panels[f] # 0 \/ deletion # "none"
=============================================================================
