---------------------------- MODULE AgentAction -----------------------------
(***************************************************************************)
(* An action that a playbook run assigns to an agent, by its row at the    *)
(* upstream.  PlaybookRun has these rows from the side of the engine,      *)
(* without polls, databases and pushes, and PlaybookAgent from the side of *)
(* the agent, without runs; this is what the two rely on of each other.    *)
(***************************************************************************)

CONSTANT Actions
VARIABLES
  status,    \* status[a]: status of the row, "none" before it is assigned
  cancelled  \* actions whose run is cancelled now, which is not told here

vars == <<status, cancelled>>

Outcomes == {"completed", "failed", "skipped"}

Init == status = [a \in Actions |-> "none"] /\ cancelled = {}

To(a, s) == status' = [status EXCEPT ![a] = s]

Assign(a) == status[a] = "none" /\ a \notin cancelled /\ To(a, "waiting")

\* A poll of the agent gets the action, ...
HandOut(a) == status[a] = "waiting" /\ a \notin cancelled /\ To(a, "running")

\* ... unless its run is cancelled by then, ...
Withdraw(a) == status[a] = "waiting" /\ a \in cancelled /\ To(a, "skipped")

\* ... or what it would get cannot be made up.
Refuse(a) == status[a] = "waiting" /\ a \notin cancelled /\ To(a, "failed")

\* The agent reports outcomes, each of an action it was given and only once.
Report(batch) ==
  /\ \A a \in batch : status[a] = "running"
  /\ \E outcome \in [batch -> Outcomes] :
       status' = [a \in Actions |-> IF a \in batch THEN outcome[a] ELSE status[a]]

Next ==
  /\ cancelled' \subseteq Actions
  /\ \/ \E a \in Actions : Assign(a) \/ HandOut(a) \/ Withdraw(a) \/ Refuse(a)
     \/ \E batch \in SUBSET Actions : Report(batch)

Spec == Init /\ [][Next]_vars
=============================================================================
