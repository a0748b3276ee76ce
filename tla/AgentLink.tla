------------------------------ MODULE AgentLink ------------------------------
(***************************************************************************)
(* An agent and its upstream: the actions that one hands to the other      *)
(* (PlaybookAgent) and the tunnel between them (AgentTunnel).  The two     *)
(* share the processes at their ends, and so the restarts.                 *)
(***************************************************************************)
EXTENDS PlaybookAgent, AgentTunnel

CONSTANT Setups  \* the settings of an agent (see LinkInit)

linkVars == <<vars, tunnelVars>>

\* Whether the agent is to pull actions (a property of the server), whether the
\* network lets the upgrade of the tunnel through, and which actions there are.
LinkInit ==
  /\ Init /\ TunnelInit
  /\ [pulls |-> pulls, upgrades |-> upgrades, kind |-> kind] \in Setups

LinkNext ==
  \/ Next /\ UNCHANGED tunnelVars
  \/ TunnelStep /\ UNCHANGED vars
  \/ AgentCrash /\ AgentGoesDown
  \/ UpstreamRestart /\ UpstreamGoesDown

LinkSpec == LinkInit /\ [][LinkNext]_linkVars /\ Fairness /\ TunnelFairness

LinkTypeOK == TypeOK /\ TunnelTypeOK
=============================================================================
