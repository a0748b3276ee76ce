----------------------------- MODULE AgentTunnel -----------------------------
(***************************************************************************)
(* The tunnel over which an upstream calls back to an agent                *)
(* (upstream/tunnel).  The agent dials again and again; the upstream makes *)
(* a session of each connection and keeps the one registered last          *)
(* (manager.go); a call to the agent opens a stream on it.  Each end       *)
(* notices the end of a connection in its own time, so that the handler of *)
(* a dial that was given up, the watcher of a session that was replaced    *)
(* and a goroutine whose caller has left all come late.                    *)
(***************************************************************************)
EXTENDS Naturals

CONSTANTS
  MaxDials,   \* bound: connections, in the order they are dialled
  Calls,      \* calls to the agent
  NoDial,
  MaxCuts     \* bound: connections that break and dials that are given up

Dials == 1 .. MaxDials

ASSUME TunnelAssumption == MaxDials \in Nat /\ MaxCuts \in Nat /\ NoDial \notin Dials

VARIABLES
  upgrades,    \* the network in between lets the upgrade through
  made,        \* dials so far
  agent,       \* runAgentTunnelSession: backing off, dialling, or serving
  link,        \* link[n]: the connection stands
  session,     \* session[n]: the upstream's end of it
  registered,  \* the session that the manager has for the agent, or NoDial
  watched,     \* sessions whose watcher waits for their end
  caller,      \* caller[c]: where the caller of Open is
  opener,      \* opener[c]: where the goroutine of Open is, with its session
  stream,      \* stream[c]: the session it has opened a stream on, or NoDial
  cuts

callVars == <<caller, opener, stream>>
tunnelVars == <<upgrades, made, agent, link, session, registered, watched, callVars, cuts>>

Backoff == [pc |-> "backoff"]
Gone == [pc |-> "gone"]

TunnelTypeOK ==
  /\ upgrades \in BOOLEAN /\ made \in 0 .. MaxDials
  /\ agent \in {Backoff} \cup [pc : {"dialling", "serving"}, dial : Dials]
  /\ link \in [Dials -> BOOLEAN]
  /\ session \in [Dials -> {"none", "hijacked", "open", "closed"}]
  /\ registered \in Dials \cup {NoDial} /\ watched \subseteq Dials
  /\ caller \in [Calls -> {"idle", "waiting", "served", "left", "done"}]
  /\ opener \in [Calls -> {Gone} \cup [pc : {"opening", "holding"}, dial : Dials]]
  /\ stream \in [Calls -> Dials \cup {NoDial}]
  /\ cuts \in Nat

TunnelInit ==
  /\ upgrades \in BOOLEAN /\ made = 0 /\ agent = Backoff
  /\ link = [n \in Dials |-> FALSE] /\ session = [n \in Dials |-> "none"]
  /\ registered = NoDial /\ watched = {}
  /\ caller = [c \in Calls |-> "idle"] /\ opener = [c \in Calls |-> Gone]
  /\ stream = [c \in Calls |-> NoDial]
  /\ cuts = 0
----------------------------------------------------------------------------
(* The agent.                                                              *)

\* StartAgentTunnel dials two seconds after the last session has ended; where
\* upgrades do not get through nothing comes of it.
Dial ==
  /\ upgrades /\ agent = Backoff /\ made < MaxDials
  /\ made' = made + 1
  /\ agent' = [pc |-> "dialling", dial |-> made']
  /\ link' = [link EXCEPT ![made'] = TRUE]
  /\ UNCHANGED <<upgrades, session, registered, watched, callVars, cuts>>

\* The answer 101 reaches the agent, and it serves.
Serve ==
  /\ agent.pc = "dialling" /\ link[agent.dial] /\ session[agent.dial] \in {"hijacked", "open"}
  /\ agent' = [agent EXCEPT !.pc = "serving"]
  /\ UNCHANGED <<upgrades, made, link, session, registered, watched, callVars, cuts>>

\* The dial fails, or takes more than 30 seconds, whatever the upstream makes
\* of it later; or the connection breaks, and neither side knows.
Cut ==
  /\ cuts < MaxCuts /\ cuts' = cuts + 1
  /\ agent # Backoff
  /\ link' = [link EXCEPT ![agent.dial] = FALSE]
  /\ UNCHANGED <<upgrades, made, agent, session, registered, watched, callVars>>

\* The agent's end notices.
AgentNotices ==
  /\ agent # Backoff /\ ~link[agent.dial]
  /\ agent' = Backoff
  /\ UNCHANGED <<upgrades, made, link, session, registered, watched, callVars, cuts>>
----------------------------------------------------------------------------
(* The upstream: sessions.                                                 *)

\* YamuxSessionCreate takes the connection over, ...
Hijack(n) ==
  /\ n <= made /\ session[n] = "none"
  /\ session' = [session EXCEPT ![n] = "hijacked"]
  /\ UNCHANGED <<upgrades, made, agent, link, registered, watched, callVars, cuts>>

\* ... which may be broken by then, ...
HijackFails(n) ==
  /\ n <= made /\ session[n] = "none" /\ ~link[n]
  /\ session' = [session EXCEPT ![n] = "closed"]
  /\ UNCHANGED <<upgrades, made, agent, link, registered, watched, callVars, cuts>>

\* Mutant of Register: the session that is replaced is not closed.
RegisterKeeping(n) ==
  /\ session[n] = "hijacked"
  /\ session' = [session EXCEPT ![n] = "open"]
  /\ registered' = n
  /\ watched' = watched \cup {n}
  /\ UNCHANGED <<upgrades, made, agent, link, callVars, cuts>>

\* ... and registers its session, closing the one that was registered.
Register(n) ==
  /\ session[n] = "hijacked"
  /\ session' = [k \in Dials |-> IF k = n THEN "open" ELSE IF k = registered THEN "closed" ELSE session[k]]
  /\ link' = [k \in Dials |-> link[k] /\ k # registered]
  /\ registered' = n
  /\ watched' = watched \cup {n}
  /\ UNCHANGED <<upgrades, made, agent, callVars, cuts>>

\* The upstream's end notices.
UpstreamNotices(n) ==
  /\ session[n] = "open" /\ ~link[n]
  /\ session' = [session EXCEPT ![n] = "closed"]
  /\ UNCHANGED <<upgrades, made, agent, link, registered, watched, callVars, cuts>>

\* Mutant of Watch: it deletes whatever is registered.
WatchAny(n) ==
  /\ n \in watched /\ session[n] = "closed"
  /\ registered' = NoDial
  /\ watched' = watched \ {n}
  /\ UNCHANGED <<upgrades, made, agent, link, session, callVars, cuts>>

\* The watcher of a closed session: DeleteIfSame.
Watch(n) ==
  /\ n \in watched /\ session[n] = "closed"
  /\ registered' = IF registered = n THEN NoDial ELSE registered
  /\ watched' = watched \ {n}
  /\ UNCHANGED <<upgrades, made, agent, link, session, callVars, cuts>>
----------------------------------------------------------------------------
(* The upstream: calls.                                                    *)

\* Open looks the session up and starts a goroutine, unless there is none or it
\* is closed.
Open(c) ==
  /\ caller[c] = "idle"
  /\ IF registered # NoDial /\ session[registered] = "open"
     THEN /\ caller' = [caller EXCEPT ![c] = "waiting"]
          /\ opener' = [opener EXCEPT ![c] = [pc |-> "opening", dial |-> registered]]
     ELSE /\ caller' = [caller EXCEPT ![c] = "done"]
          /\ UNCHANGED opener
  /\ UNCHANGED <<upgrades, made, agent, link, session, registered, watched, stream, cuts>>

\* The goroutine, which no longer holds the lock, gets a stream or an error.
OpenStream(c) ==
  /\ opener[c].pc = "opening"
  /\ opener' = [opener EXCEPT ![c].pc = "holding"]
  /\ stream' = [stream EXCEPT ![c] = IF session[opener[c].dial] = "open" THEN opener[c].dial ELSE NoDial]
  /\ UNCHANGED <<upgrades, made, agent, link, session, registered, watched, caller, cuts>>

\* It hands it over ...
HandOver(c) ==
  /\ opener[c].pc = "holding" /\ caller[c] = "waiting"
  /\ caller' = [caller EXCEPT ![c] = IF stream[c] = NoDial THEN "done" ELSE "served"]
  /\ opener' = [opener EXCEPT ![c] = Gone]
  /\ UNCHANGED <<upgrades, made, agent, link, session, registered, watched, stream, cuts>>

\* ... unless the context of the call was cancelled, ...
Leave(c) ==
  /\ caller[c] = "waiting"
  /\ caller' = [caller EXCEPT ![c] = "left"]
  /\ UNCHANGED <<upgrades, made, agent, link, session, registered, watched, opener, stream, cuts>>

\* Mutant of GiveBack: the stream is left open.
GiveBackNothing(c) ==
  /\ opener[c].pc = "holding" /\ caller[c] = "left"
  /\ opener' = [opener EXCEPT ![c] = Gone]
  /\ UNCHANGED <<upgrades, made, agent, link, session, registered, watched, caller, stream, cuts>>

\* ... in which case it closes the stream itself.
GiveBack(c) ==
  /\ opener[c].pc = "holding" /\ caller[c] = "left"
  /\ opener' = [opener EXCEPT ![c] = Gone]
  /\ stream' = [stream EXCEPT ![c] = NoDial]
  /\ UNCHANGED <<upgrades, made, agent, link, session, registered, watched, caller, cuts>>

\* The stream is closed by the http.Transport that dialled it for one request: it
\* owns the stream, keeps it idle after the answer for 90 s at most, and drops it.
EndCall(c) ==
  /\ caller[c] = "served"
  /\ caller' = [caller EXCEPT ![c] = "done"]
  /\ stream' = [stream EXCEPT ![c] = NoDial]
  /\ UNCHANGED <<upgrades, made, agent, link, session, registered, watched, opener, cuts>>
----------------------------------------------------------------------------
(* Restarts.                                                               *)

AgentGoesDown ==
  /\ agent' = Backoff
  /\ link' = [n \in Dials |-> FALSE]
  /\ UNCHANGED <<upgrades, made, session, registered, watched, callVars, cuts>>

UpstreamGoesDown ==
  /\ link' = [n \in Dials |-> FALSE]
  /\ session' = [n \in Dials |-> IF n <= made THEN "closed" ELSE session[n]]
  /\ registered' = NoDial /\ watched' = {}
  /\ caller' = [c \in Calls |-> IF caller[c] = "idle" THEN "idle" ELSE "done"]
  /\ opener' = [c \in Calls |-> Gone] /\ stream' = [c \in Calls |-> NoDial]
  /\ UNCHANGED <<upgrades, made, agent, cuts>>
----------------------------------------------------------------------------
HandleDial(n) == Hijack(n) \/ HijackFails(n) \/ Register(n)

TunnelStep ==
  \/ Dial \/ Serve \/ Cut \/ AgentNotices
  \/ \E n \in Dials : HandleDial(n) \/ UpstreamNotices(n) \/ Watch(n)
  \/ \E c \in Calls : Open(c) \/ OpenStream(c) \/ HandOver(c) \/ Leave(c) \/ GiveBack(c) \/ EndCall(c)

TunnelFairness ==
  /\ WF_tunnelVars(Dial \/ Serve) /\ WF_tunnelVars(AgentNotices)
  /\ \A n \in Dials : WF_tunnelVars(HandleDial(n)) /\ WF_tunnelVars(UpstreamNotices(n)) /\ WF_tunnelVars(Watch(n))
  /\ \A c \in Calls : WF_tunnelVars(OpenStream(c)) /\ WF_tunnelVars(GiveBack(c))
----------------------------------------------------------------------------
(* Properties.                                                             *)

\* Calls are routed to the only session that is open: one that is replaced was
\* closed, and the watcher of an old one never removes a newer one.
OneSession == \A n \in Dials : session[n] = "open" => registered = n

\* A stream on an open session has an owner who will close it: the transport that
\* asked for it and took it, or the goroutine that still has to hand it over.
StreamOwned ==
  \A c \in Calls : stream[c] # NoDial /\ session[stream[c]] = "open" =>
    caller[c] = "served" \/ opener[c].pc = "holding"

\* However the two sides notice the end of a session, the agent ends up serving
\* the session that calls are routed to.
Connected ==
  /\ agent.pc = "serving" /\ link[agent.dial]
  /\ registered = agent.dial /\ session[agent.dial] = "open"
Reconnects == <>[](upgrades => Connected)
=============================================================================
