------------------------------- MODULE Relay -------------------------------
(***************************************************************************)
(* rc-relay: RelayServer.  Sockets come and go, each handler runs to its   *)
(* end before the next, and what a handler has captured outlives the entry *)
(* of the `sessions' map: a RelaySession that was closed is still there    *)
(* for the close events of its sockets and for its viewerGoneTimer.        *)
(*                                                                         *)
(* A connection is one attempt with one token, so its role and its session *)
(* are fixed.  A RelaySession is named by the connection getOrCreate made  *)
(* it for.                                                                 *)
(***************************************************************************)
EXTENDS Store

CONSTANTS
  Conns,   \* connection attempts
  RoleOf,  \* "agent" or "viewer": the path of the URL
  SidOf    \* the session id in the token

ASSUME ConnsAssumption ==
  /\ RoleOf \in [Conns -> {"agent", "viewer"}]
  /\ SidOf \in [Conns -> Sids]
  /\ None \notin Conns

VARIABLES
  sock,      \* "unused", "pending", "gone", "open", "closing", "closed"
  joined,    \* the RelaySession a connection joined
  sessions,  \* the map: session id to RelaySession
  agent,     \* RelaySession.agent
  viewer,    \* RelaySession.viewer
  timer,     \* RelaySessions with viewerGoneTimer armed
  writes,    \* what was sent and is not awaited: the UPDATEs to Postgres
             \* ("active", "closed") and the DEL to Redis ("del")
  stranded   \* history: sessions a crash of rc-relay took with it

relayVars == <<sock, joined, sessions, agent, viewer, timer, writes, stranded>>

RelayTypeOK ==
  /\ sock \in [Conns -> {"unused", "pending", "gone", "open", "closing", "closed"}]
  /\ joined \in [Conns -> Conns \union {None}]
  /\ sessions \in [Sids -> Conns \union {None}]
  /\ agent \in [Conns -> Conns \union {None}]
  /\ viewer \in [Conns -> Conns \union {None}]
  /\ timer \subseteq Conns
  /\ writes \in [Sids -> SUBSET {"active", "closed", "del"}]
  /\ stranded \subseteq Sids
  /\ \A s \in Sids : sessions[s] # None => SidOf[sessions[s]] = s
  /\ \A k \in Conns : sock[k] \in {"open", "closing"} =>
       joined[k] # None /\ SidOf[joined[k]] = SidOf[k]

RelayInit ==
  /\ sock = [k \in Conns |-> "unused"]
  /\ joined = [k \in Conns |-> None]
  /\ sessions = [s \in Sids |-> None]
  /\ agent = [k \in Conns |-> None]
  /\ viewer = [k \in Conns |-> None]
  /\ timer = {}
  /\ writes = [s \in Sids |-> {}]
  /\ stranded = {}

IsOpen(k) == k # None /\ sock'[k] = "open"

\* getOrCreate, for connection k.
GetOrCreate(k) ==
  IF sessions[SidOf[k]] # None THEN sessions[SidOf[k]] ELSE k

-----------------------------------------------------------------------------
(* closeSession(o).  `dropped' are the sockets whose close event is being   *)
(* handled.  Both sockets get close(), the map loses the entry of this     *)
(* session id, whichever RelaySession it is by now, and the DEL of the     *)
(* keys and the UPDATE of the row are sent.  RelaySession o keeps its      *)
(* agent and its viewer.                                                   *)

CloseSession(o, dropped) ==
  LET s == SidOf[o] IN
  /\ timer' = timer \ {o}
  /\ sock' = [k \in Conns |->
       IF k \in dropped THEN "closed"
       ELSE IF k \in {agent[o], viewer[o]} /\ sock[k] = "open" THEN "closing"
       ELSE sock[k]]
  /\ sessions' = [sessions EXCEPT ![s] = None]
  /\ writes' = [writes EXCEPT ![s] = @ \union {"closed", "del"}]
  /\ UNCHANGED <<storeVars, joined, agent, viewer, stranded>>

\* markActive: only when both ends are open once the handler has run.
MarkActive(o) ==
  writes' = IF IsOpen(agent'[o]) /\ IsOpen(viewer'[o])
            THEN [writes EXCEPT ![SidOf[o]] = @ \union {"active"}]
            ELSE writes

-----------------------------------------------------------------------------
(* onConnection for the agent: verify, then SET NX of the token's id, one  *)
(* await, in which the socket may already close with nobody listening.     *)

\* Mutant: SET of the token's id without NX.
AgentConnectAnyway(k) ==
  /\ RoleOf[k] = "agent" /\ sock[k] = "unused"
  /\ agentTok[SidOf[k]] \in {"issued", "used"}
  /\ sock' = [sock EXCEPT ![k] = "pending"]
  /\ agentTok' = [agentTok EXCEPT ![SidOf[k]] = "used"]
  /\ UNCHANGED <<lock, hash, row, known, tokens, lost,
                 joined, sessions, agent, viewer, timer, writes, stranded>>

AgentConnect(k) ==
  /\ RoleOf[k] = "agent" /\ sock[k] = "unused"
  /\ agentTok[SidOf[k]] = "issued"
  /\ sock' = [sock EXCEPT ![k] = "pending"]
  /\ agentTok' = [agentTok EXCEPT ![SidOf[k]] = "used"]
  /\ UNCHANGED <<lock, hash, row, known, tokens, lost,
                 joined, sessions, agent, viewer, timer, writes, stranded>>

\* A token that has expired, or whose id is in Redis: 1008.
AgentRefused(k) ==
  /\ RoleOf[k] = "agent" /\ sock[k] = "unused"
  /\ agentTok[SidOf[k]] \in {"used", "expired"}
  /\ sock' = [sock EXCEPT ![k] = "closed"]
  /\ UNCHANGED <<storeVars,
                 joined, sessions, agent, viewer, timer, writes, stranded>>

PendingDrops(k) ==
  /\ sock[k] = "pending"
  /\ sock' = [sock EXCEPT ![k] = "gone"]
  /\ UNCHANGED <<storeVars,
                 joined, sessions, agent, viewer, timer, writes, stranded>>

\* onAgentJoin.  A socket that is gone by now is attached like any other, and
\* its close event, which is past, will not be handled.
AgentJoin(k) ==
  LET o == GetOrCreate(k) IN
  /\ sock[k] \in {"pending", "gone"}
  /\ sock' = [sock EXCEPT ![k] = IF @ = "pending" THEN "open" ELSE "closed"]
  /\ joined' = [joined EXCEPT ![k] = o]
  /\ sessions' = [sessions EXCEPT ![SidOf[k]] = o]
  /\ agent' = [agent EXCEPT ![o] = k]
  /\ UNCHANGED viewer
  /\ MarkActive(o)
  /\ UNCHANGED <<storeVars, timer, stranded>>

\* Mutant: a joining viewer does not clear the timer.
ViewerKeepsTimer(k) ==
  LET o == GetOrCreate(k) IN
  /\ RoleOf[k] = "viewer" /\ sock[k] = "unused"
  /\ SidOf[k] \in tokens
  /\ sock' = [sock EXCEPT ![k] = "open"]
  /\ joined' = [joined EXCEPT ![k] = o]
  /\ sessions' = [sessions EXCEPT ![SidOf[k]] = o]
  /\ viewer' = [viewer EXCEPT ![o] = k]
  /\ UNCHANGED <<agent, timer>>
  /\ MarkActive(o)
  /\ UNCHANGED <<storeVars, stranded>>

\* onConnection and onViewerJoin: no await in between.  A viewer that was
\* there is replaced and left open.
ViewerConnect(k) ==
  LET o == GetOrCreate(k) IN
  /\ RoleOf[k] = "viewer" /\ sock[k] = "unused"
  /\ SidOf[k] \in tokens
  /\ sock' = [sock EXCEPT ![k] = "open"]
  /\ joined' = [joined EXCEPT ![k] = o]
  /\ sessions' = [sessions EXCEPT ![SidOf[k]] = o]
  /\ timer' = timer \ {o}
  /\ viewer' = [viewer EXCEPT ![o] = k]
  /\ UNCHANGED agent
  /\ MarkActive(o)
  /\ UNCHANGED <<storeVars, stranded>>

-----------------------------------------------------------------------------
(* The close event of a socket: the peer left, or close() has run its      *)
(* course.  It is handled once.                                            *)

AgentClosed(k) ==
  LET o == joined[k] IN
  /\ RoleOf[k] = "agent" /\ sock[k] \in {"open", "closing"}
  /\ IF agent[o] = k
     THEN CloseSession(o, {k})
     ELSE /\ sock' = [sock EXCEPT ![k] = "closed"]
          /\ UNCHANGED <<storeVars, joined, sessions, agent, viewer,
                         timer, writes, stranded>>

ViewerClosed(k) ==
  LET o == joined[k] IN
  /\ RoleOf[k] = "viewer" /\ sock[k] \in {"open", "closing"}
  /\ sock' = [sock EXCEPT ![k] = "closed"]
  /\ IF viewer[o] = k
     THEN /\ viewer' = [viewer EXCEPT ![o] = None]
          /\ timer' = timer \union {o}
     ELSE UNCHANGED <<viewer, timer>>
  /\ UNCHANGED <<storeVars, joined, sessions, agent, writes, stranded>>

\* viewerGoneTimer goes off.
ViewerGone(o) ==
  /\ o \in timer
  /\ viewer[o] = None
  /\ CloseSession(o, {})

-----------------------------------------------------------------------------
(* tick: a RelaySession of the map that had no message for ten minutes.    *)
(* The agent's token, which lives for one minute, is used up or expired by *)
(* then, and no await of onConnection takes that long.                     *)

Quiet(o) ==
  /\ agentTok[SidOf[o]] \in {"used", "expired"}
  /\ \A k \in Conns : SidOf[k] = SidOf[o] => sock[k] \notin {"pending", "gone"}

\* Mutant: only a session with a viewer is looked at.
IdleWithViewer(o) ==
  /\ sessions[SidOf[o]] = o /\ viewer[o] # None
  /\ Quiet(o)
  /\ CloseSession(o, {})

Idle(o) ==
  /\ sessions[SidOf[o]] = o
  /\ Quiet(o)
  /\ CloseSession(o, {})

\* An UPDATE reaches Postgres.  The one of markActive may fail, which is
\* logged; a failed one of closeSession, like a failed DEL, is an unhandled
\* rejection and ends the process (Crash).
RelayUpdate(s) ==
  /\ \/ /\ "active" \in writes[s]
        /\ writes' = [writes EXCEPT ![s] = @ \ {"active"}]
        /\ \/ UpdateRow(s, NotYetActive, "active")
           \/ UNCHANGED row
     \/ /\ "closed" \in writes[s]
        /\ writes' = [writes EXCEPT ![s] = @ \ {"closed"}]
        /\ UpdateRow(s, LiveRow, "closed")
  /\ UNCHANGED <<lock, hash, known, agentTok, tokens, lost, sock, joined,
                 sessions, agent, viewer, timer, stranded>>

\* The DEL reaches Redis.  Two of one session that are under way are one.
RelayDel(s) ==
  /\ "del" \in writes[s]
  /\ writes' = [writes EXCEPT ![s] = @ \ {"del"}]
  /\ hash' = [hash EXCEPT ![s] = "none"]
  /\ DelLock(DeviceOf[s], None)
  /\ UNCHANGED <<row, known, agentTok, tokens, sock, joined, sessions, agent,
                 viewer, timer, stranded>>

RelayWrite(s) == RelayUpdate(s) \/ RelayDel(s)

\* The process dies and comes back with nothing: sockets, map, timers and
\* UPDATEs under way are lost; Redis and Postgres stay as they are.  One
\* crash that costs somebody a session is the bound.
Crash ==
  /\ stranded = {}
  /\ stranded' = {s \in Sids : writes[s] # {} \/ \E k \in Conns :
       SidOf[k] = s /\ (sessions[s] = k \/ sock[k] \notin {"unused", "closed"})}
  /\ stranded' # {}
  /\ sock' = [k \in Conns |-> IF sock[k] = "unused" THEN "unused" ELSE "closed"]
  /\ sessions' = [s \in Sids |-> None]
  /\ joined' = [k \in Conns |-> None]
  /\ agent' = [k \in Conns |-> None]
  /\ viewer' = [k \in Conns |-> None]
  /\ timer' = {}
  /\ writes' = [s \in Sids |-> {}]
  /\ UNCHANGED storeVars

-----------------------------------------------------------------------------
RelayNext ==
  \/ \E k \in Conns :
       \/ AgentConnect(k) \/ AgentRefused(k) \/ PendingDrops(k) \/ AgentJoin(k)
       \/ ViewerConnect(k) \/ AgentClosed(k) \/ ViewerClosed(k)
       \/ ViewerGone(k) \/ Idle(k)
  \/ \E s \in Sids : RelayWrite(s)
  \/ Crash
=============================================================================
