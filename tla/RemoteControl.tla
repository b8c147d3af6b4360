--------------------------- MODULE RemoteControl ---------------------------
(***************************************************************************)
(* rc-api and rc-relay over the state they share.  Neither calls the       *)
(* other: a step is a step of one of the two.                              *)
(***************************************************************************)
EXTENDS Sessions, Relay

vars == <<storeVars, apiVars, relayVars>>

TypeOK == SessionsTypeOK /\ RelayTypeOK

Init == SessionsInit /\ RelayInit

Next ==
  \/ SessionsNext /\ UNCHANGED relayVars
  \/ RelayNext /\ UNCHANGED apiVars

Spec == Init /\ [][Next]_vars

\* Handlers and timers of a live process run, Redis drops keys in time, a
\* socket told to close is closed within ws's close timeout.  The idle tick
\* is owed only to a RelaySession nobody can send a message to.  No peer has
\* to connect or to leave, nobody has to close or remove anything.
Unattended(o) == \A k \in Conns : joined[k] = o => sock[k] # "open"

Fairness ==
  /\ \A s \in Sids : WF_vars(StartStep(s) /\ UNCHANGED relayVars)
  /\ \A d \in Devices : WF_vars(LockExpires(d) /\ UNCHANGED relayVars)
  /\ \A s \in Sids : WF_vars(AgentTokenExpires(s) /\ UNCHANGED relayVars)
  /\ \A s \in Sids : WF_vars(ViewerTokenExpires(s) /\ UNCHANGED relayVars)
  /\ \A s \in Sids : WF_vars(RelayWrite(s) /\ UNCHANGED apiVars)
  /\ \A k \in Conns :
       /\ WF_vars(AgentJoin(k) /\ UNCHANGED apiVars)
       /\ WF_vars(ViewerGone(k) /\ UNCHANGED apiVars)
       /\ WF_vars(Unattended(k) /\ Idle(k) /\ UNCHANGED apiVars)
       /\ WF_vars(sock[k] = "closing" /\ (AgentClosed(k) \/ ViewerClosed(k))
                  /\ UNCHANGED apiVars)

FairSpec == Spec /\ Fairness

-----------------------------------------------------------------------------
(* Properties                                                              *)

\* A socket that got past the check of its token.
Admitted(k) ==
  /\ RoleOf[k] = "agent"
  /\ joined[k] # None \/ sock[k] \in {"pending", "gone", "open", "closing"}

\* An agent token admits one socket, however many attempts race for it.
SingleAgent ==
  \A k, l \in Conns :
    Admitted(k) /\ Admitted(l) /\ SidOf[k] = SidOf[l] => k = l

\* An agent that streams does so in the RelaySession the map holds: the idle
\* tick sees it and new viewers find it.  closeSession deletes the entry of a
\* session id without looking whose it is, more than once for one
\* RelaySession; what saves the entry is that the agent never comes back.
StreamingIsMapped ==
  \A o \in Conns :
    agent[o] # None /\ sock[agent[o]] = "open" => sessions[SidOf[o]] = o

\* The agent of a session may yet come, or is there.
Awaited(s) ==
  \/ agentTok[s] \in {"none", "issued"}
  \/ \E k \in Conns : /\ SidOf[k] = s /\ RoleOf[k] = "agent"
                      /\ sock[k] \in {"pending", "gone", "open"}

\* The grace period, so that a brief reconnect does not kill the agent (the
\* comment in onViewerJoin): while the timer of a viewer that left is armed,
\* nobody is attached to its RelaySession; and, as long as the session's agent
\* may come or is there, to no other RelaySession of that session either, so
\* viewer_disconnect ends no session whose viewer is back.  Once the agent has
\* gone it may: the timer of a RelaySession that was closed before deletes the
\* map entry of the one the returning viewer made.
GraceHonoured ==
  \A o \in timer, m \in Conns :
    SidOf[m] = SidOf[o] /\ (m = o \/ Awaited(SidOf[o])) => viewer[m] = None

\* A row says 'active' only while rc-relay has the session, is about to
\* write that it ended, or crashed with it.
ActiveIsBacked ==
  \A s \in Sids : row[s] = "active" =>
    sessions[s] # None \/ "closed" \in writes[s] \/ s \in stranded

\* A row that says the session ended is reopened by nothing but the session's
\* own start, if that is still running; no late UPDATE of rc-relay does it.  The
\* start itself does: its UPDATE to 'starting' asks for no state, so that a
\* session an operator closed during the probe is open again.
EndedStaysEnded ==
  [][\A s \in Sids :
       row[s] \in {"closed", "failed"} /\ row'[s] \notin {"closed", "failed", "none"}
         => pc[s] = "place"]_vars

\* The row of a session lives as SessionLife says, whoever writes it: start,
\* fail and close of rc-api, remove, and the unawaited UPDATEs of rc-relay.  A
\* start that places its session late reopens it there too (Place).
Stage(at) ==
  IF at \in {"new", "check", "insert"} THEN "new"
  ELSE IF at \in {"probe", "place", "failRow"} THEN "begun"
  ELSE "settled"

Life == INSTANCE SessionLife WITH
  state <- row,
  stage <- [s \in Sids |-> Stage(pc[s])]

LifeSpec == Life!Spec

\* A RelaySession that nobody is connected to leaves the map.
Abandoned(s) == sessions[s] # None /\ Unattended(sessions[s])

UnattendedEnds == \A s \in Sids : Abandoned(s) ~> ~Abandoned(s)

-----------------------------------------------------------------------------
(* What the repository's tests say and the code does not do.               *)

\* tests/session.test.js:130, '10 concurrent requests, only 1 wins': while a
\* request that has won the device is being served, no other one wins it.
Winning == {"check", "insert", "probe", "place", "hset", "expire", "publish"}

OneWinner ==
  \A s, t \in Sids :
    DeviceOf[s] = DeviceOf[t] /\ {pc[s], pc[t]} \subseteq Winning => s = t

\* tests/session.test.js:114, 'agent dies mid-session -> closed, lock
\* released': once the socket of a session's agent is closed, the session is
\* closed too.
AgentIsDead(o) == agent[o] # None /\ sock[agent[o]] = "closed"

AgentDeathEnds ==
  \A o \in Conns :
    sessions[SidOf[o]] = o /\ AgentIsDead(o) ~> sessions[SidOf[o]] # o
=============================================================================
