----------------------------- MODULE RemotePage -----------------------------
(***************************************************************************)
(* The remote page of rc-web in one browser tab: the effect that runs for  *)
(* each device the tab shows, and what outlives it in the module's         *)
(* variables: the session that is held for the next run, the start in      *)
(* flight, and the session that is dropped unless it is wanted again.      *)
(*                                                                         *)
(* The server is what Sessions and Relay make of it, in one step each: a   *)
(* start gives a new session, or the open one of the device again; a       *)
(* session ends by DELETE, after its last viewer has left, or by itself.   *)
(* Of the stream only its socket and its decoder are here.                 *)
(***************************************************************************)
EXTENDS Naturals

CONSTANTS
  Devices, None,
  MaxRuns,     \* bound: effects that run in a tab
  MaxSessions  \* bound: sessions the server opens

Runs == 1..MaxRuns
Sids == 1..MaxSessions

ASSUME RemotePageAssumption ==
  MaxRuns \in Nat /\ MaxSessions \in Nat /\ None \notin Devices \union Sids

\* A start in flight.
Starts == [device : Devices \union {None}, at : {"post", "busy", "refused", "done"},
           sid : Sids \union {None}, retried : BOOLEAN]
ASSUME StartsAreSome == None \notin Starts

VARIABLES
  run,      \* what each effect knows: a record as NewRun makes it
  last,     \* the number of effects so far
  mounted,  \* whether the page is there, with the last of them
  view,     \* the page: it is blocked, and then without a canvas; it probes; it
            \* says 'disconnected'
  tab,      \* "open", "broken" after an error in a cleanup, or "closed"
  held,     \* [device, sid], or None
  inflight, \* the start in flight: [device, at, sid, retried], or None
  pending,  \* pendingDropId: a session, or None
  opened,   \* server: the device of each session there ever was
  ended,    \* server: the sessions that are over
  viewed,   \* server: the sessions a viewer has joined
  deletes,  \* DELETE /sessions/:id on their way
  hasty,    \* history: the tab went to another device during a start
  lost      \* history: sessions whose drop was replaced, failed or went with the
            \* tab, or whose start was answered when nobody waited any more

server   == <<opened, ended, viewed>>
pageVars ==
  <<run, last, mounted, view, tab, held, inflight, pending, server, deletes, hasty, lost>>

NewRun(d) == [device |-> d, at |-> "ask", cancelled |-> FALSE, sid |-> None,
              ws |-> "none", decoder |-> TRUE]

NewView     == [blocked |-> FALSE, probing |-> FALSE, gone |-> FALSE]

DeviceOf(s) == opened[s]
Open(s)     == s \in DOMAIN opened /\ s \notin ended
Shows(r, s) == ~run[r].cancelled /\ run[r].sid = s
Viewers(s)  == {r \in Runs : run[r].sid = s /\ run[r].ws = "open"}

PageInit ==
  /\ run = [r \in Runs |-> [NewRun(None) EXCEPT !.cancelled = TRUE, !.at = "over"]]
  /\ last = 0 /\ mounted = FALSE /\ view = NewView /\ tab = "open"
  /\ held = None /\ inflight = None /\ pending = None
  /\ opened = [s \in {} |-> None] /\ ended = {} /\ viewed = {} /\ deletes = {}
  /\ hasty = FALSE /\ lost = {}

-----------------------------------------------------------------------------
(* attach, cancelDrop, scheduleDrop.                                       *)

\* Mutant: a session that is shown again is dropped all the same.
CancelNever(p, s) == p

CancelDrop(p, s) == IF p = s THEN None ELSE p

\* A run that was cancelled takes the session, and shows nothing; nor does one
\* without a canvas.
Attached(x, s, canvas) ==
  [x EXCEPT !.at = "over", !.sid = s,
            !.ws = IF x.cancelled \/ ~canvas THEN "none" ELSE "opening"]

\* Mutant: the session is dropped only if its stream was open.
LeftBehindOpen(x, p) == IF x.ws = "open" THEN x.sid ELSE p

\* What cleanup schedules: one id and one timer, the last one wins.
LeftBehind(x, p) == IF x.sid # None THEN x.sid ELSE p

\* Mutant: a run that is over does not know it.
CleanedOnly(x) == [x EXCEPT !.ws = IF @ = "none" THEN "none" ELSE "closed"]

Cleaned(x) == [x EXCEPT !.cancelled = TRUE, !.ws = IF @ = "none" THEN "none" ELSE "closed"]

\* Mutant: whatever is held will do.
ReusableAny(h, d) == h # None

Reusable(h, d) == h # None /\ h.device = d

\* The effect: a session that is held for the device is shown at once, before
\* the page is drawn anew.
Mount(runs, d, h, p, v) ==
  /\ last < MaxRuns /\ last' = last + 1 /\ mounted' = TRUE
  /\ IF Reusable(h, d)
     THEN /\ run' = [runs EXCEPT ![last + 1] = Attached(NewRun(d), h.sid, ~v.blocked)]
          /\ pending' = CancelDrop(p, h.sid)
          /\ view' = [v EXCEPT !.blocked = FALSE, !.gone = FALSE]
     ELSE /\ run' = [runs EXCEPT ![last + 1] = NewRun(d)]
          /\ pending' = p /\ view' = v

\* The page is left, or goes on to device d: cleanup, then the next effect.
\* Another epoch is the same device again.
Turn(d, h, v) ==
  LET x    == IF mounted THEN run[last] ELSE NewRun(None)
      runs == IF mounted THEN [run EXCEPT ![last] = Cleaned(@)] ELSE run
      p    == LeftBehind(x, pending)
  IN /\ tab = "open" /\ (mounted => x.decoder) /\ (mounted \/ d # None)
     /\ held' = h
     /\ IF d = None
        THEN /\ run' = runs /\ pending' = p /\ mounted' = FALSE /\ view' = NewView
             /\ UNCHANGED last
        ELSE Mount(runs, d, h, p, v)
     /\ hasty' = (hasty \/ (inflight # None /\ inflight.device # d /\ d # None))
     /\ lost' = lost \union ({pending} \ {None, p})
     /\ UNCHANGED <<tab, inflight, server, deletes>>

\* "Reconnect": the button stays until the next run gets on, so that it may be
\* pressed again while that one asks.
Reconnect ==
  /\ mounted /\ view.gone
  /\ Turn(run[last].device, None, view)

\* "Probe again", also behind "Self-heal", of a page that is blocked.
ProbeAgain ==
  /\ mounted /\ view.blocked /\ ~view.probing
  /\ view' = [view EXCEPT !.probing = TRUE]
  /\ UNCHANGED <<run, last, mounted, tab, held, inflight, pending, server, deletes, hasty, lost>>

\* The answer: whichever device the page shows by now starts anew, or the page
\* stays as it is.
ProbeAnswer ==
  /\ mounted /\ view.probing
  /\ \/ Turn(run[last].device, held, NewView)
     \/ /\ view' = [view EXCEPT !.probing = FALSE]
        /\ UNCHANGED <<run, last, mounted, tab, held, inflight, pending, server, deletes,
                       hasty, lost>>

\* VideoDecoder.close of a decoder that has failed throws: the socket is not
\* closed, no drop is scheduled, and React takes the tree away.
Break ==
  /\ tab = "open" /\ mounted /\ ~run[last].decoder
  /\ run' = [run EXCEPT ![last].cancelled = TRUE]
  /\ tab' = "broken" /\ mounted' = FALSE /\ view' = NewView
  /\ UNCHANGED <<last, held, inflight, pending, server, deletes, hasty, lost>>

\* What a run shows of the page, unless it was cancelled.
Showing(r, blocked) ==
  view' = IF run[r].cancelled THEN view ELSE [view EXCEPT !.blocked = blocked, !.gone = FALSE]

\* GET /devices/:id answered: the device is not ready, or the request failed;
\* or createSession joins the start in flight, or begins one.
Blocked(r) ==
  /\ run[r].at = "ask" /\ tab # "closed"
  /\ run' = [run EXCEPT ![r].at = "over"]
  /\ \E b \in BOOLEAN : Showing(r, b)
  /\ UNCHANGED <<last, mounted, tab, held, inflight, pending, server, deletes, hasty, lost>>

\* A session that is held is attached before or after the page is drawn.
CreateSession(r) ==
  LET d == run[r].device IN
    /\ run[r].at = "ask" /\ ~run[r].cancelled /\ tab # "closed"
    /\ IF Reusable(held, d)
       THEN /\ \E canvas \in {TRUE, ~view.blocked} :
                 run' = [run EXCEPT ![r] = Attached(@, held.sid, canvas)]
            /\ pending' = CancelDrop(pending, held.sid)
            /\ UNCHANGED inflight
       ELSE /\ run' = [run EXCEPT ![r].at = "await"]
            /\ inflight' = IF inflight # None THEN inflight
                           ELSE [device |-> d, at |-> "post", sid |-> None, retried |-> FALSE]
            /\ UNCHANGED pending
    /\ Showing(r, FALSE)
    /\ UNCHANGED <<last, mounted, tab, held, server, deletes, hasty, lost>>

\* The answer: the session is held, and all that await it attach.
Resolve ==
  /\ inflight # None /\ inflight.at = "done" /\ tab # "closed"
  /\ held' = [device |-> inflight.device, sid |-> inflight.sid]
  /\ pending' = CancelDrop(pending, inflight.sid)
  /\ run' = [r \in Runs |-> IF run[r].at = "await" THEN Attached(run[r], inflight.sid, TRUE)
                       ELSE run[r]]
  /\ inflight' = None
  /\ lost' = IF \E r \in Runs : run[r].at = "await" /\ ~run[r].cancelled
             THEN lost ELSE lost \union {inflight.sid}
  /\ UNCHANGED <<last, mounted, view, tab, server, deletes, hasty>>

\* 409 is tried once more.
Retry ==
  /\ inflight # None /\ inflight.at = "busy" /\ ~inflight.retried /\ tab # "closed"
  /\ inflight' = [inflight EXCEPT !.at = "post", !.retried = TRUE]
  /\ UNCHANGED <<run, last, mounted, view, tab, held, pending, server, deletes, hasty, lost>>

Reject ==
  /\ inflight # None /\ tab # "closed"
  /\ inflight.at = "refused" \/ (inflight.at = "busy" /\ inflight.retried)
  /\ run' = [r \in Runs |-> IF run[r].at = "await" THEN [run[r] EXCEPT !.at = "over"] ELSE run[r]]
  /\ inflight' = None
  /\ \E b \in BOOLEAN :
       view' = IF \E r \in Runs : run[r].at = "await" /\ ~run[r].cancelled
               THEN [view EXCEPT !.blocked = b] ELSE view
  /\ UNCHANGED <<last, mounted, tab, held, pending, server, deletes, hasty, lost>>

\* Two seconds after a cleanup.
DropTimer ==
  /\ pending # None /\ tab # "closed"
  /\ deletes' = deletes \union {pending}
  /\ held' = IF held # None /\ held.sid = pending THEN None ELSE held
  /\ pending' = None
  /\ UNCHANGED <<run, last, mounted, view, tab, inflight, server, hasty, lost>>

\* The tab is closed; only a mounted page listens to pagehide, and flushDrop
\* drops one session.
Close ==
  LET p == IF pending # None THEN pending ELSE IF held # None THEN held.sid ELSE None
      flushed == IF mounted THEN {p} \ {None} ELSE {}
  IN /\ tab # "closed" /\ tab' = "closed" /\ mounted' = FALSE /\ view' = NewView
     /\ run' = [r \in Runs |-> Cleaned(run[r])]
     /\ deletes' = deletes \union flushed
     /\ lost' = lost \union
          (({pending} \union {run[r].sid : r \in Runs}) \ ({None} \union flushed))
     /\ held' = None /\ pending' = None
     /\ UNCHANGED <<last, inflight, server, hasty>>

-----------------------------------------------------------------------------
(* The stream.                                                             *)

Stream(r, ws, d) ==
  /\ run' = [run EXCEPT ![r].ws = ws, ![r].decoder = d]
  /\ UNCHANGED <<last, mounted, tab, held, inflight, pending, opened, ended, deletes, hasty, lost>>

Join(r) ==
  /\ run[r].ws = "opening" /\ Open(run[r].sid)
  /\ Stream(r, "open", TRUE) /\ UNCHANGED view
  /\ viewed' = viewed \union {run[r].sid}

\* The socket closes with its session, or the network fails.
Drop(r) ==
  /\ run[r].ws \in {"opening", "open"}
  /\ Stream(r, "closed", run[r].decoder) /\ UNCHANGED viewed
  /\ view' = IF run[r].cancelled THEN view ELSE [view EXCEPT !.gone = TRUE]

\* The error callback: the decoder is closed.
DecoderFails(r) ==
  /\ run[r].ws = "open" /\ run[r].decoder
  /\ Stream(r, "open", FALSE) /\ UNCHANGED <<view, viewed>>

-----------------------------------------------------------------------------
(* The server.                                                             *)

Page == <<run, last, mounted, view, tab, held, pending, hasty, lost>>

\* POST /sessions: a new session, the one that is open again, or neither.
Post ==
  LET d    == inflight.device
      mine == {s \in DOMAIN opened : DeviceOf(s) = d /\ Open(s)}
      new  == {s \in Sids : mine = {} /\ DOMAIN opened = 1..(s - 1)}
  IN /\ inflight # None /\ inflight.at = "post"
     /\ \/ \E s \in mine \union new :
             /\ inflight' = [inflight EXCEPT !.at = "done", !.sid = s]
             /\ opened' = [t \in DOMAIN opened \union {s} |-> IF t = s THEN d ELSE opened[t]]
        \/ /\ \E at \in {"busy", "refused"} : inflight' = [inflight EXCEPT !.at = at]
           /\ UNCHANGED opened
     /\ UNCHANGED <<Page, ended, viewed, deletes>>

\* It arrives, or it fails, which nobody is told (.catch(() => undefined)).
Delete(s) ==
  /\ s \in deletes
  /\ deletes' = deletes \ {s}
  /\ \/ ended' = ended \union {s} /\ UNCHANGED lost
     \/ lost' = lost \union {s} /\ UNCHANGED ended
  /\ UNCHANGED <<run, last, mounted, view, tab, held, inflight, pending, hasty, opened, viewed>>

\* closeSession of the relay, 1.5 seconds after the last viewer left.
ViewerGone(s) ==
  /\ Open(s) /\ s \in viewed /\ Viewers(s) = {}
  /\ ended' = ended \union {s}
  /\ UNCHANGED <<Page, inflight, opened, viewed, deletes>>

\* The agent leaves, or the session is closed otherwise.
Ends(s) ==
  /\ Open(s)
  /\ ended' = ended \union {s}
  /\ UNCHANGED <<Page, inflight, opened, viewed, deletes>>

PageNext ==
  \/ \E d \in Devices \union {None} : Turn(d, held, view)
  \/ Reconnect \/ ProbeAgain \/ ProbeAnswer \/ Break \/ Resolve \/ Retry \/ Reject \/ DropTimer \/ Close \/ Post
  \/ \E r \in Runs : Blocked(r) \/ CreateSession(r) \/ Join(r) \/ Drop(r) \/ DecoderFails(r)
  \/ \E s \in Sids : Delete(s) \/ ViewerGone(s) \/ Ends(s)

\* A timer fires, a request that was sent arrives or fails, and the relay's
\* timer fires.
PageSpec ==
  /\ PageInit /\ [][PageNext]_pageVars
  /\ WF_pageVars(DropTimer)
  /\ \A s \in Sids : WF_pageVars(Delete(s)) /\ WF_pageVars(ViewerGone(s))

-----------------------------------------------------------------------------
\* Types; and a run of a page that is gone is cancelled.
PageTypeOK ==
  /\ \A r \in Runs :
       /\ run[r].device \in Devices \union {None} /\ run[r].sid \in DOMAIN opened \union {None}
       /\ run[r].at \in {"ask", "await", "over"}
       /\ run[r].ws # "none" => run[r].sid # None
       /\ ~run[r].cancelled => mounted /\ r = last
       /\ run[r].at = "await" => inflight # None
  /\ held # None => held.sid \in DOMAIN opened
  /\ view.blocked \/ view.probing \/ view.gone => mounted
  /\ pending \in DOMAIN opened \union {None}
  /\ ended \subseteq DOMAIN opened /\ viewed \subseteq DOMAIN opened

\* A page shows a session of its own device, and so does what is held, unless
\* the tab went from one device to another while a start was in flight: then
\* createSession returns the start of the other device.
OwnDevice ==
  /\ hasty \/ \A r \in Runs, s \in DOMAIN opened : Shows(r, s) => DeviceOf(s) = run[r].device
  /\ held # None => held.device = DeviceOf(held.sid)

\* A session that is shown again within two seconds, by a remount or another
\* visit, is not dropped: the timer never sends the DELETE of what is shown.
ShownIsKept ==
  [][tab' # "closed" => \A s \in deletes' \ deletes, r \in Runs : ~Shows(r, s)]_pageVars

\* A session whose page was left ends, by the drop or by the relay, unless it
\* is shown again.  It remains only if no viewer ever joined it and its drop was
\* lost, or if the cleanup broke.
LeftSessionEnds ==
  \A s \in Sids :
    (\E r \in Runs : run[r].sid = s /\ run[r].cancelled /\ run[r].ws = "closed")
      ~> \/ s \in ended \/ (s \in lost /\ s \notin viewed) \/ tab = "broken"
         \/ \E r \in Runs : Shows(r, s)
=============================================================================
