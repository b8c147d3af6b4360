--------------------------- MODULE RemotePage_proofs ---------------------------
(***************************************************************************)
(* What a tab shows and drops, for any devices, runs and sessions.         *)
(***************************************************************************)
EXTENDS RemotePage, TLAPS

RunType ==
  [device : Devices \union {None}, at : {"ask", "await", "over"}, cancelled : BOOLEAN,
   sid : Sids \union {None}, ws : {"none", "opening", "open", "closed"}, decoder : BOOLEAN]

\* At most one run shows something: the last one, of a page that is there.
OneShows ==
  /\ run \in [Runs -> RunType] /\ last \in Nat /\ last <= MaxRuns
  /\ mounted \in BOOLEAN /\ (mounted => last > 0)
  /\ \A r \in Runs : ~run[r].cancelled => mounted /\ r = last

\* Every session the tab knows is one the server opened.
Known(s) == s \in DOMAIN opened \union {None}
Mapped ==
  /\ opened = [s \in DOMAIN opened |-> opened[s]] /\ DOMAIN opened \subseteq Sids
  /\ \A r \in Runs : Known(run[r].sid)
  /\ Known(pending) /\ deletes \subseteq DOMAIN opened
  /\ held # None => held.sid \in DOMAIN opened /\ held.device = opened[held.sid]
  /\ inflight # None =>
       /\ inflight = [device |-> inflight.device, at |-> inflight.at, sid |-> inflight.sid,
                      retried |-> inflight.retried]
       /\ inflight.at = "done" =>
            inflight.sid \in DOMAIN opened /\ inflight.device = opened[inflight.sid]

Typed == OneShows /\ Mapped

\* What a run shows is not the session that is about to be dropped.
Shown == \A r \in Runs : ~run[r].cancelled /\ run[r].sid # None => pending # run[r].sid

\* Unless the tab was hasty, the start in flight and what is shown are the
\* page's own.
Owned ==
  /\ ~hasty /\ mounted /\ inflight # None => inflight.device = run[last].device
  /\ ~hasty => \A r \in Runs : ~run[r].cancelled /\ run[r].sid # None =>
                 opened[run[r].sid] = run[r].device

PageInv == Typed /\ Shown /\ Owned

-----------------------------------------------------------------------------
(* Runs.                                                                   *)

LEMMA Fresh ==
  ASSUME NEW d \in Devices
  PROVE  /\ NewRun(d) \in RunType /\ NewRun(d).sid = None /\ NewRun(d).device = d
         /\ NewRun(d).at = "ask" /\ NewRun(d).ws = "none"
         /\ \A s \in Sids, canvas \in BOOLEAN :
              /\ Attached(NewRun(d), s, canvas) \in RunType
              /\ Attached(NewRun(d), s, canvas).sid = s
              /\ Attached(NewRun(d), s, canvas).device = d
              /\ Attached(NewRun(d), s, canvas).at = "over"
BY DEF NewRun, RunType, Attached

LEMMA RunEdits ==
  ASSUME NEW x \in RunType
  PROVE  /\ Cleaned(x) \in RunType /\ Cleaned(x).cancelled
         /\ Cleaned(x).sid = x.sid /\ Cleaned(x).device = x.device
         /\ Cleaned(x).at = x.at /\ (Cleaned(x).ws = "none" <=> x.ws = "none")
BY DEF RunType, Cleaned

LEMMA Attaching ==
  ASSUME NEW x \in RunType, NEW s \in Sids, NEW canvas \in BOOLEAN
  PROVE  /\ Attached(x, s, canvas) \in RunType
         /\ Attached(x, s, canvas).sid = s
         /\ Attached(x, s, canvas).cancelled = x.cancelled
         /\ Attached(x, s, canvas).device = x.device
         /\ Attached(x, s, canvas).at = "over"
BY DEF RunType, Attached

\* A run that awaits no start and has a socket only with a session; and one
\* that has and awaits no more than before.
Sound(x)   == x.at # "await" /\ (x.ws # "none" => x.sid # None)
Same(x, y) == /\ y.sid = x.sid /\ (y.ws = "none" <=> x.ws = "none")
              /\ y.at = "await" => x.at = "await"

\* The runs after a step that starts none: each keeps its device, shows no more
\* than before, and has a session it had, or that of its attach.
Kept(s) ==
  /\ run' \in [Runs -> RunType] /\ UNCHANGED last
  /\ \A r \in Runs :
       /\ run'[r].device = run[r].device
       /\ ~run'[r].cancelled => ~run[r].cancelled
       /\ run'[r].sid \in {run[r].sid, s}

\* Cleanup of the page that is left.
LeaveRuns == IF mounted THEN [run EXCEPT ![last] = Cleaned(@)] ELSE run

LEMMA Leaving ==
  ASSUME Typed
  PROVE  /\ LeaveRuns \in [Runs -> RunType]
         /\ \A r \in Runs : /\ LeaveRuns[r].cancelled /\ LeaveRuns[r].sid = run[r].sid
                            /\ LeaveRuns[r].device = run[r].device
                            /\ Same(run[r], LeaveRuns[r])
<1>1. mounted => last \in Runs
  BY RemotePageAssumption DEF Typed, OneShows, Runs
<1>2. CASE mounted
  <2>1. LeaveRuns = [run EXCEPT ![last] = Cleaned(run[last])] BY <1>2 DEF LeaveRuns
  <2>2. run[last] \in RunType BY <1>1, <1>2 DEF Typed, OneShows
  <2>3. QED BY <1>1, <1>2, <2>1, <2>2, RunEdits DEF Typed, OneShows, RunType, Same
<1>3. CASE ~mounted BY <1>3 DEF LeaveRuns, Typed, OneShows, RunType, Same
<1>4. QED BY <1>2, <1>3 DEF Typed, OneShows

-----------------------------------------------------------------------------
(* What a turn of the page does.                                           *)

\* Which session the new run shows, if any, and that it is not dropped.
LEMMA TurnMoves ==
  ASSUME Typed, NEW d \in Devices \union {None}, NEW h \in {held, None}, NEW v, Turn(d, h, v)
  PROVE  /\ Typed' /\ UNCHANGED <<inflight, opened, deletes>>
         /\ hasty' = (hasty \/ (inflight # None /\ inflight.device # d /\ d # None))
         /\ mounted' => last' \in Runs /\ run'[last'].device = d /\ d # None
         /\ \A r \in Runs : ~run'[r].cancelled => run'[r].sid = None \/
              (held # None /\ held.device = d /\ run'[r].sid = held.sid /\ pending' # held.sid)
         /\ \A r \in Runs : Same(run[r], run'[r]) \/ Sound(run'[r])
<1> USE DEF server
<1>1. /\ held' = h /\ UNCHANGED <<inflight, opened, deletes>>
      /\ hasty' = (hasty \/ (inflight # None /\ inflight.device # d /\ d # None))
  BY DEF Turn
<1> DEFINE x == IF mounted THEN run[last] ELSE NewRun(None)
           p == LeftBehind(x, pending)
<1>2. Known(p)
  BY RemotePageAssumption DEF Typed, OneShows, Mapped, Known, LeftBehind, NewRun, Runs
<1>3. Mapped /\ OneShows BY DEF Typed
<1>4. CASE d = None
  <2>1. run' = LeaveRuns /\ pending' = p /\ mounted' = FALSE /\ UNCHANGED last
    BY <1>4 DEF Turn, LeaveRuns
  <2>2. OneShows' BY <1>3, <2>1, Leaving DEF OneShows
  <2>3. Mapped' BY <1>1, <1>2, <1>3, <2>1, Leaving DEF Mapped, Known
  <2>4. QED BY <1>1, <2>1, <2>2, <2>3, Leaving DEF Typed
<1>5. CASE d # None
  <2>1. d \in Devices /\ Mount(LeaveRuns, d, h, p, v) BY <1>5 DEF Turn, LeaveRuns
  <2>2. last + 1 \in Runs /\ last' = last + 1 /\ mounted' = TRUE
    BY <1>3, <2>1, RemotePageAssumption DEF Mount, OneShows, Runs
  <2>3. PICK y \in RunType :
          /\ run' = [LeaveRuns EXCEPT ![last + 1] = y] /\ y.device = d /\ Sound(y)
          /\ \/ y.sid = None /\ pending' = p
             \/ /\ h # None /\ h.device = d /\ y.sid = h.sid
                /\ pending' = CancelDrop(p, h.sid)
    <3>1. CASE Reusable(h, d)
      <4>1. h = held /\ held # None /\ held.device = d /\ held.sid \in Sids
        BY <1>3, <3>1 DEF Reusable, Mapped
      <4>2. run' = [LeaveRuns EXCEPT ![last + 1] = Attached(NewRun(d), h.sid, ~v.blocked)]
            /\ pending' = CancelDrop(p, h.sid)
        BY <2>1, <3>1 DEF Mount
      <4>3. PICK b \in BOOLEAN : b = ~v.blocked BY Zenon
      <4>4. run' = [LeaveRuns EXCEPT ![last + 1] = Attached(NewRun(d), h.sid, b)]
        BY <4>2, <4>3, Zenon
      <4>5. /\ Attached(NewRun(d), h.sid, b) \in RunType
            /\ Attached(NewRun(d), h.sid, b).sid = h.sid
            /\ Attached(NewRun(d), h.sid, b).device = d
            /\ Sound(Attached(NewRun(d), h.sid, b))
        BY <2>1, <4>1, Fresh, RemotePageAssumption DEF Sound
      <4>6. h # None BY <3>1 DEF Reusable
      <4>7. QED BY <4>1, <4>2, <4>4, <4>5, <4>6
    <3>2. CASE ~Reusable(h, d)
      <4>1. run' = [LeaveRuns EXCEPT ![last + 1] = NewRun(d)] /\ pending' = p
        BY <2>1, <3>2 DEF Mount
      <4>2. /\ NewRun(d) \in RunType /\ NewRun(d).device = d /\ NewRun(d).sid = None
            /\ Sound(NewRun(d))
        BY <2>1, Fresh DEF Sound
      <4>3. QED BY <4>1, <4>2, Zenon
    <3>3. QED BY <3>1, <3>2
  <2>4. run' \in [Runs -> RunType] /\ run'[last + 1] = y
        /\ \A r \in Runs : r # last + 1 => run'[r] = LeaveRuns[r]
    BY <2>2, <2>3, Leaving
  <2>5. OneShows'
    BY <1>3, <2>2, <2>4, Leaving, RemotePageAssumption DEF OneShows, Runs
  <2>6. Known(pending') /\ Known(y.sid)
    BY <1>1, <1>2, <1>3, <2>3 DEF Known, CancelDrop, Mapped
  <2>7. Mapped' BY <1>1, <1>3, <2>4, <2>6, Leaving DEF Mapped, Known
  <2>8. h # None => h = held /\ h.sid # None
    BY <1>3, RemotePageAssumption DEF Mapped
  <2>9. \A r \in Runs : ~run'[r].cancelled => run'[r].sid = None \/
          (held # None /\ held.device = d /\ run'[r].sid = held.sid /\ pending' # held.sid)
    BY <2>3, <2>4, <2>8, Leaving DEF CancelDrop
  <2>10. \A r \in Runs : Same(run[r], run'[r]) \/ Sound(run'[r])
    BY <1>3, <2>3, <2>4, Leaving DEF Typed
  <2>11. QED BY <1>1, <1>5, <2>2, <2>3, <2>4, <2>5, <2>7, <2>9, <2>10 DEF Typed
<1>6. QED BY <1>4, <1>5

\* A turn leaves the invariant true.
LEMMA TurnInv ==
  ASSUME PageInv, NEW d \in Devices \union {None}, NEW h \in {held, None}, NEW v, Turn(d, h, v)
  PROVE  PageInv' /\ UNCHANGED deletes
<1>1. Typed BY DEF PageInv
<1>2. /\ Typed' /\ UNCHANGED <<inflight, opened, deletes>>
      /\ hasty' = (hasty \/ (inflight # None /\ inflight.device # d /\ d # None))
      /\ mounted' => last' \in Runs /\ run'[last'].device = d /\ d # None
      /\ \A r \in Runs : ~run'[r].cancelled => run'[r].sid = None \/
           (held # None /\ held.device = d /\ run'[r].sid = held.sid /\ pending' # held.sid)
  BY <1>1, TurnMoves
<1>3. held # None => held.device = opened[held.sid] BY <1>1 DEF Typed, Mapped
<1>4. \A r \in Runs : ~run'[r].cancelled => mounted' /\ r = last'
  BY <1>2 DEF Typed, OneShows
<1>5. Shown' BY <1>2 DEF Shown
<1>6. Owned' BY <1>2, <1>3, <1>4 DEF Owned
<1>7. QED BY <1>2, <1>5, <1>6 DEF PageInv

-----------------------------------------------------------------------------
(* Steps that start no run.                                                *)

\* One run is edited.
LEMMA EditKept ==
  ASSUME Typed, NEW r \in Runs, NEW y \in RunType, NEW s, run' = [run EXCEPT ![r] = y],
         UNCHANGED last, y.device = run[r].device, y.sid \in {run[r].sid, s},
         ~y.cancelled => ~run[r].cancelled
  PROVE  Kept(s)
BY DEF Kept, Typed, OneShows, RunType

\* Nothing is attached, and nothing but runs changes of what the tab knows.
LEMMA CalmInv ==
  ASSUME PageInv, NEW s \in DOMAIN opened \union {None}, Kept(s), deletes' \subseteq deletes,
         UNCHANGED <<mounted, held, inflight, opened, hasty>>,
         \/ s = None /\ pending' = pending
         \/ /\ s # None /\ pending' = CancelDrop(pending, s)
            /\ ~hasty => \A r \in Runs :
                 ~run[r].cancelled /\ run'[r].sid = s => opened[s] = run[r].device
  PROVE  PageInv'
<1>1. OneShows' BY DEF PageInv, Typed, OneShows, Kept
<1>2. Mapped' BY DEF PageInv, Typed, Mapped, Kept, Known, CancelDrop
<1>3. Shown' BY DEF PageInv, Shown, Kept, CancelDrop
<1>4. mounted => last \in Runs
  BY RemotePageAssumption DEF PageInv, Typed, OneShows, Runs
<1>5. Owned' BY <1>4 DEF PageInv, Owned, Kept
<1>6. QED BY <1>1, <1>2, <1>3, <1>5 DEF PageInv, Typed

LEMMA SameRuns == ASSUME Typed, UNCHANGED <<run, last>> PROVE Kept(None)
BY DEF Typed, OneShows, Kept

\* The stream.
LEMMA StreamInv ==
  ASSUME PageInv, NEW r \in Runs, Join(r) \/ Drop(r) \/ DecoderFails(r)
  PROVE  PageInv' /\ UNCHANGED deletes
<1>1. run[r] \in RunType BY DEF PageInv, Typed, OneShows
<1>2. PICK ws \in {"open", "closed"}, b \in BOOLEAN : Stream(r, ws, b)
  <2>1. CASE Join(r) BY <2>1, Zenon DEF Join
  <2>2. CASE Drop(r)
    <3>1. run[r].decoder \in BOOLEAN BY <1>1 DEF RunType
    <3>2. Stream(r, "closed", run[r].decoder) BY <2>2, Zenon DEF Drop
    <3>3. QED BY <3>1, <3>2, Zenon
  <2>3. CASE DecoderFails(r) BY <2>3, Zenon DEF DecoderFails
  <2>4. QED BY <2>1, <2>2, <2>3
<1>3. DEFINE y == [run[r] EXCEPT !.ws = ws, !.decoder = b]
<1>4. run' = [run EXCEPT ![r] = y]
  BY <1>2 DEF Stream, PageInv, Typed, OneShows
<1>5. y \in RunType /\ y.device = run[r].device /\ y.sid = run[r].sid
      /\ y.cancelled = run[r].cancelled
  BY <1>1, <1>2 DEF RunType
<1>6. UNCHANGED <<last, mounted, held, inflight, pending, opened, hasty, deletes>>
  BY <1>2 DEF Stream
<1>7. Kept(None)
  <2>1. UNCHANGED last /\ Typed BY <1>6 DEF PageInv
  <2> HIDE DEF y
  <2>2. QED BY <1>4, <1>5, <2>1, EditKept
<1>8. QED BY <1>6, <1>7, CalmInv

\* A request fails, a probe is asked for or fails, and the server's steps but Post.
LEMMA QuietInv ==
  ASSUME PageInv,
         \/ \E r \in Runs : Blocked(r)
         \/ ProbeAgain
         \/ \E s \in Sids : Delete(s) \/ ViewerGone(s) \/ Ends(s)
  PROVE  PageInv' /\ deletes' \subseteq deletes
<1>1. Typed BY DEF PageInv
<1>2. CASE \E r \in Runs : Blocked(r)
  <2>1. PICK r \in Runs : Blocked(r) BY <1>2
  <2>2. run[r] \in RunType BY <1>1 DEF Typed, OneShows
  <2>3. PICK y : y = [run[r] EXCEPT !.at = "over"] BY Zenon
  <2>4. run' = [run EXCEPT ![r] = y] BY <1>1, <2>1, <2>3 DEF Blocked, Typed, OneShows
  <2>5. y \in RunType /\ y.device = run[r].device /\ y.sid = run[r].sid
        /\ y.cancelled = run[r].cancelled
    BY <2>2, <2>3 DEF RunType
  <2>6. UNCHANGED <<last, mounted, held, inflight, pending, opened, hasty, deletes>>
    BY <2>1 DEF Blocked, server
  <2>7. Kept(None) BY <1>1, <2>4, <2>5, <2>6, EditKept
  <2>8. QED BY <2>6, <2>7, CalmInv
<1>3. CASE ~ \E r \in Runs : Blocked(r)
  <2>1. /\ UNCHANGED <<run, last, mounted, held, inflight, pending, opened, hasty>>
        /\ deletes' \subseteq deletes
    BY <1>3 DEF ProbeAgain, Delete, ViewerGone, Ends, Page, server
  <2>2. Kept(None) BY <1>1, <2>1, SameRuns
  <2>3. QED BY <2>1, <2>2, CalmInv
<1>4. QED BY <1>2, <1>3

\* Steps after which no page shows anything, and nothing but the timer and the
\* closing of the tab drops a session.
LEMMA GoneInv ==
  ASSUME PageInv, run' \in [Runs -> RunType], UNCHANGED <<last, inflight, opened, hasty>>,
         mounted' = FALSE, \A r \in Runs : run'[r].cancelled /\ run'[r].sid = run[r].sid,
         held' \in {held, None}, pending' \in {pending, None}, deletes' \subseteq DOMAIN opened
  PROVE  PageInv'
<1>1. OneShows' BY DEF PageInv, Typed, OneShows
<1>2. Mapped' BY DEF PageInv, Typed, Mapped, Known
<1>3. QED BY <1>1, <1>2 DEF PageInv, Typed, Shown, Owned

LEMMA BreakInv ==
  ASSUME PageInv, Break
  PROVE  PageInv' /\ UNCHANGED deletes
<1>1. Typed BY DEF PageInv
<1>2. last \in Runs BY <1>1, RemotePageAssumption DEF Break, Typed, OneShows, Runs
<1>3. /\ run' = [run EXCEPT ![last].cancelled = TRUE] /\ mounted' = FALSE
      /\ UNCHANGED <<last, held, inflight, pending, opened, hasty, deletes>>
  BY DEF Break, server
<1>4. run[last] \in RunType BY <1>1, <1>2 DEF Typed, OneShows
<1>5. PICK y : y = [run[last] EXCEPT !.cancelled = TRUE] BY Zenon
<1>6. run' = [run EXCEPT ![last] = y] BY <1>1, <1>2, <1>3, <1>5 DEF Typed, OneShows
<1>7. y \in RunType /\ y.cancelled /\ y.sid = run[last].sid BY <1>4, <1>5 DEF RunType
<1>8. /\ run' \in [Runs -> RunType]
      /\ \A r \in Runs : run'[r].cancelled /\ run'[r].sid = run[r].sid
  BY <1>1, <1>2, <1>6, <1>7 DEF Typed, OneShows
<1>9. deletes' \subseteq DOMAIN opened BY <1>1, <1>3 DEF Typed, Mapped
<1>10. QED BY <1>3, <1>8, <1>9, GoneInv

LEMMA CloseInv ==
  ASSUME PageInv, Close
  PROVE  PageInv' /\ tab' = "closed"
<1>1. Typed BY DEF PageInv
<1> DEFINE p == IF pending # None THEN pending ELSE IF held # None THEN held.sid ELSE None
           flushed == IF mounted THEN {p} \ {None} ELSE {}
<1>2. /\ run' = [r \in Runs |-> Cleaned(run[r])] /\ mounted' = FALSE
      /\ held' = None /\ pending' = None /\ deletes' = deletes \union flushed
      /\ UNCHANGED <<last, inflight, opened, hasty>> /\ tab' = "closed"
  BY DEF Close, server
<1>3. \A r \in Runs : run[r] \in RunType BY <1>1 DEF Typed, OneShows
<1>4. /\ run' \in [Runs -> RunType]
      /\ \A r \in Runs : run'[r].cancelled /\ run'[r].sid = run[r].sid
  BY <1>2, <1>3, RunEdits
<1>5. flushed \subseteq DOMAIN opened BY <1>1 DEF Typed, Mapped, Known
<1>6. deletes' \subseteq DOMAIN opened BY <1>1, <1>2, <1>5 DEF Typed, Mapped
<1>7. QED BY <1>2, <1>4, <1>6, GoneInv

\* The timer drops what no run shows.
LEMMA DropInv ==
  ASSUME PageInv, DropTimer
  PROVE  PageInv' /\ \A s \in deletes' \ deletes, r \in Runs : ~Shows(r, s)
<1>1. /\ UNCHANGED <<run, last, mounted, inflight, opened, hasty>>
      /\ held' \in {held, None} /\ pending' = None /\ pending # None
      /\ deletes' = deletes \union {pending}
  BY DEF DropTimer, server
<1>2. OneShows' BY <1>1 DEF PageInv, Typed, OneShows
<1>3. Mapped' BY <1>1 DEF PageInv, Typed, Mapped, Known
<1>4. Shown' BY <1>1 DEF Shown
<1>5. Owned' BY <1>1 DEF PageInv, Owned
<1>6. \A s \in deletes' \ deletes, r \in Runs : ~Shows(r, s) BY <1>1 DEF PageInv, Shown, Shows
<1>7. QED BY <1>2, <1>3, <1>4, <1>5, <1>6 DEF PageInv, Typed

-----------------------------------------------------------------------------
(* The start.                                                              *)

\* Steps that change the start in flight, and attach nothing.
LEMMA StartInv ==
  ASSUME PageInv, Kept(None), UNCHANGED <<mounted, held, pending, deletes, hasty>>,
         DOMAIN opened \subseteq DOMAIN opened', DOMAIN opened' \subseteq Sids,
         opened' = [s \in DOMAIN opened' |-> opened'[s]],
         \A s \in DOMAIN opened : opened'[s] = opened[s],
         inflight' # None =>
           /\ inflight' = [device |-> inflight'.device, at |-> inflight'.at,
                           sid |-> inflight'.sid, retried |-> inflight'.retried]
           /\ inflight'.at = "done" => inflight'.sid \in DOMAIN opened'
                                       /\ inflight'.device = opened'[inflight'.sid]
           /\ ~hasty /\ mounted => inflight'.device = run[last].device
  PROVE  PageInv'
<1>1. OneShows' BY DEF PageInv, Typed, OneShows, Kept
<1>2. Mapped' BY DEF PageInv, Typed, Mapped, Kept, Known
<1>3. Shown' BY DEF PageInv, Shown, Kept
<1>4. mounted => last \in Runs
  BY RemotePageAssumption DEF PageInv, Typed, OneShows, Runs
<1>5. Owned' BY <1>4 DEF PageInv, Typed, Mapped, Known, Owned, Kept
<1>6. QED BY <1>1, <1>2, <1>3, <1>5 DEF PageInv, Typed

\* The server answers, or the start is sent again.
LEMMA PostInv ==
  ASSUME PageInv, Post \/ Retry
  PROVE  PageInv' /\ UNCHANGED deletes
<1>1. Typed BY DEF PageInv
<1>2. UNCHANGED <<run, last, mounted, held, pending, deletes, hasty>> /\ inflight # None
  BY DEF Post, Retry, Page, server
<1>3. Kept(None) BY <1>1, <1>2, SameRuns
<1>4. PICK e \in BOOLEAN : e = inflight.retried \/ inflight.retried \notin BOOLEAN BY Zenon
<1>5. ~hasty /\ mounted => inflight.device = run[last].device BY <1>2 DEF PageInv, Owned
<1>6. CASE UNCHANGED opened /\ \E at \in {"busy", "refused", "post"} :
        \/ inflight' = [inflight EXCEPT !.at = at]
        \/ inflight' = [inflight EXCEPT !.at = at, !.retried = TRUE]
  BY <1>1, <1>2, <1>3, <1>5, <1>6, StartInv DEF Typed, Mapped
<1>7. CASE \E s \in Sids :
        /\ s \in DOMAIN opened => opened[s] = inflight.device
        /\ inflight' = [inflight EXCEPT !.at = "done", !.sid = s]
        /\ opened' = [t \in DOMAIN opened \union {s} |->
                       IF t = s THEN inflight.device ELSE opened[t]]
  BY <1>1, <1>2, <1>3, <1>5, <1>7, StartInv DEF Typed, Mapped
<1>8. CASE Retry BY <1>6, <1>8, Zenon DEF Retry, server
<1>9. CASE Post
  <2> DEFINE mine == {s \in DOMAIN opened : DeviceOf(s) = inflight.device /\ Open(s)}
             new  == {s \in Sids : mine = {} /\ DOMAIN opened = 1..(s - 1)}
  <2>1. \A s \in mine \union new :
          s \in Sids /\ (s \in DOMAIN opened => opened[s] = inflight.device)
    BY <1>1 DEF DeviceOf, Typed, Mapped, Sids
  <2>2. CASE \E s \in mine \union new :
          /\ inflight' = [inflight EXCEPT !.at = "done", !.sid = s]
          /\ opened' = [t \in DOMAIN opened \union {s} |->
                         IF t = s THEN inflight.device ELSE opened[t]]
    <3> HIDE DEF mine, new
    <3>1. QED BY <1>7, <2>1, <2>2
  <2>3. CASE /\ \E at \in {"busy", "refused"} : inflight' = [inflight EXCEPT !.at = at]
             /\ UNCHANGED opened
    BY <1>6, <2>3
  <2>4. QED BY <1>9, <2>2, <2>3 DEF Post
<1>10. QED BY <1>8, <1>9

LEMMA CreateInv ==
  ASSUME PageInv, NEW r \in Runs, CreateSession(r)
  PROVE  PageInv' /\ UNCHANGED deletes
<1> DEFINE d == run[r].device
<1>1. Typed /\ run[r] \in RunType BY DEF PageInv, Typed, OneShows
<1>2. ~run[r].cancelled /\ mounted /\ r = last
  BY <1>1 DEF CreateSession, Typed, OneShows
<1>3. UNCHANGED <<last, mounted, held, opened, hasty, deletes>>
  BY DEF CreateSession, server
<1>4. CASE Reusable(held, d)
  <2>1. /\ held # None /\ held.sid \in DOMAIN opened /\ opened[held.sid] = d
        /\ held.sid \in Sids /\ held.sid # None
    BY <1>1, <1>4, RemotePageAssumption DEF Reusable, Typed, Mapped
  <2>2. PICK c \in BOOLEAN : run' = [run EXCEPT ![r] = Attached(@, held.sid, c)]
    <3>1. \E c \in {TRUE, ~view.blocked} : run' = [run EXCEPT ![r] = Attached(@, held.sid, c)]
      BY <1>4, Zenon DEF CreateSession
    <3>2. PICK b \in BOOLEAN : b = ~view.blocked BY Zenon
    <3>3. \E c \in {TRUE, b} : run' = [run EXCEPT ![r] = Attached(@, held.sid, c)]
      BY <3>1, <3>2, Zenon
    <3>4. QED BY <3>3
  <2>3. pending' = CancelDrop(pending, held.sid) /\ UNCHANGED inflight
    BY <1>4 DEF CreateSession
  <2>4. PICK y : y = Attached(run[r], held.sid, c) BY Zenon
  <2>5. y \in RunType /\ y.device = d /\ y.sid = held.sid /\ y.cancelled = run[r].cancelled
    BY <1>1, <2>1, <2>4, Attaching
  <2>6. run' = [run EXCEPT ![r] = y] BY <1>1, <2>2, <2>4 DEF Typed, OneShows
  <2>7. Kept(held.sid) BY <1>1, <1>3, <2>5, <2>6, EditKept
  <2>8. \A q \in Runs : ~run[q].cancelled => opened[held.sid] = run[q].device
    BY <1>1, <1>2, <2>1 DEF Typed, OneShows
  <2>9. QED BY <1>3, <2>1, <2>3, <2>7, <2>8, CalmInv
<1>5. CASE ~Reusable(held, d)
  <2>1. run' = [run EXCEPT ![r].at = "await"] /\ UNCHANGED pending
        /\ inflight' = IF inflight # None THEN inflight
                       ELSE [device |-> d, at |-> "post", sid |-> None, retried |-> FALSE]
    BY <1>5 DEF CreateSession
  <2>2. PICK y : y = [run[r] EXCEPT !.at = "await"] BY Zenon
  <2>3. y \in RunType /\ y.device = d /\ y.sid = run[r].sid /\ y.cancelled = run[r].cancelled
    BY <1>1, <2>2 DEF RunType
  <2>4. run' = [run EXCEPT ![r] = y] BY <1>1, <2>1, <2>2 DEF Typed, OneShows
  <2>5. Kept(None) BY <1>1, <1>3, <2>3, <2>4, EditKept
  <2>6. CASE inflight # None
    BY <1>3, <2>1, <2>5, <2>6, CalmInv
  <2>7. CASE inflight = None
    <3>1. inflight' = [device |-> d, at |-> "post", sid |-> None, retried |-> FALSE]
      BY <2>1, <2>7
    <3>2. /\ DOMAIN opened \subseteq Sids /\ opened = [s \in DOMAIN opened |-> opened[s]]
          /\ run[last].device = d
      BY <1>1, <1>2 DEF Typed, Mapped
    <3>3. /\ inflight' = [device |-> inflight'.device, at |-> inflight'.at,
                          sid |-> inflight'.sid, retried |-> inflight'.retried]
          /\ inflight'.at # "done" /\ inflight'.device = run[last].device
      BY <3>1, <3>2
    <3>4. UNCHANGED <<mounted, held, pending, deletes, hasty, opened>> BY <1>3, <2>1
    <3>5. QED BY <2>5, <3>2, <3>3, <3>4, StartInv
  <2>8. QED BY <2>6, <2>7
<1>6. QED BY <1>3, <1>4, <1>5

\* The end of the start, for all that await it.
LEMMA ResolveInv ==
  ASSUME PageInv, Resolve
  PROVE  PageInv' /\ UNCHANGED deletes
<1> DEFINE s == inflight.sid
<1>1. Typed BY DEF PageInv
<1>2. /\ inflight # None /\ inflight.at = "done" /\ s \in DOMAIN opened
      /\ opened[s] = inflight.device /\ s \in Sids /\ s # None
  BY <1>1, RemotePageAssumption DEF Resolve, Typed, Mapped
<1>3. /\ held' = [device |-> inflight.device, sid |-> s]
      /\ pending' = CancelDrop(pending, s) /\ inflight' = None
      /\ UNCHANGED <<last, mounted, opened, deletes, hasty>>
  BY DEF Resolve, server
<1>4. run' = [r \in Runs |-> IF run[r].at = "await" THEN Attached(run[r], s, TRUE) ELSE run[r]]
  BY DEF Resolve
<1>5. \A r \in Runs : run[r] \in RunType BY <1>1 DEF Typed, OneShows
<1>6. Kept(s)
  <2>1. \A r \in Runs :
          \/ run'[r] = run[r]
          \/ /\ run'[r] \in RunType /\ run'[r].sid = s /\ run'[r].device = run[r].device
             /\ run'[r].cancelled = run[r].cancelled
    <3> SUFFICES ASSUME NEW r \in Runs, run'[r] # run[r]
                 PROVE  /\ run'[r] \in RunType /\ run'[r].sid = s
                        /\ run'[r].device = run[r].device
                        /\ run'[r].cancelled = run[r].cancelled
      OBVIOUS
    <3>1. run'[r] = Attached(run[r], s, TRUE) BY <1>4
    <3>2. /\ Attached(run[r], s, TRUE) \in RunType
          /\ Attached(run[r], s, TRUE).sid = s
          /\ Attached(run[r], s, TRUE).cancelled = run[r].cancelled
          /\ Attached(run[r], s, TRUE).device = run[r].device
      BY <1>2, <1>5, Attaching
    <3>3. QED BY <3>1, <3>2, Zenon
  <2>2. run' \in [Runs -> RunType] BY <1>4, <1>5, <2>1
  <2>3. QED BY <1>3, <2>1, <2>2 DEF Kept
<1>7. OneShows' BY <1>1, <1>3, <1>6 DEF Typed, OneShows, Kept
<1>8. Mapped' BY <1>1, <1>2, <1>3, <1>6 DEF Typed, Mapped, Known, Kept, CancelDrop
<1>9. Shown' BY <1>2, <1>3, <1>6 DEF PageInv, Shown, Kept, CancelDrop
<1>10. ~hasty => \A r \in Runs : ~run[r].cancelled => opened[s] = run[r].device
  BY <1>1, <1>2 DEF PageInv, Owned, Typed, OneShows
<1>11. Owned' BY <1>2, <1>3, <1>6, <1>10 DEF PageInv, Owned, Kept
<1>12. QED BY <1>3, <1>7, <1>8, <1>9, <1>11 DEF PageInv, Typed

LEMMA RejectInv ==
  ASSUME PageInv, Reject
  PROVE  PageInv' /\ UNCHANGED deletes
<1>1. Typed BY DEF PageInv
<1>2. /\ run' = [r \in Runs |-> IF run[r].at = "await" THEN [run[r] EXCEPT !.at = "over"]
                              ELSE run[r]]
      /\ inflight' = None
      /\ UNCHANGED <<last, mounted, held, pending, opened, hasty, deletes>>
  BY DEF Reject, server
<1>3. \A r \in Runs : run[r] \in RunType BY <1>1 DEF Typed, OneShows
<1>4. \A x \in RunType : LET y == [x EXCEPT !.at = "over"]
        IN /\ y \in RunType /\ y.device = x.device /\ y.sid = x.sid
           /\ y.cancelled = x.cancelled
  <2>1. SUFFICES ASSUME NEW x \in RunType, NEW y, y = [x EXCEPT !.at = "over"]
                 PROVE  /\ y \in RunType /\ y.device = x.device /\ y.sid = x.sid
                        /\ y.cancelled = x.cancelled
    BY Zenon
  <2>2. QED BY <2>1 DEF RunType
<1>5. Kept(None) BY <1>2, <1>3, <1>4 DEF Kept
<1>6. DOMAIN opened \subseteq Sids /\ opened = [t \in DOMAIN opened |-> opened[t]]
  BY <1>1 DEF Typed, Mapped
<1>7. QED BY <1>2, <1>5, <1>6, StartInv

-----------------------------------------------------------------------------
LEMMA InitInv == ASSUME PageInit PROVE PageInv
<1>1. PICK y : y = [NewRun(None) EXCEPT !.cancelled = TRUE, !.at = "over"] BY Zenon
<1>2. y \in RunType /\ y.cancelled /\ y.sid = None BY <1>1 DEF NewRun, RunType
<1>3. run = [r \in Runs |-> y] BY <1>1 DEF PageInit
<1>4. OneShows
  <2>1. last = 0 /\ mounted = FALSE BY DEF PageInit
  <2>2. MaxRuns \in Nat /\ last \in Nat /\ last <= MaxRuns
    <3>1. MaxRuns \in Nat BY RemotePageAssumption, Zenon
    <3>2. QED BY <2>1, <3>1
  <2>3. run \in [Runs -> RunType] BY <1>2, <1>3
  <2>4. \A r \in Runs : run[r].cancelled BY <1>2, <1>3, Zenon
  <2>5. QED BY <2>1, <2>2, <2>3, <2>4 DEF OneShows
<1>5. Mapped BY <1>2, <1>3 DEF PageInit, Mapped, Known
<1>6. QED BY <1>2, <1>3, <1>4, <1>5 DEF PageInit, PageInv, Typed, Shown, Owned

\* Every step keeps the invariant, and drops nothing that is shown.
LEMMA StepInv ==
  ASSUME PageInv, [PageNext]_pageVars
  PROVE  /\ PageInv'
         /\ tab' # "closed" => \A s \in deletes' \ deletes, r \in Runs : ~Shows(r, s)
<1> USE DEF PageInv
<1>1. CASE \E d \in Devices \union {None} : Turn(d, held, view) BY <1>1, TurnInv
<1>2. CASE Reconnect \/ ProbeAnswer
  <2>1. mounted => run[last].device \in Devices \union {None}
    BY RemotePageAssumption DEF Typed, OneShows, Runs, RunType
  <2>2. CASE Reconnect BY <2>1, <2>2, TurnInv DEF Reconnect
  <2>3. CASE ProbeAnswer /\ Turn(run[last].device, held, NewView)
    BY <2>1, <2>3, TurnInv DEF ProbeAnswer
  <2>4. CASE ProbeAnswer /\ ~Turn(run[last].device, held, NewView)
    <3>1. UNCHANGED <<run, last, mounted, held, inflight, pending, opened, hasty, deletes>>
      BY <2>4 DEF ProbeAnswer, server
    <3>2. QED BY <3>1, SameRuns, CalmInv
  <2>5. QED BY <1>2, <2>2, <2>3, <2>4
<1>3. CASE Break BY <1>3, BreakInv
<1>4. CASE Resolve BY <1>4, ResolveInv
<1>5. CASE Reject BY <1>5, RejectInv
<1>6. CASE DropTimer BY <1>6, DropInv
<1>7. CASE Close BY <1>7, CloseInv
<1>8. CASE Post \/ Retry BY <1>8, PostInv
<1>9. CASE \E r \in Runs : CreateSession(r) BY <1>9, CreateInv
<1>10. CASE \E r \in Runs : Join(r) \/ Drop(r) \/ DecoderFails(r) BY <1>10, StreamInv
<1>11. CASE \/ \E r \in Runs : Blocked(r)
            \/ ProbeAgain
            \/ \E s \in Sids : Delete(s) \/ ViewerGone(s) \/ Ends(s)
  BY <1>11, QuietInv
<1>12. CASE UNCHANGED pageVars
  <2>1. UNCHANGED <<run, last, mounted, held, inflight, pending, opened, hasty, deletes>>
    BY <1>12 DEF pageVars, server
  <2>2. QED BY <2>1, SameRuns, CalmInv
<1>13. QED
  BY <1>1, <1>2, <1>3, <1>4, <1>5, <1>6, <1>7, <1>8, <1>9, <1>10, <1>11, <1>12 DEF PageNext

\* The type invariant of the runs, and of the sessions they refer to, with what
\* a page shows.
THEOREM PageIsTyped == PageSpec => []PageInv
<1>1. PageInit => PageInv BY InitInv
<1>2. PageInv /\ [PageNext]_pageVars => PageInv' BY StepInv
<1>3. QED BY <1>1, <1>2, PTL DEF PageSpec

\* A page shows its own device, for all that a tab may do but to go from one
\* device to another during a start.
THEOREM ShowsItsOwn == PageSpec => []OwnDevice
<1>1. PageInv => OwnDevice
  BY RemotePageAssumption
     DEF PageInv, Owned, Typed, Mapped, OwnDevice, Shows, DeviceOf, Sids
<1>2. QED BY <1>1, PageIsTyped, PTL

\* A session that is shown is not dropped, whatever was scheduled before.
THEOREM DropsNothingShown == PageSpec => ShownIsKept
<1>1. PageInv /\ [PageNext]_pageVars =>
        [tab' # "closed" => \A s \in deletes' \ deletes, r \in Runs : ~Shows(r, s)]_pageVars
  BY StepInv
<1>2. QED BY <1>1, PageIsTyped, PTL DEF PageSpec, ShownIsKept

-----------------------------------------------------------------------------
(* Types: the sockets, the start in flight, the view and the server.       *)

\* A socket has a session, and who awaits a start awaits the one in flight.
Fit ==
  /\ inflight \in Starts \union {None}
  /\ \A r \in Runs :
       /\ run[r].ws # "none" => run[r].sid # None
       /\ run[r].at = "await" => inflight # None

\* Only a page that is there is blocked, probes or says it is disconnected.
ViewType == [blocked : BOOLEAN, probing : BOOLEAN, gone : BOOLEAN]

Drawn ==
  /\ view \in ViewType
  /\ view.blocked \/ view.probing \/ view.gone => mounted

Over == ended \subseteq DOMAIN opened /\ viewed \subseteq DOMAIN opened

ShapeInv == PageInv /\ Fit /\ Drawn /\ Over

\* Each run is as it was, or sound, and the start in flight is still one.
LEMMA StaysFit ==
  ASSUME Fit, \A r \in Runs : Same(run[r], run'[r]) \/ Sound(run'[r]),
         inflight' = inflight \/ (inflight \in Starts /\ inflight' \in Starts)
  PROVE  Fit'
BY StartsAreSome DEF Fit, Same, Sound

LEMMA OneIsFit ==
  ASSUME PageInv, Fit, NEW r \in Runs, NEW y, run' = [run EXCEPT ![r] = y],
         Same(run[r], y) \/ Sound(y), UNCHANGED inflight
  PROVE  Fit'
<1>1. \A q \in Runs : Same(run[q], run'[q]) \/ Sound(run'[q])
  BY DEF PageInv, Typed, OneShows, Same
<1>2. QED BY <1>1, StaysFit

LEMMA TurnFit ==
  ASSUME PageInv, Fit, NEW d \in Devices \union {None}, NEW h \in {held, None}, NEW v,
         Turn(d, h, v)
  PROVE  Fit'
BY TurnMoves, StaysFit DEF PageInv

LEMMA CreateFit ==
  ASSUME PageInv, Fit, NEW r \in Runs, CreateSession(r)
  PROVE  Fit'
<1> DEFINE d == run[r].device
<1>1. Typed /\ run[r] \in RunType BY DEF PageInv, Typed, OneShows
<1>2. CASE Reusable(held, d)
  <2>1. held.sid \in Sids /\ held.sid # None
    BY <1>1, <1>2, RemotePageAssumption DEF Reusable, Typed, Mapped
  <2>2. PICK c \in BOOLEAN : run' = [run EXCEPT ![r] = Attached(@, held.sid, c)]
    <3>1. \E c \in {TRUE, ~view.blocked} : run' = [run EXCEPT ![r] = Attached(@, held.sid, c)]
      BY <1>2, Zenon DEF CreateSession
    <3>2. PICK b \in BOOLEAN : b = ~view.blocked BY Zenon
    <3>3. \E c \in {TRUE, b} : run' = [run EXCEPT ![r] = Attached(@, held.sid, c)]
      BY <3>1, <3>2, Zenon
    <3>4. QED BY <3>3
  <2>3. PICK y : y = Attached(run[r], held.sid, c) BY Zenon
  <2>4. y.sid = held.sid /\ y.at = "over" BY <1>1, <2>1, <2>3, Attaching
  <2>5. run' = [run EXCEPT ![r] = y] BY <1>1, <2>2, <2>3 DEF Typed, OneShows
  <2>6. Sound(y) BY <2>1, <2>4 DEF Sound
  <2>7. UNCHANGED inflight BY <1>2 DEF CreateSession
  <2>8. QED BY <2>5, <2>6, <2>7, OneIsFit
<1>3. CASE ~Reusable(held, d)
  <2>1. run' = [run EXCEPT ![r].at = "await"]
        /\ inflight' = IF inflight # None THEN inflight
                       ELSE [device |-> d, at |-> "post", sid |-> None, retried |-> FALSE]
    BY <1>3 DEF CreateSession
  <2>2. PICK y : y = [run[r] EXCEPT !.at = "await"] BY Zenon
  <2>3. y.sid = run[r].sid /\ y.ws = run[r].ws BY <1>1, <2>2 DEF RunType
  <2>4. \A q \in Runs : run'[q] = IF q = r THEN y ELSE run[q]
    BY <1>1, <2>1, <2>2 DEF Typed, OneShows
  <2>5. d \in Devices \union {None} BY <1>1 DEF RunType
  <2>6. inflight' \in Starts
    <3>1. CASE inflight # None BY <2>1, <3>1 DEF Fit
    <3>2. CASE inflight = None BY <2>1, <2>5, <3>2 DEF Starts
    <3>3. QED BY <3>1, <3>2
  <2>7. inflight' # None BY <2>6, StartsAreSome
  <2>8. QED BY <2>3, <2>4, <2>6, <2>7 DEF Fit
<1>4. QED BY <1>2, <1>3

\* Whom the start is over for awaits nothing any more.
LEMMA AnswerFit ==
  ASSUME PageInv, Fit, Resolve \/ Reject
  PROVE  Fit'
<1>1. \A r \in Runs : run[r] \in RunType BY DEF PageInv, Typed, OneShows
<1>2. inflight' = None BY DEF Resolve, Reject
<1>3. ASSUME NEW r \in Runs PROVE Sound(run'[r]) \/ (run[r].at # "await" /\ run'[r] = run[r])
  <2>1. CASE run[r].at = "await" /\ Resolve
    <3>1. run'[r] = Attached(run[r], inflight.sid, TRUE) BY <2>1 DEF Resolve
    <3>2. inflight.sid \in Sids /\ inflight.sid # None
      BY <2>1, RemotePageAssumption DEF Resolve, PageInv, Typed, Mapped
    <3>3. PICK x \in RunType : x = run[r] BY <1>1
    <3>4. Attached(x, inflight.sid, TRUE).sid = inflight.sid
          /\ Attached(x, inflight.sid, TRUE).at = "over"
      BY <3>2, Attaching
    <3>5. QED BY <3>1, <3>2, <3>3, <3>4 DEF Sound
  <2>2. CASE run[r].at = "await" /\ Reject
    <3>1. PICK y : y = [run[r] EXCEPT !.at = "over"] BY Zenon
    <3>2. run'[r] = y BY <2>2, <3>1 DEF Reject
    <3>3. y.at = "over" /\ y.ws = run[r].ws /\ y.sid = run[r].sid
      BY <1>1, <3>1 DEF RunType
    <3>4. run[r].ws # "none" => run[r].sid # None BY DEF Fit
    <3>5. QED BY <3>2, <3>3, <3>4 DEF Sound
  <2>3. CASE run[r].at # "await" BY <2>3 DEF Resolve, Reject
  <2>4. QED BY <2>1, <2>2, <2>3
<1>4. QED BY <1>2, <1>3 DEF Fit, Sound

LEMMA FitStep ==
  ASSUME ShapeInv, [PageNext]_pageVars
  PROVE  Fit'
<1> USE DEF ShapeInv
<1>1. Typed /\ \A r \in Runs : run[r] \in RunType BY DEF PageInv, Typed, OneShows
<1>2. mounted => last \in Runs BY <1>1, RemotePageAssumption DEF Typed, OneShows, Runs
<1>3. CASE \E d \in Devices \union {None} : Turn(d, held, view) BY <1>3, TurnFit
<1>4. CASE Reconnect
  <2>1. run[last].device \in Devices \union {None} BY <1>1, <1>2, <1>4 DEF Reconnect, RunType
  <2>2. QED BY <1>4, <2>1, TurnFit DEF Reconnect
<1>5. CASE ProbeAnswer /\ Turn(run[last].device, held, NewView)
  <2>1. run[last].device \in Devices \union {None} BY <1>1, <1>2, <1>5 DEF ProbeAnswer, RunType
  <2>2. QED BY <1>5, <2>1, TurnFit
<1>6. CASE UNCHANGED run /\ inflight' = inflight
  BY <1>6, StaysFit DEF Same
<1>7. CASE Break
  <2>1. PICK y : y = [run[last] EXCEPT !.cancelled = TRUE] BY Zenon
  <2>2. last \in Runs /\ run' = [run EXCEPT ![last] = y] /\ UNCHANGED inflight
    BY <1>1, <1>2, <1>7, <2>1 DEF Break, Typed, OneShows
  <2>3. Same(run[last], y) BY <1>1, <2>1, <2>2 DEF RunType, Same
  <2>4. QED BY <2>2, <2>3, OneIsFit
<1>8. CASE Close
  <2>1. UNCHANGED inflight /\ \A r \in Runs : run'[r] = Cleaned(run[r]) BY <1>8 DEF Close
  <2>2. QED BY <1>1, <2>1, RunEdits, StaysFit DEF Same
<1>9. ASSUME NEW r \in Runs, Blocked(r) PROVE Fit'
  <2>1. PICK y : y = [run[r] EXCEPT !.at = "over"] BY Zenon
  <2>2. run' = [run EXCEPT ![r] = y] /\ UNCHANGED inflight
    BY <1>1, <1>9, <2>1 DEF Blocked, Typed, OneShows
  <2>3. Same(run[r], y) BY <1>1, <2>1 DEF RunType, Same
  <2>4. QED BY <2>2, <2>3, OneIsFit
<1>10. ASSUME NEW r \in Runs, Join(r) \/ Drop(r) \/ DecoderFails(r) PROVE Fit'
  <2>1. PICK ws, b : run' = [run EXCEPT ![r].ws = ws, ![r].decoder = b] /\ UNCHANGED inflight
                     /\ run[r].ws # "none" /\ ws # "none"
    <3>1. CASE Join(r) BY <3>1, Zenon DEF Join, Stream
    <3>2. CASE Drop(r) BY <3>2, Zenon DEF Drop, Stream
    <3>3. CASE DecoderFails(r) BY <3>3, Zenon DEF DecoderFails, Stream
    <3>4. QED BY <1>10, <3>1, <3>2, <3>3
  <2>2. PICK y : y = [run[r] EXCEPT !.ws = ws, !.decoder = b] BY Zenon
  <2>3. run' = [run EXCEPT ![r] = y] BY <1>1, <2>1, <2>2 DEF Typed, OneShows
  <2>4. Same(run[r], y) BY <1>1, <2>1, <2>2 DEF RunType, Same
  <2>5. QED BY <2>1, <2>3, <2>4, OneIsFit
<1>11. CASE Post \/ Retry
  <2>1. UNCHANGED run /\ inflight \in Starts
    BY <1>11 DEF Post, Retry, Page, Fit
  <2>2. PICK at \in {"post", "busy", "refused", "done"}, s \in Sids \union {None} :
          \/ inflight' = [inflight EXCEPT !.at = at]
          \/ inflight' = [inflight EXCEPT !.at = at, !.retried = TRUE]
          \/ inflight' = [inflight EXCEPT !.at = at, !.sid = s]
    <3>1. CASE Retry BY <3>1 DEF Retry
    <3>2. CASE Post BY <1>1, <3>2 DEF Post, Typed, Mapped
    <3>3. QED BY <1>11, <3>1, <3>2
  <2>3. inflight' \in Starts BY <2>1, <2>2 DEF Starts
  <2>4. QED BY <2>1, <2>3, StaysFit DEF Same
<1>12. CASE UNCHANGED pageVars BY <1>6, <1>12 DEF pageVars
<1>13. CASE ProbeAgain \/ DropTimer \/ (ProbeAnswer /\ ~Turn(run[last].device, held, NewView))
  BY <1>6, <1>13 DEF ProbeAgain, DropTimer, ProbeAnswer
<1>14. ASSUME NEW s \in Sids, Delete(s) \/ ViewerGone(s) \/ Ends(s) PROVE Fit'
  BY <1>6, <1>14 DEF Delete, ViewerGone, Ends, Page
<1>15. QED
  BY <1>3, <1>4, <1>5, <1>7, <1>8, <1>9, <1>10, <1>11, <1>12, <1>13, <1>14,
     CreateFit, AnswerFit DEF PageNext

LEMMA ViewEdits ==
  ASSUME NEW v \in ViewType, NEW b \in BOOLEAN
  PROVE  /\ [v EXCEPT !.blocked = b] \in ViewType
         /\ [v EXCEPT !.probing = b] \in ViewType
         /\ [v EXCEPT !.gone = TRUE] \in ViewType
         /\ [v EXCEPT !.blocked = b, !.gone = FALSE] \in ViewType
BY DEF ViewType

LEMMA DrawnStep ==
  ASSUME ShapeInv, [PageNext]_pageVars
  PROVE  Drawn'
<1> USE DEF ShapeInv
<1>1. view \in ViewType /\ (view.blocked \/ view.probing \/ view.gone => mounted)
  BY DEF Drawn
<1>2. NewView \in ViewType /\ ~NewView.blocked /\ ~NewView.probing /\ ~NewView.gone
  BY DEF NewView, ViewType
<1>3. \A r \in Runs : ~run[r].cancelled => mounted BY DEF PageInv, Typed, OneShows
<1>4. CASE view' \in ViewType /\ mounted' BY <1>4 DEF Drawn
<1>5. CASE view' = NewView BY <1>2, <1>5 DEF Drawn
<1>6. CASE UNCHANGED <<view, mounted>> BY <1>6 DEF Drawn
<1>7. ASSUME NEW d, NEW h, NEW v \in ViewType, Turn(d, h, v) PROVE Drawn'
  <2>1. CASE d = None BY <1>5, <1>7, <2>1 DEF Turn
  <2>2. CASE d # None
    <3>1. PICK runs, p : Mount(runs, d, h, p, v) BY <1>7, <2>2, Zenon DEF Turn
    <3>2. mounted' /\ (view' = v \/ view' = [v EXCEPT !.blocked = FALSE, !.gone = FALSE])
      BY <3>1 DEF Mount
    <3>3. [v EXCEPT !.blocked = FALSE, !.gone = FALSE] \in ViewType BY ViewEdits
    <3>4. QED BY <1>4, <3>2, <3>3
  <2>3. QED BY <2>1, <2>2
<1>8. ASSUME NEW r \in Runs, NEW b \in BOOLEAN, Showing(r, b), UNCHANGED mounted PROVE Drawn'
  <2>1. CASE run[r].cancelled BY <1>6, <1>8, <2>1 DEF Showing
  <2>2. CASE ~run[r].cancelled
    <3>1. view' = [view EXCEPT !.blocked = b, !.gone = FALSE] /\ mounted'
      BY <1>3, <1>8, <2>2 DEF Showing
    <3>2. view' \in ViewType BY <1>1, <3>1, ViewEdits
    <3>3. QED BY <1>4, <3>1, <3>2
  <2>3. QED BY <2>1, <2>2
<1>9. CASE \E d \in Devices \union {None} : Turn(d, held, view) BY <1>1, <1>7, <1>9
<1>10. CASE Reconnect BY <1>1, <1>7, <1>10 DEF Reconnect
<1>11. CASE ProbeAgain
  <2>1. view' = [view EXCEPT !.probing = TRUE] /\ mounted' BY <1>11 DEF ProbeAgain
  <2>2. view' \in ViewType BY <1>1, <2>1, ViewEdits
  <2>3. QED BY <1>4, <2>1, <2>2
<1>12. CASE ProbeAnswer
  <2>1. CASE Turn(run[last].device, held, NewView) BY <1>2, <1>7, <2>1
  <2>2. CASE view' = [view EXCEPT !.probing = FALSE] /\ UNCHANGED mounted
    <3>1. mounted' BY <1>12, <2>2 DEF ProbeAnswer
    <3>2. view' \in ViewType BY <1>1, <2>2, ViewEdits
    <3>3. QED BY <1>4, <3>1, <3>2
  <2>3. QED BY <1>12, <2>1, <2>2 DEF ProbeAnswer
<1>13. CASE Break \/ Close BY <1>5, <1>13 DEF Break, Close
<1>14. ASSUME NEW r \in Runs, Blocked(r) \/ CreateSession(r) PROVE Drawn'
  <2>1. PICK b \in BOOLEAN : Showing(r, b) BY <1>14 DEF Blocked, CreateSession
  <2>2. UNCHANGED mounted BY <1>14 DEF Blocked, CreateSession
  <2>3. QED BY <1>8, <2>1, <2>2
<1>15. CASE Reject
  <2>1. CASE \E r \in Runs : run[r].at = "await" /\ ~run[r].cancelled
    <3>1. PICK b \in BOOLEAN : view' = [view EXCEPT !.blocked = b]
      BY <1>15, <2>1 DEF Reject
    <3>2. mounted' BY <1>3, <1>15, <2>1 DEF Reject
    <3>3. view' \in ViewType BY <1>1, <3>1, ViewEdits
    <3>4. QED BY <1>4, <3>2, <3>3
  <2>2. CASE ~ \E r \in Runs : run[r].at = "await" /\ ~run[r].cancelled
    BY <1>6, <1>15, <2>2 DEF Reject
  <2>3. QED BY <2>1, <2>2
<1>16. CASE Resolve \/ Retry \/ DropTimer \/ Post \/ UNCHANGED pageVars
  BY <1>6, <1>16 DEF Resolve, Retry, DropTimer, Post, Page, pageVars
<1>17. ASSUME NEW r \in Runs, Join(r) \/ Drop(r) \/ DecoderFails(r) PROVE Drawn'
  <2>1. UNCHANGED mounted BY <1>17 DEF Join, Drop, DecoderFails, Stream
  <2>2. CASE UNCHANGED view BY <1>6, <2>1, <2>2
  <2>3. CASE view' = [view EXCEPT !.gone = TRUE] /\ ~run[r].cancelled
    <3>1. mounted' BY <1>3, <2>1, <2>3
    <3>2. view' \in ViewType BY <1>1, <2>3, ViewEdits
    <3>3. QED BY <1>4, <3>1, <3>2
  <2>4. QED BY <1>17, <2>2, <2>3 DEF Join, Drop, DecoderFails
<1>18. ASSUME NEW s \in Sids, Delete(s) \/ ViewerGone(s) \/ Ends(s) PROVE Drawn'
  BY <1>6, <1>18 DEF Delete, ViewerGone, Ends, Page
<1>19. QED
  BY <1>9, <1>10, <1>11, <1>12, <1>13, <1>14, <1>15, <1>16, <1>17, <1>18 DEF PageNext

LEMMA OverStep ==
  ASSUME ShapeInv, [PageNext]_pageVars
  PROVE  Over'
<1> USE DEF ShapeInv, Over, server, Page
<1>1. deletes \subseteq DOMAIN opened BY DEF PageInv, Typed, Mapped
<1>2. ASSUME NEW d, NEW h, NEW v, Turn(d, h, v) PROVE Over' BY <1>2 DEF Turn
<1>3. CASE Reconnect \/ ProbeAgain \/ ProbeAnswer
  BY <1>2, <1>3 DEF Reconnect, ProbeAgain, ProbeAnswer
<1>4. CASE Break \/ Resolve \/ Retry \/ Reject \/ DropTimer \/ Close \/ UNCHANGED pageVars
  BY <1>4 DEF Break, Resolve, Retry, Reject, DropTimer, Close, pageVars
<1>5. CASE Post
  <2>1. DOMAIN opened \subseteq DOMAIN opened' /\ UNCHANGED <<ended, viewed>>
    BY <1>5 DEF Post
  <2>2. QED BY <2>1
<1>6. ASSUME NEW r \in Runs, Blocked(r) \/ CreateSession(r) \/ Drop(r) \/ DecoderFails(r)
      PROVE  Over'
  BY <1>6 DEF Blocked, CreateSession, Drop, DecoderFails, Stream
<1>7. ASSUME NEW r \in Runs, Join(r) PROVE Over'
  BY <1>7 DEF Join, Stream, Open
<1>8. ASSUME NEW s \in Sids, Delete(s) \/ ViewerGone(s) \/ Ends(s) PROVE Over'
  BY <1>1, <1>8 DEF Delete, ViewerGone, Ends, Open
<1>9. QED BY <1>2, <1>3, <1>4, <1>5, <1>6, <1>7, <1>8 DEF PageNext

LEMMA ShapeInit == ASSUME PageInit PROVE ShapeInv
<1>1. PICK y : y = [NewRun(None) EXCEPT !.cancelled = TRUE, !.at = "over"] BY Zenon
<1>2. y.at = "over" /\ y.ws = "none" BY <1>1 DEF NewRun
<1>3. run = [r \in Runs |-> y] BY <1>1 DEF PageInit
<1>4. Fit BY <1>2, <1>3 DEF PageInit, Fit
<1>5. Drawn BY DEF PageInit, Drawn, NewView, ViewType
<1>6. Over BY DEF PageInit, Over
<1>7. QED BY <1>4, <1>5, <1>6, InitInv DEF ShapeInv

\* The whole type invariant of the tab and of what the server keeps for it.
THEOREM PageHasTypes == PageSpec => []PageTypeOK
<1>1. PageInit => ShapeInv BY ShapeInit
<1>2. ShapeInv /\ [PageNext]_pageVars => ShapeInv'
  BY StepInv, FitStep, DrawnStep, OverStep DEF ShapeInv
<1>3. ShapeInv => PageTypeOK
  <2> SUFFICES ASSUME ShapeInv PROVE PageTypeOK OBVIOUS
  <2>1. \A r \in Runs :
          /\ run[r].device \in Devices \union {None}
          /\ run[r].sid \in DOMAIN opened \union {None}
          /\ run[r].at \in {"ask", "await", "over"}
          /\ ~run[r].cancelled => mounted /\ r = last
    BY DEF ShapeInv, PageInv, Typed, OneShows, Mapped, Known, RunType
  <2>2. /\ held # None => held.sid \in DOMAIN opened
        /\ pending \in DOMAIN opened \union {None}
    BY DEF ShapeInv, PageInv, Typed, Mapped, Known
  <2>3. QED BY <2>1, <2>2 DEF ShapeInv, Fit, Drawn, Over, PageTypeOK
<1>4. QED BY <1>1, <1>2, <1>3, PTL DEF PageSpec
=============================================================================
