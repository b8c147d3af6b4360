------------------------------- MODULE Stream -------------------------------
(***************************************************************************)
(* The picture, from the agent through rc-relay to the decoder of a page:  *)
(* one RelaySession, its agent and the viewers that join it one after the  *)
(* other.  Relay has the life of the sockets in full; here is what goes    *)
(* through them.  What the agent sends is external: this repository has    *)
(* its stand-in (fake-agent) and the decoder that expects it.              *)
(*                                                                         *)
(* A message is [t, n]: a configuration, a key frame, the n-th delta since *)
(* it (modulo 2), or the n-th JPEG.                                        *)
(***************************************************************************)
EXTENDS Naturals, Sequences

CONSTANTS
  Viewers, None,
  Watched,    \* the viewers whose decoder is followed; they do not differ
  MaxQueue,   \* bound: messages on one leg; who would send more waits
  MaxJpegs    \* bound: JPEGs with a number of their own; the rest has the last

ASSUME StreamAssumption ==
  /\ Watched \subseteq Viewers /\ None \notin Viewers \union Nat
  /\ MaxQueue \in Nat \ {0} /\ MaxJpegs \in Nat \ {0}

VARIABLES
  agent,    \* its socket: "none", "pending" (the token is checked), "open", "closed"
  encoder,  \* the agent: [mode, fresh, force, delta, jpeg]
  up,       \* from the agent, also what is stashed while it is pending
  down,     \* how many viewer.join are on their way to it
  config,   \* whether RelaySession.codecConfig is set
  viewer,   \* RelaySession.viewer
  sock,     \* viewers: "unused", "open", "closed"
  toViewer, \* to each viewer
  decoder   \* connectStream of each viewer

relayed    == <<agent, up, down, config, viewer, sock, toViewer>>
streamVars == <<relayed, encoder, decoder>>

\* next is the delta that continues what the decoder has; history: torn is set
\* by a delta that does not, or a JPEG that is older than the one painted.
NewDecoder == [gotKey |-> FALSE, jpegMode |-> FALSE, latest |-> None, busy |-> None,
               pic |-> FALSE, next |-> None, painted |-> 0, torn |-> FALSE]

NoEncoder == [mode |-> "off", fresh |-> FALSE, force |-> FALSE, delta |-> 0, jpeg |-> 0]

Msg(t, n) == [t |-> t, n |-> n]
CFG == Msg("cfg", 0)
KEY == Msg("key", 0)

StreamInit ==
  /\ agent = "none" /\ up = <<>> /\ down = 0 /\ config = FALSE /\ viewer = None
  /\ encoder = NoEncoder
  /\ sock = [v \in Viewers |-> "unused"] /\ toViewer = [v \in Viewers |-> <<>>]
  /\ decoder = [v \in Watched |-> NewDecoder]

-----------------------------------------------------------------------------
(* The agent.                                                              *)

Streams == agent \in {"pending", "open"}
Send(m) ==
  /\ Streams /\ Len(up) < MaxQueue
  /\ up' = Append(up, m)
  /\ UNCHANGED <<agent, down, config, viewer, sock, toViewer, decoder>>

\* stream, at its start or when H.264 works again: the configuration, then a key.
Configure ==
  /\ encoder.mode # "h264"
  /\ Send(CFG)
  /\ encoder' = [encoder EXCEPT !.mode = "h264", !.fresh = TRUE]

\* The fallback to JPEG.
SendJpeg ==
  LET n == IF encoder.jpeg < MaxJpegs THEN encoder.jpeg + 1 ELSE MaxJpegs IN
    /\ encoder.mode # "off"
    /\ Send(Msg("jpeg", n))
    /\ encoder' = [encoder EXCEPT !.mode = "jpeg", !.jpeg = n, !.force = FALSE]

SendKey ==
  /\ encoder.mode = "h264"
  /\ Send(KEY)
  /\ encoder' = [encoder EXCEPT !.fresh = FALSE, !.force = FALSE, !.delta = 0]

SendDelta ==
  LET n == 1 - encoder.delta IN
    /\ encoder.mode = "h264" /\ ~encoder.fresh /\ ~encoder.force
    /\ Send(Msg("delta", n))
    /\ encoder' = [encoder EXCEPT !.delta = n]

\* onWsMessage: viewer.join asks for a key.
Hear ==
  /\ down > 0
  /\ down' = down - 1 /\ encoder' = [encoder EXCEPT !.force = TRUE]
  /\ UNCHANGED <<agent, up, config, viewer, sock, toViewer, decoder>>

-----------------------------------------------------------------------------
(* RelayServer.                                                            *)

Push(queue, v, m) == [queue EXCEPT ![v] = Append(@, m)]

AgentConnect ==
  /\ agent = "none" /\ agent' = "pending"
  /\ UNCHANGED <<up, down, config, viewer, sock, toViewer, encoder, decoder>>

\* onAgentJoin; a viewer that is there already is announced.
AgentJoin ==
  /\ agent = "pending" /\ agent' = "open"
  /\ down' = IF viewer # None THEN down + 1 ELSE down
  /\ UNCHANGED <<up, config, viewer, sock, toViewer, encoder, decoder>>

\* Mutant: the agent is told of a viewer only when it joins itself.
ViewerJoinUnheard(v) ==
  /\ sock[v] = "unused"
  /\ sock' = [sock EXCEPT ![v] = "open"] /\ viewer' = v
  /\ toViewer' = IF config THEN Push(toViewer, v, CFG) ELSE toViewer
  /\ UNCHANGED <<agent, up, down, config, encoder, decoder>>

\* onViewerJoin: the viewer there was is replaced, and stays connected.
ViewerJoin(v) ==
  /\ sock[v] = "unused"
  /\ sock' = [sock EXCEPT ![v] = "open"] /\ viewer' = v
  /\ toViewer' = IF config THEN Push(toViewer, v, CFG) ELSE toViewer
  /\ down' = IF agent = "open" THEN down + 1 ELSE down
  /\ UNCHANGED <<agent, up, config, encoder, decoder>>

\* onAgentMessage, stashed messages first.
Relay ==
  LET m == Head(up) IN
    /\ agent = "open" /\ up # <<>>
    /\ up' = Tail(up)
    /\ config' = (config \/ m.t = "cfg")
    /\ IF viewer = None THEN UNCHANGED toViewer
       ELSE /\ Len(toViewer[viewer]) < MaxQueue
            /\ toViewer' = Push(toViewer, viewer, m)
    /\ UNCHANGED <<agent, down, viewer, sock, encoder, decoder>>

\* Mutant: the viewer that left is still the viewer.
ViewerCloseKept(v) ==
  /\ sock[v] = "open"
  /\ sock' = [sock EXCEPT ![v] = "closed"] /\ toViewer' = [toViewer EXCEPT ![v] = <<>>]
  /\ UNCHANGED <<agent, up, down, config, viewer, encoder, decoder>>

\* The page closes its socket and its decoder, or loses it.
ViewerClose(v) ==
  /\ sock[v] = "open"
  /\ sock' = [sock EXCEPT ![v] = "closed"] /\ toViewer' = [toViewer EXCEPT ![v] = <<>>]
  /\ decoder' = [w \in Watched |-> IF w = v THEN NewDecoder ELSE decoder[w]]
  /\ viewer' = IF viewer = v THEN None ELSE viewer
  /\ UNCHANGED <<agent, up, down, config, encoder>>

\* The agent leaves or closeSession: the next viewer finds a session without
\* configuration.  A viewer that was replaced is not told.
CloseSession ==
  /\ Streams /\ agent' = "closed"
  /\ up' = <<>> /\ down' = 0 /\ config' = FALSE /\ viewer' = None
  /\ sock' = [v \in Viewers |-> IF v = viewer THEN "closed" ELSE sock[v]]
  /\ encoder' = NoEncoder
  /\ UNCHANGED <<toViewer, decoder>>

-----------------------------------------------------------------------------
(* connectStream.                                                          *)

\* The newest JPEG is taken up unless one is being decoded.
paintJpeg(d) ==
  IF d.latest = None \/ d.busy # None THEN d
  ELSE [d EXCEPT !.busy = d.latest, !.latest = None, !.pic = TRUE]

\* Mutant: deltas are decoded without a key.
decodeAnyway(d, m) ==
  [d EXCEPT !.gotKey = @ \/ m.t = "key", !.pic = TRUE, !.next = 1 - m.n,
            !.torn = @ \/ (m.t = "delta" /\ m.n # d.next)]

\* decoder.decode, from the first key on.
decode(d, m) ==
  IF m.t = "delta" /\ ~d.gotKey THEN d
  ELSE [d EXCEPT !.gotKey = TRUE, !.pic = TRUE, !.next = 1 - m.n,
                 !.torn = @ \/ (m.t = "delta" /\ m.n # d.next)]

\* ws.onmessage.
onmessage(d, m) ==
  IF m.t = "jpeg" THEN paintJpeg([d EXCEPT !.jpegMode = TRUE, !.latest = m.n])
  ELSE IF m.t = "cfg" THEN [d EXCEPT !.jpegMode = FALSE]
  ELSE IF d.jpegMode THEN d ELSE decode(d, m)

Receive(v) ==
  /\ toViewer[v] # <<>>
  /\ toViewer' = [toViewer EXCEPT ![v] = Tail(@)]
  /\ decoder' = [w \in Watched |-> IF w = v THEN onmessage(decoder[w], Head(toViewer[v]))
                                  ELSE decoder[w]]
  /\ UNCHANGED <<agent, up, down, config, viewer, sock, encoder>>

\* createImageBitmap: it is painted, or it fails; then the next one.
Painted(v) ==
  LET d == decoder[v] IN
    /\ d.busy # None
    /\ \E painted \in {d.busy, d.painted} :
         decoder' = [decoder EXCEPT ![v] =
           paintJpeg([d EXCEPT !.busy = None, !.painted = painted,
                               !.torn = @ \/ painted < d.painted])]
    /\ UNCHANGED <<relayed, encoder>>

-----------------------------------------------------------------------------
AgentSends == Configure \/ SendJpeg \/ SendKey \/ SendDelta

StreamNext ==
  \/ Configure \/ SendJpeg \/ SendKey \/ SendDelta \/ Hear
  \/ AgentConnect \/ AgentJoin \/ Relay \/ CloseSession
  \/ \E v \in Viewers : ViewerJoin(v) \/ ViewerClose(v) \/ Receive(v)
  \/ \E v \in Watched : Painted(v)

\* The agent goes on sending, messages arrive, the check of a token and the
\* decoding of a JPEG come to an end.
StreamSpec ==
  /\ StreamInit /\ [][StreamNext]_streamVars
  /\ WF_streamVars(AgentSends) /\ WF_streamVars(Hear)
  /\ WF_streamVars(AgentJoin) /\ WF_streamVars(Relay)
  /\ \A v \in Viewers : WF_streamVars(Receive(v))
  /\ \A v \in Watched : WF_streamVars(Painted(v))

-----------------------------------------------------------------------------
StreamTypeOK ==
  /\ agent \in {"none", "pending", "open", "closed"}
  /\ viewer # None => sock[viewer] = "open"
  /\ down \in Nat /\ (down > 0 => agent = "open")
  /\ Len(up) <= MaxQueue /\ (up # <<>> => Streams)
  /\ \A v \in Viewers : Len(toViewer[v]) <= MaxQueue
  /\ \A v \in Watched : /\ decoder[v].latest # None => decoder[v].busy # None
                        /\ sock[v] = "unused" => decoder[v] = NewDecoder

\* No viewer sees a picture that is built on one it never had: its decoder gets
\* a delta only right after the frame before it, wherever in the stream it
\* joined and whatever the agent switched to in between; and JPEGs are painted
\* in the order they came.
PictureIsWhole == \A v \in Watched : ~decoder[v].torn

\* "mid-GOP viewer gets a keyframe": a viewer that stays, of an agent that
\* stays, is given a picture even if the agent would send deltas for ever; and
\* the newest JPEG is taken up even if none comes after it.
PictureComes ==
  \A v \in Watched :
    /\ (viewer = v /\ agent = "open") ~> (decoder[v].pic \/ viewer # v \/ agent # "open")
    /\ (decoder[v].latest # None) ~> (decoder[v].latest = None)
=============================================================================
