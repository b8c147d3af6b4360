----------------------------- MODULE Stream_proofs -----------------------------
(***************************************************************************)
(* What a viewer sees, for any viewers, queues and numbers of frames.      *)
(***************************************************************************)
EXTENDS Stream, Integers, TLAPS

Msgs == [t : {"cfg", "key", "delta", "jpeg"}, n : Nat]

EncoderType ==
  [mode : {"off", "h264", "jpeg"}, fresh : BOOLEAN, force : BOOLEAN, delta : {0, 1},
   jpeg : 0..MaxJpegs]

DecoderType ==
  [gotKey : BOOLEAN, jpegMode : BOOLEAN, latest : Nat \union {None},
   busy : Nat \union {None}, pic : BOOLEAN, next : Int \union {None}, painted : Nat,
   torn : BOOLEAN]

\* Who is connected.
Sockets ==
  /\ agent \in {"none", "pending", "open", "closed"} /\ down \in Nat
  /\ sock \in [Viewers -> {"unused", "open", "closed"}]
  /\ viewer # None => viewer \in Viewers /\ sock[viewer] = "open"
  /\ down > 0 => agent = "open"

\* What is on its way.
Queues ==
  /\ encoder \in EncoderType
  /\ up \in Seq(Msgs) /\ Len(up) <= MaxQueue /\ (up # <<>> => Streams)
  /\ toViewer \in [Viewers -> Seq(Msgs)]
  /\ \A v \in Viewers : /\ Len(toViewer[v]) <= MaxQueue
                        /\ sock[v] = "unused" => toViewer[v] = <<>>

\* What the pages have.
Decoders ==
  /\ decoder \in [Watched -> DecoderType]
  /\ \A v \in Watched : /\ decoder[v].latest # None => decoder[v].busy # None
                        /\ sock[v] = "unused" => decoder[v] = NewDecoder

Typed == Sockets /\ Queues /\ Decoders

-----------------------------------------------------------------------------
(* The deltas.                                                             *)

\* b may come right after a.
Follows(a, b) == b.t = "delta" => a.t \in {"key", "delta"} /\ a.n = 1 - b.n

\* A decoder can take m.
Takes(d, m) == m.t = "delta" /\ d.gotKey /\ ~d.jpegMode => d.next = m.n

\* The configuration the relay had kept is in front of a stream that a viewer
\* joined in its middle.
Joined(d, q) == q[1] = CFG /\ ~d.gotKey

\* m may come after all of q.
After(d, q, m) ==
  IF q = <<>> THEN Takes(d, m)
  ELSE Follows(q[Len(q)], m) \/ (Len(q) = 1 /\ Joined(d, q))

\* The delta the agent may send next, if it may.
Ready     == encoder.mode = "h264" /\ ~encoder.fresh
NextDelta == Msg("delta", 1 - encoder.delta)

Chain(q) == \A i \in 1..(Len(q) - 1) : Follows(q[i], q[i + 1])

UpDeltas == Chain(up) /\ (Ready /\ up # <<>> => Follows(up[Len(up)], NextDelta))

DownDeltas(v) ==
  LET d == decoder[v]  q == toViewer[v] IN
    /\ \A i \in 1..(Len(q) - 1) : Follows(q[i], q[i + 1]) \/ (i = 1 /\ Joined(d, q))
    /\ q # <<>> => Takes(d, q[1])
    /\ viewer = v => /\ up # <<>> => After(d, q, up[1])
                     /\ Ready /\ up = <<>> => After(d, q, NextDelta)

Deltas == UpDeltas /\ \A v \in Watched : DownDeltas(v)

-----------------------------------------------------------------------------
(* The JPEGs.                                                              *)

\* All a decoder has is no newer than n; and all JPEGs in a queue.
Below(d, n) ==
  /\ d.painted <= n
  /\ d.busy # None => d.busy <= n
  /\ d.latest # None => d.latest <= n
Under(q, n) == \A i \in 1..Len(q) : q[i].t = "jpeg" => q[i].n <= n

Rising(q) ==
  \A i, j \in 1..Len(q) : i < j /\ q[i].t = "jpeg" /\ q[j].t = "jpeg" => q[i].n <= q[j].n

UpJpegs == Rising(up) /\ Under(up, encoder.jpeg)

DownJpegs(v) ==
  LET d == decoder[v]  q == toViewer[v] IN
    /\ d.busy # None => d.painted <= d.busy
    /\ d.latest # None => d.painted <= d.latest /\ (d.busy # None => d.busy <= d.latest)
    /\ Rising(q)
    /\ \A i \in 1..Len(q) : q[i].t = "jpeg" => Below(d, q[i].n)
    /\ viewer = v =>
         /\ \A i \in 1..Len(up) : up[i].t = "jpeg" => Below(d, up[i].n) /\ Under(q, up[i].n)
         /\ Below(d, encoder.jpeg) /\ Under(q, encoder.jpeg)

Jpegs == UpJpegs /\ \A v \in Watched : DownJpegs(v)

StreamInv == Typed /\ Deltas /\ Jpegs /\ PictureIsWhole

LEMMA JpegIsNat == ASSUME NEW e \in EncoderType PROVE e.jpeg \in Nat /\ e.jpeg <= MaxJpegs
<1>1. MaxJpegs \in Nat BY StreamAssumption
<1>2. e.jpeg \in 0..MaxJpegs BY DEF EncoderType
<1>3. QED BY <1>1, <1>2

LEMMA Elements ==
  ASSUME NEW q \in Seq(Msgs)
  PROVE  /\ Len(q) \in Nat /\ (q = <<>> <=> Len(q) = 0)
         /\ \A i \in 1..Len(q) : q[i] \in Msgs /\ q[i].n \in Nat
<1>1. /\ Len(q) \in Nat /\ (q = <<>> <=> Len(q) = 0)
      /\ \A i \in 1..Len(q) : q[i] \in Msgs
  OBVIOUS
<1>2. \A m \in Msgs : m.n \in Nat BY DEF Msgs
<1>3. QED BY <1>1, <1>2

LEMMA Appended ==
  ASSUME NEW q \in Seq(Msgs), NEW m \in Msgs
  PROVE  /\ Append(q, m) \in Seq(Msgs) /\ Len(Append(q, m)) = Len(q) + 1
         /\ Append(q, m) # <<>> /\ Append(q, m)[Len(q) + 1] = m
         /\ \A i \in 1..Len(q) : Append(q, m)[i] = q[i]
OBVIOUS

-----------------------------------------------------------------------------
(* The agent sends.                                                        *)

\* m is what an agent may send now.
LEMMA SendInv ==
  ASSUME StreamInv, NEW m \in Msgs, Send(m), encoder' \in EncoderType,
         m.t = "delta" => Ready /\ m = NextDelta,
         Ready' => Follows(m, NextDelta'),
         encoder.jpeg <= encoder'.jpeg,
         m.t = "jpeg" => encoder.jpeg <= m.n /\ m.n <= encoder'.jpeg
  PROVE  StreamInv'
<1>1. /\ Streams /\ Len(up) < MaxQueue /\ up' = Append(up, m)
      /\ UNCHANGED <<agent, down, viewer, sock, toViewer, decoder>>
  BY DEF Send
<1>2. Typed /\ up \in Seq(Msgs) /\ encoder \in EncoderType BY DEF StreamInv, Typed, Queues
<1>3. /\ up' \in Seq(Msgs) /\ Len(up') = Len(up) + 1 /\ up' # <<>> /\ up'[Len(up')] = m
      /\ \A i \in 1..Len(up) : up'[i] = up[i]
      /\ up = <<>> => up'[1] = m
      /\ up # <<>> => up'[1] = up[1]
  BY <1>1, <1>2
<1>4. Len(up) \in Nat /\ MaxQueue \in Nat /\ (up = <<>> <=> Len(up) = 0)
  BY <1>2, StreamAssumption
<1>5. Typed'
  <2>1. Sockets' BY <1>1, <1>2 DEF Typed, Sockets
  <2>2. Queues' BY <1>1, <1>2, <1>3, <1>4 DEF Typed, Queues, Streams
  <2>3. Decoders' BY <1>1, <1>2 DEF Typed, Decoders
  <2>4. QED BY <2>1, <2>2, <2>3 DEF Typed
<1>6. UpDeltas'
  <2>1. Chain(up) /\ (up # <<>> => Follows(up[Len(up)], m))
    BY DEF StreamInv, Deltas, UpDeltas, Follows
  <2>2. ASSUME NEW i \in 1..(Len(up') - 1) PROVE Follows(up'[i], up'[i + 1])
    BY <1>3, <1>4, <2>1 DEF Chain
  <2>3. QED BY <1>3, <2>2 DEF UpDeltas, Chain
<1>7. ASSUME NEW v \in Watched PROVE DownDeltas(v)'
  <2>1. DownDeltas(v) BY DEF StreamInv, Deltas
  <2>2. viewer = v /\ up = <<>> => After(decoder[v], toViewer[v], m)
    BY <2>1 DEF DownDeltas, After, Takes, Follows
  <2>3. QED BY <1>1, <1>3, <2>1, <2>2 DEF DownDeltas
<1>8. UpJpegs'
  <2>1. Rising(up) /\ Under(up, encoder.jpeg) BY DEF StreamInv, Jpegs, UpJpegs
  <2>2. encoder.jpeg \in Nat /\ encoder'.jpeg \in Nat /\ m.n \in Nat
        /\ \A i \in 1..Len(up) : up[i].n \in Nat
    <3>1. m.n \in Nat BY DEF Msgs
    <3>2. QED BY <1>2, <3>1, JpegIsNat, Elements
  <2>3. Rising(up')
    <3>1. SUFFICES ASSUME NEW i \in 1..Len(up'), NEW j \in 1..Len(up'), i < j,
                          up'[i].t = "jpeg", up'[j].t = "jpeg"
                   PROVE  up'[i].n <= up'[j].n
      BY DEF Rising
    <3>2. i \in 1..Len(up) /\ up'[i] = up[i] BY <1>3, <1>4, <3>1
    <3>3. CASE j \in 1..Len(up) BY <1>3, <2>1, <3>1, <3>2, <3>3 DEF Rising
    <3>4. CASE j \notin 1..Len(up)
      <4>1. up'[j] = m BY <1>3, <1>4, <3>4
      <4>2. QED BY <2>1, <2>2, <3>1, <3>2, <4>1 DEF Under
    <3>5. QED BY <3>3, <3>4
  <2>4. Under(up', encoder'.jpeg) BY <1>3, <1>4, <2>1, <2>2 DEF Under
  <2>5. QED BY <2>3, <2>4 DEF UpJpegs
<1>9. ASSUME NEW v \in Watched PROVE DownJpegs(v)'
  <2>1. DownJpegs(v) BY DEF StreamInv, Jpegs
  <2>2. /\ encoder.jpeg \in Nat /\ encoder'.jpeg \in Nat /\ m.n \in Nat
        /\ v \in Viewers /\ decoder[v] \in DecoderType
        /\ \A i \in 1..Len(toViewer[v]) : toViewer[v][i].n \in Nat
    <3>1. m.n \in Nat BY DEF Msgs
    <3>2. v \in Viewers BY StreamAssumption
    <3>3. toViewer[v] \in Seq(Msgs) /\ decoder[v] \in DecoderType
      BY <1>2, <3>2 DEF Typed, Queues, Decoders
    <3>4. QED BY <1>2, <3>1, <3>2, <3>3, JpegIsNat, Elements
  <2>3. ASSUME NEW n \in Nat, encoder.jpeg <= n, viewer = v
        PROVE Below(decoder[v], n) /\ Under(toViewer[v], n)
    BY <2>1, <2>2, <2>3 DEF DownJpegs, Below, Under, DecoderType
  <2>4. QED BY <1>1, <1>3, <1>4, <2>1, <2>2, <2>3 DEF DownJpegs
<1>10. PictureIsWhole' BY <1>1 DEF StreamInv, PictureIsWhole
<1>11. QED BY <1>5, <1>6, <1>7, <1>8, <1>9, <1>10 DEF StreamInv, Deltas, Jpegs

LEMMA AgentInv ==
  ASSUME StreamInv, AgentSends
  PROVE  StreamInv'
<1>1. encoder \in EncoderType BY DEF StreamInv, Typed, Queues
<1>2. MaxJpegs \in Nat \ {0} BY StreamAssumption
<1>3. CFG \in Msgs /\ CFG.t = "cfg" /\ KEY \in Msgs /\ KEY.t = "key" /\ KEY.n = 0
  BY DEF CFG, KEY, Msg, Msgs
<1>4. CASE Configure
  <2>1. Send(CFG) /\ encoder' = [encoder EXCEPT !.mode = "h264", !.fresh = TRUE]
    BY <1>4 DEF Configure
  <2>2. encoder' \in EncoderType /\ encoder'.fresh /\ encoder'.jpeg = encoder.jpeg
    BY <1>1, <2>1 DEF EncoderType
  <2>3. encoder.jpeg <= encoder'.jpeg BY <1>1, <2>2, JpegIsNat
  <2>4. QED BY <1>3, <2>1, <2>2, <2>3, SendInv DEF Ready
<1>5. CASE SendJpeg
  <2> DEFINE n == IF encoder.jpeg < MaxJpegs THEN encoder.jpeg + 1 ELSE MaxJpegs
  <2>1. /\ Send(Msg("jpeg", n))
        /\ encoder' = [encoder EXCEPT !.mode = "jpeg", !.jpeg = n, !.force = FALSE]
    BY <1>5 DEF SendJpeg
  <2>2. n \in 0..MaxJpegs /\ encoder.jpeg <= n /\ n \in Nat BY <1>1, <1>2, JpegIsNat
  <2> HIDE DEF n
  <2>3. encoder' \in EncoderType /\ encoder'.mode = "jpeg" /\ encoder'.jpeg = n
    BY <1>1, <2>1, <2>2 DEF EncoderType
  <2>4. Msg("jpeg", n) \in Msgs /\ Msg("jpeg", n).t = "jpeg" /\ Msg("jpeg", n).n = n
    BY <2>2 DEF Msg, Msgs
  <2>5. n <= encoder'.jpeg BY <2>2, <2>3
  <2>6. QED BY <2>1, <2>2, <2>3, <2>4, <2>5, SendInv DEF Ready
<1>6. CASE SendKey
  <2>1. /\ Send(KEY)
        /\ encoder' = [encoder EXCEPT !.fresh = FALSE, !.force = FALSE, !.delta = 0]
    BY <1>6 DEF SendKey
  <2>2. encoder' \in EncoderType /\ encoder'.jpeg = encoder.jpeg /\ encoder'.delta = 0
    BY <1>1, <2>1 DEF EncoderType
  <2>3. Follows(KEY, NextDelta') BY <1>3, <2>2 DEF Follows, NextDelta, Msg
  <2>4. encoder.jpeg <= encoder'.jpeg BY <1>1, <2>2, JpegIsNat
  <2>5. QED BY <1>3, <2>1, <2>2, <2>3, <2>4, SendInv
<1>7. CASE SendDelta
  <2> DEFINE n == 1 - encoder.delta
  <2>1. Send(Msg("delta", n)) /\ Ready /\ encoder' = [encoder EXCEPT !.delta = n]
    BY <1>7 DEF SendDelta, Ready
  <2>2. n \in {0, 1} BY <1>1 DEF EncoderType
  <2> HIDE DEF n
  <2>3. encoder' \in EncoderType /\ encoder'.jpeg = encoder.jpeg /\ encoder'.delta = n
    BY <1>1, <2>1, <2>2 DEF EncoderType
  <2>4. Msg("delta", n) \in Msgs /\ Msg("delta", n).t = "delta" /\ Msg("delta", n).n = n
    BY <2>2 DEF Msg, Msgs
  <2>5. Follows(Msg("delta", n), NextDelta')
    BY <2>2, <2>3, <2>4 DEF Follows, NextDelta, Msg
  <2>6. encoder.jpeg <= encoder'.jpeg BY <1>1, <2>3, JpegIsNat
  <2>7. Msg("delta", n) = NextDelta BY DEF n, NextDelta
  <2>8. QED BY <2>1, <2>3, <2>4, <2>5, <2>6, <2>7, SendInv
<1>8. QED BY <1>4, <1>5, <1>6, <1>7 DEF AgentSends

-----------------------------------------------------------------------------
(* The relay.                                                              *)

\* Steps that move no frame.
LEMMA CalmInv ==
  ASSUME StreamInv, Sockets',
         UNCHANGED <<up, toViewer, viewer, sock, decoder>>,
         Streams => Streams',
         \/ UNCHANGED encoder
         \/ encoder' = [encoder EXCEPT !.force = TRUE]
  PROVE  StreamInv'
<1>1. encoder \in EncoderType BY DEF StreamInv, Typed, Queues
<1>2. /\ encoder' \in EncoderType /\ encoder'.jpeg = encoder.jpeg
      /\ encoder'.delta = encoder.delta /\ encoder'.mode = encoder.mode
      /\ encoder'.fresh = encoder.fresh
  BY <1>1 DEF EncoderType
<1>3. (Ready' <=> Ready) /\ NextDelta' = NextDelta BY <1>2 DEF Ready, NextDelta
<1>4. Queues' BY <1>2 DEF StreamInv, Typed, Queues
<1>5. Decoders' BY DEF StreamInv, Typed, Decoders
<1>6. Deltas' BY <1>3 DEF StreamInv, Deltas, UpDeltas, DownDeltas
<1>7. Jpegs' BY <1>2 DEF StreamInv, Jpegs, UpJpegs, DownJpegs
<1>8. PictureIsWhole' BY DEF StreamInv, PictureIsWhole
<1>9. QED BY <1>4, <1>5, <1>6, <1>7, <1>8 DEF StreamInv, Typed

LEMMA AgentJoinsInv ==
  ASSUME StreamInv, AgentConnect \/ AgentJoin \/ Hear
  PROVE  StreamInv'
<1>1. Sockets BY DEF StreamInv, Typed
<1>2. CASE AgentConnect
  <2>1. Sockets' BY <1>1, <1>2 DEF AgentConnect, Sockets
  <2>2. QED BY <1>2, <2>1, CalmInv DEF AgentConnect, Streams
<1>3. CASE AgentJoin
  <2>1. Sockets' BY <1>1, <1>3 DEF AgentJoin, Sockets
  <2>2. QED BY <1>3, <2>1, CalmInv DEF AgentJoin, Streams
<1>4. CASE Hear
  <2>1. Sockets' BY <1>1, <1>4 DEF Hear, Sockets
  <2>2. QED BY <1>4, <2>1, CalmInv DEF Hear, Streams
<1>5. QED BY <1>2, <1>3, <1>4

\* closeSession: what the agent had sent is gone.
LEMMA CloseInv ==
  ASSUME StreamInv, CloseSession
  PROVE  StreamInv'
<1>1. /\ agent' = "closed" /\ up' = <<>> /\ down' = 0 /\ viewer' = None
      /\ sock' = [v \in Viewers |-> IF v = viewer THEN "closed" ELSE sock[v]]
      /\ encoder' = NoEncoder /\ UNCHANGED <<toViewer, decoder>>
  BY DEF CloseSession
<1>2. Typed /\ MaxQueue \in Nat /\ MaxJpegs \in Nat BY StreamAssumption DEF StreamInv
<1>3. encoder' \in EncoderType /\ encoder'.mode = "off" BY <1>1, <1>2 DEF NoEncoder, EncoderType
<1>4. Len(up') = 0 /\ up' \in Seq(Msgs) BY <1>1
<1>5. \A v \in Viewers : sock'[v] = "unused" => sock[v] = "unused" BY <1>1
<1>6. Watched \subseteq Viewers BY StreamAssumption
<1>7. Sockets' BY <1>1, <1>2 DEF Typed, Sockets
<1>8. Queues' BY <1>1, <1>2, <1>3, <1>4, <1>5 DEF Typed, Queues
<1>9. Decoders' BY <1>1, <1>2, <1>5, <1>6 DEF Typed, Decoders
<1>10. UpDeltas' BY <1>1, <1>3, <1>4 DEF UpDeltas, Chain, Ready
<1>11. UpJpegs' BY <1>1, <1>4 DEF UpJpegs, Rising, Under
<1>12. viewer' \notin Watched BY <1>1, <1>6, StreamAssumption DEF StreamInv
<1>13. ASSUME NEW v \in Watched PROVE DownDeltas(v)' /\ DownJpegs(v)'
  BY <1>1, <1>12 DEF StreamInv, Deltas, DownDeltas, Jpegs, DownJpegs
<1>14. PictureIsWhole' BY <1>1 DEF StreamInv, PictureIsWhole
<1>15. QED
  BY <1>7, <1>8, <1>9, <1>10, <1>11, <1>13, <1>14 DEF StreamInv, Typed, Deltas, Jpegs

LEMMA NewType == NewDecoder \in DecoderType /\ ~NewDecoder.gotKey /\ ~NewDecoder.torn
BY DEF NewDecoder, DecoderType

LEMMA NewIsBelow ==
  ASSUME NEW n \in Nat
  PROVE  Below(NewDecoder, n) /\ NewDecoder.busy = None /\ NewDecoder.latest = None
BY DEF NewDecoder, Below

\* A viewer finds the configuration, if any, and then whatever comes next.
LEMMA JoinInv ==
  ASSUME StreamInv, NEW v \in Viewers, ViewerJoin(v)
  PROVE  StreamInv'
<1>1. /\ sock[v] = "unused" /\ sock' = [sock EXCEPT ![v] = "open"] /\ viewer' = v
      /\ toViewer' = (IF config THEN Push(toViewer, v, CFG) ELSE toViewer)
      /\ down' = (IF agent = "open" THEN down + 1 ELSE down)
      /\ UNCHANGED <<agent, up, encoder, decoder>>
  BY DEF ViewerJoin
<1>2. Typed /\ MaxQueue \in Nat \ {0} /\ Watched \subseteq Viewers /\ None \notin Viewers
  BY StreamAssumption DEF StreamInv
<1>3. toViewer[v] = <<>> /\ toViewer \in [Viewers -> Seq(Msgs)]
  BY <1>1, <1>2 DEF Typed, Queues
<1>4. CFG \in Msgs /\ CFG.t = "cfg" BY DEF CFG, Msg, Msgs
<1>5. /\ toViewer' \in [Viewers -> Seq(Msgs)]
      /\ toViewer'[v] \in {<<>>, <<CFG>>}
      /\ \A w \in Viewers : w # v => toViewer'[w] = toViewer[w]
  BY <1>1, <1>3, <1>4 DEF Push
<1>6. Sockets' BY <1>1, <1>2 DEF Typed, Sockets
<1>7. Queues'
  <2>1. Len(toViewer'[v]) <= MaxQueue
    <3>1. Len(<<>>) = 0 /\ Len(<<CFG>>) = 1 OBVIOUS
    <3>2. 0 <= MaxQueue /\ 1 <= MaxQueue BY <1>2
    <3>3. QED BY <1>5, <3>1, <3>2
  <2>2. \A w \in Viewers : sock'[w] = "unused" => w # v /\ sock[w] = "unused"
    BY <1>1, <1>2 DEF Typed, Sockets
  <2>3. QED BY <1>1, <1>2, <1>5, <2>1, <2>2 DEF Typed, Queues, Streams
<1>8. Decoders' BY <1>1, <1>2 DEF Typed, Decoders, Sockets
<1>9. UpDeltas' /\ UpJpegs'
  BY <1>1 DEF StreamInv, Deltas, UpDeltas, Ready, NextDelta, Jpegs, UpJpegs
<1>10. ASSUME NEW w \in Watched, w # v PROVE DownDeltas(w)' /\ DownJpegs(w)'
  <2>1. w \in Viewers /\ viewer' # w BY <1>1, <1>2, <1>10
  <2>2. QED BY <1>1, <1>5, <1>10, <2>1 DEF StreamInv, Deltas, DownDeltas, Jpegs, DownJpegs
<1>11. ASSUME v \in Watched PROVE DownDeltas(v)' /\ DownJpegs(v)'
  <2>1. decoder'[v] = NewDecoder BY <1>1, <1>2, <1>11 DEF Typed, Decoders
  <2>2. \A m : Takes(NewDecoder, m) BY NewType DEF Takes
  <2>3. CASE toViewer'[v] = <<>>
    <3>1. Len(toViewer'[v]) = 0 BY <2>3
    <3>2. DownDeltas(v)' BY <2>1, <2>2, <2>3, <3>1 DEF DownDeltas, After
    <3>3. \A n : Under(toViewer'[v], n) BY <3>1 DEF Under
    <3>4. Rising(toViewer'[v]) BY <3>1 DEF Rising
    <3>5. up \in Seq(Msgs) /\ encoder \in EncoderType BY <1>2 DEF Typed, Queues
    <3>6. DownJpegs(v)'
      BY <1>1, <2>1, <3>1, <3>3, <3>4, <3>5, NewIsBelow, JpegIsNat, Elements DEF DownJpegs
    <3>7. QED BY <3>2, <3>6
  <2>4. CASE toViewer'[v] = <<CFG>>
    <3>1. Len(toViewer'[v]) = 1 /\ toViewer'[v][1] = CFG /\ toViewer'[v] # <<>> BY <2>4
    <3>2. DownDeltas(v)' BY <2>1, <2>2, <3>1, NewType DEF DownDeltas, After, Joined
    <3>3. \A i \in 1..Len(toViewer'[v]) : toViewer'[v][i].t # "jpeg" BY <1>4, <3>1
    <3>4. \A n : Under(toViewer'[v], n) BY <3>3 DEF Under
    <3>5. Rising(toViewer'[v]) BY <3>3 DEF Rising
    <3>6. up \in Seq(Msgs) /\ encoder \in EncoderType BY <1>2 DEF Typed, Queues
    <3>7. DownJpegs(v)'
      BY <1>1, <2>1, <3>3, <3>4, <3>5, <3>6, NewIsBelow, JpegIsNat, Elements DEF DownJpegs
    <3>8. QED BY <3>2, <3>7
  <2>5. QED BY <1>5, <2>3, <2>4
<1>12. PictureIsWhole' BY <1>1 DEF StreamInv, PictureIsWhole
<1>13. QED
  BY <1>6, <1>7, <1>8, <1>9, <1>10, <1>11, <1>12 DEF StreamInv, Typed, Deltas, Jpegs

LEMMA LeaveInv ==
  ASSUME StreamInv, NEW v \in Viewers, ViewerClose(v)
  PROVE  StreamInv'
<1>1. /\ sock[v] = "open" /\ sock' = [sock EXCEPT ![v] = "closed"]
      /\ toViewer' = [toViewer EXCEPT ![v] = <<>>]
      /\ decoder' = [w \in Watched |-> IF w = v THEN NewDecoder ELSE decoder[w]]
      /\ viewer' = (IF viewer = v THEN None ELSE viewer)
      /\ UNCHANGED <<agent, up, down, encoder>>
  BY DEF ViewerClose
<1>2. Typed /\ MaxQueue \in Nat /\ Watched \subseteq Viewers /\ None \notin Viewers
  BY StreamAssumption DEF StreamInv
<1>3. /\ toViewer' \in [Viewers -> Seq(Msgs)] /\ toViewer'[v] = <<>> /\ Len(toViewer'[v]) = 0
      /\ \A w \in Viewers : w # v => toViewer'[w] = toViewer[w]
  BY <1>1, <1>2 DEF Typed, Queues
<1>4. sock'[v] = "closed" /\ \A w \in Viewers : w # v => sock'[w] = sock[w]
  BY <1>1, <1>2 DEF Typed, Sockets
<1>5. Sockets' BY <1>1, <1>2, <1>4 DEF Typed, Sockets
<1>6. Queues' BY <1>1, <1>2, <1>3, <1>4 DEF Typed, Queues, Streams
<1>7. Decoders'
  <2>1. decoder' \in [Watched -> DecoderType] BY <1>1, <1>2, NewType DEF Typed, Decoders
  <2>2. NewDecoder.latest = None BY DEF NewDecoder
  <2>3. QED BY <1>1, <1>2, <1>4, <2>1, <2>2 DEF Typed, Decoders
<1>8. UpDeltas' /\ UpJpegs'
  BY <1>1 DEF StreamInv, Deltas, UpDeltas, Ready, NextDelta, Jpegs, UpJpegs
<1>9. ASSUME NEW w \in Watched PROVE DownDeltas(w)' /\ DownJpegs(w)' /\ ~decoder'[w].torn
  <2>1. w \in Viewers BY <1>2
  <2>2. CASE w = v
    <3>1. viewer' # w /\ decoder'[w] = NewDecoder BY <1>1, <1>2, <1>9, <2>1, <2>2
    <3>2. DownDeltas(w)' BY <1>3, <2>2, <3>1 DEF DownDeltas
    <3>3. NewDecoder.busy = None /\ NewDecoder.latest = None BY DEF NewDecoder
    <3>4. DownJpegs(w)' BY <1>3, <2>2, <3>1, <3>3 DEF DownJpegs, Rising
    <3>5. QED BY <3>1, <3>2, <3>4, NewType
  <2>3. CASE w # v
    <3>1. /\ decoder'[w] = decoder[w] /\ toViewer'[w] = toViewer[w]
          /\ (viewer' = w => viewer = w)
      BY <1>1, <1>2, <1>3, <2>1, <2>3
    <3>2. Ready' = Ready /\ NextDelta' = NextDelta BY <1>1 DEF Ready, NextDelta
    <3>3. DownDeltas(w)' BY <1>1, <3>1, <3>2 DEF StreamInv, Deltas, DownDeltas
    <3>4. DownJpegs(w)' BY <1>1, <3>1 DEF StreamInv, Jpegs, DownJpegs
    <3>5. ~decoder'[w].torn BY <3>1, Zenon DEF StreamInv, PictureIsWhole
    <3>6. QED BY <3>3, <3>4, <3>5
  <2>4. QED BY <2>2, <2>3
<1>10. PictureIsWhole' BY <1>9, Zenon DEF PictureIsWhole
<1>11. QED BY <1>5, <1>6, <1>7, <1>8, <1>9, <1>10 DEF StreamInv, Typed, Deltas, Jpegs

\* A message goes on: its place is behind what the viewer has yet to receive.
LEMMA RelayInv ==
  ASSUME StreamInv, Relay
  PROVE  StreamInv'
<1> DEFINE m == Head(up)
<1>1. /\ agent = "open" /\ up # <<>> /\ up' = Tail(up)
      /\ UNCHANGED <<agent, down, viewer, sock, encoder, decoder>>
      /\ viewer = None => UNCHANGED toViewer
      /\ viewer # None => /\ Len(toViewer[viewer]) < MaxQueue
                          /\ toViewer' = Push(toViewer, viewer, m)
  BY DEF Relay
<1>2. Typed /\ MaxQueue \in Nat /\ Watched \subseteq Viewers /\ None \notin Viewers
  BY StreamAssumption DEF StreamInv
<1>3. up \in Seq(Msgs) /\ Len(up) <= MaxQueue BY <1>2 DEF Typed, Queues
<1>4. /\ m = up[1] /\ m \in Msgs /\ up' \in Seq(Msgs) /\ Len(up') = Len(up) - 1
      /\ Len(up) \in Nat /\ Len(up) >= 1 /\ (up' = <<>> <=> Len(up) = 1)
      /\ \A i \in 1..Len(up') : up'[i] = up[i + 1]
  <2>1. Len(up) \in Nat /\ Len(up) >= 1 BY <1>1, <1>3
  <2>2. m = up[1] /\ up[1] \in Msgs BY <1>1, <1>3, <2>1
  <2>3. up' \in Seq(Msgs) /\ Len(up') = Len(up) - 1 BY <1>1, <1>3
  <2>4. \A i \in 1..Len(up') : up'[i] = up[i + 1] BY <1>1, <1>3, <2>1
  <2>5. QED BY <2>1, <2>2, <2>3, <2>4, Elements
<1> HIDE DEF m
<1>5. viewer # None => viewer \in Viewers BY <1>2 DEF Typed, Sockets
<1>6. \A w \in Viewers : toViewer[w] \in Seq(Msgs) /\ Len(toViewer[w]) \in Nat
  BY <1>2 DEF Typed, Queues
<1>7. \A w \in Viewers :
        toViewer'[w] = IF w = viewer THEN Append(toViewer[w], m) ELSE toViewer[w]
  BY <1>1, <1>2, <1>5 DEF Push, Typed, Queues
<1>8. toViewer' \in [Viewers -> Seq(Msgs)]
  <2>1. CASE viewer = None BY <1>1, <1>2, <2>1 DEF Typed, Queues
  <2>2. CASE viewer # None
    <3>1. Append(toViewer[viewer], m) \in Seq(Msgs) BY <1>4, <1>5, <1>6, <2>2, Appended
    <3>2. toViewer' = [toViewer EXCEPT ![viewer] = Append(toViewer[viewer], m)]
      BY <1>1, <2>2 DEF Push
    <3>3. QED BY <1>2, <3>1, <3>2 DEF Typed, Queues
  <2>3. QED BY <2>1, <2>2
<1>9. Sockets' /\ Decoders' BY <1>1, <1>2 DEF Typed, Sockets, Decoders
<1>10. Queues'
  <2>1. ASSUME NEW w \in Viewers
        PROVE  Len(toViewer'[w]) <= MaxQueue /\ (sock'[w] = "unused" => toViewer'[w] = <<>>)
    <3>1. CASE w = viewer
      <4>1. sock[w] = "open" /\ Len(toViewer[w]) < MaxQueue
        BY <1>1, <1>2, <3>1 DEF Typed, Sockets
      <4>2. Len(toViewer'[w]) = Len(toViewer[w]) + 1
        <5>1. toViewer'[w] = Append(toViewer[w], m) BY <1>7, <3>1
        <5>2. QED BY <1>4, <1>6, <5>1, Appended
      <4>3. QED BY <1>1, <1>2, <1>6, <4>1, <4>2
    <3>2. CASE w # viewer BY <1>1, <1>2, <1>7, <3>2 DEF Typed, Queues
    <3>3. QED BY <3>1, <3>2
  <2>2. QED BY <1>1, <1>2, <1>3, <1>4, <1>8, <2>1 DEF Typed, Queues, Streams
<1>11. Ready' = Ready /\ NextDelta' = NextDelta BY <1>1 DEF Ready, NextDelta
<1>12. UpDeltas BY DEF StreamInv, Deltas
<1>13. UpDeltas' BY <1>4, <1>11, <1>12 DEF UpDeltas, Chain
<1>14. UpJpegs BY DEF StreamInv, Jpegs
<1>15. UpJpegs' BY <1>1, <1>4, <1>14 DEF UpJpegs, Rising, Under
<1>16. ASSUME NEW w \in Watched, w # viewer PROVE DownDeltas(w)' /\ DownJpegs(w)'
  <2>1. toViewer'[w] = toViewer[w] /\ viewer' # w /\ decoder' = decoder
    BY <1>1, <1>2, <1>7, <1>16
  <2>2. QED BY <2>1 DEF StreamInv, Deltas, DownDeltas, Jpegs, DownJpegs
<1>17. ASSUME NEW w \in Watched, w = viewer PROVE DownDeltas(w)' /\ DownJpegs(w)'
  <2> DEFINE q == toViewer[w]  d == decoder[w]
  <2>1. /\ decoder'[w] = d /\ q \in Seq(Msgs) /\ Len(q) \in Nat /\ (q = <<>> <=> Len(q) = 0)
        /\ toViewer'[w] = Append(q, m)
    <3>1. w \in Viewers BY <1>2
    <3>2. QED BY <1>1, <1>6, <1>7, <1>17, <3>1, Elements
  <2>2. /\ Len(toViewer'[w]) = Len(q) + 1 /\ toViewer'[w] # <<>>
        /\ toViewer'[w][Len(q) + 1] = m
        /\ \A i \in 1..Len(q) : toViewer'[w][i] = q[i]
    BY <1>4, <2>1, Appended
  <2>3. DownDeltas(w) /\ After(d, q, m) BY <1>1, <1>4, <1>17 DEF StreamInv, Deltas, DownDeltas
  <2> HIDE DEF q, d
  <2>4. ASSUME NEW i \in 1..(Len(toViewer'[w]) - 1)
        PROVE  \/ Follows(toViewer'[w][i], toViewer'[w][i + 1])
               \/ i = 1 /\ Joined(d, toViewer'[w])
    <3>1. i \in 1..Len(q) /\ toViewer'[w][i] = q[i] /\ q # <<>> BY <2>1, <2>2
    <3>2. CASE i = Len(q) BY <2>1, <2>2, <2>3, <3>1, <3>2 DEF After, Joined
    <3>3. CASE i # Len(q)
      <4>1. i \in 1..(Len(q) - 1) /\ toViewer'[w][i + 1] = q[i + 1] /\ toViewer'[w][1] = q[1]
        BY <2>1, <2>2, <3>1, <3>3
      <4>2. QED BY <2>3, <3>1, <4>1 DEF DownDeltas, Joined, q, d
    <3>4. QED BY <3>2, <3>3
  <2>5. Takes(d, toViewer'[w][1])
    <3>1. CASE q = <<>> BY <2>1, <2>2, <2>3, <3>1 DEF After
    <3>2. CASE q # <<>>
      <4>1. toViewer'[w][1] = q[1] BY <2>1, <2>2, <3>2
      <4>2. QED BY <2>3, <3>2, <4>1 DEF DownDeltas, q, d
    <3>3. QED BY <3>1, <3>2
  <2>6. \A b : Follows(m, b) => After(d, toViewer'[w], b) BY <2>2 DEF After
  <2>7. /\ up' # <<>> => Follows(m, up'[1])
        /\ Ready /\ up' = <<>> => Follows(m, NextDelta)
    BY <1>1, <1>4, <1>12 DEF UpDeltas, Chain
  <2>8. DownDeltas(w)'
    BY <1>11, <2>1, <2>2, <2>4, <2>5, <2>6, <2>7 DEF DownDeltas
  <2>9. DownJpegs(w) BY DEF StreamInv, Jpegs
  <2>10. /\ m.t = "jpeg" => Below(d, m.n) /\ Under(q, m.n) /\ m.n <= encoder.jpeg
         /\ Below(d, encoder.jpeg) /\ Under(q, encoder.jpeg)
    BY <1>4, <1>14, <1>17, <2>9 DEF DownJpegs, UpJpegs, Under, q, d
  <2>11. \A n : Under(q, n) /\ (m.t = "jpeg" => m.n <= n) => Under(toViewer'[w], n)
    BY <2>1, <2>2 DEF Under
  <2>12. Rising(toViewer'[w])
    <3>1. SUFFICES ASSUME NEW i \in 1..(Len(q) + 1), NEW j \in 1..(Len(q) + 1), i < j,
                          toViewer'[w][i].t = "jpeg", toViewer'[w][j].t = "jpeg"
                   PROVE  toViewer'[w][i].n <= toViewer'[w][j].n
      BY <2>2 DEF Rising
    <3>2. i \in 1..Len(q) /\ toViewer'[w][i] = q[i] BY <2>1, <2>2, <3>1
    <3>3. CASE j = Len(q) + 1 BY <2>2, <2>10, <3>1, <3>2, <3>3 DEF Under
    <3>4. CASE j # Len(q) + 1
      <4>1. j \in 1..Len(q) /\ toViewer'[w][j] = q[j] BY <2>1, <2>2, <3>4
      <4>2. Rising(q) BY <2>9 DEF DownJpegs, q
      <4>3. QED BY <3>1, <3>2, <4>1, <4>2 DEF Rising
    <3>5. QED BY <3>3, <3>4
  <2>13. \A i \in 1..Len(toViewer'[w]) :
           toViewer'[w][i].t = "jpeg" => Below(d, toViewer'[w][i].n)
    BY <2>1, <2>2, <2>9, <2>10 DEF DownJpegs, q, d
  <2>14. \A i \in 1..Len(up') : up'[i].t = "jpeg" =>
           Below(d, up'[i].n) /\ Under(q, up'[i].n) /\ (m.t = "jpeg" => m.n <= up'[i].n)
    <3>1. ASSUME NEW i \in 1..Len(up'), up'[i].t = "jpeg"
          PROVE  /\ Below(d, up'[i].n) /\ Under(q, up'[i].n)
                 /\ m.t = "jpeg" => m.n <= up'[i].n
      <4>1. up'[i] = up[i + 1] /\ i + 1 \in 1..Len(up) /\ 1 \in 1..Len(up) /\ 1 < i + 1
        BY <1>4
      <4>2. Rising(up) BY <1>14 DEF UpJpegs
      <4>3. m.t = "jpeg" => m.n <= up[i + 1].n BY <1>4, <3>1, <4>1, <4>2 DEF Rising
      <4>4. QED BY <1>17, <2>9, <3>1, <4>1, <4>3 DEF DownJpegs, q, d
    <3>2. QED BY <3>1
  <2>15. DownJpegs(w)'
    BY <1>1, <2>1, <2>9, <2>10, <2>11, <2>12, <2>13, <2>14 DEF DownJpegs, d
  <2>16. QED BY <2>8, <2>15
<1>18. PictureIsWhole' BY <1>1 DEF StreamInv, PictureIsWhole
<1>19. QED
  BY <1>9, <1>10, <1>13, <1>15, <1>16, <1>17, <1>18 DEF StreamInv, Typed, Deltas, Jpegs

-----------------------------------------------------------------------------
(* The page.                                                               *)

\* What a decoder has, in the order it came.
Ordered(d) ==
  /\ d.busy # None => d.painted <= d.busy
  /\ d.latest # None => d.busy # None /\ d.painted <= d.latest /\ d.busy <= d.latest

\* What a decoder becomes: it takes what may follow m, and is no newer than m
\* or itself.
Becomes(d, m, e) ==
  /\ e \in DecoderType /\ ~e.torn /\ Ordered(e)
  /\ \A b \in Msgs : Follows(m, b) => Takes(e, b)
  /\ m = CFG /\ ~d.gotKey => ~e.gotKey
  /\ \A n \in Nat : Below(d, n) /\ (m.t = "jpeg" => m.n <= n) => Below(e, n)

LEMMA PaintMoves ==
  ASSUME NEW d \in DecoderType, NEW n \in Nat, Below(d, n), d.latest = n
  PROVE  LET e == paintJpeg(d) IN
           /\ e \in DecoderType /\ e.torn = d.torn /\ e.gotKey = d.gotKey
           /\ e.jpegMode = d.jpegMode /\ e.painted = d.painted
           /\ e.busy = IF d.busy = None THEN n ELSE d.busy
           /\ e.latest = IF d.busy = None THEN None ELSE n
<1>1. n # None BY StreamAssumption
<1>2. QED BY <1>1 DEF DecoderType, paintJpeg

LEMMA Received ==
  ASSUME NEW d \in DecoderType, NEW m \in Msgs, ~d.torn, Ordered(d), Takes(d, m),
         m.t = "jpeg" => Below(d, m.n)
  PROVE  Becomes(d, m, onmessage(d, m))
<1>1. m.n \in Nat /\ None \notin Nat /\ CFG.t = "cfg"
  BY StreamAssumption DEF Msgs, CFG, Msg
<1>2. CASE m.t = "jpeg"
  <2>1. PICK c : c = [d EXCEPT !.jpegMode = TRUE, !.latest = m.n] BY Zenon
  <2>2. /\ c \in DecoderType /\ c.latest = m.n /\ c.busy = d.busy /\ c.painted = d.painted
        /\ c.jpegMode /\ c.gotKey = d.gotKey /\ c.torn = d.torn
    BY <1>1, <2>1 DEF DecoderType
  <2>3. Below(c, m.n) BY <1>1, <1>2, <2>2 DEF Below
  <2>4. PICK e : e = paintJpeg(c) BY Zenon
  <2>5. /\ e \in DecoderType /\ e.torn = c.torn /\ e.gotKey = c.gotKey
        /\ e.jpegMode = c.jpegMode /\ e.painted = c.painted
        /\ e.busy = IF c.busy = None THEN m.n ELSE c.busy
        /\ e.latest = IF c.busy = None THEN None ELSE m.n
    BY <1>1, <2>2, <2>3, <2>4, PaintMoves
  <2>6. onmessage(d, m) = e BY <1>2, <2>1, <2>4 DEF onmessage
  <2>7. Ordered(e) BY <1>1, <1>2, <2>2, <2>5 DEF Ordered, Below
  <2>8. \A b \in Msgs : Takes(e, b) BY <2>2, <2>5 DEF Takes
  <2>9. \A n \in Nat : Below(d, n) /\ m.n <= n => Below(e, n)
    BY <1>1, <2>2, <2>5 DEF Below
  <2>10. m # CFG BY <1>1, <1>2
  <2>11. ~e.torn BY <2>2, <2>5
  <2>12. QED BY <1>2, <2>5, <2>6, <2>7, <2>8, <2>9, <2>10, <2>11 DEF Becomes
<1>3. CASE m.t = "cfg"
  <2>1. PICK e : e = [d EXCEPT !.jpegMode = FALSE] BY Zenon
  <2>2. /\ e \in DecoderType /\ e.latest = d.latest /\ e.busy = d.busy
        /\ e.painted = d.painted /\ e.gotKey = d.gotKey /\ e.torn = d.torn
    BY <2>1 DEF DecoderType
  <2>3. onmessage(d, m) = e BY <1>3, <2>1 DEF onmessage
  <2>4. \A b \in Msgs : Follows(m, b) => Takes(e, b) BY <1>3 DEF Follows, Takes
  <2>5. QED BY <1>3, <2>2, <2>3, <2>4 DEF Becomes, Ordered, Below
<1>4. CASE m.t \in {"key", "delta"}
  <2>1. m # CFG /\ m.t # "jpeg" BY <1>1, <1>4
  <2>2. CASE d.jpegMode \/ (m.t = "delta" /\ ~d.gotKey)
    <3>1. onmessage(d, m) = d BY <1>4, <2>2 DEF onmessage, decode
    <3>2. \A b \in Msgs : Follows(m, b) => Takes(d, b) BY <1>4, <2>2 DEF Follows, Takes
    <3>3. QED BY <2>1, <3>1, <3>2 DEF Becomes
  <2>3. CASE ~d.jpegMode /\ (m.t = "delta" => d.gotKey)
    <3>1. ~(m.t = "delta" /\ m.n # d.next) BY <2>3 DEF Takes
    <3>2. (d.torn \/ (m.t = "delta" /\ m.n # d.next)) = FALSE BY <3>1, Zenon
    <3>3. onmessage(d, m) = [d EXCEPT !.gotKey = TRUE, !.pic = TRUE, !.next = 1 - m.n,
                               !.torn = d.torn \/ (m.t = "delta" /\ m.n # d.next)]
      BY <1>4, <2>3, Zenon DEF onmessage, decode
    <3>4. PICK e : e = [d EXCEPT !.gotKey = TRUE, !.pic = TRUE, !.next = 1 - m.n,
                               !.torn = FALSE]
      BY Zenon
    <3>5. onmessage(d, m) = e BY <3>2, <3>3, <3>4, Zenon
    <3>6. /\ e \in DecoderType /\ e.latest = d.latest /\ e.busy = d.busy
          /\ e.painted = d.painted /\ e.next = 1 - m.n /\ e.torn = FALSE
      <4>1. PICK k \in Int : k = 1 - m.n BY <1>1
      <4>2. e = [d EXCEPT !.gotKey = TRUE, !.pic = TRUE, !.next = k, !.torn = FALSE]
        BY <3>4, <4>1, Zenon
      <4>3. QED BY <4>1, <4>2 DEF DecoderType
    <3>7. ASSUME NEW b \in Msgs, Follows(m, b), b.t = "delta" PROVE e.next = b.n
      <4>1. m.n = 1 - b.n BY <3>7 DEF Follows
      <4>2. b.n \in Nat BY DEF Msgs
      <4>3. QED BY <3>6, <4>1, <4>2
    <3>8. \A b \in Msgs : Follows(m, b) => Takes(e, b) BY <3>7 DEF Takes
    <3>9. ~e.torn BY <3>6
    <3>10. QED BY <2>1, <3>5, <3>6, <3>8, <3>9 DEF Becomes, Ordered, Below
  <2>4. QED BY <2>2, <2>3
<1>5. QED BY <1>2, <1>3, <1>4 DEF Msgs

\* What the invariant says of one decoder.
LEMMA DecoderFacts ==
  ASSUME StreamInv, NEW v \in Watched
  PROVE  /\ v \in Viewers /\ decoder[v] \in DecoderType /\ ~decoder[v].torn
         /\ Ordered(decoder[v]) /\ toViewer[v] \in Seq(Msgs) /\ encoder.jpeg \in Nat
         /\ up \in Seq(Msgs) /\ NextDelta \in Msgs
<1>1. v \in Viewers BY StreamAssumption
<1>2. /\ decoder[v] \in DecoderType /\ toViewer[v] \in Seq(Msgs) /\ up \in Seq(Msgs)
      /\ encoder \in EncoderType
  BY <1>1 DEF StreamInv, Typed, Decoders, Queues
<1>3. ~decoder[v].torn BY DEF StreamInv, PictureIsWhole
<1>4. Ordered(decoder[v]) BY DEF StreamInv, Typed, Decoders, Jpegs, DownJpegs, Ordered
<1>5. NextDelta \in Msgs
  <2>1. encoder.delta \in {0, 1} BY <1>2 DEF EncoderType
  <2>2. PICK k \in Nat : k = 1 - encoder.delta BY <2>1
  <2>3. QED BY <2>2 DEF NextDelta, Msg, Msgs
<1>6. QED BY <1>1, <1>2, <1>3, <1>4, <1>5, JpegIsNat

LEMMA ReceiveInv ==
  ASSUME StreamInv, NEW v \in Viewers, Receive(v)
  PROVE  StreamInv'
<1> DEFINE q == toViewer[v]  m == Head(q)
<1>1. /\ q # <<>> /\ toViewer' = [toViewer EXCEPT ![v] = Tail(@)]
      /\ decoder' = [w \in Watched |-> IF w = v THEN onmessage(decoder[w], m) ELSE decoder[w]]
      /\ UNCHANGED <<agent, up, down, viewer, sock, encoder>>
  BY DEF Receive
<1>2. Typed /\ MaxQueue \in Nat /\ Watched \subseteq Viewers
  BY StreamAssumption DEF StreamInv
<1>3. q \in Seq(Msgs) /\ Len(q) <= MaxQueue BY <1>2 DEF Typed, Queues
<1>4. /\ m = q[1] /\ m \in Msgs /\ toViewer'[v] \in Seq(Msgs)
      /\ Len(toViewer'[v]) = Len(q) - 1 /\ Len(q) \in Nat /\ Len(q) >= 1
      /\ (toViewer'[v] = <<>> <=> Len(q) = 1)
      /\ \A i \in 1..Len(toViewer'[v]) : toViewer'[v][i] = q[i + 1]
  <2>1. Len(q) \in Nat /\ Len(q) >= 1 BY <1>1, <1>3
  <2>2. m = q[1] /\ q[1] \in Msgs BY <1>1, <1>3, <2>1
  <2>3. toViewer'[v] = Tail(q) BY <1>1, <1>2 DEF Typed, Queues
  <2>4. Tail(q) \in Seq(Msgs) /\ Len(Tail(q)) = Len(q) - 1 BY <1>1, <1>3
  <2>5. \A i \in 1..Len(Tail(q)) : Tail(q)[i] = q[i + 1] BY <1>1, <1>3, <2>1
  <2>6. toViewer'[v] \in Seq(Msgs) /\ Len(toViewer'[v]) = Len(q) - 1 BY <2>3, <2>4
  <2>7. m \in Msgs BY <2>2
  <2> HIDE DEF q, m
  <2>8. toViewer'[v] = <<>> <=> Len(q) = 1
    <3>1. toViewer'[v] = <<>> <=> Len(toViewer'[v]) = 0 BY <2>6, Elements
    <3>2. QED BY <2>1, <2>6, <3>1
  <2>9. QED BY <2>1, <2>2, <2>3, <2>5, <2>6, <2>7, <2>8
<1> HIDE DEF q, m
<1>5. \A w \in Viewers : w # v => toViewer'[w] = toViewer[w] BY <1>1
<1>6. \A w \in Watched : w # v => decoder'[w] = decoder[w] BY <1>1
<1>7. sock[v] # "unused" BY <1>1, <1>2 DEF Typed, Queues, q
<1>8. v \in Watched => Becomes(decoder[v], m, decoder'[v])
  <2>1. SUFFICES ASSUME v \in Watched PROVE Becomes(decoder[v], m, decoder'[v]) OBVIOUS
  <2>2. Takes(decoder[v], m)
    BY <1>1, <1>4, <2>1 DEF StreamInv, Deltas, DownDeltas, q
  <2>3. m.t = "jpeg" => Below(decoder[v], m.n)
    BY <1>4, <2>1 DEF StreamInv, Jpegs, DownJpegs, q
  <2>4. decoder'[v] = onmessage(decoder[v], m) BY <1>1, <2>1
  <2>5. QED BY <1>4, <2>1, <2>2, <2>3, <2>4, DecoderFacts, Received
<1>9. Sockets' BY <1>1, <1>2 DEF Typed, Sockets
<1>10. Queues'
  <2>1. toViewer' \in [Viewers -> Seq(Msgs)]
    <3>1. toViewer' = [toViewer EXCEPT ![v] = toViewer'[v]] BY <1>1, <1>2 DEF Typed, Queues
    <3>2. QED BY <1>2, <1>4, <3>1 DEF Typed, Queues
  <2>2. Len(toViewer'[v]) <= MaxQueue BY <1>2, <1>3, <1>4
  <2>3. QED BY <1>1, <1>2, <1>5, <1>7, <2>1, <2>2 DEF Typed, Queues, Streams
<1>11. Decoders' /\ PictureIsWhole'
  <2>1. ASSUME NEW w \in Watched
        PROVE  /\ decoder'[w] \in DecoderType /\ ~decoder'[w].torn
               /\ decoder'[w].latest # None => decoder'[w].busy # None
    BY <1>6, <1>8, DecoderFacts DEF Becomes, Ordered
  <2>2. DOMAIN decoder' = Watched /\ decoder' = [w \in Watched |-> decoder'[w]] BY <1>1
  <2>3. decoder' \in [Watched -> DecoderType] BY <2>1, <2>2
  <2>4. QED BY <1>1, <1>2, <1>6, <1>7, <2>1, <2>3 DEF Typed, Decoders, PictureIsWhole
<1>12. Ready' = Ready /\ NextDelta' = NextDelta BY <1>1 DEF Ready, NextDelta
<1>13. UpDeltas' /\ UpJpegs'
  BY <1>1, <1>12 DEF StreamInv, Deltas, UpDeltas, Jpegs, UpJpegs
<1>14. ASSUME NEW w \in Watched, w # v PROVE DownDeltas(w)' /\ DownJpegs(w)'
  BY <1>1, <1>2, <1>5, <1>6, <1>12, <1>14
     DEF StreamInv, Deltas, DownDeltas, Jpegs, DownJpegs
<1>15. ASSUME v \in Watched PROVE DownDeltas(v)' /\ DownJpegs(v)'
  <2> DEFINE d == decoder[v]  e == decoder'[v]
  <2>1. Becomes(d, m, e) BY <1>8, <1>15
  <2>2. /\ up \in Seq(Msgs) /\ NextDelta \in Msgs /\ encoder.jpeg \in Nat
        /\ \A i \in 1..Len(q) : q[i] \in Msgs /\ q[i].n \in Nat
        /\ \A i \in 1..Len(up) : up[i] \in Msgs /\ up[i].n \in Nat
        /\ up # <<>> => 1 \in 1..Len(up)
    BY <1>3, <1>15, DecoderFacts, Elements
  <2>3. /\ \A i \in 1..(Len(q) - 1) : Follows(q[i], q[i + 1]) \/ (i = 1 /\ Joined(d, q))
        /\ viewer = v => /\ up # <<>> => After(d, q, up[1])
                         /\ Ready /\ up = <<>> => After(d, q, NextDelta)
    BY <1>15 DEF StreamInv, Deltas, DownDeltas, q
  <2>4. \A b \in Msgs : Follows(m, b) \/ Joined(d, q) => Takes(e, b)
    BY <1>4, <2>1 DEF Becomes, Joined, Takes
  <2> HIDE DEF d, e
  <2>5. ASSUME NEW i \in 1..(Len(toViewer'[v]) - 1)
        PROVE  Follows(toViewer'[v][i], toViewer'[v][i + 1])
    <3>1. /\ toViewer'[v][i] = q[i + 1] /\ toViewer'[v][i + 1] = q[i + 2]
          /\ i + 1 \in 1..(Len(q) - 1) /\ i + 1 # 1 /\ (i + 1) + 1 = i + 2
      BY <1>4
    <3>2. QED BY <2>3, <3>1
  <2>6. ASSUME toViewer'[v] # <<>> PROVE Takes(e, toViewer'[v][1])
    <3>1. toViewer'[v][1] = q[2] /\ 1 \in 1..(Len(q) - 1) /\ 2 \in 1..Len(q) /\ 1 + 1 = 2
      BY <1>4, <2>6
    <3>2. QED BY <1>4, <2>2, <2>3, <2>4, <3>1
  <2>7. ASSUME NEW b \in Msgs, After(d, q, b) PROVE After(e, toViewer'[v], b)
    <3>1. CASE Len(q) = 1
      <4>1. Takes(e, b) BY <1>1, <1>4, <2>4, <2>7, <3>1 DEF After
      <4>2. QED BY <1>4, <3>1, <4>1 DEF After
    <3>2. CASE Len(q) # 1
      <4>1. /\ toViewer'[v] # <<>>
            /\ toViewer'[v][Len(toViewer'[v])] = q[Len(q)]
        BY <1>4, <3>2
      <4>2. Follows(q[Len(q)], b) BY <1>1, <2>7, <3>2 DEF After
      <4>3. QED BY <4>1, <4>2 DEF After
    <3>3. QED BY <3>1, <3>2
  <2>8. DownDeltas(v)'
    BY <1>1, <1>12, <2>2, <2>3, <2>5, <2>6, <2>7 DEF DownDeltas, e
  <2>9. DownJpegs(v) BY <1>15 DEF StreamInv, Jpegs
  <2>10. \A n \in Nat : Below(d, n) /\ Under(q, n) => Below(e, n) /\ Under(toViewer'[v], n)
    <3>1. SUFFICES ASSUME NEW n \in Nat, Below(d, n), Under(q, n)
                   PROVE  Below(e, n) /\ Under(toViewer'[v], n)
      OBVIOUS
    <3>2. 1 \in 1..Len(q) BY <1>4
    <3>3. Below(e, n) BY <1>4, <2>1, <3>1, <3>2 DEF Becomes, Under
    <3>4. \A i \in 1..Len(toViewer'[v]) : i + 1 \in 1..Len(q) BY <1>4
    <3>5. Under(toViewer'[v], n) BY <1>4, <3>1, <3>4 DEF Under
    <3>6. QED BY <3>3, <3>5
  <2>11. Rising(toViewer'[v])
    <3>1. \A i, j \in 1..Len(toViewer'[v]) : i < j =>
            i + 1 \in 1..Len(q) /\ j + 1 \in 1..Len(q) /\ i + 1 < j + 1
      BY <1>4
    <3>2. Rising(q) BY <2>9 DEF DownJpegs, q
    <3>3. QED BY <1>4, <3>1, <3>2 DEF Rising
  <2>12. ASSUME NEW i \in 1..Len(toViewer'[v]), toViewer'[v][i].t = "jpeg"
         PROVE  Below(e, toViewer'[v][i].n)
    <3>1. toViewer'[v][i] = q[i + 1] /\ i + 1 \in 1..Len(q) /\ 1 \in 1..Len(q) /\ 1 < i + 1
      BY <1>4
    <3>2. Below(d, q[i + 1].n) /\ (m.t = "jpeg" => m.n <= q[i + 1].n)
      BY <1>4, <2>9, <2>12, <3>1 DEF DownJpegs, Rising, q, d
    <3>3. QED BY <2>1, <2>2, <3>1, <3>2 DEF Becomes
  <2>13. Ordered(e) BY <2>1 DEF Becomes
  <2>14. viewer = v =>
           /\ \A i \in 1..Len(up) : up[i].t = "jpeg" =>
                Below(e, up[i].n) /\ Under(toViewer'[v], up[i].n)
           /\ Below(e, encoder.jpeg) /\ Under(toViewer'[v], encoder.jpeg)
    BY <2>2, <2>9, <2>10 DEF DownJpegs, q, d
  <2>15. DownJpegs(v)'
    BY <1>1, <2>11, <2>12, <2>13, <2>14 DEF DownJpegs, Ordered, e
  <2>16. QED BY <2>8, <2>15
<1>16. QED
  BY <1>9, <1>10, <1>11, <1>13, <1>14, <1>15 DEF StreamInv, Typed, Deltas, Jpegs

\* A JPEG is painted or not, and the one that came meanwhile is next.
LEMMA PaintInv ==
  ASSUME StreamInv, NEW v \in Watched, Painted(v)
  PROVE  StreamInv'
<1> DEFINE d == decoder[v]
<1>1. /\ d \in DecoderType /\ ~d.torn /\ Ordered(d) /\ None \notin Nat
      /\ UNCHANGED <<relayed, encoder>>
  BY DecoderFacts, StreamAssumption DEF Painted
<1>2. PICK p \in {d.busy, d.painted} :
        decoder' = [decoder EXCEPT ![v] =
          paintJpeg([d EXCEPT !.busy = None, !.painted = p, !.torn = d.torn \/ p < d.painted])]
  BY Zenon DEF Painted
<1>3. d.busy \in Nat /\ d.painted \in Nat /\ d.painted <= d.busy
  BY <1>1 DEF Painted, DecoderType, Ordered
<1>4. p \in Nat /\ d.painted <= p /\ p <= d.busy /\ ~(p < d.painted) BY <1>2, <1>3
<1>5. (d.torn \/ p < d.painted) = FALSE BY <1>1, <1>4, Zenon
<1>6. PICK c : c = [d EXCEPT !.busy = None, !.painted = p, !.torn = FALSE] BY Zenon
<1>7. decoder' = [decoder EXCEPT ![v] = paintJpeg(c)] BY <1>2, <1>5, <1>6, Zenon
<1>8. /\ c \in DecoderType /\ c.torn = FALSE /\ c.busy = None /\ c.painted = p
      /\ c.latest = d.latest /\ c.gotKey = d.gotKey /\ c.jpegMode = d.jpegMode
      /\ c.next = d.next
  BY <1>1, <1>4, <1>6 DEF DecoderType
<1>9. PICK e : e = paintJpeg(c) BY Zenon
<1>10. /\ e \in DecoderType /\ e.torn = FALSE /\ e.latest = None /\ e.busy = d.latest
       /\ e.painted = p /\ e.gotKey = d.gotKey /\ e.jpegMode = d.jpegMode
       /\ e.next = d.next
  BY <1>8, <1>9 DEF paintJpeg, DecoderType
<1>11. Ordered(e) BY <1>1, <1>3, <1>4, <1>8, <1>10 DEF Ordered, DecoderType
<1>12. /\ decoder' \in [Watched -> DecoderType] /\ decoder'[v] = e
       /\ \A w \in Watched : w # v => decoder'[w] = decoder[w]
  BY <1>7, <1>9, <1>10 DEF StreamInv, Typed, Decoders
<1>13. Ready' = Ready /\ NextDelta' = NextDelta BY <1>1 DEF Ready, NextDelta
<1>14. UNCHANGED <<agent, up, down, viewer, sock, toViewer, encoder>> BY <1>1 DEF relayed
<1>15. sock[v] # "unused"
  <2>1. NewDecoder.busy = None BY DEF NewDecoder
  <2>2. QED BY <1>1, <1>3, <2>1 DEF StreamInv, Typed, Decoders
<1>16. Typed'
  <2>1. Sockets' /\ Queues' BY <1>14 DEF StreamInv, Typed, Sockets, Queues, Streams
  <2>2. Decoders' BY <1>10, <1>12, <1>14, <1>15 DEF StreamInv, Typed, Decoders
  <2>3. QED BY <2>1, <2>2 DEF Typed
<1>17. ASSUME NEW w \in Watched PROVE DownDeltas(w)'
  <2>1. \A m : Takes(decoder[w], m) => Takes(decoder'[w], m)
    BY <1>10, <1>12 DEF Takes
  <2>2. \A q : Joined(decoder[w], q) => Joined(decoder'[w], q) BY <1>10, <1>12 DEF Joined
  <2>3. \A q, m : After(decoder[w], q, m) => After(decoder'[w], q, m)
    BY <2>1, <2>2 DEF After
  <2>4. DownDeltas(w) BY DEF StreamInv, Deltas
  <2>5. QED BY <1>13, <1>14, <2>1, <2>2, <2>3, <2>4 DEF DownDeltas
<1>18. UpDeltas' /\ UpJpegs'
  BY <1>13, <1>14 DEF StreamInv, Deltas, UpDeltas, Jpegs, UpJpegs
<1>19. ASSUME NEW w \in Watched PROVE DownJpegs(w)'
  <2>1. DownJpegs(w) BY DEF StreamInv, Jpegs
  <2>2. CASE w # v BY <1>12, <1>14, <2>1, <2>2 DEF DownJpegs
  <2>3. CASE w = v
    <3>1. \A n \in Nat : Below(d, n) => Below(e, n)
      BY <1>1, <1>3, <1>4, <1>10 DEF Below, DecoderType
    <3>2. /\ encoder.jpeg \in Nat
          /\ \A i \in 1..Len(up) : up[i].n \in Nat
          /\ \A i \in 1..Len(toViewer[v]) : toViewer[v][i].n \in Nat
      BY DecoderFacts, Elements
    <3>3. QED BY <1>11, <1>12, <1>14, <2>1, <2>3, <3>1, <3>2 DEF DownJpegs, Ordered
  <2>4. QED BY <2>2, <2>3
<1>20. PictureIsWhole' BY <1>10, <1>12 DEF StreamInv, PictureIsWhole
<1>21. QED BY <1>16, <1>17, <1>18, <1>19, <1>20 DEF StreamInv, Deltas, Jpegs

-----------------------------------------------------------------------------
LEMMA InitInv ==
  ASSUME StreamInit
  PROVE  StreamInv
<1>1. /\ Watched \subseteq Viewers /\ MaxQueue \in Nat /\ MaxJpegs \in Nat
  BY StreamAssumption
<1>2. Len(<<>>) = 0 /\ <<>> \in Seq(Msgs) OBVIOUS
<1>3. NewDecoder.latest = None /\ NewDecoder.busy = None BY DEF NewDecoder
<1>4. encoder \in EncoderType /\ ~Ready
  BY <1>1 DEF StreamInit, NoEncoder, EncoderType, Ready
<1>5. Sockets BY DEF StreamInit, Sockets
<1>6. Queues BY <1>1, <1>2, <1>4 DEF StreamInit, Queues
<1>7. Decoders BY <1>1, <1>3, NewType DEF StreamInit, Decoders
<1>8. UpDeltas /\ UpJpegs
  BY <1>2, <1>4 DEF StreamInit, UpDeltas, UpJpegs, Chain, Rising, Under
<1>9. ASSUME NEW v \in Watched PROVE DownDeltas(v) /\ DownJpegs(v) /\ ~decoder[v].torn
  <2>1. /\ toViewer[v] = <<>> /\ viewer # v /\ decoder[v] = NewDecoder
    BY <1>1, StreamAssumption DEF StreamInit
  <2>2. QED BY <1>2, <1>3, <2>1, NewType DEF DownDeltas, DownJpegs, Rising
<1>10. QED
  BY <1>5, <1>6, <1>7, <1>8, <1>9 DEF StreamInv, Typed, Deltas, Jpegs, PictureIsWhole

LEMMA StepInv ==
  ASSUME StreamInv, [StreamNext]_streamVars
  PROVE  StreamInv'
<1>1. CASE AgentSends BY <1>1, AgentInv
<1>2. CASE Hear \/ AgentConnect \/ AgentJoin BY <1>2, AgentJoinsInv
<1>3. CASE Relay BY <1>3, RelayInv
<1>4. CASE CloseSession BY <1>4, CloseInv
<1>5. CASE \E v \in Viewers : ViewerJoin(v) BY <1>5, JoinInv
<1>6. CASE \E v \in Viewers : ViewerClose(v) BY <1>6, LeaveInv
<1>7. CASE \E v \in Viewers : Receive(v) BY <1>7, ReceiveInv
<1>8. CASE \E v \in Watched : Painted(v) BY <1>8, PaintInv
<1>9. CASE UNCHANGED streamVars
  <2>1. UNCHANGED <<agent, up, down, viewer, sock, toViewer, encoder, decoder>>
    BY <1>9 DEF streamVars, relayed
  <2>2. Sockets' BY <2>1 DEF StreamInv, Typed, Sockets
  <2>3. QED BY <2>1, <2>2, CalmInv DEF Streams
<1>10. QED
  BY <1>1, <1>2, <1>3, <1>4, <1>5, <1>6, <1>7, <1>8, <1>9 DEF StreamNext, AgentSends

\* All that the decoders, the queues and the encoder know of each other.
THEOREM StreamIsSound == StreamSpec => []StreamInv
<1>1. StreamInit => StreamInv BY InitInv
<1>2. StreamInv /\ [StreamNext]_streamVars => StreamInv' BY StepInv
<1>3. QED BY <1>1, <1>2, PTL DEF StreamSpec

\* Who is connected, what is on its way and what a page has fit together.
THEOREM StreamTypes == StreamSpec => []StreamTypeOK
<1>1. StreamInv => StreamTypeOK
  BY StreamAssumption
     DEF StreamInv, Typed, Sockets, Queues, Decoders, StreamTypeOK, Streams
<1>2. QED BY <1>1, StreamIsSound, PTL

\* Nobody sees a picture that is built on one it never had, whenever it joins,
\* whomever it replaces and whatever the agent switches to.
THEOREM PicturesAreWhole == StreamSpec => []PictureIsWhole
<1>1. StreamInv => PictureIsWhole BY DEF StreamInv
<1>2. QED BY <1>1, StreamIsSound, PTL
=============================================================================
