-------------------------- MODULE DashSessionProofs --------------------------
(***************************************************************************)
(* Proofs about DashSession: the shape of a session and the bounds of its  *)
(* buffers, the watchdog that guards every pending request, the single     *)
(* chain of PlayFrame events, the order in which frames are played, and    *)
(* how far the buffer may exceed the cap.                                  *)
(*                                                                         *)
(* A handler maps a session to the set of its outcomes.  Well says of one  *)
(* session what all handlers keep; each lemma named ...Well shows that a   *)
(* handler's outcomes are well.  Good says what it keeps besides for the   *)
(* order and the cap: Kept, shown of a handler by a lemma named ...Kept,   *)
(* and of a whole step by one named ...Good.  The lemmas named ...Keeps    *)
(* show both of the actions.                                               *)
(***************************************************************************)
EXTENDS DashSession, SequenceTheorems, WellFoundedInduction, TLAPS

------------------------------------------------------------------------------
(* The turns of TryToPushToPlayer.                                         *)

\* A set of naturals has a least element.
LEMMA LeastNatural ==
  ASSUME NEW S, S \subseteq Nat, S # {}
  PROVE  \E m \in S : \A k \in S : m <= k
<1>1. PICK m \in S : \A k \in S : ~(<<k, m>> \in OpToRel(<, Nat))
  BY WFMin, NatLessThanWellFounded
<1>2. \A k \in S : ~(k < m)
  BY <1>1 DEF OpToRel
<1> QED BY <1>2

\* What one turn makes of a set of outcomes.
Turned(outcomes) == UNION {PushOne(t) : t \in outcomes}

\* The outcomes of up to n turns.
UpTo(s, g, n) ==
  /\ g = [k \in 0 .. n |-> g[k]]
  /\ g[0] = {s}
  /\ \A k \in 1 .. n : g[k] = Turned(g[k - 1])

LEMMA TurnsExist ==
  ASSUME NEW s, NEW n \in Nat
  PROVE  \E g : UpTo(s, g, n)
<1> SUFFICES ASSUME ~ \E g : UpTo(s, g, n) PROVE FALSE
  OBVIOUS
<1> DEFINE bad == {m \in Nat : ~ \E g : UpTo(s, g, m)}
<1>1. PICK m \in bad : \A k \in bad : m <= k
  <2>1. bad \subseteq Nat /\ bad # {}
    OBVIOUS
  <2> HIDE DEF bad
  <2> QED BY <2>1, LeastNatural
<1>2. m \in Nat /\ ~ \E g : UpTo(s, g, m)
  OBVIOUS
<1>3. CASE m = 0
  <2>1. PICK g : g = [k \in 0 .. 0 |-> {s}]
    OBVIOUS
  <2>2. UpTo(s, g, 0)
    BY <2>1 DEF UpTo
  <2> QED BY <1>2, <1>3, <2>2
<1>4. CASE m # 0
  <2>1. m - 1 \in Nat /\ m - 1 \notin bad
    BY <1>1, <1>2, <1>4
  <2>2. PICK h : UpTo(s, h, m - 1)
    BY <2>1
  <2>3. PICK g : g = [k \in 0 .. m |-> IF k = m THEN Turned(h[m - 1]) ELSE h[k]]
    OBVIOUS
  <2>4. \A k \in 0 .. (m - 1) : g[k] = h[k]
    BY <1>2, <2>3
  <2>5. g[m] = Turned(h[m - 1]) /\ g = [k \in 0 .. m |-> g[k]]
    BY <1>2, <2>3
  <2>6. g[0] = {s}
    <3>1. 0 \in 0 .. (m - 1)
      BY <2>1
    <3> QED BY <2>2, <2>4, <3>1 DEF UpTo
  <2>7. ASSUME NEW k \in 1 .. m PROVE g[k] = Turned(g[k - 1])
    <3>1. CASE k = m
      <4>1. m - 1 \in 0 .. (m - 1)
        BY <2>1
      <4> QED BY <2>4, <2>5, <3>1, <4>1
    <3>2. CASE k # m
      <4>1. k \in 1 .. (m - 1) /\ k \in 0 .. (m - 1) /\ k - 1 \in 0 .. (m - 1)
        BY <1>2, <3>2
      <4>2. h[k] = Turned(h[k - 1])
        BY <2>2, <4>1 DEF UpTo
      <4> QED BY <2>4, <4>1, <4>2
    <3> QED BY <3>1, <3>2
  <2>8. UpTo(s, g, m)
    BY <2>5, <2>6, <2>7 DEF UpTo
  <2> QED BY <1>2, <2>8
<1> QED BY <1>3, <1>4

LEMMA TurnsUnique ==
  ASSUME NEW s, NEW n \in Nat, NEW g, UpTo(s, g, n), NEW m \in Nat, NEW h, UpTo(s, h, m),
         NEW k \in 0 .. n, k <= m
  PROVE  g[k] = h[k]
<1> SUFFICES ASSUME g[k] # h[k] PROVE FALSE
  OBVIOUS
<1> DEFINE bad == {j \in Nat : j <= k /\ g[j] # h[j]}
<1>1. PICK j \in bad : \A i \in bad : j <= i
  <2>1. bad \subseteq Nat /\ bad # {}
    OBVIOUS
  <2> HIDE DEF bad
  <2> QED BY <2>1, LeastNatural
<1>2. j \in Nat /\ j <= k /\ g[j] # h[j]
  OBVIOUS
<1>3. CASE j = 0
  BY <1>2, <1>3 DEF UpTo
<1>4. CASE j # 0
  <2>1. j - 1 \in Nat /\ j - 1 <= k /\ j - 1 \notin bad /\ j \in 1 .. n /\ j \in 1 .. m
    BY <1>1, <1>2, <1>4
  <2>2. g[j - 1] = h[j - 1]
    BY <2>1
  <2>3. g[j] = Turned(g[j - 1]) /\ h[j] = Turned(h[j - 1])
    BY <2>1 DEF UpTo
  <2> QED BY <1>2, <2>2, <2>3
<1> QED BY <1>3, <1>4

\* TryToPushToPlayer takes the turns it seems to take, one after another.
LEMMA TurnsDefined ==
  ASSUME NEW s
  PROVE  \E g : /\ \A k \in Nat : g[k] = IF k = 0 THEN {s} ELSE Turned(g[k - 1])
                /\ TryToPushToPlayer(s) = g[Len(s.parser.bytes)]
<1> DEFINE after[k \in Nat] == IF k = 0 THEN {s} ELSE UNION {PushOne(t) : t \in after[k - 1]}
           chosen(k) == CHOOSE g : UpTo(s, g, k)
           f == [k \in Nat |-> chosen(k)[k]]
<1>1. \A k \in Nat : UpTo(s, chosen(k), k)
  BY TurnsExist
<1> HIDE DEF chosen
<1>2. ASSUME NEW k \in Nat PROVE f[k] = IF k = 0 THEN {s} ELSE Turned(f[k - 1])
  <2>1. CASE k = 0
    BY <1>1, <2>1 DEF UpTo
  <2>2. CASE k # 0
    <3>1. k - 1 \in Nat /\ k \in 1 .. k /\ k - 1 \in 0 .. (k - 1) /\ k - 1 <= k
      BY <2>2
    <3>2. chosen(k)[k] = Turned(chosen(k)[k - 1])
      BY <1>1, <3>1 DEF UpTo
    <3>3. chosen(k - 1)[k - 1] = chosen(k)[k - 1]
      BY <1>1, <3>1, TurnsUnique
    <3> QED BY <2>2, <3>1, <3>2, <3>3
  <2> QED BY <2>1, <2>2
<1>3. f = [k \in Nat |-> IF k = 0 THEN {s} ELSE UNION {PushOne(t) : t \in f[k - 1]}]
  <2>1. f = [k \in Nat |-> f[k]]
    OBVIOUS
  <2>2. \A k \in Nat : f[k] = IF k = 0 THEN {s} ELSE UNION {PushOne(t) : t \in f[k - 1]}
    BY <1>2 DEF Turned
  <2> HIDE DEF f
  <2> QED BY <2>1, <2>2
<1>4. after = [k \in Nat |-> IF k = 0 THEN {s} ELSE UNION {PushOne(t) : t \in after[k - 1]}]
  <2> HIDE DEF f
  <2> QED BY <1>3
<1>5. TryToPushToPlayer(s) = after[Len(s.parser.bytes)]
  BY DEF TryToPushToPlayer
<1> HIDE DEF after
<1>6. \A k \in Nat : after[k] = IF k = 0 THEN {s} ELSE Turned(after[k - 1])
  BY <1>4 DEF Turned
<1> QED BY <1>5, <1>6

------------------------------------------------------------------------------
(* What every handler keeps.                                               *)

Clients ==
  [sock : {"none", "connecting", "open", "closing"}, connected : BOOLEAN,
   pending : BOOLEAN, retryUsed : BOOLEAN, nextSeg : 0 .. MaxSegments,
   pendSeg : Segments, got : Nat, lastGot : Nat, ticks : 0 .. StuckLimit]

Deadlines == [earliest : Nat, latest : Nat]

Timers ==
  [start : BOOLEAN, connect : BOOLEAN, segment : BOOLEAN, underrun : BOOLEAN,
   check : BOOLEAN, delayed : Seq(Deadlines)]

Players ==
  [state : {"NOT_STARTED", "INITIAL_BUFFERING", "PLAYING", "PAUSED", "DONE"},
   buffer : Seq(Frames), played : Nat, events : Nat]

Parsers == [bytes : Seq(Units), size : {0, FrameUnits}]

Nets == [up : Seq(Segments), queue : Seq(Units), wire : Seq(Units), rx : Seq(Units),
         begun : BOOLEAN]

Sessions == [client : Clients, timers : Timers, player : Players, parser : Parsers, net : Nets]

\* The buffers keep to their bounds.
Bounded(s) ==
  /\ Len(s.player.buffer) <= BufferSpace
  /\ Len(s.net.wire) <= SendWindow /\ Len(s.net.rx) <= RcvBuf

\* A request that is pending has its watchdog and its connection.
Guarded(s) ==
  s.client.pending /\ s.player.state # "DONE" => s.client.connected /\ s.timers.segment

\* The watchdog's ticks are below the limit, and the retry comes first of them.
Ticking(s) ==
  s.client.pending /\ s.timers.segment =>
    /\ s.client.ticks < StuckLimit
    /\ RetryDue(s.client) => s.client.ticks = 0

OneChain(p) ==
  /\ p.events <= 1
  /\ p.state \in {"INITIAL_BUFFERING", "PLAYING", "PAUSED"} => p.events = 1

Well(s) == s \in Sessions /\ Bounded(s) /\ Guarded(s) /\ Ticking(s) /\ OneChain(s.player)

LEMMA SetupSizes ==
  ASSUME setup \in Setups
  PROVE  /\ MaxSegments \in Nat \ {0} /\ FrameUnits \in Nat \ {0} /\ BufferSpace \in Nat \ {0}
         /\ MaxBuffer \in Nat /\ SendWindow \in Nat \ {0} /\ RcvBuf \in Nat \ {0}
         /\ HeaderUnits <= FrameUnits /\ Timely \in BOOLEAN
         /\ FramesPerSegment \in Nat \ {0} /\ HeaderUnits \in Nat \ {0}
         /\ StuckLimit \in Nat \ {0, 1} /\ StartTime \in Nat
         /\ setup.maxFailures \in Nat
BY SizeAssumption, SetupAssumption
   DEF SetupType, MaxSegments, FrameUnits, BufferSpace, MaxBuffer, SendWindow, RcvBuf, Timely

\* A session is well when its parts are.
LEMMA WellFields ==
  ASSUME NEW s \in Sessions
  PROVE  /\ s.client \in Clients /\ s.timers \in Timers /\ s.player \in Players
         /\ s.parser \in Parsers /\ s.net \in Nets
         /\ s = [client |-> s.client, timers |-> s.timers, player |-> s.player,
                 parser |-> s.parser, net |-> s.net]
BY DEF Sessions

LEMMA SendWell ==
  ASSUME setup \in Setups, NEW s, Well(s), NEW seg \in Segments,
         NEW t \in SendSegmentRequest(s, seg)
  PROVE  Well(t)
<1>1. CASE t = s
  BY <1>1
<1>2. CASE t = [s EXCEPT !.net.up = Append(@, seg)]
  <2>1. s \in Sessions /\ s.net \in Nets
    BY WellFields DEF Well
  <2>2. PICK u : u = Append(s.net.up, seg)
    OBVIOUS
  <2>3. u \in Seq(Segments)
    BY <2>1, <2>2 DEF Nets
  <2>4. PICK n : n = [s.net EXCEPT !.up = u]
    OBVIOUS
  <2>5. n \in Nets /\ n.wire = s.net.wire /\ n.rx = s.net.rx
    BY <2>1, <2>3, <2>4 DEF Nets
  <2>6. t = [s EXCEPT !.net = n]
    BY <1>2, <2>1, <2>2, <2>4 DEF Sessions
  <2>7. /\ t \in Sessions /\ t.client = s.client /\ t.timers = s.timers
        /\ t.player = s.player /\ t.net = n
    BY <2>1, <2>5, <2>6 DEF Sessions
  <2> QED BY <2>5, <2>7 DEF Well, Bounded, Guarded, Ticking, OneChain
<1> QED BY <1>1, <1>2 DEF SendSegmentRequest

\* A new request arms the watchdog and starts its count.
LEMMA RequestWell ==
  ASSUME setup \in Setups, NEW s, Well(s), NEW t \in RequestSegment(s)
  PROVE  Well(t)
<1>1. CASE ~MayRequest(s.client)
  BY <1>1 DEF RequestSegment
<1>2. CASE MayRequest(s.client)
  <2>1. s \in Sessions /\ s.client \in Clients /\ s.timers \in Timers
    BY WellFields DEF Well
  <2>2. PICK c : c = [s.client EXCEPT !.pending = TRUE, !.retryUsed = FALSE,
                                      !.pendSeg = s.client.nextSeg, !.nextSeg = @ + 1,
                                      !.got = 0, !.lastGot = 0, !.ticks = 0]
    OBVIOUS
  <2>3. PICK m : m = [s.timers EXCEPT !.segment = TRUE]
    OBVIOUS
  <2>4. PICK r : r = [s EXCEPT !.client = c, !.timers = m]
    OBVIOUS
  <2>5. t \in SendSegmentRequest(r, s.client.nextSeg)
    <3>1. r = [s EXCEPT !.client = [@ EXCEPT !.pending = TRUE, !.retryUsed = FALSE,
                                        !.pendSeg = s.client.nextSeg,
                                        !.nextSeg = s.client.nextSeg + 1,
                                        !.got = 0, !.lastGot = 0, !.ticks = 0],
                   !.timers.segment = TRUE]
      BY <2>1, <2>2, <2>3, <2>4 DEF Sessions
    <3> QED BY <1>2, <3>1 DEF RequestSegment
  <2>6. /\ s.client.nextSeg \in Segments /\ s.client.nextSeg + 1 \in 0 .. MaxSegments
        /\ 0 \in 0 .. StuckLimit
    BY <1>2, <2>1, SetupSizes DEF MayRequest, Clients, Segments
  <2>7. /\ c \in Clients /\ c.ticks = 0 /\ c.connected = s.client.connected
    BY <2>1, <2>2, <2>6 DEF Clients
  <2>8. m \in Timers /\ m.segment = TRUE
    BY <2>1, <2>3 DEF Timers
  <2>9. /\ r \in Sessions /\ r.client = c /\ r.timers = m /\ r.player = s.player
        /\ r.net = s.net
    BY <2>1, <2>4, <2>7, <2>8 DEF Sessions
  <2>10. s.client.connected
    BY <1>2 DEF MayRequest
  <2>11. Well(r)
    <3>1. Bounded(r) /\ OneChain(r.player)
      BY <2>9 DEF Well, Bounded
    <3>2. Guarded(r)
      BY <2>7, <2>8, <2>9, <2>10 DEF Guarded
    <3>3. Ticking(r)
      BY <2>7, <2>9, SetupSizes DEF Ticking
    <3> QED BY <2>9, <3>1, <3>2, <3>3 DEF Well
  <2> QED BY <2>5, <2>6, <2>11, SendWell
<1> QED BY <1>1, <1>2

\* A frame the player takes joins the buffer, and playback begins or resumes.
LEMMA ReceiveFrameWell ==
  ASSUME setup \in Setups, NEW p \in Players, OneChain(p), NEW f \in Frames,
         ~BufferFull(p), Len(p.buffer) <= BufferSpace
  PROVE  LET q == ReceiveFrame(p, f)
         IN /\ q \in Players /\ OneChain(q) /\ Len(q.buffer) <= BufferSpace
            /\ q.played = p.played /\ (q.state = "DONE" <=> p.state = "DONE")
<1>1. PICK q : q = ReceiveFrame(p, f)
  OBVIOUS
<1>2. PICK b : b = Append(p.buffer, f)
  OBVIOUS
<1>3. PICK st : st = IF p.state = "PAUSED" THEN "PLAYING"
                     ELSE IF p.state = "NOT_STARTED" THEN "INITIAL_BUFFERING" ELSE p.state
  OBVIOUS
<1>4. PICK ev : ev = IF p.state \in {"PAUSED", "NOT_STARTED"} THEN 1 ELSE p.events
  OBVIOUS
<1>5. b \in Seq(Frames) /\ Len(b) = Len(p.buffer) + 1
  BY <1>2 DEF Players
<1>6. Len(p.buffer) \in Nat /\ Len(b) <= BufferSpace
  BY <1>5, SetupSizes DEF BufferFull, Players
<1>7. /\ st \in {"NOT_STARTED", "INITIAL_BUFFERING", "PLAYING", "PAUSED", "DONE"}
      /\ ev \in Nat /\ (st = "DONE" <=> p.state = "DONE")
  BY <1>3, <1>4 DEF Players
<1>8. q = [p EXCEPT !.buffer = b, !.state = st, !.events = ev]
  BY <1>1, <1>2, <1>3, <1>4 DEF ReceiveFrame, Players
<1>9. /\ q \in Players /\ q.buffer = b /\ q.state = st /\ q.events = ev
      /\ q.played = p.played
  BY <1>5, <1>7, <1>8 DEF Players
<1>10. OneChain(q)
  <2>1. ev <= 1
    BY <1>4 DEF OneChain
  <2>2. st \in {"INITIAL_BUFFERING", "PLAYING", "PAUSED"} => ev = 1
    BY <1>3, <1>4 DEF OneChain, Players
  <2> QED BY <1>9, <2>1, <2>2 DEF OneChain
<1> QED BY <1>1, <1>6, <1>7, <1>9, <1>10

\* The delay of the next request is a number of frames.
LEMMA DelayInteger ==
  ASSUME setup \in Setups, NEW p \in Players, NEW f \in Frames
  PROVE  BufferDelay(p, f) \in Int
<1>1. f.seg \in Nat /\ f.fid \in Int
  BY SetupSizes DEF Frames, Segments, LastFrame
<1>2. FramesPerSegment \in Nat
  BY SetupSizes
<1>3. f.seg * FramesPerSegment \in Int
  BY <1>1, <1>2
<1>4. p.played \in Nat
  BY DEF Players
<1>5. PlayTimeLeft(p, f) \in Int
  BY <1>1, <1>3, <1>4, SetupSizes DEF PlayTimeLeft
<1> QED BY <1>2, <1>5, SetupSizes DEF BufferDelay

\* What becomes of session s when it takes frame f: h, or t if the last frame of a
\* segment is followed by a request.
Taken(s, f, h, t) ==
  /\ Well(h) /\ h.player = ReceiveFrame(s.player, f) /\ h.net = s.net
  /\ h.parser = s.parser
  /\ h.client.connected = s.client.connected /\ h.client.sock = s.client.sock
  /\ h.client.nextSeg = s.client.nextSeg /\ h.client.pendSeg = s.client.pendSeg
  /\ h.client.got = s.client.got + 1
  /\ h.timers.underrun = s.timers.underrun
  /\ \/ /\ t = h /\ ~(h.player.state # "DONE" /\ f.fid = LastFrame)
        /\ h.client.pending = s.client.pending
        /\ h.timers.delayed = s.timers.delayed
     \/ /\ t \in RequestSegment(h) /\ h.player.state # "DONE" /\ f.fid = LastFrame
        /\ ~h.client.pending /\ h.timers.delayed = s.timers.delayed
        /\ BufferDelay(h.player, f) <= 0
     \/ /\ t = h /\ h.player.state # "DONE" /\ f.fid = LastFrame
        /\ ~h.client.pending /\ ~(BufferDelay(h.player, f) <= 0)
        /\ \E at \in {h.player.played + BufferDelay(h.player, f)} :
             h.timers.delayed = Append(s.timers.delayed,
                                       [earliest |-> at, latest |-> at])

LEMMA MessageParts ==
  ASSUME setup \in Setups, NEW s, Well(s), NEW f \in Frames, ~BufferFull(s.player),
         NEW t \in MessageReceived(s, f)
  PROVE  \E h : Taken(s, f, h, t)
<1>1. /\ s \in Sessions /\ s.client \in Clients /\ s.timers \in Timers
      /\ s.player \in Players
  BY WellFields DEF Well
<1>2. PICK q : q = ReceiveFrame(s.player, f)
  OBVIOUS
<1>3. /\ q \in Players /\ OneChain(q) /\ Len(q.buffer) <= BufferSpace
      /\ (q.state = "DONE" <=> s.player.state = "DONE")
  BY <1>1, <1>2, ReceiveFrameWell DEF Well, Bounded
<1>4. PICK c : c = [s.client EXCEPT !.got = @ + 1]
  OBVIOUS
<1>5. PICK heard : heard = [s EXCEPT !.player = q, !.client = c]
  OBVIOUS
<1>6. heard = [s EXCEPT !.player = ReceiveFrame(@, f), !.client.got = @ + 1]
  BY <1>1, <1>2, <1>4, <1>5 DEF Sessions
<1>7. /\ c \in Clients /\ c.pending = s.client.pending /\ c.connected = s.client.connected
      /\ c.ticks = s.client.ticks /\ c.got # 0 /\ c.got = s.client.got + 1
      /\ c.sock = s.client.sock /\ c.nextSeg = s.client.nextSeg
      /\ c.pendSeg = s.client.pendSeg
  BY <1>1, <1>4 DEF Clients
<1>8. /\ heard \in Sessions /\ heard.client = c /\ heard.timers = s.timers
      /\ heard.player = q /\ heard.net = s.net /\ heard.parser = s.parser
  BY <1>1, <1>3, <1>5, <1>7 DEF Sessions
<1>9. Well(heard)
  <2>1. Bounded(heard)
    BY <1>3, <1>8 DEF Well, Bounded
  <2>2. Guarded(heard) /\ Ticking(heard)
    BY <1>3, <1>7, <1>8 DEF Well, Guarded, Ticking, RetryDue
  <2> QED BY <1>3, <1>8, <2>1, <2>2 DEF Well
<1>10. CASE ~(heard.player.state # "DONE" /\ f.fid = LastFrame)
  <2>1. t = heard
    BY <1>6, <1>10 DEF MessageReceived
  <2> QED BY <1>2, <1>7, <1>8, <1>9, <1>10, <2>1 DEF Taken
<1>11. CASE heard.player.state # "DONE" /\ f.fid = LastFrame
  <2>1. t \in LastFrameReceived(heard, f)
    BY <1>6, <1>11 DEF MessageReceived
  <2>2. PICK d : d = [c EXCEPT !.pending = FALSE, !.retryUsed = FALSE]
    OBVIOUS
  <2>3. PICK m : m = [s.timers EXCEPT !.segment = FALSE]
    OBVIOUS
  <2>4. PICK idle : idle = [heard EXCEPT !.client = d, !.timers = m]
    OBVIOUS
  <2>5. idle = [Freed(heard) EXCEPT !.timers.segment = FALSE]
    BY <1>8, <2>2, <2>3, <2>4 DEF Freed, Sessions
  <2>6. /\ d \in Clients /\ ~d.pending /\ d.got = c.got /\ d.connected = c.connected
        /\ d.sock = c.sock /\ d.nextSeg = c.nextSeg /\ d.pendSeg = c.pendSeg
    BY <1>7, <2>2 DEF Clients
  <2>7. m \in Timers /\ m.delayed = s.timers.delayed /\ m.underrun = s.timers.underrun
    BY <1>1, <2>3 DEF Timers
  <2>8. /\ idle \in Sessions /\ idle.client = d /\ idle.timers = m
        /\ idle.player = q /\ idle.net = s.net /\ idle.parser = s.parser
    BY <1>8, <2>4, <2>6, <2>7 DEF Sessions
  <2>9. Well(idle)
    BY <1>8, <1>9, <2>6, <2>8 DEF Well, Bounded, Guarded, Ticking
  <2>10. CASE BufferDelay(heard.player, f) <= 0
    <3>1. t \in RequestSegment(idle)
      BY <2>1, <2>5, <2>10 DEF LastFrameReceived
    <3>2. BufferDelay(idle.player, f) <= 0 /\ idle.player.state # "DONE"
      BY <1>8, <1>11, <2>8, <2>10
    <3> QED BY <1>2, <1>7, <1>11, <2>6, <2>7, <2>8, <2>9, <3>1, <3>2 DEF Taken
  <2>11. CASE ~(BufferDelay(heard.player, f) <= 0)
    <3>1. PICK at : at = q.played + BufferDelay(q, f)
      OBVIOUS
    <3>2. at \in Nat
      <4>1. BufferDelay(q, f) \in Int /\ q.played \in Nat
        BY <1>3, DelayInteger DEF Players
      <4> QED BY <1>8, <2>11, <3>1, <4>1
    <3>3. PICK u : u = Append(m.delayed, [earliest |-> at, latest |-> at])
      OBVIOUS
    <3>4. PICK n : n = [m EXCEPT !.delayed = u]
      OBVIOUS
    <3>5. n \in Timers /\ n.segment = m.segment /\ n.delayed = u /\ n.underrun = m.underrun
      <4>1. u \in Seq(Deadlines)
        BY <2>7, <3>2, <3>3 DEF Timers, Deadlines
      <4> QED BY <2>7, <3>4, <4>1 DEF Timers
    <3>6. t = [idle EXCEPT !.timers = n]
      <4>1. t = [idle EXCEPT !.timers.delayed =
                   Append(@, [earliest |-> at, latest |-> at])]
        BY <1>8, <2>1, <2>5, <2>11, <3>1 DEF LastFrameReceived
      <4> QED BY <2>7, <2>8, <3>3, <3>4, <4>1 DEF Sessions, Timers
    <3>7. /\ t \in Sessions /\ t.client = d /\ t.timers = n /\ t.player = q
          /\ t.net = s.net /\ t.parser = s.parser
      BY <2>8, <3>5, <3>6 DEF Sessions
    <3>8. Well(t)
      BY <2>6, <2>8, <2>9, <3>5, <3>7 DEF Well, Bounded, Guarded, Ticking
    <3>9. t.timers.delayed = Append(s.timers.delayed, [earliest |-> at, latest |-> at])
      BY <2>7, <3>3, <3>5, <3>7
    <3>10. at \in {t.player.played + BufferDelay(t.player, f)} /\ t.player.state # "DONE"
           /\ ~(BufferDelay(t.player, f) <= 0)
      BY <1>8, <1>11, <2>11, <3>1, <3>7
    <3> QED BY <1>2, <1>7, <1>11, <2>6, <2>7, <3>5, <3>7, <3>8, <3>9, <3>10 DEF Taken
  <2> QED BY <2>10, <2>11
<1> QED BY <1>10, <1>11

\* A frame taken leaves no request pending after the last of a segment, unless
\* it makes the next one.
LEMMA MessageWell ==
  ASSUME setup \in Setups, NEW s, Well(s), NEW f \in Frames, ~BufferFull(s.player),
         NEW t \in MessageReceived(s, f)
  PROVE  Well(t)
<1>1. PICK h : Taken(s, f, h, t)
  BY MessageParts
<1>2. Well(h) /\ (t = h \/ t \in RequestSegment(h))
  BY <1>1 DEF Taken
<1> QED BY <1>2, RequestWell

------------------------------------------------------------------------------
(* The parser and the socket.                                            *)

\* What remains of a sequence once its first elements are gone.
LEMMA DropProperties ==
  ASSUME NEW S, NEW q \in Seq(S), NEW n \in 0 .. Len(q)
  PROVE  DropFirst(q, n) \in Seq(S) /\ Len(DropFirst(q, n)) = Len(q) - n
<1>1. Len(q) \in Nat /\ n + 1 \in Int /\ \A i \in (n + 1) .. Len(q) : q[i] \in S
  BY ElementOfSeq, LenProperties
<1>2. Len(q) \in Int /\ n \in Int
  BY <1>1
<1>3. /\ SubSeq(q, n + 1, Len(q)) \in Seq(S)
      /\ Len(SubSeq(q, n + 1, Len(q))) = IF n + 1 <= Len(q) THEN Len(q) - (n + 1) + 1 ELSE 0
  BY <1>1, <1>2, SubSeqProperties
<1> QED BY <1>2, <1>3 DEF DropFirst

\* The first elements of a sequence.
LEMMA TakeProperties ==
  ASSUME NEW S, NEW q \in Seq(S), NEW n \in 0 .. Len(q)
  PROVE  SubSeq(q, 1, n) \in Seq(S) /\ Len(SubSeq(q, 1, n)) = n
<1>1. Len(q) \in Nat /\ n \in Int /\ 1 \in Int /\ \A i \in 1 .. n : q[i] \in S
  BY ElementOfSeq, LenProperties
<1>2. /\ SubSeq(q, 1, n) \in Seq(S)
      /\ Len(SubSeq(q, 1, n)) = IF 1 <= n THEN n - 1 + 1 ELSE 0
  BY <1>1, SubSeqProperties
<1> QED BY <1>1, <1>2

\* What the parser holds concerns none of the bounds.
LEMMA ParserWell ==
  ASSUME NEW s, Well(s), NEW p \in Parsers, NEW t, t = [s EXCEPT !.parser = p]
  PROVE  Well(t) /\ t.player = s.player /\ t.client = s.client /\ t.parser = p
         /\ t.net = s.net /\ t.timers = s.timers
<1>1. s \in Sessions
  BY DEF Well
<1>2. /\ t \in Sessions /\ t.client = s.client /\ t.timers = s.timers
      /\ t.player = s.player /\ t.net = s.net /\ t.parser = p
  BY <1>1 DEF Sessions
<1> QED BY <1>2 DEF Well, Bounded, Guarded, Ticking

LEMMA PushOneWell ==
  ASSUME setup \in Setups, NEW s, Well(s), NEW t \in PushOne(s)
  PROVE  Well(t)
<1>1. s \in Sessions /\ s.parser \in Parsers
  BY WellFields DEF Well
<1>2. s.parser.bytes \in Seq(Units)
  BY <1>1 DEF Parsers
<1>3. PICK bytes \in Seq(Units) : bytes = s.parser.bytes
  BY <1>2
<1>4. Len(bytes) \in Nat
  BY <1>3, LenProperties
<1>5. PICK p : p = [s.parser EXCEPT !.size = FrameUnits]
  OBVIOUS
<1>6. PICK sized : sized = [s EXCEPT !.parser = p]
  OBVIOUS
<1>7. p \in Parsers /\ p.bytes = bytes
  BY <1>1, <1>3, <1>5 DEF Parsers
<1>8. sized = [s EXCEPT !.parser.size = FrameUnits]
  BY <1>1, <1>5, <1>6 DEF Sessions
<1>9. Well(sized) /\ sized.player = s.player /\ sized.parser = p
  BY <1>6, <1>7, ParserWell
<1>10. CASE Len(bytes) < HeaderUnits
  BY <1>3, <1>10 DEF PushOne
<1>11. CASE ~(Len(bytes) < HeaderUnits) /\ ~HeadersValid(bytes)
  <2>1. PICK e : e = [bytes |-> <<>>, size |-> 0]
    OBVIOUS
  <2>2. e \in Parsers
    BY <2>1 DEF Parsers
  <2>3. t = [s EXCEPT !.parser = e]
    BY <1>3, <1>11, <2>1 DEF PushOne
  <2> QED BY <2>2, <2>3, ParserWell
<1>12. CASE ~(Len(bytes) < HeaderUnits) /\ HeadersValid(bytes)
            /\ (Len(bytes) < FrameUnits \/ BufferFull(s.player))
  <2>1. t = sized
    BY <1>3, <1>8, <1>12 DEF PushOne
  <2> QED BY <1>9, <2>1
<1>13. CASE ~(Len(bytes) < HeaderUnits) /\ HeadersValid(bytes)
            /\ ~(Len(bytes) < FrameUnits) /\ ~BufferFull(s.player)
  <2>1. PICK r : r = [p EXCEPT !.bytes = DropFirst(bytes, FrameUnits)]
    OBVIOUS
  <2>2. PICK rest : rest = [sized EXCEPT !.parser = r]
    OBVIOUS
  <2>3. rest = [[s EXCEPT !.parser.size = FrameUnits]
                  EXCEPT !.parser.bytes = DropFirst(@, FrameUnits)]
    <3>1. rest = [sized EXCEPT !.parser.bytes = DropFirst(@, FrameUnits)]
      <4>1. sized \in Sessions
        BY <1>9 DEF Well
      <4> QED BY <1>7, <1>9, <2>1, <2>2, <4>1 DEF Sessions, Parsers
    <3> QED BY <1>8, <3>1
  <2>4. FrameUnits \in 1 .. Len(bytes)
    BY <1>4, <1>13, SetupSizes
  <2>5. DropFirst(bytes, FrameUnits) \in Seq(Units)
    BY <2>4, DropProperties
  <2>6. r \in Parsers
    BY <1>7, <2>1, <2>5 DEF Parsers
  <2>7. Well(rest) /\ rest.player = s.player
    BY <1>9, <2>2, <2>6, ParserWell
  <2>8. bytes[1] \in Units
    <3>1. 1 \in 1 .. Len(bytes)
      BY <2>4
    <3> QED BY <3>1, ElementOfSeq
  <2>9. PICK f : f = FrameOf(bytes[1])
    OBVIOUS
  <2>10. f \in Frames
    BY <2>8, <2>9 DEF FrameOf, Units, Frames
  <2>11. t \in MessageReceived(rest, f)
    BY <1>3, <1>13, <2>3, <2>9 DEF PushOne
  <2> QED BY <1>13, <2>7, <2>10, <2>11, MessageWell
<1> QED BY <1>10, <1>11, <1>12, <1>13

\* Every turn keeps the session well, so all of them do.
LEMMA PushWell ==
  ASSUME setup \in Setups, NEW s, Well(s), NEW r \in TryToPushToPlayer(s)
  PROVE  Well(r)
<1>1. PICK after : /\ \A k \in Nat : after[k] = IF k = 0 THEN {s} ELSE Turned(after[k - 1])
                   /\ TryToPushToPlayer(s) = after[Len(s.parser.bytes)]
  BY TurnsDefined
<1>2. r \in after[Len(s.parser.bytes)]
  BY <1>1
<1> DEFINE bad == {k \in Nat : \E u \in after[k] : ~Well(u)}
<1>3. Len(s.parser.bytes) \in Nat
  <2>1. s.parser \in Parsers
    BY WellFields DEF Well
  <2> QED BY <2>1, LenProperties DEF Parsers
<1>4. ASSUME bad # {} PROVE FALSE
  <2>1. PICK m \in bad : \A k \in bad : m <= k
    <3>1. bad \subseteq Nat
      OBVIOUS
    <3> HIDE DEF bad
    <3> QED BY <1>4, <3>1, LeastNatural
  <2>2. m \in Nat
    OBVIOUS
  <2>3. PICK u \in after[m] : ~Well(u)
    BY <2>1
  <2>4. m # 0
    BY <1>1, <2>2, <2>3
  <2>5. m - 1 \in Nat /\ m - 1 \notin bad
    BY <2>1, <2>2, <2>4
  <2>6. u \in Turned(after[m - 1])
    BY <1>1, <2>2, <2>3, <2>4
  <2>7. PICK v \in after[m - 1] : u \in PushOne(v)
    BY <2>6 DEF Turned
  <2>8. Well(v)
    BY <2>5, <2>7
  <2> QED BY <2>3, <2>7, <2>8, PushOneWell
<1> QED BY <1>2, <1>3, <1>4

\* Reading the socket moves what the receive buffer holds to the parser.
LEMMA ReadWell ==
  ASSUME setup \in Setups, NEW s, Well(s), NEW t \in ReadSocket(s)
  PROVE  Well(t)
<1>1. PICK u \in TryToPushToPlayer(s) :
        t \in (IF HoldsMessage(u.parser) \/ u.net.rx = <<>> THEN {u}
               ELSE TryToPushToPlayer([u EXCEPT !.parser.bytes = @ \o u.net.rx,
                                                !.net.rx = <<>>]))
  BY DEF ReadSocket
<1>2. Well(u)
  BY PushWell
<1>3. u \in Sessions /\ u.parser \in Parsers /\ u.net \in Nets
  BY <1>2, WellFields DEF Well
<1>4. CASE HoldsMessage(u.parser) \/ u.net.rx = <<>>
  BY <1>1, <1>2, <1>4
<1>5. CASE ~(HoldsMessage(u.parser) \/ u.net.rx = <<>>)
  <2>1. PICK b : b = u.parser.bytes \o u.net.rx
    OBVIOUS
  <2>2. b \in Seq(Units)
    BY <1>3, <2>1, ConcatProperties DEF Parsers, Nets
  <2>3. PICK p : p = [u.parser EXCEPT !.bytes = b]
    OBVIOUS
  <2>4. PICK n : n = [u.net EXCEPT !.rx = <<>>]
    OBVIOUS
  <2>5. PICK v : v = [u EXCEPT !.parser = p, !.net = n]
    OBVIOUS
  <2>6. v = [u EXCEPT !.parser.bytes = @ \o u.net.rx, !.net.rx = <<>>]
    BY <1>3, <2>1, <2>3, <2>4, <2>5 DEF Sessions, Parsers, Nets
  <2>7. p \in Parsers
    BY <1>3, <2>2, <2>3 DEF Parsers
  <2>8. n \in Nets /\ n.wire = u.net.wire /\ n.rx = <<>>
    <3>1. <<>> \in Seq(Units)
      OBVIOUS
    <3> QED BY <1>3, <2>4, <3>1 DEF Nets
  <2>9. /\ v \in Sessions /\ v.client = u.client /\ v.timers = u.timers
        /\ v.player = u.player /\ v.net = n
    BY <1>3, <2>5, <2>7, <2>8 DEF Sessions
  <2>10. Len(n.rx) <= RcvBuf
    BY <2>8, SetupSizes
  <2>11. Bounded(v)
    BY <1>2, <2>8, <2>9, <2>10 DEF Well, Bounded
  <2>12. Well(v)
    BY <1>2, <2>9, <2>11 DEF Well, Guarded, Ticking
  <2>13. t \in TryToPushToPlayer(v)
    BY <1>1, <1>5, <2>6
  <2> QED BY <2>12, <2>13, PushWell
<1> QED BY <1>4, <1>5

------------------------------------------------------------------------------
(* Connections and the server.                                             *)

\* A new socket starts from an empty network.
LEMMA StartedWell ==
  ASSUME setup \in Setups, NEW s, Well(s)
  PROVE  Well(Started(s))
<1>1. CASE s.client.sock # "none"
  BY <1>1 DEF Started
<1>2. CASE s.client.sock = "none"
  <2>1. s \in Sessions /\ s.client \in Clients /\ s.timers \in Timers
    BY WellFields DEF Well
  <2>2. PICK c : c = [s.client EXCEPT !.sock = "connecting"]
    OBVIOUS
  <2>3. PICK m : m = [s.timers EXCEPT !.connect = TRUE]
    OBVIOUS
  <2>4. PICK n : n = EmptyNet
    OBVIOUS
  <2>5. PICK t : t = [s EXCEPT !.client = c, !.timers = m, !.net = n]
    OBVIOUS
  <2>6. t = Started(s)
    BY <1>2, <2>1, <2>2, <2>3, <2>4, <2>5 DEF Started, Sessions
  <2>7. /\ c \in Clients /\ c.connected = s.client.connected /\ c.pending = s.client.pending
        /\ c.ticks = s.client.ticks /\ c.got = s.client.got
        /\ c.retryUsed = s.client.retryUsed
    BY <2>1, <2>2 DEF Clients
  <2>8. m \in Timers /\ m.segment = s.timers.segment
    BY <2>1, <2>3 DEF Timers
  <2>9. n \in Nets /\ Len(n.wire) <= SendWindow /\ Len(n.rx) <= RcvBuf
    <3>1. <<>> \in Seq(Units) /\ <<>> \in Seq(Segments)
      OBVIOUS
    <3> QED BY <2>4, <3>1, SetupSizes DEF EmptyNet, Nets
  <2>10. /\ t \in Sessions /\ t.client = c /\ t.timers = m /\ t.player = s.player
         /\ t.net = n
    BY <2>1, <2>5, <2>7, <2>8, <2>9 DEF Sessions
  <2>11. Bounded(t)
    BY <2>9, <2>10 DEF Well, Bounded
  <2>12. Guarded(t) /\ Ticking(t)
    BY <2>7, <2>8, <2>10 DEF Well, Guarded, Ticking, RetryDue
  <2> QED BY <2>6, <2>10, <2>11, <2>12 DEF Well
<1> QED BY <1>1, <1>2

\* A lost connection takes the request and its watchdog with it.
LEMMA DisconnectedWell ==
  ASSUME setup \in Setups, NEW s, Well(s)
  PROVE  Well(Disconnected(s))
<1>1. s \in Sessions /\ s.client \in Clients /\ s.timers \in Timers
  BY WellFields DEF Well
<1>2. PICK c : c = [s.client EXCEPT !.sock = "none", !.connected = FALSE,
                                    !.pending = FALSE, !.retryUsed = FALSE]
  OBVIOUS
<1>3. PICK m : m = [s.timers EXCEPT !.connect = FALSE, !.segment = FALSE]
  OBVIOUS
<1>4. PICK n : n = EmptyNet
  OBVIOUS
<1>5. PICK t : t = [s EXCEPT !.client = c, !.timers = m, !.net = n]
  OBVIOUS
<1>6. t = Disconnected(s)
  BY <1>1, <1>2, <1>3, <1>4, <1>5 DEF Disconnected, Sessions
<1>7. c \in Clients /\ ~c.pending
  BY <1>1, <1>2 DEF Clients
<1>8. m \in Timers
  BY <1>1, <1>3 DEF Timers
<1>9. n \in Nets /\ Len(n.wire) <= SendWindow /\ Len(n.rx) <= RcvBuf
  <2>1. <<>> \in Seq(Units) /\ <<>> \in Seq(Segments)
    OBVIOUS
  <2> QED BY <1>4, <2>1, SetupSizes DEF EmptyNet, Nets
<1>10. /\ t \in Sessions /\ t.client = c /\ t.timers = m /\ t.player = s.player
       /\ t.net = n
  BY <1>1, <1>5, <1>7, <1>8, <1>9 DEF Sessions
<1>11. Bounded(t)
  BY <1>9, <1>10 DEF Well, Bounded
<1>12. Guarded(t) /\ Ticking(t)
  BY <1>7, <1>10 DEF Guarded, Ticking
<1> QED BY <1>6, <1>10, <1>11, <1>12 DEF Well

\* What the server sends of what is queued, as far as the send buffer takes it.
LEMMA FlushedNet ==
  ASSUME setup \in Setups, NEW n \in Nets, Len(n.wire) <= SendWindow
  PROVE  LET m == Flushed(n)
         IN m \in Nets /\ Len(m.wire) <= SendWindow /\ m.rx = n.rx
<1>1. PICK k : k = IF Len(n.queue) <= TxAvailable(n) THEN Len(n.queue) ELSE TxAvailable(n)
  OBVIOUS
<1>2. PICK q \in Seq(Units) : q = n.queue
  BY DEF Nets
<1>3. PICK w \in Seq(Units) : w = n.wire
  BY DEF Nets
<1>4. Len(q) \in Nat /\ Len(w) \in Nat
  BY LenProperties
<1>5. k \in 0 .. Len(q) /\ Len(w) + k <= SendWindow
  <2>1. PICK v \in Nat : v = TxAvailable(n) /\ Len(w) + v = SendWindow
    <3>1. PICK e \in Nat : e = SendWindow
      BY SetupSizes
    <3>2. PICK d \in Nat : d = Len(w)
      BY <1>4
    <3>3. d <= e
      BY <1>3, <3>1, <3>2
    <3>4. TxAvailable(n) = e - d
      BY <1>3, <3>1, <3>2 DEF TxAvailable
    <3>5. e - d \in Nat /\ d + (e - d) = e
      BY <3>3
    <3> QED BY <3>1, <3>2, <3>4, <3>5
  <2>2. k = IF Len(q) <= v THEN Len(q) ELSE v
    BY <1>1, <1>2, <2>1
  <2> QED BY <1>4, <2>1, <2>2
<1>6. PICK x : x = SubSeq(q, 1, k)
  OBVIOUS
<1>7. x \in Seq(Units) /\ Len(x) = k
  BY <1>5, <1>6, TakeProperties
<1>8. PICK y : y = DropFirst(q, k)
  OBVIOUS
<1>9. y \in Seq(Units)
  BY <1>5, <1>8, DropProperties
<1>10. PICK z : z = w \o x
  OBVIOUS
<1>11. z \in Seq(Units) /\ Len(z) = Len(w) + k
  BY <1>7, <1>10, ConcatProperties
<1>12. PICK g : g = (n.begun /\ n.wire # <<>>)
  OBVIOUS
<1>13. g \in BOOLEAN
  BY <1>12
<1>14. PICK m : m = Flushed(n)
  OBVIOUS
<1>15. m = [n EXCEPT !.wire = z, !.queue = y, !.begun = g]
  BY <1>1, <1>2, <1>3, <1>6, <1>8, <1>10, <1>12, <1>14 DEF Flushed, Nets
<1>16. m \in Nets /\ m.wire = z /\ m.rx = n.rx
  BY <1>9, <1>11, <1>13, <1>15 DEF Nets
<1>17. Len(m.wire) <= SendWindow
  BY <1>5, <1>11, <1>16
<1> QED BY <1>14, <1>16, <1>17

\* The pieces of a segment are those of its frames.
LEMMA SegmentPieces ==
  ASSUME setup \in Setups, NEW seg \in Segments
  PROVE  SegmentUnits(seg) \in Seq(Units)
<1>1. PICK u \in Nat \ {0} : u = FrameUnits
  BY SetupSizes
<1>2. PICK f \in Nat \ {0} : f = FramesPerSegment
  BY SetupSizes
<1>3. f * u \in Nat
  BY <1>1, <1>2
<1>4. ASSUME NEW k \in 1 .. f * u
      PROVE  [seg |-> seg, fid |-> (k - 1) \div u, pos |-> 1 + ((k - 1) % u)] \in Units
  <2>1. PICK q \in Int : q = (k - 1) \div u
    BY <1>3
  <2>2. PICK r \in Int : r = (k - 1) % u
    BY <1>3
  <2>3. k - 1 = u * q + r /\ 0 <= r /\ r < u
    BY <1>3, <2>1, <2>2
  <2>4. 0 <= k - 1 /\ k - 1 < f * u
    BY <1>3
  <2>5. 0 <= q
    <3>1. SUFFICES ASSUME q <= -1 PROVE FALSE
      OBVIOUS
    <3>2. u * q <= u * (-1)
      BY <3>1
    <3> QED BY <2>3, <2>4, <3>2
  <2>6. q <= f - 1
    <3>1. SUFFICES ASSUME f <= q PROVE FALSE
      OBVIOUS
    <3>2. u * f <= u * q
      BY <3>1
    <3>3. u * f = f * u
      OBVIOUS
    <3> QED BY <2>3, <2>4, <3>2, <3>3
  <2>7. q \in 0 .. LastFrame /\ 1 + r \in 1 .. FrameUnits
    BY <1>1, <1>2, <2>3, <2>5, <2>6 DEF LastFrame
  <2> QED BY <2>1, <2>2, <2>7 DEF Units
<1>5. SegmentUnits(seg) = [k \in 1 .. f * u |->
        [seg |-> seg, fid |-> (k - 1) \div u, pos |-> 1 + ((k - 1) % u)]]
  BY <1>1, <1>2 DEF SegmentUnits
<1>6. SegmentUnits(seg) \in [1 .. f * u -> Units]
  BY <1>4, <1>5
<1> QED BY <1>3, <1>6

------------------------------------------------------------------------------
(* Order and cap: what is kept besides.                                    *)

\* What the parser holds and what is on its way to it, piece by piece.
Pieces(s) == s.parser.bytes \o s.net.rx \o s.net.wire \o s.net.queue

\* Frame g may follow frame f.
Follows(f, g) ==
  \/ g.seg = f.seg /\ g.fid = f.fid + 1
  \/ f.fid = LastFrame /\ g.fid = 0 /\ g.seg >= f.seg

\* Piece k of q is in its place: the other pieces of its frame are around it, and
\* the frame is followed by one that may follow it.
InPlace(q, k) ==
  /\ \A j \in 1 .. FrameUnits :
       /\ k - q[k].pos + j \in 1 .. Len(q)
       /\ q[k - q[k].pos + j] = [q[k] EXCEPT !.pos = j]
  /\ k < Len(q) /\ q[k].pos = FrameUnits => Follows(FrameOf(q[k]), FrameOf(q[k + 1]))

Whole(q) == \A k \in 1 .. Len(q) : InPlace(q, k)

\* Pieces q that come after frame f, the frame they end with, and the requests u
\* that were made after them, of which p is the latest.
Continues(q, f) == Whole(q) /\ (q # <<>> => Follows(f, FrameOf(q[1])))
EndOf(q, f)     == IF q = <<>> THEN f ELSE FrameOf(q[Len(q)])
Complete(f)     == f.fid = LastFrame \/ (f.fid = -1 /\ f.seg = 0)
Asked(u, f, p)  ==
  /\ \A i \in 1 .. Len(u) : Follows(f, [seg |-> u[i], fid |-> 0]) /\ u[i] <= p
  /\ \A i, j \in 1 .. Len(u) : i <= j => u[i] <= u[j]

\* The newest frame of buffer b, if l was played last; b is in order.
Newest(b, l)  == IF b = <<>> THEN l ELSE b[Len(b)]
InOrder(b, l) == \A k \in 1 .. Len(b) : Follows(IF k = 1 THEN l ELSE b[k - 1], b[k])

\* Everything between the frame played last and the latest request is in order.
Ordered(s, l) ==
  /\ InOrder(s.player.buffer, l)
  /\ Continues(Pieces(s), Newest(s.player.buffer, l))
  /\ \E e \in {EndOf(Pieces(s), Newest(s.player.buffer, l))} :
       /\ Complete(e) /\ e.seg <= s.client.pendSeg
       /\ Asked(s.net.up, e, s.client.pendSeg)
       /\ e.fid = -1 => /\ s.client.pendSeg = 0
                        /\ s.timers.delayed = <<>> /\ ~s.timers.underrun
  /\ s.client.pendSeg <= s.client.nextSeg

\* How far the client and the player have got.
Staged(s, l) ==
  /\ Newest(s.player.buffer, l).fid = -1 => s.player.state \in {"NOT_STARTED", "DONE"}
  /\ s.player.state = "NOT_STARTED" => s.player.events = 0 /\ s.player.buffer = <<>>
  /\ s.player.state \in {"NOT_STARTED", "INITIAL_BUFFERING"} => s.player.played = 0
  /\ s.client.connected => s.client.sock = "open"
  /\ s.player.state = "DONE" => s.client.sock = "closing"
  /\ s.client.sock \in {"none", "connecting"} =>
       /\ s.client.nextSeg = 0 /\ s.player.state = "NOT_STARTED"
       /\ s.net.up = <<>> /\ Pieces(s) = <<>>
       /\ s.timers.delayed = <<>> /\ ~s.timers.underrun

\* Frames still to come for the pending request.
Missing(c) == IF c.pending THEN FramesPerSegment - c.got ELSE 0

\* In an undisturbed session there is one request at a time, made when its frames
\* still fit under the cap.
OneAtATime(s, l) ==
  /\ s.client.pending =>
       /\ s.client.pendSeg + 1 = s.client.nextSeg
       /\ s.client.got <= FramesPerSegment
       /\ s.player.state # "DONE" => s.client.got < FramesPerSegment
       /\ \/ s.net.up = <<>> /\ Len(Pieces(s)) = FrameUnits * Missing(s.client)
          \/ s.net.up = << s.client.pendSeg >> /\ Pieces(s) = <<>> /\ s.client.got = 0
       /\ \A k \in 1 .. Len(Pieces(s)) : Pieces(s)[k].seg = s.client.pendSeg
       /\ IF s.client.got = 0 THEN Newest(s.player.buffer, l).fid \in {-1, LastFrame}
          ELSE Newest(s.player.buffer, l).fid = s.client.got - 1
  /\ ~s.client.pending => s.net.up = <<>> /\ Pieces(s) = <<>>

Fitting(s) ==
  /\ s.player.played + Len(s.player.buffer) + Missing(s.client)
       = FramesPerSegment * s.client.nextSeg
  /\ FramesPerSegment * s.client.nextSeg <= s.player.played + MaxBuffer + StartTime
  /\ Len(s.timers.delayed) <= 1
  /\ s.timers.delayed # <<>> /\ s.player.state # "DONE" =>
       /\ ~s.client.pending /\ s.player.state # "PAUSED"
       /\ FramesPerSegment * (s.client.nextSeg + 1)
            <= s.timers.delayed[1].earliest + MaxBuffer + StartTime
       /\ s.timers.delayed[1].latest <= FramesPerSegment * s.client.nextSeg
  /\ s.timers.underrun /\ s.player.state # "DONE" =>
       ~s.client.pending /\ s.player.buffer = <<>> /\ s.timers.delayed = <<>>

OneConnection == setup.maxFailures = 0
Roomy == Undisturbed /\ BufferSpace > MaxBuffer + StartTime
Drained(s) == Len(s.parser.bytes) < FrameUnits

Kept(s, l) ==
  OneConnection =>
    /\ Ordered(s, l) /\ Staged(s, l)
    /\ Roomy => OneAtATime(s, l) /\ Fitting(s)

------------------------------------------------------------------------------
(* Whole frames, as sequences of pieces.                                   *)

\* What remains once the first pieces are gone, piece by piece.
LEMMA DropElements ==
  ASSUME NEW S, NEW q \in Seq(S), NEW n \in 0 .. Len(q)
  PROVE  \A i \in 1 .. Len(q) - n : DropFirst(q, n)[i] = q[n + i]
<1>1. Len(q) \in Nat /\ \A i \in (n + 1) .. Len(q) : q[i] \in S
  BY ElementOfSeq, LenProperties
<1>2. n + 1 \in Int /\ Len(q) \in Int
  BY <1>1
<1>3. \A i \in 1 .. Len(q) - (n + 1) + 1 : SubSeq(q, n + 1, Len(q))[i] = q[(n + 1) + i - 1]
  BY <1>1, <1>2, SubSeqProperties
<1>4. \A i \in 1 .. Len(q) - n : i \in 1 .. Len(q) - (n + 1) + 1 /\ (n + 1) + i - 1 = n + i
  BY <1>2
<1> QED BY <1>3, <1>4 DEF DropFirst

LEMMA TakeAndDrop ==
  ASSUME NEW S, NEW q \in Seq(S), NEW k \in 0 .. Len(q)
  PROVE  SubSeq(q, 1, k) \o DropFirst(q, k) = q
<1>1. Len(q) \in Nat
  BY LenProperties
<1>2. 1 \in 1 .. Len(q) + 1 /\ k \in 1 - 1 .. Len(q) /\ Len(q) \in k .. Len(q)
  BY <1>1
<1>3. SubSeq(q, 1, k) \o SubSeq(q, k + 1, Len(q)) = SubSeq(q, 1, Len(q))
  BY <1>2, ConcatAdjacentSubSeq
<1> QED BY <1>3, SubSeqFull DEF DropFirst

LEMMA DropOfConcat ==
  ASSUME NEW S, NEW p \in Seq(S), NEW q \in Seq(S), NEW n \in 0 .. Len(p)
  PROVE  DropFirst(p \o q, n) = DropFirst(p, n) \o q
<1>1. Len(p) \in Nat /\ Len(q) \in Nat
  BY LenProperties
<1>2. p \o q \in Seq(S) /\ Len(p \o q) = Len(p) + Len(q)
  BY ConcatProperties
<1>3. n \in 0 .. Len(p \o q)
  BY <1>1, <1>2
<1>4. PICK x \in Seq(S) : x = DropFirst(p \o q, n) /\ Len(x) = Len(p) + Len(q) - n
  <2>1. DropFirst(p \o q, n) \in Seq(S) /\ Len(DropFirst(p \o q, n)) = Len(p \o q) - n
    BY <1>2, <1>3, DropProperties
  <2> QED BY <1>2, <2>1
<1>5. PICK y \in Seq(S) : y = DropFirst(p, n) /\ Len(y) = Len(p) - n
  BY DropProperties
<1>6. y \o q \in Seq(S) /\ Len(y \o q) = Len(p) - n + Len(q)
  BY <1>5, ConcatProperties
<1>7. ASSUME NEW i \in 1 .. Len(x) PROVE x[i] = (y \o q)[i]
  <2>1. i \in 1 .. Len(p \o q) - n /\ n + i \in 1 .. Len(p) + Len(q)
    BY <1>1, <1>2, <1>4
  <2>2. x[i] = (p \o q)[n + i]
    BY <1>2, <1>3, <1>4, <2>1, DropElements
  <2>3. (p \o q)[n + i] = IF n + i <= Len(p) THEN p[n + i] ELSE q[n + i - Len(p)]
    BY <2>1, ConcatProperties
  <2>4. (y \o q)[i] = IF i <= Len(y) THEN y[i] ELSE q[i - Len(y)]
    <3>1. i \in 1 .. Len(y) + Len(q)
      BY <1>1, <1>4, <1>5
    <3> QED BY <1>5, <3>1, ConcatProperties
  <2>5. CASE n + i <= Len(p)
    <3>1. i \in 1 .. Len(p) - n /\ i <= Len(y)
      BY <1>1, <1>5, <2>5
    <3>2. y[i] = p[n + i]
      BY <1>5, <3>1, DropElements
    <3> QED BY <2>2, <2>3, <2>4, <2>5, <3>1, <3>2
  <2>6. CASE ~(n + i <= Len(p))
    <3>1. ~(i <= Len(y)) /\ i - Len(y) = n + i - Len(p)
      BY <1>1, <1>5, <2>6
    <3> QED BY <2>2, <2>3, <2>4, <2>6, <3>1
  <2> QED BY <2>5, <2>6
<1>8. Len(x) = Len(y \o q)
  BY <1>1, <1>4, <1>6
<1>9. x = y \o q
  BY <1>4, <1>6, <1>7, <1>8, SeqEqual
<1> QED BY <1>4, <1>5, <1>9

\* Whole frames begin with all pieces of the first, in order.
LEMMA WholeStart ==
  ASSUME setup \in Setups, NEW q \in Seq(Units), Whole(q), q # <<>>
  PROVE  /\ FrameUnits <= Len(q) /\ q[1].pos = 1
         /\ \A j \in 1 .. FrameUnits : q[j] = [q[1] EXCEPT !.pos = j]
<1>1. PICK n \in Nat : n = Len(q)
  BY LenProperties
<1>2. PICK u \in Nat \ {0} : u = FrameUnits
  BY SetupSizes
<1>3. 1 \in 1 .. n
  BY <1>1, EmptySeq
<1>4. PICK p \in 1 .. u : p = q[1].pos
  <2>1. q[1] \in Units
    BY <1>1, <1>3, ElementOfSeq
  <2> QED BY <1>2, <2>1 DEF Units
<1>5. \A j \in 1 .. u : 1 - p + j \in 1 .. n /\ q[1 - p + j] = [q[1] EXCEPT !.pos = j]
  BY <1>1, <1>2, <1>3, <1>4 DEF Whole, InPlace
<1>6. p = 1
  <2>1. 1 \in 1 .. u
    BY <1>2
  <2>2. 1 - p + 1 \in 1 .. n
    BY <1>5, <2>1
  <2> QED BY <2>2
<1>7. \A j \in 1 .. u : j \in 1 .. n /\ q[j] = [q[1] EXCEPT !.pos = j]
  <2>1. \A j \in 1 .. u : 1 - p + j = j
    BY <1>6
  <2> QED BY <1>5, <2>1
<1>8. u <= n
  <2>1. u \in 1 .. u
    BY <1>2
  <2>2. u \in 1 .. n
    BY <1>7, <2>1
  <2> QED BY <2>2
<1> QED BY <1>1, <1>2, <1>4, <1>6, <1>7, <1>8

\* The first frame may go: the rest is whole and comes after it.
LEMMA WholeDrop ==
  ASSUME setup \in Setups, NEW q \in Seq(Units), Whole(q), q # <<>>, NEW g
  PROVE  LET r == DropFirst(q, FrameUnits)
         IN /\ r \in Seq(Units) /\ Len(r) = Len(q) - FrameUnits
            /\ Continues(r, FrameOf(q[1])) /\ EndOf(r, FrameOf(q[1])) = EndOf(q, g)
<1>1. PICK n \in Nat : n = Len(q)
  BY LenProperties
<1>2. PICK u \in Nat \ {0} : u = FrameUnits
  BY SetupSizes
<1>3. u <= n /\ \A j \in 1 .. u : q[j] = [q[1] EXCEPT !.pos = j]
  BY <1>1, <1>2, WholeStart
<1>4. PICK r : r = DropFirst(q, u)
  OBVIOUS
<1>5. /\ r \in Seq(Units) /\ Len(r) = n - u
      /\ \A i \in 1 .. n - u : r[i] = q[u + i]
  BY <1>1, <1>2, <1>3, <1>4, DropProperties, DropElements
<1>6. \A k \in 1 .. n : q[k] \in Units /\ q[k].pos \in 1 .. u
  <2>1. \A k \in 1 .. n : q[k] \in Units
    BY <1>1, ElementOfSeq
  <2> QED BY <1>2, <2>1 DEF Units
<1>7. /\ \A k \in 1 .. n : \A j \in 1 .. u :
            k - q[k].pos + j \in 1 .. n /\ q[k - q[k].pos + j] = [q[k] EXCEPT !.pos = j]
      /\ \A k \in 1 .. n : k < n /\ q[k].pos = u => Follows(FrameOf(q[k]), FrameOf(q[k + 1]))
  BY <1>1, <1>2 DEF Whole, InPlace
<1>8. \A j \in 1 .. u : q[j].pos = j
  <2>1. 1 \in 1 .. n
    BY <1>2, <1>3
  <2> QED BY <1>3, <1>6, <2>1 DEF Units
<1>9. ASSUME NEW i \in 1 .. n - u, NEW j \in 1 .. u
      PROVE  i - r[i].pos + j \in 1 .. n - u /\ r[i - r[i].pos + j] = [r[i] EXCEPT !.pos = j]
  <2>1. u + i \in 1 .. n /\ r[i] = q[u + i]
    BY <1>2, <1>5
  <2>2. PICK p \in 1 .. u : p = r[i].pos
    BY <1>6, <2>1
  <2>3. 1 \in 1 .. u
    BY <1>2
  <2>4. PICK k \in 1 .. n : k = u + i /\ r[i] = q[k]
    BY <2>1
  <2>5. \A m \in 1 .. u : k - p + m \in 1 .. n /\ q[k - p + m] = [q[k] EXCEPT !.pos = m]
    <3>1. p = q[k].pos
      BY <2>2, <2>4
    <3> QED BY <1>7, <3>1
  <2>6. \A m \in 1 .. u : k - p + m = u + i - p + m
    BY <1>2, <2>2, <2>4
  <2>7. u + i - p + 1 \in 1 .. n /\ q[u + i - p + 1] = [q[u + i] EXCEPT !.pos = 1]
    BY <2>3, <2>4, <2>5, <2>6
  <2>8. q[u + i - p + 1].pos = 1
    BY <1>6, <2>1, <2>7 DEF Units
  <2>9. p <= i
    <3>1. SUFFICES ASSUME i < p PROVE FALSE
      BY <2>2
    <3>2. u + i - p + 1 \in 1 .. u
      BY <1>2, <2>2, <2>7, <3>1
    <3>3. u + i - p + 1 = 1
      BY <1>8, <2>8, <3>2
    <3> QED BY <1>2, <2>2, <3>3
  <2>10. u + i - p + j \in 1 .. n /\ q[u + i - p + j] = [q[u + i] EXCEPT !.pos = j]
    BY <2>4, <2>5, <2>6
  <2>11. i - p + j \in 1 .. n - u /\ u + (i - p + j) = u + i - p + j
    <3>1. u + i - p + j \in 1 .. n
      BY <2>10
    <3>2. i \in Int /\ p \in Int /\ j \in Int /\ u \in Int /\ n \in Int /\ 1 <= j
      BY <1>2, <2>2
    <3> QED BY <2>9, <3>1, <3>2
  <2>12. r[i - p + j] = q[u + i - p + j]
    BY <1>5, <2>11
  <2> QED BY <2>1, <2>2, <2>10, <2>11, <2>12
<1>10. ASSUME NEW i \in 1 .. n - u, i < n - u, r[i].pos = u
       PROVE  Follows(FrameOf(r[i]), FrameOf(r[i + 1]))
  <2>1. /\ u + i \in 1 .. n /\ u + i < n /\ i + 1 \in 1 .. n - u
        /\ u + (i + 1) = u + i + 1
    BY <1>2, <1>10
  <2>2. r[i] = q[u + i] /\ r[i + 1] = q[u + i + 1]
    BY <1>5, <2>1
  <2> QED BY <1>7, <1>10, <2>1, <2>2
<1>11. Whole(r)
  BY <1>2, <1>5, <1>9, <1>10 DEF Whole, InPlace
<1>12. 1 \in 1 .. n /\ FrameOf(q[u]) = FrameOf(q[1])
  <2>1. 1 \in 1 .. n /\ u \in 1 .. u
    BY <1>2, <1>3
  <2>2. q[u] = [q[1] EXCEPT !.pos = u] /\ q[1] \in Units
    BY <1>3, <1>6, <2>1
  <2> QED BY <2>1, <2>2 DEF FrameOf, Units
<1>13. r # <<>> => Follows(FrameOf(q[1]), FrameOf(r[1]))
  <2>1. SUFFICES ASSUME r # <<>> PROVE Follows(FrameOf(q[1]), FrameOf(r[1]))
    OBVIOUS
  <2>2. n - u # 0
    BY <1>5, <2>1, EmptySeq
  <2>3. u \in 1 .. n /\ u < n /\ 1 \in 1 .. n - u /\ u \in 1 .. u
    BY <1>2, <1>3, <2>2
  <2>4. q[u].pos = u /\ r[1] = q[u + 1]
    BY <1>5, <1>8, <2>3
  <2> QED BY <1>7, <1>12, <2>3, <2>4
<1>14. EndOf(r, FrameOf(q[1])) = EndOf(q, g)
  <2>1. EndOf(q, g) = FrameOf(q[n])
    BY <1>1 DEF EndOf
  <2>2. CASE r = <<>>
    <3>1. n = u
      BY <1>2, <1>5, <2>2, EmptySeq
    <3> QED BY <1>12, <2>1, <2>2, <3>1 DEF EndOf
  <2>3. CASE r # <<>>
    <3>1. n - u # 0
      BY <1>5, <2>3, EmptySeq
    <3>2. n - u \in 1 .. n - u /\ u + (n - u) = n
      BY <1>2, <1>3, <3>1
    <3>3. r[n - u] = q[n]
      BY <1>5, <3>2
    <3> QED BY <1>5, <2>1, <2>3, <3>3 DEF EndOf
  <2> QED BY <2>2, <2>3
<1> QED BY <1>1, <1>2, <1>4, <1>5, <1>11, <1>13, <1>14 DEF Continues

\* More whole frames may join, if they may follow.
LEMMA WholeAppend ==
  ASSUME setup \in Setups, NEW q \in Seq(Units), NEW p \in Seq(Units), p # <<>>, NEW f,
         Continues(q, f), Whole(p), Follows(EndOf(q, f), FrameOf(p[1]))
  PROVE  /\ q \o p \in Seq(Units) /\ Len(q \o p) = Len(q) + Len(p) /\ q \o p # <<>>
         /\ Continues(q \o p, f) /\ EndOf(q \o p, f) = FrameOf(p[Len(p)])
<1>1. PICK n \in Nat : n = Len(q)
  BY LenProperties
<1>2. PICK m \in Nat : m = Len(p)
  BY LenProperties
<1>3. PICK u \in Nat \ {0} : u = FrameUnits
  BY SetupSizes
<1>4. PICK c : c = q \o p
  OBVIOUS
<1>5. /\ c \in Seq(Units) /\ Len(c) = n + m
      /\ \A i \in 1 .. n + m : c[i] = IF i <= n THEN q[i] ELSE p[i - n]
  BY <1>1, <1>2, <1>4, ConcatProperties
<1>6. m # 0 /\ c # <<>>
  <2>1. m # 0
    BY <1>2, EmptySeq
  <2> QED BY <1>1, <1>2, <1>5, <2>1, EmptySeq
<1>7. \A i \in 1 .. n : i \in 1 .. n + m /\ c[i] = q[i]
  BY <1>1, <1>2, <1>5
<1>8. \A i \in 1 .. m : n + i \in 1 .. n + m /\ c[n + i] = p[i]
  <2>1. \A i \in 1 .. m : n + i \in 1 .. n + m /\ ~(n + i <= n) /\ n + i - n = i
    BY <1>1, <1>2
  <2> QED BY <1>5, <2>1
<1>9. /\ \A k \in 1 .. n : \A j \in 1 .. u :
            k - q[k].pos + j \in 1 .. n /\ q[k - q[k].pos + j] = [q[k] EXCEPT !.pos = j]
      /\ \A k \in 1 .. n : k < n /\ q[k].pos = u => Follows(FrameOf(q[k]), FrameOf(q[k + 1]))
  BY <1>1, <1>3 DEF Continues, Whole, InPlace
<1>10. /\ \A k \in 1 .. m : \A j \in 1 .. u :
            k - p[k].pos + j \in 1 .. m /\ p[k - p[k].pos + j] = [p[k] EXCEPT !.pos = j]
       /\ \A k \in 1 .. m : k < m /\ p[k].pos = u => Follows(FrameOf(p[k]), FrameOf(p[k + 1]))
  BY <1>2, <1>3 DEF Whole, InPlace
<1>11. ASSUME NEW i \in 1 .. n + m, NEW j \in 1 .. u
       PROVE  i - c[i].pos + j \in 1 .. n + m /\ c[i - c[i].pos + j] = [c[i] EXCEPT !.pos = j]
  <2>1. CASE i <= n
    <3>1. i \in 1 .. n
      BY <2>1
    <3>2. c[i] = q[i]
      BY <1>7, <3>1
    <3>3. i - q[i].pos + j \in 1 .. n /\ q[i - q[i].pos + j] = [q[i] EXCEPT !.pos = j]
      BY <1>9, <3>1
    <3>4. i - q[i].pos + j \in 1 .. n + m /\ c[i - q[i].pos + j] = q[i - q[i].pos + j]
      BY <1>7, <3>3
    <3> QED BY <3>2, <3>3, <3>4
  <2>2. CASE ~(i <= n)
    <3>1. PICK k \in 1 .. m : i = n + k
      <4>1. i - n \in 1 .. m /\ i = n + (i - n)
        BY <1>1, <1>2, <2>2
      <4> QED BY <4>1
    <3>2. c[i] = p[k]
      BY <1>8, <3>1
    <3>3. k - p[k].pos + j \in 1 .. m /\ p[k - p[k].pos + j] = [p[k] EXCEPT !.pos = j]
      BY <1>10, <3>1
    <3>4. PICK x \in 1 .. u : x = p[k].pos
      <4>1. p[k] \in Units
        BY <1>2, ElementOfSeq
      <4> QED BY <1>3, <4>1 DEF Units
    <3>5. n + (k - x + j) = i - x + j
      <4>1. n \in Int /\ k \in Int /\ x \in Int /\ j \in Int
        BY <1>1, <1>2, <1>3, <3>1, <3>4
      <4> QED BY <3>1, <4>1
    <3>6. i - x + j \in 1 .. n + m /\ c[i - x + j] = p[k - x + j]
      BY <1>8, <3>3, <3>4, <3>5
    <3> QED BY <3>2, <3>3, <3>4, <3>6
  <2> QED BY <2>1, <2>2
<1>12. ASSUME NEW i \in 1 .. n + m, i < n + m, c[i].pos = u
       PROVE  Follows(FrameOf(c[i]), FrameOf(c[i + 1]))
  <2>1. CASE i < n
    <3>1. i \in 1 .. n /\ i + 1 \in 1 .. n
      BY <1>1, <2>1
    <3> QED BY <1>7, <1>9, <1>12, <2>1, <3>1
  <2>2. CASE i = n
    <3>1. i \in 1 .. n /\ 1 \in 1 .. m /\ q # <<>>
      BY <1>1, <1>2, <1>6, <2>2, EmptySeq
    <3>2. c[i] = q[n] /\ c[i + 1] = p[1]
      BY <1>7, <1>8, <2>2, <3>1
    <3>3. EndOf(q, f) = FrameOf(q[n])
      BY <1>1, <3>1 DEF EndOf
    <3> QED BY <3>2, <3>3
  <2>3. CASE n < i
    <3>1. PICK k \in 1 .. m : i = n + k /\ k < m
      <4>1. i - n \in 1 .. m /\ i = n + (i - n) /\ i - n < m
        BY <1>1, <1>2, <1>12, <2>3
      <4> QED BY <4>1
    <3>2. k + 1 \in 1 .. m /\ n + (k + 1) = i + 1
      BY <1>1, <1>2, <3>1
    <3>3. c[i] = p[k] /\ c[i + 1] = p[k + 1]
      BY <1>8, <3>1, <3>2
    <3> QED BY <1>10, <1>12, <3>1, <3>3
  <2> QED BY <1>1, <2>1, <2>2, <2>3
<1>13. Whole(c)
  BY <1>3, <1>5, <1>11, <1>12 DEF Whole, InPlace
<1>14. Follows(f, FrameOf(c[1]))
  <2>1. CASE q = <<>>
    <3>1. n = 0 /\ 1 \in 1 .. m
      BY <1>1, <1>2, <1>6, <2>1
    <3>2. c[0 + 1] = p[1]
      BY <1>8, <3>1
    <3> QED BY <2>1, <3>2 DEF EndOf
  <2>2. CASE q # <<>>
    <3>1. n # 0
      BY <1>1, <2>2, EmptySeq
    <3>2. c[1] = q[1]
      BY <1>1, <1>7, <3>1
    <3> QED BY <2>2, <3>2 DEF Continues
  <2> QED BY <2>1, <2>2
<1>15. EndOf(c, f) = FrameOf(p[m])
  <2>1. m \in 1 .. m
    BY <1>6
  <2>2. c[n + m] = p[m]
    BY <1>8, <2>1
  <2> QED BY <1>5, <1>6, <2>2 DEF EndOf
<1> QED BY <1>1, <1>2, <1>4, <1>5, <1>6, <1>13, <1>14, <1>15 DEF Continues

\* Multiples of a frame's pieces.
LEMMA Quotient ==
  ASSUME NEW u \in Nat \ {0}, NEW q \in Int, NEW r \in 0 .. u - 1
  PROVE  (u * q + r) \div u = q /\ (u * q + r) % u = r
<1>1. PICK x \in Int : x = u * q
  OBVIOUS
<1>2. PICK a \in Int : a = (x + r) \div u
  OBVIOUS
<1>3. PICK b \in Int : b = (x + r) % u
  OBVIOUS
<1>4. x + r = u * a + b /\ 0 <= b /\ b < u
  BY <1>2, <1>3
<1>5. a = q
  <2>1. ~(a <= q - 1)
    <3>1. SUFFICES ASSUME a <= q - 1 PROVE FALSE
      OBVIOUS
    <3>2. u * a <= u * (q - 1)
      BY <3>1
    <3>3. u * (q - 1) = u * q - u
      OBVIOUS
    <3> QED BY <1>1, <1>4, <3>2, <3>3
  <2>2. ~(q + 1 <= a)
    <3>1. SUFFICES ASSUME q + 1 <= a PROVE FALSE
      OBVIOUS
    <3>2. u * (q + 1) <= u * a
      BY <3>1
    <3>3. u * (q + 1) = u * q + u
      OBVIOUS
    <3> QED BY <1>1, <1>4, <3>2, <3>3
  <2> QED BY <2>1, <2>2
<1>6. b = r
  BY <1>1, <1>4, <1>5
<1> QED BY <1>1, <1>2, <1>3, <1>5, <1>6

\* A segment is whole, from its first frame to its last.
LEMMA SegmentWhole ==
  ASSUME setup \in Setups, NEW seg \in Segments
  PROVE  LET p == SegmentUnits(seg)
         IN /\ p \in Seq(Units) /\ p # <<>> /\ Len(p) = FrameUnits * FramesPerSegment
            /\ Whole(p) /\ \A k \in 1 .. Len(p) : p[k].seg = seg
            /\ FrameOf(p[1]) = [seg |-> seg, fid |-> 0]
            /\ FrameOf(p[Len(p)]) = [seg |-> seg, fid |-> LastFrame]
<1>1. PICK u \in Nat \ {0} : u = FrameUnits
  BY SetupSizes
<1>2. PICK f \in Nat \ {0} : f = FramesPerSegment
  BY SetupSizes
<1>3. PICK n \in Nat : n = f * u
  BY <1>1, <1>2
<1>4. PICK p : p = SegmentUnits(seg)
  OBVIOUS
<1>5. p = [k \in 1 .. n |-> [seg |-> seg, fid |-> (k - 1) \div u, pos |-> 1 + ((k - 1) % u)]]
  BY <1>1, <1>2, <1>3, <1>4 DEF SegmentUnits
<1>6. p \in Seq(Units) /\ Len(p) = n
  <2>1. p \in Seq(Units) /\ DOMAIN p = 1 .. n
    BY <1>4, <1>5, SegmentPieces
  <2> QED BY <1>3, <2>1, LenProperties
<1>7. n = u * f /\ u <= n
  <2>1. f * u = u * f
    BY <1>1, <1>2
  <2>2. u * 1 <= u * f
    BY <1>1, <1>2
  <2> QED BY <1>1, <1>3, <2>1, <2>2
<1>8. \A a \in 0 .. f - 1 : \A r \in 0 .. u - 1 :
        /\ u * a + r + 1 \in 1 .. n
        /\ p[u * a + r + 1] = [seg |-> seg, fid |-> a, pos |-> r + 1]
  <2> SUFFICES ASSUME NEW a \in 0 .. f - 1, NEW r \in 0 .. u - 1
               PROVE  /\ u * a + r + 1 \in 1 .. n
                      /\ p[u * a + r + 1] = [seg |-> seg, fid |-> a, pos |-> r + 1]
    OBVIOUS
  <2>1. PICK x \in Int : x = u * a
    OBVIOUS
  <2>2. 0 <= x /\ x <= n - u
    <3>1. u * 0 <= u * a /\ u * a <= u * (f - 1)
      BY <1>1, <1>2
    <3>2. u * (f - 1) = u * f - u
      BY <1>1, <1>2
    <3> QED BY <1>7, <2>1, <3>1, <3>2
  <2>3. x + r + 1 \in 1 .. n /\ (x + r + 1) - 1 = x + r
    BY <1>1, <1>3, <2>1, <2>2
  <2>4. (x + r) \div u = a /\ (x + r) % u = r
    BY <1>1, <2>1, Quotient
  <2>5. p[x + r + 1] = [seg |-> seg, fid |-> a, pos |-> 1 + r]
    BY <1>5, <2>3, <2>4
  <2> QED BY <2>1, <2>3, <2>5
<1>9. \A k \in 1 .. n : \E a \in 0 .. f - 1 : \E r \in 0 .. u - 1 : k = u * a + r + 1
  <2> SUFFICES ASSUME NEW k \in 1 .. n
               PROVE  \E a \in 0 .. f - 1 : \E r \in 0 .. u - 1 : k = u * a + r + 1
    OBVIOUS
  <2>1. PICK a \in Int : a = (k - 1) \div u
    BY <1>1
  <2>2. PICK r \in Int : r = (k - 1) % u
    BY <1>1
  <2>3. k - 1 = u * a + r /\ 0 <= r /\ r < u
    BY <1>1, <2>1, <2>2
  <2>4. 0 <= a
    <3>1. SUFFICES ASSUME a <= -1 PROVE FALSE
      OBVIOUS
    <3>2. u * a <= u * (-1)
      BY <1>1, <3>1
    <3> QED BY <1>1, <2>3, <3>2
  <2>5. a <= f - 1
    <3>1. SUFFICES ASSUME f <= a PROVE FALSE
      OBVIOUS
    <3>2. u * f <= u * a
      BY <1>1, <1>2, <3>1
    <3> QED BY <1>7, <2>3, <3>2
  <2>6. a \in 0 .. f - 1 /\ r \in 0 .. u - 1 /\ k = u * a + r + 1
    BY <1>1, <1>2, <2>3, <2>4, <2>5
  <2> QED BY <2>6
<1>10. ASSUME NEW k \in 1 .. n
       PROVE  /\ \A j \in 1 .. u : k - p[k].pos + j \in 1 .. n
                                   /\ p[k - p[k].pos + j] = [p[k] EXCEPT !.pos = j]
              /\ k < n /\ p[k].pos = u => Follows(FrameOf(p[k]), FrameOf(p[k + 1]))
              /\ p[k].seg = seg
  <2>1. PICK a \in 0 .. f - 1 : \E r \in 0 .. u - 1 : k = u * a + r + 1
    BY <1>9
  <2>2. PICK r \in 0 .. u - 1 : k = u * a + r + 1
    BY <2>1
  <2>3. PICK x \in Int : x = u * a
    BY <1>1
  <2>4. p[k] = [seg |-> seg, fid |-> a, pos |-> r + 1]
    BY <1>8, <2>2
  <2>5. ASSUME NEW j \in 1 .. u
        PROVE  k - p[k].pos + j \in 1 .. n /\ p[k - p[k].pos + j] = [p[k] EXCEPT !.pos = j]
    <3>1. PICK i \in 0 .. u - 1 : j = i + 1
      <4>1. j - 1 \in 0 .. u - 1 /\ j = (j - 1) + 1
        BY <1>1
      <4> QED BY <4>1
    <3>2. x + i + 1 \in 1 .. n /\ p[x + i + 1] = [seg |-> seg, fid |-> a, pos |-> i + 1]
      BY <1>8, <2>3
    <3>3. p[k].pos = r + 1
      BY <2>4
    <3>4. k - (r + 1) + j = x + i + 1
      BY <2>2, <2>3, <3>1
    <3> QED BY <2>4, <3>1, <3>2, <3>3, <3>4
  <2>6. ASSUME k < n, p[k].pos = u PROVE Follows(FrameOf(p[k]), FrameOf(p[k + 1]))
    <3>1. r + 1 = u
      BY <2>4, <2>6
    <3>2. a + 1 \in 0 .. f - 1
      <4>1. SUFFICES ASSUME a = f - 1 PROVE FALSE
        BY <1>2
      <4>2. u * (f - 1) = u * f - u
        BY <1>1, <1>2
      <4> QED BY <1>1, <1>7, <2>2, <2>6, <3>1, <4>1, <4>2
    <3>3. u * (a + 1) = x + u
      BY <1>1, <2>3
    <3>4. 0 \in 0 .. u - 1
      BY <1>1
    <3>5. p[u * (a + 1) + 0 + 1] = [seg |-> seg, fid |-> a + 1, pos |-> 0 + 1]
      BY <1>8, <3>2, <3>4
    <3>6. u * (a + 1) + 0 + 1 = k + 1
      BY <1>1, <2>2, <2>3, <3>1, <3>3
    <3> QED BY <2>4, <3>5, <3>6 DEF Follows, FrameOf
  <2> QED BY <2>4, <2>5, <2>6
<1>11. Whole(p)
  BY <1>1, <1>6, <1>10 DEF Whole, InPlace
<1>12. p[1] = [seg |-> seg, fid |-> 0, pos |-> 1]
  <2>1. 0 \in 0 .. f - 1 /\ 0 \in 0 .. u - 1
    BY <1>1, <1>2
  <2>2. p[u * 0 + 0 + 1] = [seg |-> seg, fid |-> 0, pos |-> 0 + 1]
    BY <1>8, <2>1
  <2>3. u * 0 + 0 + 1 = 1
    BY <1>1
  <2> QED BY <2>2, <2>3
<1>13. p[n] = [seg |-> seg, fid |-> f - 1, pos |-> u]
  <2>1. f - 1 \in 0 .. f - 1 /\ u - 1 \in 0 .. u - 1
    BY <1>1, <1>2
  <2>2. p[u * (f - 1) + (u - 1) + 1] = [seg |-> seg, fid |-> f - 1, pos |-> (u - 1) + 1]
    BY <1>8, <2>1
  <2>3. u * (f - 1) = u * f - u
    BY <1>1, <1>2
  <2>4. u * (f - 1) + (u - 1) + 1 = n /\ (u - 1) + 1 = u
    BY <1>1, <1>2, <1>7, <2>3
  <2> QED BY <2>2, <2>4
<1>14. p # <<>>
  BY <1>1, <1>6, <1>7
<1>15. /\ FrameOf(p[1]) = [seg |-> seg, fid |-> 0]
       /\ FrameOf(p[n]) = [seg |-> seg, fid |-> LastFrame]
  BY <1>2, <1>12, <1>13 DEF FrameOf, LastFrame
<1>16. n = FrameUnits * FramesPerSegment
  BY <1>1, <1>2, <1>7
<1>17. \A k \in 1 .. n : p[k].seg = seg
  BY <1>10
<1> QED BY <1>4, <1>6, <1>11, <1>14, <1>15, <1>16, <1>17

------------------------------------------------------------------------------
(* Requests and frames keep the order.                                     *)

\* What a new request changes before it is sent.
LEMMA RequestParts ==
  ASSUME setup \in Setups, NEW s, Well(s), MayRequest(s.client), NEW t \in RequestSegment(s)
  PROVE  \E r : /\ Well(r) /\ t \in SendSegmentRequest(r, s.client.nextSeg)
                /\ r.client.pendSeg = s.client.nextSeg
                /\ r.client.nextSeg = s.client.nextSeg + 1
                /\ r.client.sock = s.client.sock /\ r.client.connected = s.client.connected
                /\ r.timers.delayed = s.timers.delayed
                /\ r.timers.underrun = s.timers.underrun
                /\ r.player = s.player /\ r.net = s.net /\ r.parser = s.parser
                /\ r.client.pending /\ r.client.got = 0
<1>1. s \in Sessions /\ s.client \in Clients /\ s.timers \in Timers
  BY WellFields DEF Well
<1>2. PICK c : c = [s.client EXCEPT !.pending = TRUE, !.retryUsed = FALSE,
                                    !.pendSeg = s.client.nextSeg, !.nextSeg = @ + 1,
                                    !.got = 0, !.lastGot = 0, !.ticks = 0]
  OBVIOUS
<1>3. PICK m : m = [s.timers EXCEPT !.segment = TRUE]
  OBVIOUS
<1>4. PICK r : r = [s EXCEPT !.client = c, !.timers = m]
  OBVIOUS
<1>5. t \in SendSegmentRequest(r, s.client.nextSeg)
  <2>1. r = [s EXCEPT !.client = [@ EXCEPT !.pending = TRUE, !.retryUsed = FALSE,
                                      !.pendSeg = s.client.nextSeg,
                                      !.nextSeg = s.client.nextSeg + 1,
                                      !.got = 0, !.lastGot = 0, !.ticks = 0],
                 !.timers.segment = TRUE]
    BY <1>1, <1>2, <1>3, <1>4 DEF Sessions
  <2> QED BY <2>1 DEF RequestSegment
<1>6. /\ s.client.nextSeg \in Segments /\ s.client.nextSeg + 1 \in 0 .. MaxSegments
      /\ 0 \in 0 .. StuckLimit
  BY <1>1, SetupSizes DEF MayRequest, Clients, Segments
<1>7. /\ c \in Clients /\ c.ticks = 0 /\ c.connected = s.client.connected
      /\ c.sock = s.client.sock /\ c.pending /\ c.got = 0
      /\ c.pendSeg = s.client.nextSeg /\ c.nextSeg = s.client.nextSeg + 1
  BY <1>1, <1>2, <1>6 DEF Clients
<1>8. /\ m \in Timers /\ m.segment = TRUE /\ m.delayed = s.timers.delayed
      /\ m.underrun = s.timers.underrun
  BY <1>1, <1>3 DEF Timers
<1>9. /\ r \in Sessions /\ r.client = c /\ r.timers = m /\ r.player = s.player
      /\ r.net = s.net /\ r.parser = s.parser
  BY <1>1, <1>4, <1>7, <1>8 DEF Sessions
<1>10. Well(r)
  <2>1. Bounded(r) /\ OneChain(r.player)
    BY <1>9 DEF Well, Bounded
  <2>2. Guarded(r)
    BY <1>7, <1>8, <1>9 DEF Guarded, MayRequest
  <2>3. Ticking(r)
    BY <1>7, <1>9, SetupSizes DEF Ticking
  <2> QED BY <1>9, <2>1, <2>2, <2>3 DEF Well
<1> QED BY <1>5, <1>7, <1>8, <1>9, <1>10

\* Two sessions that differ only in where pieces are, in timers that are not about
\* requests, or in what the watchdog counts.
Same(s, t) ==
  /\ Pieces(t) = Pieces(s) /\ t.net.up = s.net.up /\ t.player = s.player
  /\ t.client.pending = s.client.pending /\ t.client.pendSeg = s.client.pendSeg
  /\ t.client.nextSeg = s.client.nextSeg /\ t.client.got = s.client.got
  /\ t.client.connected = s.client.connected /\ t.client.sock = s.client.sock
  /\ t.timers.delayed = s.timers.delayed /\ t.timers.underrun = s.timers.underrun

LEMMA SameKept ==
  ASSUME NEW s, NEW t, NEW l, Same(s, t), Kept(s, l)
  PROVE  Kept(t, l)
<1>1. OneConnection /\ Ordered(s, l) => Ordered(t, l)
  BY DEF Same, Ordered
<1>2. OneConnection /\ Staged(s, l) => Staged(t, l)
  BY DEF Same, Staged
<1>3. OneAtATime(s, l) => OneAtATime(t, l)
  BY DEF Same, OneAtATime, Missing
<1>4. Fitting(s) => Fitting(t)
  BY DEF Same, Fitting, Missing
<1> QED BY <1>1, <1>2, <1>3, <1>4 DEF Kept

Placed(l) == l.seg \in Segments /\ l.fid \in -1 .. LastFrame

\* The frame that all pieces on their way end with.
Ending(s, l) == EndOf(Pieces(s), Newest(s.player.buffer, l))

LEMMA PiecesTyped ==
  ASSUME NEW s, Well(s)
  PROVE  /\ s.parser.bytes \in Seq(Units) /\ s.net.rx \in Seq(Units)
         /\ s.net.wire \in Seq(Units) /\ s.net.queue \in Seq(Units)
         /\ Pieces(s) \in Seq(Units)
<1>1. /\ s.parser.bytes \in Seq(Units) /\ s.net.rx \in Seq(Units)
      /\ s.net.wire \in Seq(Units) /\ s.net.queue \in Seq(Units)
  BY WellFields DEF Well, Parsers, Nets
<1>2. s.parser.bytes \o s.net.rx \in Seq(Units)
  BY <1>1, ConcatProperties
<1>3. (s.parser.bytes \o s.net.rx) \o s.net.wire \in Seq(Units)
  BY <1>1, <1>2, ConcatProperties
<1>4. ((s.parser.bytes \o s.net.rx) \o s.net.wire) \o s.net.queue \in Seq(Units)
  BY <1>1, <1>3, ConcatProperties
<1> QED BY <1>1, <1>4 DEF Pieces

LEMMA EndingTyped ==
  ASSUME setup \in Setups, NEW s, Well(s), NEW l, Placed(l)
  PROVE  /\ Placed(Newest(s.player.buffer, l)) /\ Placed(Ending(s, l))
<1>1. PICK b \in Seq(Frames) : b = s.player.buffer
  BY WellFields DEF Well, Players
<1>2. Placed(Newest(b, l))
  <2>1. CASE b = <<>>
    BY <2>1 DEF Newest
  <2>2. CASE b # <<>>
    <3>1. Len(b) \in 1 .. Len(b)
      BY <2>2, EmptySeq, LenProperties
    <3>2. b[Len(b)] \in Frames
      BY <3>1, ElementOfSeq
    <3> QED BY <2>2, <3>2, SetupSizes DEF Newest, Placed, Frames, LastFrame
  <2> QED BY <2>1, <2>2
<1>3. PICK q \in Seq(Units) : q = Pieces(s)
  BY PiecesTyped
<1>4. Placed(EndOf(q, Newest(b, l)))
  <2>1. CASE q = <<>>
    BY <1>2, <2>1 DEF EndOf
  <2>2. CASE q # <<>>
    <3>1. Len(q) \in 1 .. Len(q)
      BY <2>2, EmptySeq, LenProperties
    <3>2. PICK x \in Units : x = q[Len(q)]
      BY <3>1, ElementOfSeq
    <3>3. x.seg \in Segments /\ x.fid \in -1 .. LastFrame
      BY <3>2, SetupSizes DEF Units, LastFrame
    <3>4. EndOf(q, Newest(b, l)) = [seg |-> x.seg, fid |-> x.fid]
      BY <2>2, <3>2 DEF EndOf, FrameOf
    <3> QED BY <3>3, <3>4 DEF Placed
  <2> QED BY <2>1, <2>2
<1> QED BY <1>1, <1>2, <1>3, <1>4 DEF Ending

\* One more request for the segment asked for last, whether Send() takes it or not.
LEMMA SendOrdered ==
  ASSUME setup \in Setups, NEW s, Well(s), NEW l, Placed(l), Ordered(s, l), Staged(s, l),
         s.client.connected,
         NEW t \in SendSegmentRequest(s, s.client.pendSeg)
  PROVE  Ordered(t, l) /\ Staged(t, l)
<1>1. CASE t = s
  BY <1>1
<1>2. CASE t = [s EXCEPT !.net.up = Append(@, s.client.pendSeg)]
  <2>1. /\ s \in Sessions /\ s.net \in Nets /\ s.client.pendSeg \in Segments
        /\ s.net.up \in Seq(Segments)
    BY WellFields DEF Well, Clients, Nets
  <2>2. PICK p \in Segments : p = s.client.pendSeg
    BY <2>1
  <2>3. PICK u : u = Append(s.net.up, p)
    OBVIOUS
  <2>4. PICK n \in Nat : n = Len(s.net.up)
    BY <2>1, LenProperties
  <2>5. /\ u \in Seq(Segments) /\ Len(u) = n + 1 /\ u[n + 1] = p
        /\ \A i \in 1 .. n : u[i] = s.net.up[i]
    BY <2>1, <2>3, <2>4, AppendProperties
  <2>6. /\ t.net.up = u /\ t.client = s.client /\ t.timers = s.timers
        /\ t.player = s.player /\ t.parser = s.parser
        /\ t.net.rx = s.net.rx /\ t.net.wire = s.net.wire /\ t.net.queue = s.net.queue
    BY <1>2, <2>1, <2>2, <2>3 DEF Sessions, Nets
  <2>7. Pieces(t) = Pieces(s)
    BY <2>6 DEF Pieces
  <2>8. PICK e : e = Ending(s, l)
    OBVIOUS
  <2>9. /\ Complete(e) /\ e.seg <= p /\ Asked(s.net.up, e, p)
        /\ e.fid = -1 => p = 0
    BY <2>2, <2>8 DEF Ordered, Ending
  <2>10. Placed(e)
    BY <2>8, EndingTyped
  <2>11. Follows(e, [seg |-> p, fid |-> 0])
    <3>1. e.seg \in Int /\ p \in Int
      BY <2>2, <2>10, SetupSizes DEF Placed, Segments
    <3>2. CASE e.fid = LastFrame
      BY <2>9, <3>1, <3>2 DEF Follows
    <3>3. CASE e.fid = -1 /\ e.seg = 0
      BY <2>9, <3>3 DEF Follows
    <3> QED BY <2>9, <3>2, <3>3 DEF Complete
  <2>12. Asked(u, e, p)
    <3>1. \A i \in 1 .. n : Follows(e, [seg |-> s.net.up[i], fid |-> 0]) /\ s.net.up[i] <= p
      BY <2>4, <2>9 DEF Asked
    <3>2. \A i, j \in 1 .. n : i <= j => s.net.up[i] <= s.net.up[j]
      BY <2>4, <2>9 DEF Asked
    <3>3. p <= p
      BY <2>2, SetupSizes DEF Segments
    <3>4. \A i \in 1 .. n + 1 : i \in 1 .. n \/ i = n + 1
      BY <2>4
    <3>5. \A i \in 1 .. n + 1 : Follows(e, [seg |-> u[i], fid |-> 0]) /\ u[i] <= p
      BY <2>5, <2>11, <3>1, <3>3, <3>4
    <3>6. ASSUME NEW i \in 1 .. n + 1, NEW j \in 1 .. n + 1, i <= j PROVE u[i] <= u[j]
      <4>1. CASE j = n + 1
        BY <2>5, <3>5, <4>1
      <4>2. CASE j \in 1 .. n
        <5>1. i \in 1 .. n
          BY <2>4, <3>6, <4>2
        <5> QED BY <2>5, <3>2, <3>6, <4>2, <5>1
      <4> QED BY <3>4, <4>1, <4>2
    <3> QED BY <2>5, <3>5, <3>6 DEF Asked
  <2>13. Ordered(t, l)
    BY <2>2, <2>6, <2>7, <2>8, <2>12 DEF Ordered, Ending
  <2>14. Staged(t, l)
    BY <2>6 DEF Staged
  <2> QED BY <2>13, <2>14
<1> QED BY <1>1, <1>2 DEF SendSegmentRequest

\* A new request is for the segment after those asked for.
LEMMA RequestOrdered ==
  ASSUME setup \in Setups, NEW s, Well(s), NEW l, Placed(l), Ordered(s, l), Staged(s, l),
         Ending(s, l).fid = -1 => s.client.nextSeg = 0,
         NEW t \in RequestSegment(s)
  PROVE  Ordered(t, l) /\ Staged(t, l)
<1>1. CASE ~MayRequest(s.client)
  BY <1>1 DEF RequestSegment
<1>2. CASE MayRequest(s.client)
  <2>1. PICK r : /\ Well(r) /\ t \in SendSegmentRequest(r, s.client.nextSeg)
                 /\ r.client.pendSeg = s.client.nextSeg
                 /\ r.client.nextSeg = s.client.nextSeg + 1
                 /\ r.client.sock = s.client.sock /\ r.client.connected = s.client.connected
                 /\ r.timers.delayed = s.timers.delayed
                 /\ r.timers.underrun = s.timers.underrun
                 /\ r.player = s.player /\ r.net = s.net /\ r.parser = s.parser
    BY <1>2, RequestParts
  <2>2. Pieces(r) = Pieces(s)
    BY <2>1 DEF Pieces
  <2>3. PICK e : e = Ending(s, l)
    OBVIOUS
  <2>4. PICK n : n = s.client.nextSeg
    OBVIOUS
  <2>5. PICK p : p = s.client.pendSeg
    OBVIOUS
  <2>6. n \in Nat /\ p \in Nat /\ p <= n
    BY <2>4, <2>5, WellFields, SetupSizes DEF Well, Clients, Segments, Ordered
  <2>7. e.seg \in Int
    BY <2>3, EndingTyped, SetupSizes DEF Placed, Segments
  <2>8. /\ Complete(e) /\ e.seg <= p /\ Asked(s.net.up, e, p)
        /\ e.fid = -1 => s.timers.delayed = <<>> /\ ~s.timers.underrun
    BY <2>3, <2>5 DEF Ordered, Ending
  <2>9. Asked(s.net.up, e, n)
    <3>1. s.net.up \in Seq(Segments)
      BY WellFields DEF Well, Nets
    <3>2. \A i \in 1 .. Len(s.net.up) : s.net.up[i] \in Segments
      BY <3>1, ElementOfSeq
    <3>3. \A i \in 1 .. Len(s.net.up) : s.net.up[i] \in Int
      BY <3>2, SetupSizes DEF Segments
    <3>4. \A i \in 1 .. Len(s.net.up) : s.net.up[i] <= p => s.net.up[i] <= n
      BY <2>6, <3>3
    <3> QED BY <2>8, <3>4 DEF Asked
  <2>10. e.seg <= n /\ n <= n + 1 /\ (e.fid = -1 => n = 0)
    BY <2>3, <2>4, <2>6, <2>7, <2>8
  <2>11. Ordered(r, l)
    <3>1. InOrder(r.player.buffer, l) /\ Continues(Pieces(r), Newest(r.player.buffer, l))
      BY <2>1, <2>2 DEF Ordered
    <3>2. EndOf(Pieces(r), Newest(r.player.buffer, l)) = e
      BY <2>1, <2>2, <2>3 DEF Ending
    <3> QED BY <2>1, <2>4, <2>8, <2>9, <2>10, <3>1, <3>2 DEF Ordered
  <2>12. r.client.connected /\ r.client.sock = "open"
    BY <1>2, <2>1 DEF MayRequest, Staged
  <2>13. Staged(r, l)
    BY <2>1, <2>12 DEF Staged
  <2> QED BY <2>1, <2>11, <2>12, <2>13, SendOrdered
<1> QED BY <1>1, <1>2

\* A frame that may follow the newest joins the buffer.
LEMMA NewestAppend ==
  ASSUME NEW b \in Seq(Frames), NEW f \in Frames, NEW l
  PROVE  /\ Newest(Append(b, f), l) = f
         /\ InOrder(b, l) /\ Follows(Newest(b, l), f) => InOrder(Append(b, f), l)
<1>1. PICK n \in Nat : n = Len(b)
  BY LenProperties
<1>2. PICK c : c = Append(b, f)
  OBVIOUS
<1>3. /\ Len(c) = n + 1 /\ c[n + 1] = f /\ c # <<>>
      /\ \A k \in 1 .. n : c[k] = b[k]
  <2>1. c \in Seq(Frames) /\ Len(c) = n + 1 /\ c[n + 1] = f
    BY <1>1, <1>2, AppendProperties
  <2>2. c # <<>>
    BY <1>1, <2>1, EmptySeq
  <2>3. \A k \in 1 .. n : c[k] = b[k]
    BY <1>1, <1>2, AppendProperties
  <2> QED BY <2>1, <2>2, <2>3
<1>4. Newest(c, l) = f
  BY <1>3 DEF Newest
<1>5. ASSUME InOrder(b, l), Follows(Newest(b, l), f) PROVE InOrder(c, l)
  <2>1. SUFFICES ASSUME NEW k \in 1 .. n + 1
                 PROVE  Follows(IF k = 1 THEN l ELSE c[k - 1], c[k])
    BY <1>3 DEF InOrder
  <2>2. CASE k \in 1 .. n
    <3>1. Follows(IF k = 1 THEN l ELSE b[k - 1], b[k])
      BY <1>1, <1>5, <2>2 DEF InOrder
    <3>2. k # 1 => c[k - 1] = b[k - 1]
      <4>1. k # 1 => k - 1 \in 1 .. n
        BY <1>1, <2>2
      <4> QED BY <1>3, <4>1
    <3>3. c[k] = b[k]
      BY <1>3, <2>2
    <3> QED BY <3>1, <3>2, <3>3
  <2>3. CASE k = n + 1
    <3>1. CASE n = 0
      <4>1. b = <<>>
        BY <1>1, <3>1, EmptySeq
      <4> QED BY <1>3, <1>5, <2>3, <3>1, <4>1 DEF Newest
    <3>2. CASE n # 0
      <4>1. b # <<>> /\ n \in 1 .. n /\ k # 1 /\ k - 1 = n
        BY <1>1, <2>3, <3>2, EmptySeq
      <4>2. Newest(b, l) = b[n]
        BY <1>1, <4>1 DEF Newest
      <4>3. c[n] = b[n]
        BY <1>3, <4>1
      <4>4. c[k] = f
        BY <1>3, <2>3
      <4> QED BY <1>5, <4>1, <4>2, <4>3, <4>4
    <3> QED BY <3>1, <3>2
  <2> QED BY <1>1, <2>2, <2>3
<1> QED BY <1>2, <1>4, <1>5

\* Once a frame has been taken, what comes last is a frame too.
LEMMA EndingBegun ==
  ASSUME setup \in Setups, NEW s, Well(s), NEW l, Newest(s.player.buffer, l).fid # -1
  PROVE  Ending(s, l).fid # -1
<1>1. PICK q \in Seq(Units) : q = Pieces(s)
  BY PiecesTyped
<1>2. CASE q = <<>>
  BY <1>1, <1>2 DEF Ending, EndOf
<1>3. CASE q # <<>>
  <2>1. Len(q) \in 1 .. Len(q)
    BY <1>3, EmptySeq, LenProperties
  <2>2. PICK x \in Units : x = q[Len(q)]
    BY <2>1, ElementOfSeq
  <2>3. x.fid \in 0 .. LastFrame /\ LastFrame \in Int
    BY <2>2, SetupSizes DEF Units, LastFrame
  <2>4. Ending(s, l).fid = x.fid
    BY <1>1, <1>3, <2>2 DEF Ending, EndOf, FrameOf
  <2> QED BY <2>3, <2>4
<1> QED BY <1>2, <1>3

\* Session h has taken the first frame, f, of the pieces of s; its request may be
\* done, and another one put off.
Heard(s, h, f) ==
  /\ Pieces(s) # <<>> /\ f = FrameOf(Pieces(s)[1])
  /\ Pieces(h) = DropFirst(Pieces(s), FrameUnits)
  /\ h.player = ReceiveFrame(s.player, f) /\ h.net = s.net
  /\ h.client.connected = s.client.connected /\ h.client.sock = s.client.sock
  /\ h.client.nextSeg = s.client.nextSeg /\ h.client.pendSeg = s.client.pendSeg
  /\ h.client.got = s.client.got + 1
  /\ h.timers.underrun = s.timers.underrun

\* What ReceiveFrame does to the player.
LEMMA ReceiveFrameParts ==
  ASSUME NEW p \in Players, NEW f \in Frames
  PROVE  LET q == ReceiveFrame(p, f)
         IN /\ q.buffer = Append(p.buffer, f) /\ q.played = p.played
            /\ q.state = (IF p.state = "PAUSED" THEN "PLAYING"
                          ELSE IF p.state = "NOT_STARTED" THEN "INITIAL_BUFFERING" ELSE p.state)
<1>1. PICK q : q = ReceiveFrame(p, f)
  OBVIOUS
<1>2. PICK b : b = Append(p.buffer, f)
  OBVIOUS
<1>3. PICK st : st = IF p.state = "PAUSED" THEN "PLAYING"
                     ELSE IF p.state = "NOT_STARTED" THEN "INITIAL_BUFFERING" ELSE p.state
  OBVIOUS
<1>4. PICK ev : ev = IF p.state \in {"PAUSED", "NOT_STARTED"} THEN 1 ELSE p.events
  OBVIOUS
<1>5. q = [p EXCEPT !.buffer = b, !.state = st, !.events = ev]
  BY <1>1, <1>2, <1>3, <1>4 DEF ReceiveFrame, Players
<1>6. q.buffer = b /\ q.state = st /\ q.played = p.played
  BY <1>5 DEF Players
<1> QED BY <1>1, <1>2, <1>3, <1>6

\* The first frame of the pieces is a frame, and may follow the newest.
LEMMA FirstFrame ==
  ASSUME setup \in Setups, NEW s, Well(s), NEW l, Ordered(s, l), Pieces(s) # <<>>
  PROVE  /\ FrameOf(Pieces(s)[1]) \in Frames
         /\ Follows(Newest(s.player.buffer, l), FrameOf(Pieces(s)[1]))
<1>1. PICK q \in Seq(Units) : q = Pieces(s)
  BY PiecesTyped
<1>2. 1 \in 1 .. Len(q)
  BY <1>1, EmptySeq, LenProperties
<1>3. PICK x \in Units : x = q[1]
  BY <1>2, ElementOfSeq
<1>4. FrameOf(x) \in Frames
  BY DEF FrameOf, Units, Frames
<1>5. Follows(Newest(s.player.buffer, l), FrameOf(x))
  BY <1>1, <1>3 DEF Ordered, Continues
<1> QED BY <1>1, <1>3, <1>4, <1>5

LEMMA HeardOrdered ==
  ASSUME setup \in Setups, NEW s, Well(s), NEW l, Placed(l), Ordered(s, l), Staged(s, l),
         NEW h, Well(h), NEW f, Heard(s, h, f)
  PROVE  Ordered(h, l) /\ Staged(h, l) /\ Ending(h, l).fid # -1
<1>1. PICK q \in Seq(Units) : q = Pieces(s) /\ q # <<>> /\ Whole(q)
  BY PiecesTyped DEF Heard, Ordered, Continues
<1>2. s.player \in Players /\ s.player.buffer \in Seq(Frames)
  BY WellFields DEF Well, Players
<1>3. PICK g : g = Newest(s.player.buffer, l)
  OBVIOUS
<1>4. f = FrameOf(q[1]) /\ f \in Frames /\ Follows(g, f)
  BY <1>1, <1>3, FirstFrame DEF Heard
<1>5. PICK r : r = DropFirst(q, FrameUnits)
  OBVIOUS
<1>6. Continues(r, f) /\ EndOf(r, f) = EndOf(q, g)
  BY <1>1, <1>4, <1>5, WholeDrop
<1>7. /\ h.player.buffer = Append(s.player.buffer, f) /\ h.player.played = s.player.played
      /\ h.player.state = (IF s.player.state = "PAUSED" THEN "PLAYING"
                           ELSE IF s.player.state = "NOT_STARTED" THEN "INITIAL_BUFFERING"
                           ELSE s.player.state)
  BY <1>2, <1>4, ReceiveFrameParts DEF Heard
<1>8. Newest(h.player.buffer, l) = f /\ InOrder(h.player.buffer, l)
  BY <1>2, <1>3, <1>4, <1>7, NewestAppend DEF Ordered
<1>9. f.fid # -1
  <2>1. f.fid \in 0 .. LastFrame /\ LastFrame \in Int
    BY <1>4, SetupSizes DEF Frames, LastFrame
  <2> QED BY <2>1
<1>10. Ending(h, l).fid # -1
  BY <1>8, <1>9, EndingBegun
<1>11. PICK e : e = Ending(s, l)
  OBVIOUS
<1>12. Ending(h, l) = e /\ e = EndOf(q, g)
  BY <1>1, <1>3, <1>5, <1>6, <1>8, <1>11 DEF Heard, Ending
<1>13. Complete(e) /\ e.seg <= s.client.pendSeg /\ Asked(s.net.up, e, s.client.pendSeg)
  BY <1>11 DEF Ordered, Ending
<1>14. Ordered(h, l)
  <2>1. Continues(Pieces(h), Newest(h.player.buffer, l))
    BY <1>1, <1>5, <1>6, <1>8 DEF Heard
  <2>2. h.client.pendSeg = s.client.pendSeg /\ h.client.nextSeg = s.client.nextSeg
        /\ h.net.up = s.net.up
    BY DEF Heard
  <2>3. EndOf(Pieces(h), Newest(h.player.buffer, l)) = e
    BY <1>12 DEF Ending
  <2>4. e.fid # -1
    BY <1>10, <1>12
  <2>5. s.client.pendSeg <= s.client.nextSeg
    BY DEF Ordered
  <2> QED BY <1>8, <1>13, <2>1, <2>2, <2>3, <2>4, <2>5 DEF Ordered
<1>15. Staged(h, l)
  <2>1. Newest(h.player.buffer, l).fid # -1
    BY <1>8, <1>9
  <2>2. ~(s.client.sock \in {"none", "connecting"})
    BY DEF Heard, Staged
  <2>3. h.client.connected = s.client.connected /\ h.client.sock = s.client.sock
    BY DEF Heard
  <2>4. h.player.state # "NOT_STARTED"
    BY <1>7
  <2>5. h.player.state = "INITIAL_BUFFERING" => h.player.played = 0
    BY <1>7 DEF Staged
  <2>6. h.player.state = "DONE" => s.player.state = "DONE"
    BY <1>7
  <2> QED BY <2>1, <2>2, <2>3, <2>4, <2>5, <2>6 DEF Staged
<1> QED BY <1>10, <1>14, <1>15

------------------------------------------------------------------------------
(* Requests and frames keep to the cap.                                    *)

\* The next segment is requested when it fits under the cap, and nothing else that
\* would request it is waiting.
RoomForSegment(s) ==
  /\ s.timers.delayed = <<>> /\ ~s.timers.underrun
  /\ FramesPerSegment * (s.client.nextSeg + 1) <= s.player.played + MaxBuffer + StartTime

\* One frame count is a product: so many whole segments and one more.
LEMMA OneSegmentMore ==
  ASSUME NEW n \in Int
  PROVE  FramesPerSegment * (n + 1) = FramesPerSegment * n + FramesPerSegment
         /\ FramesPerSegment * n \in Int /\ FramesPerSegment \in Int
<1>1. PICK f \in Nat : f = FramesPerSegment
  BY SizeAssumption
<1>2. f * (n + 1) = f * n + f /\ f * n \in Int
  OBVIOUS
<1> QED BY <1>1, <1>2

LEMMA RequestCapped ==
  ASSUME setup \in Setups, Undisturbed, NEW s, Well(s), NEW l, Ordered(s, l),
         OneAtATime(s, l), Fitting(s),
         MayRequest(s.client) => RoomForSegment(s),
         NEW t \in RequestSegment(s)
  PROVE  OneAtATime(t, l) /\ Fitting(t)
<1>1. CASE ~MayRequest(s.client)
  BY <1>1 DEF RequestSegment
<1>2. CASE MayRequest(s.client)
  <2>1. PICK r : /\ Well(r) /\ t \in SendSegmentRequest(r, s.client.nextSeg)
                 /\ r.client.pendSeg = s.client.nextSeg
                 /\ r.client.nextSeg = s.client.nextSeg + 1
                 /\ r.timers.delayed = s.timers.delayed
                 /\ r.timers.underrun = s.timers.underrun
                 /\ r.player = s.player /\ r.net = s.net /\ r.parser = s.parser
                 /\ r.client.pending /\ r.client.got = 0
    BY <1>2, RequestParts
  <2>2. s.net.up = <<>> /\ Pieces(s) = <<>> /\ RoomForSegment(s)
    BY <1>2 DEF OneAtATime, MayRequest
  <2>3. PICK n \in Nat : n = s.client.nextSeg
    BY WellFields DEF Well, Clients
  <2>4. t = [r EXCEPT !.net.up = Append(@, n)]
    BY <2>1, <2>3 DEF SendSegmentRequest, Undisturbed
  <2>5. r \in Sessions /\ r.net \in Nets
    BY <2>1, WellFields DEF Well
  <2>6. /\ t.client = r.client /\ t.timers = r.timers /\ t.player = r.player
        /\ t.parser = r.parser /\ t.net.rx = r.net.rx /\ t.net.wire = r.net.wire
        /\ t.net.queue = r.net.queue /\ t.net.up = Append(r.net.up, n)
    BY <2>4, <2>5 DEF Sessions, Nets
  <2>7. t.net.up = << n >>
    <3>1. t.net.up = Append(<<>>, n)
      BY <2>1, <2>2, <2>6
    <3>2. \A x : Append(<<>>, x) = << x >>
      OBVIOUS
    <3> QED BY <3>1, <3>2
  <2>8. Pieces(t) = <<>>
    BY <2>1, <2>2, <2>6 DEF Pieces
  <2>9. Newest(s.player.buffer, l).fid \in {-1, LastFrame}
    BY <2>2 DEF Ordered, EndOf, Complete
  <2>10. OneAtATime(t, l)
    <3>1. t.client.pendSeg = n /\ t.client.nextSeg = n + 1 /\ t.client.got = 0
          /\ t.client.pending /\ t.player = s.player
      BY <2>1, <2>3, <2>6
    <3>2. 0 < FramesPerSegment /\ 0 <= FramesPerSegment
      BY SetupSizes
    <3>3. \A k \in 1 .. Len(Pieces(t)) : Pieces(t)[k].seg = t.client.pendSeg
      BY <2>8
    <3> QED BY <2>7, <2>8, <2>9, <3>1, <3>2, <3>3 DEF OneAtATime
  <2>11. Fitting(t)
    <3>1. PICK f \in Nat \ {0} : f = FramesPerSegment
      BY SetupSizes
    <3>2. Missing(s.client) = 0 /\ Missing(t.client) = f
      <4>1. ~s.client.pending /\ t.client.pending /\ t.client.got = 0
        BY <1>2, <2>1, <2>6 DEF MayRequest
      <4> QED BY <3>1, <4>1 DEF Missing
    <3>3. PICK a \in Int : a = s.player.played + Len(s.player.buffer)
      <4>1. s.player.played \in Nat /\ Len(s.player.buffer) \in Nat
        BY WellFields, LenProperties DEF Well, Players
      <4> QED BY <4>1
    <3>4. a = f * n
      <4>1. a + 0 = f * n
        BY <2>3, <3>1, <3>2, <3>3 DEF Fitting
      <4> QED BY <4>1
    <3>5. f * (n + 1) = f * n + f
      BY <2>3, <3>1, OneSegmentMore
    <3>6. t.player.played + Len(t.player.buffer) + Missing(t.client) = f * t.client.nextSeg
      <4>1. t.player = s.player /\ t.client.nextSeg = n + 1
        BY <2>1, <2>3, <2>6
      <4> QED BY <3>2, <3>3, <3>4, <3>5, <4>1
    <3>7. f * t.client.nextSeg <= t.player.played + MaxBuffer + StartTime
      <4>1. t.player = s.player /\ t.client.nextSeg = n + 1
        BY <2>1, <2>3, <2>6
      <4> QED BY <2>2, <2>3, <3>1, <4>1 DEF RoomForSegment
    <3>8. t.timers.delayed = <<>> /\ ~t.timers.underrun
      BY <2>1, <2>2, <2>6 DEF RoomForSegment
    <3>9. Len(t.timers.delayed) <= 1
      BY <3>8
    <3> QED BY <3>1, <3>6, <3>7, <3>8, <3>9 DEF Fitting
  <2> QED BY <2>10, <2>11
<1> QED BY <1>1, <1>2

\* A piece on its way is of the request that is pending, and the first frame is the
\* one that comes next.
LEMMA HeardNext ==
  ASSUME setup \in Setups, NEW s, Well(s), NEW l, Ordered(s, l), OneAtATime(s, l),
         Pieces(s) # <<>>
  PROVE  /\ s.client.pending /\ s.net.up = <<>> /\ s.client.got < FramesPerSegment
         /\ Len(Pieces(s)) = FrameUnits * (FramesPerSegment - s.client.got)
         /\ FrameOf(Pieces(s)[1]).seg = s.client.pendSeg
         /\ FrameOf(Pieces(s)[1]).fid = s.client.got
<1>1. s.client.pending
  BY DEF OneAtATime
<1>2. PICK q \in Seq(Units) : q = Pieces(s)
  BY PiecesTyped
<1>3. Len(q) \in Nat /\ Len(q) # 0 /\ 1 \in 1 .. Len(q)
  BY <1>2, EmptySeq, LenProperties
<1>4. PICK g \in Nat : g = s.client.got
  BY WellFields DEF Well, Clients
<1>5. PICK m \in Nat \ {0} : m = FramesPerSegment
  BY SetupSizes
<1>6. PICK u \in Nat \ {0} : u = FrameUnits
  BY SetupSizes
<1>7. s.net.up = <<>> /\ Len(q) = u * (m - g) /\ g <= m
  BY <1>1, <1>2, <1>4, <1>5, <1>6 DEF OneAtATime, Missing
<1>8. g < m
  <2>1. g = m => u * (m - g) = 0
    BY <1>4, <1>5, <1>6
  <2> QED BY <1>3, <1>4, <1>5, <1>7, <2>1
<1>9. PICK f \in Frames : f = FrameOf(q[1])
  BY <1>2, FirstFrame
<1>10. f.seg = s.client.pendSeg
  <2>1. q[1].seg = s.client.pendSeg
    BY <1>1, <1>2, <1>3 DEF OneAtATime
  <2> QED BY <1>9, <2>1 DEF FrameOf
<1>11. f.fid = g
  <2>1. PICK w : w = Newest(s.player.buffer, l)
    OBVIOUS
  <2>2. Follows(w, f)
    BY <1>2, <1>9, <2>1, FirstFrame
  <2>3. f.fid \in 0 .. m - 1 /\ LastFrame = m - 1
    BY <1>5, <1>9 DEF Frames, LastFrame
  <2>4. IF g = 0 THEN w.fid \in {-1, m - 1} ELSE w.fid = g - 1
    BY <1>1, <1>4, <2>1, <2>3 DEF OneAtATime
  <2>5. f.fid = w.fid + 1 \/ (w.fid = m - 1 /\ f.fid = 0)
    BY <2>2, <2>3 DEF Follows
  <2> QED BY <1>4, <1>5, <1>8, <2>3, <2>4, <2>5
<1> QED BY <1>1, <1>2, <1>4, <1>5, <1>6, <1>7, <1>8, <1>9, <1>10, <1>11

\* What has come of the request, and what is left of it.
LEMMA HeardCounted ==
  ASSUME setup \in Setups, NEW s, Well(s), NEW l, Ordered(s, l),
         OneAtATime(s, l), Fitting(s), NEW h, Well(h), NEW f, Heard(s, h, f)
  PROVE  /\ h.net.up = <<>> /\ h.client.pendSeg + 1 = h.client.nextSeg
         /\ h.client.got - 1 = f.fid /\ f.seg = h.client.pendSeg
         /\ Newest(h.player.buffer, l) = f
         /\ h.client.got \in 1 .. FramesPerSegment
         /\ Len(Pieces(h)) = FrameUnits * (FramesPerSegment - h.client.got)
         /\ \A k \in 1 .. Len(Pieces(h)) : Pieces(h)[k].seg = h.client.pendSeg
         /\ h.player.played + Len(h.player.buffer) + (FramesPerSegment - h.client.got)
              = FramesPerSegment * h.client.nextSeg
         /\ FramesPerSegment * h.client.nextSeg <= h.player.played + MaxBuffer + StartTime
         /\ h.player.played = s.player.played
<1>1. PICK q \in Seq(Units) : q = Pieces(s) /\ q # <<>>
  BY PiecesTyped DEF Heard
<1>2. PICK n \in Nat : n = Len(q)
  BY LenProperties
<1>3. PICK g \in Nat : g = s.client.got
  BY WellFields DEF Well, Clients
<1>4. PICK m \in Nat \ {0} : m = FramesPerSegment
  BY SetupSizes
<1>5. PICK u \in Nat \ {0} : u = FrameUnits
  BY SetupSizes
<1>6. /\ s.client.pending /\ s.net.up = <<>> /\ g < m /\ n = u * (m - g)
      /\ f.seg = s.client.pendSeg /\ f.fid = g /\ f \in Frames
      /\ h.client.got = g + 1
  BY <1>1, <1>2, <1>3, <1>4, <1>5, HeardNext, FirstFrame DEF Heard
<1>7. /\ h.net = s.net /\ h.client.pendSeg = s.client.pendSeg
      /\ h.client.nextSeg = s.client.nextSeg /\ Pieces(h) = DropFirst(q, u)
  BY <1>1, <1>5 DEF Heard
<1>8. s.player \in Players /\ s.player.buffer \in Seq(Frames) /\ s.player.played \in Nat
  BY WellFields DEF Well, Players
<1>9. /\ h.player.buffer = Append(s.player.buffer, f) /\ h.player.played = s.player.played
  <2>1. h.player = ReceiveFrame(s.player, f) /\ f \in Frames
    BY <1>6 DEF Heard
  <2> QED BY <1>8, <2>1, ReceiveFrameParts
<1>10. PICK k \in Nat : k = Len(s.player.buffer)
  BY <1>8, LenProperties
<1>11. Len(h.player.buffer) = k + 1 /\ Newest(h.player.buffer, l) = f
  BY <1>6, <1>8, <1>9, <1>10, AppendProperties, NewestAppend
<1>12. u * (m - g) = u * (m - (g + 1)) + u /\ u * (m - (g + 1)) \in Nat
  <2>1. PICK d \in Nat : d = m - (g + 1)
    BY <1>3, <1>4, <1>6
  <2>2. m - g = d + 1
    <3>1. m \in Int /\ g \in Int /\ d = m - (g + 1)
      BY <1>3, <1>4, <2>1
    <3> QED BY <3>1
  <2>3. u * (d + 1) = u * d + u /\ u * d \in Nat
    OBVIOUS
  <2> QED BY <2>1, <2>2, <2>3
<1>13. u \in 0 .. n /\ n - u = u * (m - (g + 1))
  BY <1>2, <1>5, <1>6, <1>12
<1>14. Len(Pieces(h)) = n - u
  BY <1>2, <1>7, <1>13, DropProperties
<1>15. ASSUME NEW i \in 1 .. n - u PROVE Pieces(h)[i].seg = h.client.pendSeg
  <2>1. Pieces(h)[i] = q[u + i]
    BY <1>2, <1>7, <1>13, DropElements
  <2>2. u + i \in 1 .. n
    BY <1>2, <1>5
  <2>3. q[u + i].seg = s.client.pendSeg
    BY <1>1, <1>2, <1>6, <2>2 DEF OneAtATime
  <2> QED BY <1>7, <2>1, <2>3
<1>16. s.client.pendSeg + 1 = s.client.nextSeg
  BY <1>6 DEF OneAtATime
<1>17. s.player.played + (k + 1) + (m - (g + 1)) = m * s.client.nextSeg
  <2>1. s.player.played + k + (m - g) = m * s.client.nextSeg
    BY <1>3, <1>4, <1>6, <1>10 DEF Fitting, Missing
  <2>2. s.player.played + (k + 1) + (m - (g + 1)) = s.player.played + k + (m - g)
    <3>1. \A w, x, y, z \in Int : w + (x + 1) + (y - (z + 1)) = w + x + (y - z)
      OBVIOUS
    <3>2. m \in Int /\ g \in Int /\ k \in Int /\ s.player.played \in Int
      BY <1>3, <1>4, <1>8, <1>10
    <3> QED BY <3>1, <3>2
  <2> QED BY <2>1, <2>2
<1>18. m * s.client.nextSeg <= s.player.played + MaxBuffer + StartTime
  BY <1>4 DEF Fitting
<1>19. /\ h.client.got \in 1 .. FramesPerSegment /\ h.client.got - 1 = f.fid
  <2>1. m \in Int /\ g \in Nat /\ g < m
    BY <1>3, <1>4, <1>6
  <2>2. g + 1 \in 1 .. m /\ g + 1 - 1 = g
    BY <2>1
  <2> QED BY <1>4, <1>6, <2>2
<1>20. Len(Pieces(h)) = FrameUnits * (FramesPerSegment - h.client.got)
  BY <1>4, <1>5, <1>6, <1>13, <1>14
<1>21. h.player.played + Len(h.player.buffer) + (FramesPerSegment - h.client.got)
         = FramesPerSegment * h.client.nextSeg
  BY <1>4, <1>6, <1>7, <1>9, <1>11, <1>17
<1>22. FramesPerSegment * h.client.nextSeg <= h.player.played + MaxBuffer + StartTime
  BY <1>4, <1>7, <1>9, <1>18
<1> QED BY <1>6, <1>7, <1>9, <1>11, <1>14, <1>15, <1>16, <1>19, <1>20, <1>21, <1>22

\* A frame in the middle of a segment, or after the end.
LEMMA MiddleFrameCapped ==
  ASSUME setup \in Setups, Undisturbed, NEW s, Well(s), NEW l, Ordered(s, l),
         OneAtATime(s, l), Fitting(s), NEW h, Well(h), NEW f, Heard(s, h, f),
         ~(h.player.state # "DONE" /\ f.fid = LastFrame),
         h.client.pending = s.client.pending, h.timers.delayed = s.timers.delayed
  PROVE  OneAtATime(h, l) /\ Fitting(h)
<1>1. /\ h.net.up = <<>> /\ h.client.pendSeg + 1 = h.client.nextSeg
      /\ h.client.got - 1 = f.fid /\ Newest(h.player.buffer, l) = f
      /\ h.client.got \in 1 .. FramesPerSegment
      /\ Len(Pieces(h)) = FrameUnits * (FramesPerSegment - h.client.got)
      /\ \A k \in 1 .. Len(Pieces(h)) : Pieces(h)[k].seg = h.client.pendSeg
      /\ h.player.played + Len(h.player.buffer) + (FramesPerSegment - h.client.got)
           = FramesPerSegment * h.client.nextSeg
      /\ FramesPerSegment * h.client.nextSeg <= h.player.played + MaxBuffer + StartTime
  BY HeardCounted
<1>2. s.client.pending /\ h.client.pending
  BY HeardNext DEF Heard
<1>3. h.player.state = "DONE" <=> s.player.state = "DONE"
  <2>1. s.player \in Players /\ f \in Frames
    BY FirstFrame, WellFields DEF Well, Heard
  <2> QED BY <2>1, ReceiveFrameParts DEF Heard
<1>4. OneAtATime(h, l)
  <2>1. h.client.got <= FramesPerSegment /\ h.client.got # 0
    BY <1>1, SetupSizes
  <2>2. h.player.state # "DONE" => h.client.got < FramesPerSegment
    <3>1. h.player.state # "DONE" => h.client.got - 1 # FramesPerSegment - 1
      BY <1>1 DEF LastFrame
    <3>2. PICK m \in Int : m = FramesPerSegment
      BY SetupSizes
    <3>3. PICK g \in 1 .. m : g = h.client.got
      BY <1>1, <3>2
    <3> QED BY <3>1, <3>2, <3>3
  <2>3. Newest(h.player.buffer, l).fid = h.client.got - 1
    BY <1>1
  <2>4. Missing(h.client) = FramesPerSegment - h.client.got
    BY <1>2 DEF Missing
  <2> QED BY <1>1, <1>2, <2>1, <2>2, <2>3, <2>4 DEF OneAtATime
<1>5. Fitting(h)
  <2>1. Missing(h.client) = FramesPerSegment - h.client.got
    BY <1>2 DEF Missing
  <2>2. h.timers.delayed = s.timers.delayed /\ h.timers.underrun = s.timers.underrun
    BY DEF Heard
  <2>3. h.player.state # "DONE" => h.timers.delayed = <<>> /\ ~h.timers.underrun
    BY <1>2, <1>3, <2>2 DEF Fitting
  <2>4. Len(h.timers.delayed) <= 1
    BY <2>2 DEF Fitting
  <2> QED BY <1>1, <2>1, <2>3, <2>4 DEF Fitting
<1> QED BY <1>4, <1>5

\* The last frame of a segment: the next one is requested at once if it fits, or
\* put off until it does.
LEMMA LastFrameCapped ==
  ASSUME setup \in Setups, Undisturbed, NEW s, Well(s), NEW l, Ordered(s, l), Staged(s, l),
         OneAtATime(s, l), Fitting(s), NEW h, Well(h), NEW f, Heard(s, h, f),
         h.player.state # "DONE", f.fid = LastFrame, ~h.client.pending
  PROVE  /\ s.timers.delayed = <<>> /\ OneAtATime(h, l)
         /\ h.timers.delayed = <<>> => Fitting(h)
         /\ h.timers.delayed = <<>> /\ BufferDelay(h.player, f) <= 0 => RoomForSegment(h)
         /\ \A at \in {h.player.played + BufferDelay(h.player, f)} :
              /\ ~(BufferDelay(h.player, f) <= 0)
              /\ h.timers.delayed = << [earliest |-> at, latest |-> at] >>
              => Fitting(h)
<1>1. /\ h.net.up = <<>> /\ h.client.pendSeg + 1 = h.client.nextSeg
      /\ h.client.got - 1 = f.fid /\ f.seg = h.client.pendSeg
      /\ h.client.got \in 1 .. FramesPerSegment
      /\ Len(Pieces(h)) = FrameUnits * (FramesPerSegment - h.client.got)
      /\ h.player.played + Len(h.player.buffer) + (FramesPerSegment - h.client.got)
           = FramesPerSegment * h.client.nextSeg
      /\ FramesPerSegment * h.client.nextSeg <= h.player.played + MaxBuffer + StartTime
      /\ h.player.played = s.player.played
  BY HeardCounted
<1>2. s.client.pending
  BY HeardNext DEF Heard
<1>3. s.player \in Players /\ f \in Frames
  BY FirstFrame, WellFields DEF Well, Heard
<1>4. /\ s.player.state # "DONE" /\ h.player.state # "PAUSED"
      /\ h.player.state = "INITIAL_BUFFERING" => s.player.played = 0
  <2>1. h.player.state = (IF s.player.state = "PAUSED" THEN "PLAYING"
                          ELSE IF s.player.state = "NOT_STARTED" THEN "INITIAL_BUFFERING"
                          ELSE s.player.state)
    BY <1>3, ReceiveFrameParts DEF Heard
  <2> QED BY <2>1 DEF Staged
<1>5. s.timers.delayed = <<>> /\ ~h.timers.underrun
  BY <1>2, <1>4 DEF Fitting, Heard
<1>6. PICK m \in Nat \ {0} : m = FramesPerSegment
  BY SetupSizes
<1>7. h.client.got = m
  BY <1>1, <1>6 DEF LastFrame
<1>8. Pieces(h) = <<>>
  <2>1. PICK u \in Nat : u = FrameUnits
    BY SetupSizes
  <2>2. u * (m - m) = 0
    OBVIOUS
  <2>3. Len(Pieces(h)) = 0 /\ Pieces(h) \in Seq(Units)
    BY <1>1, <1>6, <1>7, <2>1, <2>2, PiecesTyped
  <2> QED BY <2>3, EmptySeq
<1>9. OneAtATime(h, l)
  BY <1>1, <1>8 DEF OneAtATime
<1>10. PICK n \in Nat : n = h.client.nextSeg
  BY WellFields DEF Well, Clients
<1>11. PICK a \in Nat : a = h.player.played
  BY WellFields DEF Well, Players
<1>12. PICK b \in Nat : b = Len(h.player.buffer)
  BY WellFields, LenProperties DEF Well, Players
<1>13. PICK c \in Nat : c = MaxBuffer
  BY SetupSizes
<1>14. PICK st \in Nat : st = StartTime
  BY SetupSizes
<1>15. PICK v \in Int : v = m * n
  BY <1>6, <1>10, OneSegmentMore
<1>16. m * (n + 1) = v + m
  BY <1>6, <1>10, <1>15, OneSegmentMore
<1>17. a + b + 0 = v /\ v <= a + c + st
  BY <1>1, <1>6, <1>7, <1>10, <1>11, <1>12, <1>13, <1>14, <1>15
<1>18. Missing(h.client) = 0
  BY DEF Missing
<1>19. ASSUME Len(h.timers.delayed) <= 1,
              h.timers.delayed # <<>> => /\ v + m <= h.timers.delayed[1].earliest + c + st
                                         /\ h.timers.delayed[1].latest <= v
       PROVE  Fitting(h)
  BY <1>1, <1>4, <1>5, <1>6, <1>10, <1>11, <1>12, <1>13, <1>14, <1>15, <1>16, <1>17, <1>18, <1>19
     DEF Fitting
<1>20. PICK d \in Int : d = BufferDelay(h.player, f)
  <2>1. h.player \in Players
    BY WellFields DEF Well
  <2> QED BY <1>3, <2>1, DelayInteger
<1>21. /\ d = v - st + m - c \/ d = v - a + m - c
       /\ h.player.state # "INITIAL_BUFFERING" => d = v - a + m - c
       /\ h.player.state = "INITIAL_BUFFERING" => d = v - st + m - c /\ a = 0
  <2>1. c # 0 /\ m <= c
    BY <1>6, <1>13 DEF Undisturbed
  <2>2. PICK z \in Nat : z = f.seg
    BY <1>3, SetupSizes DEF Frames, Segments
  <2>3. z + 1 = n /\ f.fid + 1 = m
    BY <1>1, <1>6, <1>7, <1>10, <2>2
  <2>4. z * m + m = v
    <3>1. (z + 1) * m = z * m + m
      OBVIOUS
    <3>2. n * m = m * n
      OBVIOUS
    <3> QED BY <1>15, <2>3, <3>1, <3>2
  <2>5. f.fid = m - 1 /\ z * m \in Int
    BY <1>6, <2>3, <1>1, <1>7
  <2>6. z * m + f.fid + 1 = v
    BY <2>4, <2>5
  <2>7. PlayTimeLeft(h.player, f) = IF h.player.state = "INITIAL_BUFFERING" THEN v - st ELSE v - a
    BY <1>6, <1>11, <1>14, <2>2, <2>6 DEF PlayTimeLeft
  <2>8. d = PlayTimeLeft(h.player, f) + m - c
    BY <1>6, <1>13, <1>20, <2>1 DEF BufferDelay
  <2> QED BY <1>1, <1>4, <1>11, <2>7, <2>8
<1>22. h.timers.delayed = <<>> => Fitting(h)
  <2>1. h.timers.delayed = <<>> => Len(h.timers.delayed) <= 1
    OBVIOUS
  <2> QED BY <1>19, <2>1
<1>23. ASSUME h.timers.delayed = <<>>, BufferDelay(h.player, f) <= 0
       PROVE  RoomForSegment(h)
  <2>1. v + m <= a + c + st
    BY <1>20, <1>21, <1>23
  <2> QED BY <1>5, <1>6, <1>10, <1>11, <1>13, <1>14, <1>16, <1>23, <2>1 DEF RoomForSegment
<1>24. ASSUME ~(BufferDelay(h.player, f) <= 0),
              NEW at, at = h.player.played + BufferDelay(h.player, f),
              h.timers.delayed = << [earliest |-> at, latest |-> at] >>
       PROVE  Fitting(h)
  <2>1. at = a + d
    BY <1>11, <1>20, <1>24
  <2>2. /\ Len(h.timers.delayed) = 1
        /\ h.timers.delayed[1].earliest = at /\ h.timers.delayed[1].latest = at
    BY <1>24
  <2>3. m <= c
    BY <1>6, <1>13 DEF Undisturbed
  <2>4. v + m <= at + c + st
    BY <1>21, <2>1
  <2>5. at <= v
    BY <1>21, <2>1, <2>3
  <2> QED BY <1>19, <2>2, <2>4, <2>5
<1> QED BY <1>5, <1>9, <1>22, <1>23, <1>24

\* In an undisturbed session with room for the cap the player takes every frame.
LEMMA NeverFull ==
  ASSUME setup \in Setups, Roomy, NEW s, Well(s), NEW l, OneAtATime(s, l), Fitting(s)
  PROVE  Len(s.player.buffer) <= MaxBuffer + StartTime /\ ~BufferFull(s.player)
<1>1. PICK a \in Nat : a = s.player.played
  BY WellFields DEF Well, Players
<1>2. PICK b \in Nat : b = Len(s.player.buffer)
  BY WellFields, LenProperties DEF Well, Players
<1>3. PICK m \in Nat : m = Missing(s.client)
  <2>1. s.client.got \in Nat /\ FramesPerSegment \in Nat
    BY WellFields, SetupSizes DEF Well, Clients
  <2>2. s.client.pending => s.client.got <= FramesPerSegment
    BY DEF OneAtATime
  <2>3. s.client.pending => FramesPerSegment - s.client.got \in Nat
    BY <2>1, <2>2
  <2> QED BY <2>3 DEF Missing
<1>4. PICK c \in Nat : c = MaxBuffer
  BY SetupSizes
<1>5. PICK st \in Nat : st = StartTime
  BY SetupSizes
<1>6. PICK v : v = FramesPerSegment * s.client.nextSeg
  OBVIOUS
<1>7. a + b + m = v /\ v <= a + c + st
  BY <1>1, <1>2, <1>3, <1>4, <1>5, <1>6 DEF Fitting
<1>8. b <= c + st
  BY <1>7
<1>9. PICK z \in Nat : z = BufferSpace
  BY SetupSizes
<1>10. c + st < z
  BY <1>4, <1>5, <1>9 DEF Roomy
<1>11. ~(b >= z)
  BY <1>8, <1>10
<1> QED BY <1>2, <1>4, <1>5, <1>8, <1>9, <1>11 DEF BufferFull

\* A request changes neither the player nor the parser.
LEMMA RequestLeaves ==
  ASSUME setup \in Setups, NEW s, Well(s), NEW t \in RequestSegment(s)
  PROVE  t.player = s.player /\ t.parser = s.parser
<1>1. CASE ~MayRequest(s.client)
  BY <1>1 DEF RequestSegment
<1>2. CASE MayRequest(s.client)
  <2>1. PICK r : /\ Well(r) /\ t \in SendSegmentRequest(r, s.client.nextSeg)
                 /\ r.player = s.player /\ r.parser = s.parser
    BY <1>2, RequestParts
  <2>2. r \in Sessions
    BY <2>1 DEF Well
  <2>3. t = r \/ t = [r EXCEPT !.net.up = Append(@, s.client.nextSeg)]
    BY <2>1 DEF SendSegmentRequest
  <2> QED BY <2>1, <2>2, <2>3 DEF Sessions
<1> QED BY <1>1, <1>2

LEMMA RequestKept ==
  ASSUME setup \in Setups, NEW s, Well(s), NEW l, Placed(l), Kept(s, l),
         OneConnection /\ Ending(s, l).fid = -1 => s.client.nextSeg = 0,
         Roomy /\ MayRequest(s.client) => RoomForSegment(s),
         NEW t \in RequestSegment(s)
  PROVE  Kept(t, l)
<1>1. OneConnection => Ordered(t, l) /\ Staged(t, l)
  BY RequestOrdered DEF Kept
<1>2. Roomy => Undisturbed /\ OneConnection
  BY DEF Roomy, Undisturbed, OneConnection
<1>3. Roomy => OneAtATime(t, l) /\ Fitting(t)
  BY <1>2, RequestCapped DEF Kept
<1> QED BY <1>1, <1>3 DEF Kept

LEMMA SamePieces ==
  ASSUME NEW s, NEW t, t.parser = s.parser, t.net = s.net
  PROVE  Pieces(t) = Pieces(s)
BY DEF Pieces

\* What the parser has handed over is in order and counted.
LEMMA MessageKept ==
  ASSUME setup \in Setups, OneConnection, NEW s, Well(s), NEW l, Placed(l), Kept(s, l),
         Pieces(s) # <<>>, NEW rest, Well(rest), ~BufferFull(s.player),
         rest.client = s.client, rest.timers = s.timers, rest.player = s.player,
         rest.net = s.net, Pieces(rest) = DropFirst(Pieces(s), FrameUnits),
         NEW f \in Frames, f = FrameOf(Pieces(s)[1]),
         NEW t \in MessageReceived(rest, f)
  PROVE  Kept(t, l) /\ t.parser = rest.parser
<1>1. Ordered(s, l) /\ Staged(s, l) /\ (Roomy => OneAtATime(s, l) /\ Fitting(s))
  BY DEF Kept
<1>2. Roomy => Undisturbed
  BY DEF Roomy
<1>3. PICK h : Taken(rest, f, h, t)
  BY MessageParts
<1>4. Pieces(h) = Pieces(rest) /\ h.parser = rest.parser
  <2>1. h.parser = rest.parser /\ h.net = rest.net
    BY <1>3 DEF Taken
  <2> QED BY <2>1, SamePieces
<1>5. Heard(s, h, f) /\ Well(h)
  BY <1>3, <1>4 DEF Heard, Taken
<1>6. Ordered(h, l) /\ Staged(h, l) /\ Ending(h, l).fid # -1
  BY <1>1, <1>5, HeardOrdered
<1>7. CASE t = h /\ ~(h.player.state # "DONE" /\ f.fid = LastFrame)
           /\ h.client.pending = s.client.pending /\ h.timers.delayed = s.timers.delayed
  <2>1. Roomy => OneAtATime(h, l) /\ Fitting(h)
    BY <1>1, <1>2, <1>5, <1>7, MiddleFrameCapped
  <2> QED BY <1>4, <1>6, <1>7, <2>1 DEF Kept
<1>8. CASE h.player.state # "DONE" /\ f.fid = LastFrame /\ ~h.client.pending
  <2>1. Roomy =>
          /\ s.timers.delayed = <<>> /\ OneAtATime(h, l)
          /\ h.timers.delayed = <<>> => Fitting(h)
          /\ h.timers.delayed = <<>> /\ BufferDelay(h.player, f) <= 0 => RoomForSegment(h)
          /\ \A at \in {h.player.played + BufferDelay(h.player, f)} :
               /\ ~(BufferDelay(h.player, f) <= 0)
               /\ h.timers.delayed = << [earliest |-> at, latest |-> at] >>
               => Fitting(h)
    BY <1>1, <1>2, <1>5, <1>8, LastFrameCapped
  <2>2. CASE t \in RequestSegment(h) /\ h.timers.delayed = s.timers.delayed
             /\ BufferDelay(h.player, f) <= 0
    <3>1. Kept(h, l)
      BY <1>6, <2>1, <2>2 DEF Kept
    <3>2. Roomy => RoomForSegment(h)
      BY <2>1, <2>2
    <3>3. Kept(t, l)
      BY <1>5, <1>6, <2>2, <3>1, <3>2, RequestKept
    <3> QED BY <1>4, <1>5, <2>2, <3>3, RequestLeaves
  <2>3. ASSUME NEW at, at = h.player.played + BufferDelay(h.player, f),
               t = h, ~(BufferDelay(h.player, f) <= 0),
               h.timers.delayed = Append(s.timers.delayed, [earliest |-> at, latest |-> at])
        PROVE  Kept(t, l) /\ t.parser = rest.parser
    <3>1. Roomy => h.timers.delayed = << [earliest |-> at, latest |-> at] >>
      <4>1. \A x : Append(<<>>, x) = << x >>
        OBVIOUS
      <4>2. Roomy => s.timers.delayed = <<>>
        BY <2>1
      <4> QED BY <2>3, <4>1, <4>2
    <3>2. Roomy => Fitting(h)
      BY <2>1, <2>3, <3>1
    <3>3. Roomy => OneAtATime(h, l)
      BY <2>1
    <3> QED BY <1>4, <1>6, <2>3, <3>2, <3>3 DEF Kept
  <2> QED BY <1>3, <1>8, <2>2, <2>3 DEF Taken
<1> QED BY <1>3, <1>7, <1>8 DEF Taken

------------------------------------------------------------------------------
(* The parser keeps both.                                                  *)

\* What follows the pieces p is one sequence.
Regrouped(p, x, w, q) ==
  \E r \in Seq(Units) : r = (x \o w) \o q /\ ((p \o x) \o w) \o q = p \o r

LEMMA ConcatThree ==
  ASSUME NEW p \in Seq(Units), NEW x \in Seq(Units), NEW w \in Seq(Units),
         NEW q \in Seq(Units)
  PROVE  Regrouped(p, x, w, q)
<1>1. x \o w \in Seq(Units)
  BY ConcatProperties
<1>2. (p \o x) \o w = p \o (x \o w)
  BY ConcatAssociative
<1>3. PICK y \in Seq(Units) : y = x \o w
  BY <1>1
<1>4. (p \o y) \o q = p \o (y \o q)
  BY ConcatAssociative
<1>5. y \o q \in Seq(Units)
  BY ConcatProperties
<1> QED BY <1>2, <1>3, <1>4, <1>5 DEF Regrouped

\* The parser holds the first of the pieces.
LEMMA ParserFirst ==
  ASSUME NEW s, Well(s)
  PROVE  \E p, r \in Seq(Units) :
           /\ p = s.parser.bytes /\ Pieces(s) = p \o r /\ Len(p) <= Len(Pieces(s))
           /\ \A k \in 1 .. Len(p) : Pieces(s)[k] = p[k]
           /\ r = s.net.rx \o s.net.wire \o s.net.queue
<1>1. PICK p \in Seq(Units) : p = s.parser.bytes
  BY PiecesTyped
<1>2. PICK x \in Seq(Units) : x = s.net.rx
  BY PiecesTyped
<1>3. PICK w \in Seq(Units) : w = s.net.wire
  BY PiecesTyped
<1>4. PICK q \in Seq(Units) : q = s.net.queue
  BY PiecesTyped
<1>5. Regrouped(p, x, w, q)
  BY ConcatThree
<1>6. PICK r \in Seq(Units) : r = (x \o w) \o q /\ ((p \o x) \o w) \o q = p \o r
  BY <1>5 DEF Regrouped
<1>7. ((p \o x) \o w) \o q = p \o r
  BY <1>6
<1>8. Pieces(s) = p \o r
  BY <1>1, <1>2, <1>3, <1>4, <1>7 DEF Pieces
<1>9. PICK c : c = p \o r
  OBVIOUS
<1>10. Len(p) \in Nat /\ Len(r) \in Nat
  BY LenProperties
<1>11. Len(p) <= Len(c) /\ \A k \in 1 .. Len(p) : c[k] = p[k]
  <2>1. Len(c) = Len(p) + Len(r)
    BY <1>9, ConcatProperties
  <2>2. \A k \in 1 .. Len(p) + Len(r) : c[k] = IF k <= Len(p) THEN p[k] ELSE r[k - Len(p)]
    BY <1>9, ConcatProperties
  <2> QED BY <1>10, <2>1, <2>2
<1>12. r = s.net.rx \o s.net.wire \o s.net.queue
  BY <1>2, <1>3, <1>4, <1>6
<1> QED BY <1>1, <1>6, <1>8, <1>9, <1>11, <1>12

\* In order, what the parser holds begins with the headers of one frame.
LEMMA HeadersInOrder ==
  ASSUME setup \in Setups, NEW s, Well(s), NEW l, Ordered(s, l),
         ~(Len(s.parser.bytes) < HeaderUnits)
  PROVE  HeadersValid(s.parser.bytes) /\ Pieces(s) # <<>>
         /\ s.parser.bytes[1] = Pieces(s)[1]
<1>1. PICK p \in Seq(Units) :
        /\ p = s.parser.bytes /\ Len(p) <= Len(Pieces(s))
        /\ \A k \in 1 .. Len(p) : Pieces(s)[k] = p[k]
  BY ParserFirst
<1>2. PICK q \in Seq(Units) : q = Pieces(s) /\ Whole(q)
  BY PiecesTyped DEF Ordered, Continues
<1>3. PICK n \in Nat : n = Len(p)
  BY LenProperties
<1>4. PICK u \in Nat \ {0}, d \in Nat \ {0} : u = FrameUnits /\ d = HeaderUnits /\ d <= u
  BY SetupSizes
<1>5. d <= n /\ 1 \in 1 .. n
  BY <1>1, <1>3, <1>4
<1>6. q # <<>>
  <2>1. Len(q) # 0
    BY <1>1, <1>2, <1>3, <1>5, LenProperties
  <2> QED BY <2>1, EmptySeq
<1>7. \A j \in 1 .. FrameUnits : q[j] = [q[1] EXCEPT !.pos = j]
  BY <1>2, <1>6, WholeStart
<1>8. ASSUME NEW k \in 1 .. d PROVE p[k] = [p[1] EXCEPT !.pos = k]
  <2>1. k \in 1 .. n /\ k \in 1 .. u
    <3>1. k \in Int /\ 1 <= k /\ k <= d
      BY <1>4
    <3> QED BY <1>4, <1>5, <3>1
  <2>2. p[k] = q[k] /\ p[1] = q[1]
    BY <1>1, <1>2, <1>3, <1>5, <2>1
  <2> QED BY <1>4, <1>7, <2>1, <2>2
<1>9. p[1] = q[1]
  BY <1>1, <1>2, <1>3, <1>5
<1> QED BY <1>1, <1>2, <1>4, <1>6, <1>8, <1>9 DEF HeadersValid

\* One turn keeps the order, and takes a frame unless none is whole.
LEMMA PushOneKept ==
  ASSUME setup \in Setups, NEW s, Well(s), NEW l, Placed(l), Kept(s, l), NEW t \in PushOne(s)
  PROVE  /\ Kept(t, l)
         /\ Roomy => \/ Drained(t)
                     \/ ~Drained(s) /\ Len(t.parser.bytes) + 1 <= Len(s.parser.bytes)
<1>1. Roomy => OneConnection
  BY DEF Roomy, Undisturbed, OneConnection
<1> SUFFICES ASSUME OneConnection
             PROVE  /\ Kept(t, l)
                    /\ Roomy => \/ Drained(t)
                                \/ ~Drained(s) /\ Len(t.parser.bytes) + 1 <= Len(s.parser.bytes)
  BY <1>1 DEF Kept
<1>2. Ordered(s, l) /\ (Roomy => OneAtATime(s, l) /\ Fitting(s))
  BY DEF Kept
<1>3. s \in Sessions /\ s.parser \in Parsers
  BY WellFields DEF Well
<1>4. PICK bytes \in Seq(Units) : bytes = s.parser.bytes
  BY <1>3 DEF Parsers
<1>5. PICK n \in Nat : n = Len(bytes)
  BY LenProperties
<1>6. PICK p : p = [s.parser EXCEPT !.size = FrameUnits]
  OBVIOUS
<1>7. PICK sized : sized = [s EXCEPT !.parser = p]
  OBVIOUS
<1>8. p \in Parsers /\ p.bytes = bytes
  BY <1>3, <1>4, <1>6 DEF Parsers
<1>9. sized = [s EXCEPT !.parser.size = FrameUnits]
  BY <1>3, <1>6, <1>7 DEF Sessions
<1>10. /\ Well(sized) /\ sized.player = s.player /\ sized.parser = p /\ sized.net = s.net
       /\ sized.client = s.client /\ sized.timers = s.timers
  BY <1>7, <1>8, ParserWell
<1>11. PICK u \in Nat \ {0}, d \in Nat \ {0} : u = FrameUnits /\ d = HeaderUnits /\ d <= u
  BY SetupSizes
<1>12. CASE n < d
  <2>1. t = s
    BY <1>4, <1>5, <1>11, <1>12 DEF PushOne
  <2>2. Drained(s)
    <3>1. n < u
      BY <1>11, <1>12
    <3> QED BY <1>4, <1>5, <1>11, <3>1 DEF Drained
  <2> QED BY <2>1, <2>2
<1>13. CASE ~(n < d)
  <2>1. HeadersValid(bytes) /\ Pieces(s) # <<>> /\ bytes[1] = Pieces(s)[1]
    BY <1>2, <1>4, <1>5, <1>11, <1>13, HeadersInOrder
  <2>2. CASE n < u \/ BufferFull(s.player)
    <3>1. t = sized
      BY <1>4, <1>5, <1>9, <1>11, <1>13, <2>1, <2>2 DEF PushOne
    <3>2. Same(s, sized)
      BY <1>4, <1>8, <1>10 DEF Same, Pieces
    <3>3. Roomy => n < u
      BY <1>2, <2>2, NeverFull
    <3>4. Roomy => Drained(sized)
      BY <1>5, <1>8, <1>10, <1>11, <3>3 DEF Drained
    <3> QED BY <3>1, <3>2, <3>4, SameKept
  <2>3. CASE ~(n < u) /\ ~BufferFull(s.player)
    <3>1. PICK c : c = DropFirst(bytes, u)
      OBVIOUS
    <3>2. PICK r : r = [p EXCEPT !.bytes = c]
      OBVIOUS
    <3>3. PICK rest : rest = [sized EXCEPT !.parser = r]
      OBVIOUS
    <3>4. rest = [[s EXCEPT !.parser.size = FrameUnits]
                    EXCEPT !.parser.bytes = DropFirst(@, FrameUnits)]
      <4>1. rest = [sized EXCEPT !.parser.bytes = DropFirst(@, FrameUnits)]
        <5>1. sized \in Sessions
          BY <1>10 DEF Well
        <5> QED BY <1>8, <1>10, <1>11, <3>1, <3>2, <3>3, <5>1 DEF Sessions, Parsers
      <4> QED BY <1>9, <4>1
    <3>5. u \in 0 .. n
      BY <1>11, <2>3
    <3>6. c \in Seq(Units) /\ Len(c) = n - u
      BY <1>5, <3>1, <3>5, DropProperties
    <3>7. r \in Parsers /\ r.bytes = c
      BY <1>8, <3>2, <3>6 DEF Parsers
    <3>8. /\ Well(rest) /\ rest.player = s.player /\ rest.client = s.client
          /\ rest.timers = s.timers /\ rest.net = s.net /\ rest.parser = r
      BY <1>10, <3>3, <3>7, ParserWell
    <3>9. Pieces(rest) = DropFirst(Pieces(s), FrameUnits)
      <4>1. PICK q \in Seq(Units) :
              Pieces(s) = bytes \o q /\ q = s.net.rx \o s.net.wire \o s.net.queue
        BY <1>4, ParserFirst
      <4>2. PICK z \in Seq(Units) :
              Pieces(rest) = c \o z /\ z = rest.net.rx \o rest.net.wire \o rest.net.queue
        <5>1. PICK a, b \in Seq(Units) :
                /\ a = rest.parser.bytes /\ Pieces(rest) = a \o b
                /\ b = rest.net.rx \o rest.net.wire \o rest.net.queue
          BY <3>8, ParserFirst
        <5> QED BY <3>7, <3>8, <5>1
      <4>3. q = z
        BY <3>8, <4>1, <4>2
      <4>4. DropFirst(bytes \o q, u) = DropFirst(bytes, u) \o q
        BY <1>5, <3>5, DropOfConcat
      <4> QED BY <1>11, <3>1, <4>1, <4>2, <4>3, <4>4
    <3>10. PICK f \in Frames : f = FrameOf(bytes[1]) /\ f = FrameOf(Pieces(s)[1])
      BY <1>2, <2>1, FirstFrame
    <3>11. t \in MessageReceived(rest, f)
      BY <1>4, <1>5, <1>11, <1>13, <2>1, <2>3, <3>4, <3>10 DEF PushOne
    <3>12. Kept(t, l) /\ t.parser = rest.parser
      BY <2>1, <2>3, <3>8, <3>9, <3>10, <3>11, MessageKept
    <3>13. Len(t.parser.bytes) + 1 <= Len(s.parser.bytes) /\ ~Drained(s)
      <4>1. Len(t.parser.bytes) = n - u
        BY <3>6, <3>7, <3>8, <3>12
      <4>2. n - u + 1 <= n /\ ~(n < u)
        BY <1>11, <2>3
      <4> QED BY <1>4, <1>5, <1>11, <4>1, <4>2 DEF Drained
    <3> QED BY <3>12, <3>13
  <2> QED BY <2>2, <2>3
<1> QED BY <1>12, <1>13

\* So do all turns together, and no whole frame is left where there is room.
LEMMA PushKept ==
  ASSUME setup \in Setups, NEW s, Well(s), NEW l, Placed(l), Kept(s, l),
         NEW r \in TryToPushToPlayer(s)
  PROVE  Kept(r, l) /\ (Roomy => Drained(r))
<1>1. PICK after : /\ \A k \in Nat : after[k] = IF k = 0 THEN {s} ELSE Turned(after[k - 1])
                   /\ TryToPushToPlayer(s) = after[Len(s.parser.bytes)]
  BY TurnsDefined
<1>2. PICK n \in Nat : n = Len(s.parser.bytes)
  BY PiecesTyped, LenProperties
<1> DEFINE fine(u, k) == /\ Well(u) /\ Kept(u, l)
                         /\ Roomy => Drained(u) \/ Len(u.parser.bytes) + k <= n
           bad == {k \in Nat : \E u \in after[k] : ~fine(u, k)}
<1>3. ASSUME bad # {} PROVE FALSE
  <2>1. PICK m \in bad : \A k \in bad : m <= k
    <3>1. bad \subseteq Nat
      OBVIOUS
    <3> HIDE DEF bad
    <3> QED BY <1>3, <3>1, LeastNatural
  <2>2. m \in Nat
    OBVIOUS
  <2>3. PICK u \in after[m] : ~fine(u, m)
    BY <2>1
  <2>4. m # 0
    <3>1. fine(s, 0)
      BY <1>2
    <3> QED BY <1>1, <2>2, <2>3, <3>1
  <2>5. m - 1 \in Nat /\ m - 1 \notin bad
    BY <2>1, <2>2, <2>4
  <2>6. u \in Turned(after[m - 1])
    BY <1>1, <2>2, <2>3, <2>4
  <2>7. PICK v \in after[m - 1] : u \in PushOne(v)
    BY <2>6 DEF Turned
  <2>8. fine(v, m - 1)
    BY <2>5, <2>7
  <2>9. Well(u)
    BY <2>7, <2>8, PushOneWell
  <2>10. /\ Kept(u, l)
         /\ Roomy => \/ Drained(u)
                     \/ ~Drained(v) /\ Len(u.parser.bytes) + 1 <= Len(v.parser.bytes)
    BY <2>7, <2>8, PushOneKept
  <2>11. PICK a \in Nat : a = Len(u.parser.bytes)
    BY <2>9, PiecesTyped, LenProperties
  <2>12. PICK b \in Nat : b = Len(v.parser.bytes)
    BY <2>8, PiecesTyped, LenProperties
  <2>13. Roomy => Drained(u) \/ a + m <= n
    <3>1. a \in Int /\ b \in Int /\ m \in Int /\ n \in Int
      BY <1>2, <2>2, <2>11, <2>12
    <3>2. \A w, x, y, z \in Int : w + 1 <= x /\ x + (y - 1) <= z => w + y <= z
      OBVIOUS
    <3>3. a + 1 <= b /\ b + (m - 1) <= n => a + m <= n
      BY <3>1, <3>2
    <3> QED BY <2>8, <2>10, <2>11, <2>12, <3>3
  <2> QED BY <2>3, <2>9, <2>10, <2>11, <2>13
<1>4. fine(r, n)
  BY <1>1, <1>2, <1>3
<1>5. Roomy => Drained(r)
  <2>1. SUFFICES ASSUME Roomy PROVE Drained(r)
    OBVIOUS
  <2>2. PICK a \in Nat : a = Len(r.parser.bytes)
    BY <1>4, PiecesTyped, LenProperties
  <2>3. Drained(r) \/ a + n <= n
    BY <1>4, <2>1, <2>2
  <2>4. PICK u \in Nat \ {0} : u = FrameUnits
    BY SetupSizes
  <2>5. a + n <= n => a < u
    <3>1. \A x, y, z \in Nat : x + y <= y /\ z # 0 => x < z
      OBVIOUS
    <3> QED BY <1>2, <2>2, <2>4, <3>1
  <2> QED BY <2>2, <2>3, <2>4, <2>5 DEF Drained
<1> QED BY <1>4, <1>5

\* What is read joins what the parser has left.
Joined(u) ==
  IF HoldsMessage(u.parser) \/ u.net.rx = <<>> THEN {u}
  ELSE TryToPushToPlayer([u EXCEPT !.parser.bytes = @ \o u.net.rx, !.net.rx = <<>>])

LEMMA ReadParts ==
  ASSUME NEW s, NEW t \in ReadSocket(s)
  PROVE  \E u \in TryToPushToPlayer(s) : t \in Joined(u)
BY ZenonT(60) DEF ReadSocket, Joined

LEMMA ReadKept ==
  ASSUME setup \in Setups, NEW s, Well(s), NEW l, Placed(l), Kept(s, l), NEW t \in ReadSocket(s)
  PROVE  Kept(t, l) /\ (Roomy => Drained(t))
<1>1. PICK u \in TryToPushToPlayer(s) : t \in Joined(u)
  BY ReadParts
<1>2. Well(u) /\ Kept(u, l) /\ (Roomy => Drained(u))
  BY PushWell, PushKept
<1>3. u \in Sessions /\ u.parser \in Parsers /\ u.net \in Nets
  BY <1>2, WellFields DEF Well
<1>4. CASE HoldsMessage(u.parser) \/ u.net.rx = <<>>
  BY <1>1, <1>2, <1>4 DEF Joined
<1>5. CASE ~(HoldsMessage(u.parser) \/ u.net.rx = <<>>)
  <2>1. PICK v : v = [u EXCEPT !.parser.bytes = @ \o u.net.rx, !.net.rx = <<>>]
    OBVIOUS
  <2>2. t \in TryToPushToPlayer(v)
    BY <1>1, <1>5, <2>1 DEF Joined
  <2>3. PICK b \in Seq(Units) : b = u.parser.bytes
    BY <1>2, PiecesTyped
  <2>4. PICK x \in Seq(Units) : x = u.net.rx
    BY <1>2, PiecesTyped
  <2>5. PICK c \in Seq(Units) : c = b \o x
    BY ConcatProperties
  <2>6. PICK p : p = [u.parser EXCEPT !.bytes = c]
    OBVIOUS
  <2>7. PICK n : n = [u.net EXCEPT !.rx = <<>>]
    OBVIOUS
  <2>8. v = [u EXCEPT !.parser = p, !.net = n]
    BY <1>3, <2>1, <2>3, <2>4, <2>5, <2>6, <2>7 DEF Sessions, Parsers, Nets
  <2>9. p \in Parsers /\ p.bytes = c
    BY <1>3, <2>6 DEF Parsers
  <2>10. n \in Nets /\ n.wire = u.net.wire /\ n.rx = <<>> /\ n.queue = u.net.queue
         /\ n.up = u.net.up
    <3>1. <<>> \in Seq(Units)
      OBVIOUS
    <3> QED BY <1>3, <2>7, <3>1 DEF Nets
  <2>11. /\ v \in Sessions /\ v.client = u.client /\ v.timers = u.timers
         /\ v.player = u.player /\ v.net = n /\ v.parser = p
    BY <1>3, <2>8, <2>9, <2>10 DEF Sessions
  <2>12. Well(v)
    <3>1. Len(n.rx) <= RcvBuf
      BY <2>10, SetupSizes
    <3>2. Bounded(v)
      BY <1>2, <2>10, <2>11, <3>1 DEF Well, Bounded
    <3> QED BY <1>2, <2>11, <3>2 DEF Well, Guarded, Ticking
  <2>13. Pieces(v) = Pieces(u)
    <3>1. c \o <<>> = c
      BY ConcatEmptySeq
    <3>2. Pieces(v) = c \o <<>> \o u.net.wire \o u.net.queue
      BY <2>9, <2>10, <2>11 DEF Pieces
    <3>3. Pieces(u) = b \o x \o u.net.wire \o u.net.queue
      BY <2>3, <2>4 DEF Pieces
    <3> QED BY <2>5, <3>1, <3>2, <3>3
  <2>14. Kept(v, l)
    <3>1. Same(u, v)
      BY <2>10, <2>11, <2>13 DEF Same
    <3> QED BY <1>2, <3>1, SameKept
  <2> QED BY <2>2, <2>12, <2>14, PushKept
<1> QED BY <1>4, <1>5

------------------------------------------------------------------------------
(* Order and cap, step by step.                                            *)

\* What every step keeps, besides Well.
Good(s, l) == Kept(s, l) /\ (Roomy => Drained(s))

\* With lost connections, nothing is promised.
LEMMA GoodOrNot ==
  ASSUME NEW s, NEW l
  PROVE  /\ ~OneConnection => Good(s, l)
         /\ Roomy => OneConnection /\ Undisturbed
         /\ Good(s, l) /\ OneConnection => Ordered(s, l) /\ Staged(s, l)
         /\ Good(s, l) /\ Roomy => OneAtATime(s, l) /\ Fitting(s) /\ Drained(s)
BY DEF Good, Kept, Roomy, Undisturbed, OneConnection

LEMMA GoodParts ==
  ASSUME NEW s, NEW l, OneConnection => Ordered(s, l) /\ Staged(s, l),
         Roomy => OneAtATime(s, l) /\ Fitting(s) /\ Drained(s)
  PROVE  Good(s, l)
BY DEF Good, Kept

LEMMA SameGood ==
  ASSUME NEW s, NEW t, NEW l, Same(s, t), Good(s, l), t.parser = s.parser
  PROVE  Good(t, l)
<1>1. Kept(t, l)
  BY SameKept DEF Good
<1>2. Drained(s) => Drained(t)
  BY DEF Drained
<1> QED BY <1>1, <1>2 DEF Good

\* Nothing on its way, nothing held by the parser.
LEMMA NoPieces ==
  ASSUME NEW s, Well(s)
  PROVE  /\ Pieces(s) = <<>> => s.parser.bytes = <<>>
         /\ (s.net.rx = <<>> /\ s.net.wire = <<>> /\ s.net.queue = <<>>)
              => Pieces(s) = s.parser.bytes
<1>1. PICK p, r \in Seq(Units) :
        /\ p = s.parser.bytes /\ Pieces(s) = p \o r
        /\ r = s.net.rx \o s.net.wire \o s.net.queue
  BY ParserFirst
<1>2. Pieces(s) = <<>> => p = <<>>
  <2>1. p \o r = <<>> => p = <<>>
    BY ConcatEqualIffEmpty
  <2> QED BY <1>1, <2>1
<1>3. p \o <<>> = p
  BY ConcatEmptySeq
<1>4. (s.net.rx = <<>> /\ s.net.wire = <<>> /\ s.net.queue = <<>>) => Pieces(s) = p
  <2>1. <<>> \o <<>> \o <<>> = <<>>
    OBVIOUS
  <2> QED BY <1>1, <1>3, <2>1
<1> QED BY <1>1, <1>2, <1>4

\* A socket is created when nothing has happened yet.
LEMMA SocketGood ==
  ASSUME setup \in Setups, NEW s, Well(s), NEW l, Good(s, l), s.client.sock = "none",
         NEW u, u.client = [s.client EXCEPT !.sock = "connecting"],
         u.player = s.player, u.parser = s.parser, u.net = EmptyNet,
         u.timers.delayed = s.timers.delayed, u.timers.underrun = s.timers.underrun
  PROVE  Good(u, l)
<1>1. SUFFICES ASSUME OneConnection PROVE Good(u, l)
  BY GoodOrNot
<1>2. Ordered(s, l) /\ Staged(s, l)
  BY <1>1, GoodOrNot
<1>3. s.client \in Clients
  BY WellFields DEF Well
<1>4. /\ u.client.sock = "connecting" /\ u.client.connected = s.client.connected
      /\ u.client.pending = s.client.pending /\ u.client.nextSeg = s.client.nextSeg
      /\ u.client.pendSeg = s.client.pendSeg /\ u.client.got = s.client.got
  BY <1>3 DEF Clients
<1>5. /\ s.client.nextSeg = 0 /\ s.player.state = "NOT_STARTED" /\ ~s.client.connected
      /\ s.net.up = <<>> /\ Pieces(s) = <<>>
      /\ s.timers.delayed = <<>> /\ ~s.timers.underrun
  BY <1>2 DEF Staged
<1>6. u.net.up = <<>> /\ Pieces(u) = <<>>
  <2>1. s.parser.bytes = <<>>
    BY <1>5, NoPieces
  <2>2. u.net.up = <<>> /\ u.net.rx = <<>> /\ u.net.wire = <<>> /\ u.net.queue = <<>>
    BY DEF EmptyNet
  <2>3. <<>> \o <<>> \o <<>> \o <<>> = <<>>
    OBVIOUS
  <2> QED BY <2>1, <2>2, <2>3 DEF Pieces
<1>7. Ordered(u, l)
  BY <1>2, <1>4, <1>5, <1>6 DEF Ordered
<1>8. Staged(u, l)
  BY <1>2, <1>4, <1>5, <1>6 DEF Staged
<1>9. Roomy => OneAtATime(u, l)
  <2>1. OneAtATime(s, l) => OneAtATime(u, l)
    BY <1>4, <1>5, <1>6 DEF OneAtATime, Missing
  <2> QED BY <2>1, GoodOrNot
<1>10. Roomy => Fitting(u)
  <2>1. Fitting(s) => Fitting(u)
    BY <1>4 DEF Fitting, Missing
  <2> QED BY <2>1, GoodOrNot
<1>11. Roomy => Drained(u)
  <2>1. Drained(s) => Drained(u)
    BY DEF Drained
  <2> QED BY <2>1, GoodOrNot
<1> QED BY <1>7, <1>8, <1>9, <1>10, <1>11, GoodParts

\* The connection is up: the first segment fits under the cap.
LEMMA ConnectedGood ==
  ASSUME setup \in Setups, NEW s, Well(s), NEW l, Good(s, l), s.client.sock = "connecting",
         NEW u, u.client = [s.client EXCEPT !.sock = "open", !.connected = TRUE],
         u.player = s.player, u.parser = s.parser, u.net = s.net,
         u.timers.delayed = s.timers.delayed, u.timers.underrun = s.timers.underrun
  PROVE  /\ Good(u, l)
         /\ OneConnection => u.client.nextSeg = 0
         /\ Roomy => RoomForSegment(u)
<1>1. SUFFICES ASSUME OneConnection
               PROVE  /\ Good(u, l) /\ u.client.nextSeg = 0
                      /\ Roomy => RoomForSegment(u)
  BY GoodOrNot
<1>2. Ordered(s, l) /\ Staged(s, l)
  BY <1>1, GoodOrNot
<1>3. s.client \in Clients
  BY WellFields DEF Well
<1>4. /\ u.client.sock = "open" /\ u.client.connected
      /\ u.client.pending = s.client.pending /\ u.client.nextSeg = s.client.nextSeg
      /\ u.client.pendSeg = s.client.pendSeg /\ u.client.got = s.client.got
  BY <1>3 DEF Clients
<1>5. /\ s.client.nextSeg = 0 /\ s.player.state = "NOT_STARTED"
      /\ s.timers.delayed = <<>> /\ ~s.timers.underrun
  BY <1>2 DEF Staged
<1>6. Pieces(u) = Pieces(s)
  BY SamePieces
<1>7. Ordered(u, l)
  BY <1>2, <1>4, <1>6 DEF Ordered
<1>8. Staged(u, l)
  BY <1>2, <1>4, <1>5 DEF Staged
<1>9. Roomy => OneAtATime(u, l)
  <2>1. OneAtATime(s, l) => OneAtATime(u, l)
    BY <1>4, <1>6 DEF OneAtATime, Missing
  <2> QED BY <2>1, GoodOrNot
<1>10. Roomy => Fitting(u)
  <2>1. Fitting(s) => Fitting(u)
    BY <1>4 DEF Fitting, Missing
  <2> QED BY <2>1, GoodOrNot
<1>11. Roomy => Drained(u)
  <2>1. Drained(s) => Drained(u)
    BY DEF Drained
  <2> QED BY <2>1, GoodOrNot
<1>12. Roomy => RoomForSegment(u)
  <2>1. SUFFICES ASSUME Roomy PROVE RoomForSegment(u)
    OBVIOUS
  <2>2. PICK f \in Nat : f = FramesPerSegment
    BY SetupSizes
  <2>3. PICK m \in Nat : m = MaxBuffer
    BY SetupSizes
  <2>4. PICK st \in Nat : st = StartTime
    BY SetupSizes
  <2>5. f <= m
    BY <2>1, <2>2, <2>3, GoodOrNot DEF Undisturbed
  <2>6. s.player.played = 0
    BY <1>2, <1>5 DEF Staged
  <2>7. f * (0 + 1) <= 0 + m + st
    BY <2>5
  <2> QED BY <1>4, <1>5, <2>2, <2>3, <2>4, <2>6, <2>7 DEF RoomForSegment
<1> QED BY <1>4, <1>5, <1>7, <1>8, <1>9, <1>10, <1>11, <1>12, GoodParts

\* The client stops: what is on its way stays in order.
LEMMA StoppedGood ==
  ASSUME setup \in Setups, NEW s, Well(s), NEW l, Good(s, l),
         NEW u, u.client = [s.client EXCEPT !.sock = "closing", !.connected = FALSE],
         u.player = [s.player EXCEPT !.state = "DONE"], u.parser = s.parser, u.net = s.net,
         u.timers.delayed = s.timers.delayed, u.timers.underrun = s.timers.underrun
  PROVE  Good(u, l)
<1>1. SUFFICES ASSUME OneConnection PROVE Good(u, l)
  BY GoodOrNot
<1>2. Ordered(s, l) /\ Staged(s, l)
  BY <1>1, GoodOrNot
<1>3. s.client \in Clients /\ s.player \in Players
  BY WellFields DEF Well
<1>4. /\ u.client.sock = "closing" /\ ~u.client.connected
      /\ u.client.pending = s.client.pending /\ u.client.nextSeg = s.client.nextSeg
      /\ u.client.pendSeg = s.client.pendSeg /\ u.client.got = s.client.got
  BY <1>3 DEF Clients
<1>5. /\ u.player.state = "DONE" /\ u.player.buffer = s.player.buffer
      /\ u.player.played = s.player.played
  BY <1>3 DEF Players
<1>6. Pieces(u) = Pieces(s)
  BY SamePieces
<1>7. Ordered(u, l)
  BY <1>2, <1>4, <1>5, <1>6 DEF Ordered
<1>8. Staged(u, l)
  BY <1>4, <1>5 DEF Staged
<1>9. Roomy => OneAtATime(u, l)
  <2>1. OneAtATime(s, l) => OneAtATime(u, l)
    BY <1>4, <1>5, <1>6 DEF OneAtATime, Missing
  <2> QED BY <2>1, GoodOrNot
<1>10. Roomy => Fitting(u)
  <2>1. Fitting(s) => Fitting(u)
    BY <1>4, <1>5 DEF Fitting, Missing
  <2> QED BY <2>1, GoodOrNot
<1>11. Roomy => Drained(u)
  <2>1. Drained(s) => Drained(u)
    BY DEF Drained
  <2> QED BY <2>1, GoodOrNot
<1> QED BY <1>7, <1>8, <1>9, <1>10, <1>11, GoodParts

LEMMA RequestGood ==
  ASSUME setup \in Setups, NEW s, Well(s), NEW l, Placed(l), Good(s, l),
         OneConnection /\ Ending(s, l).fid = -1 => s.client.nextSeg = 0,
         Roomy /\ MayRequest(s.client) => RoomForSegment(s),
         NEW t \in RequestSegment(s)
  PROVE  Good(t, l)
<1>1. Kept(t, l)
  BY RequestKept DEF Good
<1>2. t.parser = s.parser
  BY RequestLeaves
<1> QED BY <1>1, <1>2 DEF Good, Drained

\* A request that was put off fits by the time it is due.
LEMMA DelayedGood ==
  ASSUME setup \in Setups, NEW s, Well(s), NEW l, Good(s, l),
         NEW k \in DOMAIN s.timers.delayed,
         s.timers.delayed[k].earliest <= s.player.played \/ s.player.state = "DONE",
         NEW u, u.client = s.client, u.player = s.player, u.parser = s.parser, u.net = s.net,
         u.timers.underrun = s.timers.underrun,
         u.timers.delayed = RemoveAt(s.timers.delayed, k)
  PROVE  /\ Good(u, l)
         /\ OneConnection => Ending(u, l).fid # -1
         /\ Roomy /\ MayRequest(u.client) => RoomForSegment(u)
<1>1. SUFFICES ASSUME OneConnection
               PROVE  /\ Good(u, l) /\ Ending(u, l).fid # -1
                      /\ Roomy /\ MayRequest(u.client) => RoomForSegment(u)
  BY GoodOrNot
<1>2. Ordered(s, l) /\ Staged(s, l)
  BY <1>1, GoodOrNot
<1>3. Pieces(u) = Pieces(s)
  BY SamePieces
<1>4. PICK q \in Seq(Deadlines) : q = s.timers.delayed
  BY WellFields DEF Well, Timers
<1>5. Len(q) \in Nat /\ k \in 1 .. Len(q) /\ q # <<>>
  BY <1>4, LenProperties
<1>6. Ending(s, l).fid # -1
  BY <1>2, <1>4, <1>5 DEF Ordered, Ending
<1>7. Ending(u, l) = Ending(s, l)
  BY <1>3 DEF Ending
<1>8. Ordered(u, l)
  BY <1>2, <1>3, <1>6 DEF Ordered, Ending
<1>9. Staged(u, l)
  <2>1. s.client.sock \notin {"none", "connecting"}
    BY <1>2, <1>4, <1>5 DEF Staged
  <2> QED BY <1>2, <2>1 DEF Staged
<1>10. Roomy => OneAtATime(u, l)
  <2>1. OneAtATime(s, l) => OneAtATime(u, l)
    BY <1>3 DEF OneAtATime, Missing
  <2> QED BY <2>1, GoodOrNot
<1>11. Roomy => Len(q) = 1 /\ k = 1
  <2>1. Roomy => Len(q) <= 1
    BY <1>4, GoodOrNot DEF Fitting
  <2>2. \A n \in Nat : k \in 1 .. n /\ n <= 1 => n = 1 /\ k = 1
    OBVIOUS
  <2> QED BY <1>5, <2>1, <2>2
<1>12. Roomy => u.timers.delayed = <<>>
  <2>1. SUFFICES ASSUME Roomy PROVE RemoveAt(q, 1) = <<>>
    BY <1>4, <1>11
  <2>2. SubSeq(q, 1, 0) = <<>> /\ SubSeq(q, 2, 1) = <<>>
    OBVIOUS
  <2>3. RemoveAt(q, 1) = SubSeq(q, 1, 0) \o SubSeq(q, 2, 1)
    BY <1>11, <2>1 DEF RemoveAt
  <2>4. <<>> \o <<>> = <<>>
    OBVIOUS
  <2> QED BY <2>2, <2>3, <2>4
<1>13. Roomy => Fitting(u)
  <2>1. Len(<<>>) <= 1
    OBVIOUS
  <2>2. u.timers.delayed = <<>> /\ Fitting(s) => Fitting(u)
    BY <2>1 DEF Fitting, Missing
  <2> QED BY <1>12, <2>2, GoodOrNot
<1>14. Roomy => Drained(u)
  <2>1. Drained(s) => Drained(u)
    BY DEF Drained
  <2> QED BY <2>1, GoodOrNot
<1>15. Roomy /\ MayRequest(u.client) => RoomForSegment(u)
  <2>1. SUFFICES ASSUME Roomy, MayRequest(u.client) PROVE RoomForSegment(u)
    OBVIOUS
  <2>2. s.player.state # "DONE"
    BY <1>2, <2>1 DEF MayRequest, Staged
  <2>3. Fitting(s)
    BY <2>1, GoodOrNot
  <2>4. ~s.timers.underrun
    BY <1>4, <1>5, <2>2, <2>3 DEF Fitting
  <2>5. PICK e \in Nat : e = s.timers.delayed[1].earliest
    <3>1. q[1] \in Deadlines
      BY <1>5, <1>11, <2>1, ElementOfSeq
    <3> QED BY <1>4, <3>1 DEF Deadlines
  <2>6. PICK p \in Nat : p = s.player.played
    BY WellFields DEF Well, Players
  <2>7. e <= p
    BY <1>11, <2>1, <2>2, <2>5, <2>6
  <2>8. PICK v \in Int : v = FramesPerSegment * (s.client.nextSeg + 1)
    <3>1. s.client.nextSeg \in Int
      BY WellFields, SetupSizes DEF Well, Clients
    <3>2. s.client.nextSeg + 1 \in Int
      BY <3>1
    <3> QED BY <3>2, OneSegmentMore
  <2>9. PICK m \in Nat : m = MaxBuffer
    BY SetupSizes
  <2>10. PICK st \in Nat : st = StartTime
    BY SetupSizes
  <2>11. v <= e + m + st
    BY <1>4, <1>5, <2>2, <2>3, <2>5, <2>8, <2>9, <2>10 DEF Fitting
  <2>12. v <= p + m + st
    BY <2>7, <2>11
  <2> QED BY <1>12, <2>1, <2>4, <2>6, <2>8, <2>9, <2>10, <2>12 DEF RoomForSegment
<1> QED BY <1>6, <1>7, <1>8, <1>9, <1>10, <1>13, <1>14, <1>15, GoodParts

\* An empty buffer has room for a segment.
LEMMA UnderrunGood ==
  ASSUME setup \in Setups, NEW s, Well(s), NEW l, Good(s, l), s.timers.underrun,
         NEW u, u.client = s.client, u.player = s.player, u.parser = s.parser, u.net = s.net,
         ~u.timers.underrun, u.timers.delayed = s.timers.delayed
  PROVE  /\ Good(u, l)
         /\ OneConnection => Ending(u, l).fid # -1
         /\ Roomy /\ MayRequest(u.client) => RoomForSegment(u)
<1>1. SUFFICES ASSUME OneConnection
               PROVE  /\ Good(u, l) /\ Ending(u, l).fid # -1
                      /\ Roomy /\ MayRequest(u.client) => RoomForSegment(u)
  BY GoodOrNot
<1>2. Ordered(s, l) /\ Staged(s, l)
  BY <1>1, GoodOrNot
<1>3. Pieces(u) = Pieces(s)
  BY SamePieces
<1>4. Ending(s, l).fid # -1
  BY <1>2 DEF Ordered, Ending
<1>5. Ending(u, l) = Ending(s, l)
  BY <1>3 DEF Ending
<1>6. Ordered(u, l)
  BY <1>2, <1>3, <1>4 DEF Ordered, Ending
<1>7. Staged(u, l)
  <2>1. s.client.sock \notin {"none", "connecting"}
    BY <1>2 DEF Staged
  <2> QED BY <1>2, <2>1 DEF Staged
<1>8. Roomy => OneAtATime(u, l)
  <2>1. OneAtATime(s, l) => OneAtATime(u, l)
    BY <1>3 DEF OneAtATime, Missing
  <2> QED BY <2>1, GoodOrNot
<1>9. Roomy => Fitting(u)
  <2>1. Fitting(s) => Fitting(u)
    BY DEF Fitting, Missing
  <2> QED BY <2>1, GoodOrNot
<1>10. Roomy => Drained(u)
  <2>1. Drained(s) => Drained(u)
    BY DEF Drained
  <2> QED BY <2>1, GoodOrNot
<1>11. Roomy /\ MayRequest(u.client) => RoomForSegment(u)
  <2>1. SUFFICES ASSUME Roomy, MayRequest(u.client) PROVE RoomForSegment(u)
    OBVIOUS
  <2>2. s.player.state # "DONE"
    BY <1>2, <2>1 DEF MayRequest, Staged
  <2>3. Fitting(s)
    BY <2>1, GoodOrNot
  <2>4. ~s.client.pending /\ s.player.buffer = <<>> /\ s.timers.delayed = <<>>
    BY <2>2, <2>3 DEF Fitting
  <2>5. PICK p \in Nat : p = s.player.played
    BY WellFields DEF Well, Players
  <2>6. PICK n \in Int : n = s.client.nextSeg
    BY WellFields, SetupSizes DEF Well, Clients
  <2>7. PICK f \in Int : f = FramesPerSegment
    BY SetupSizes
  <2>8. p = f * n
    <3>1. p + 0 + 0 = f * n
      BY <2>3, <2>4, <2>5, <2>6, <2>7 DEF Fitting, Missing
    <3> QED BY <3>1
  <2>9. f * (n + 1) = f * n + f
    BY <2>6, <2>7, OneSegmentMore
  <2>10. PICK m \in Nat : m = MaxBuffer
    BY SetupSizes
  <2>11. PICK st \in Nat : st = StartTime
    BY SetupSizes
  <2>12. f <= m
    BY <2>1, <2>7, <2>10, GoodOrNot DEF Undisturbed
  <2>13. f * (n + 1) <= p + m + st
    BY <2>8, <2>9, <2>12
  <2> QED BY <2>4, <2>5, <2>6, <2>7, <2>10, <2>11, <2>13 DEF RoomForSegment
<1> QED BY <1>4, <1>5, <1>6, <1>7, <1>8, <1>9, <1>10, <1>11, GoodParts

\* In an undisturbed session with room for the cap, a watchdog that sees neither
\* progress nor anything on its way has no request to watch.
LEMMA NothingToRetry ==
  ASSUME setup \in Setups, NEW s, Well(s), NEW l, Good(s, l), Roomy,
         s.client.connected, s.client.pending, s.net.up = <<>>, s.net.rx = <<>>,
         s.net.wire = <<>>, s.net.queue = <<>>
  PROVE  FALSE
<1>1. OneAtATime(s, l) /\ Drained(s) /\ Staged(s, l)
  BY GoodOrNot
<1>2. s.player.state # "DONE"
  BY <1>1 DEF Staged
<1>3. Pieces(s) = s.parser.bytes
  BY NoPieces
<1>4. PICK u \in Nat \ {0} : u = FrameUnits
  BY SetupSizes
<1>5. PICK f \in Nat : f = FramesPerSegment
  BY SetupSizes
<1>6. PICK g \in Nat : g = s.client.got
  BY WellFields DEF Well, Clients
<1>7. g < f
  BY <1>1, <1>2, <1>5, <1>6 DEF OneAtATime
<1>8. PICK c : c = << s.client.pendSeg >>
  OBVIOUS
<1>9. c # <<>>
  BY <1>8
<1>10. Len(Pieces(s)) = u * (f - g)
  BY <1>1, <1>4, <1>5, <1>6, <1>8, <1>9 DEF OneAtATime, Missing
<1>11. u * (f - g) < u
  BY <1>1, <1>3, <1>4, <1>10 DEF Drained
<1>12. PICK d \in Nat \ {0} : d = f - g
  BY <1>7
<1>13. u * 1 <= u * d
  BY <1>12
<1> QED BY <1>11, <1>12, <1>13

\* A retry, or giving up, of a session in which watchdogs may fire early.
LEMMA RetryGood ==
  ASSUME setup \in Setups, NEW s, Well(s), NEW l, Placed(l), Good(s, l), ~Roomy,
         s.client.connected, NEW t \in SendSegmentRequest(s, s.client.pendSeg)
  PROVE  Good(t, l)
<1>1. OneConnection => Ordered(s, l) /\ Staged(s, l)
  BY GoodOrNot
<1>2. OneConnection => Ordered(t, l) /\ Staged(t, l)
  BY <1>1, SendOrdered
<1> QED BY <1>2, GoodParts

LEMMA GivenUpGood ==
  ASSUME NEW s, NEW l, Good(s, l), ~Roomy,
         NEW c \in BOOLEAN, s.client \in Clients,
         NEW t, t.client = [s.client EXCEPT !.pending = c],
         t.player = s.player, t.parser = s.parser, t.net = s.net,
         t.timers.delayed = s.timers.delayed, t.timers.underrun = s.timers.underrun
  PROVE  Good(t, l)
<1>1. /\ t.client.nextSeg = s.client.nextSeg /\ t.client.pendSeg = s.client.pendSeg
      /\ t.client.connected = s.client.connected /\ t.client.sock = s.client.sock
  BY DEF Clients
<1>2. Pieces(t) = Pieces(s)
  BY SamePieces
<1>3. Ordered(s, l) => Ordered(t, l)
  BY <1>1, <1>2 DEF Ordered
<1>4. Staged(s, l) => Staged(t, l)
  BY <1>1, <1>2 DEF Staged
<1> QED BY <1>3, <1>4, GoodOrNot, GoodParts

LEMMA ReadGood ==
  ASSUME setup \in Setups, NEW s, Well(s), NEW l, Placed(l), Good(s, l), NEW t \in ReadSocket(s)
  PROVE  Good(t, l)
BY ReadKept DEF Good

\* Concatenation, without what it does to single elements.
Cat(a, b) == a \o b

LEMMA CatProperties ==
  ASSUME NEW a \in Seq(Units), NEW b \in Seq(Units), NEW c \in Seq(Units)
  PROVE  Cat(a, b) \in Seq(Units) /\ Cat(Cat(a, b), c) = Cat(a, Cat(b, c))
BY ConcatAssociative, ConcatProperties DEF Cat

\* Moving the first of what follows to the end of what precedes.
LEMMA Moved ==
  ASSUME NEW a \in Seq(Units), NEW b \in Seq(Units), NEW c \in Seq(Units),
         NEW k \in 0 .. Len(c)
  PROVE  Cat(Cat(a, Cat(b, SubSeq(c, 1, k))), DropFirst(c, k)) = Cat(Cat(a, b), c)
<1>1. PICK y \in Seq(Units) : y = SubSeq(c, 1, k)
  BY TakeProperties
<1>2. PICK z \in Seq(Units) : z = DropFirst(c, k)
  BY DropProperties
<1>3. Cat(y, z) = c
  BY <1>1, <1>2, TakeAndDrop DEF Cat
<1>4. Cat(a, Cat(b, y)) = Cat(Cat(a, b), y) /\ Cat(a, b) \in Seq(Units)
  BY CatProperties
<1>5. Cat(Cat(Cat(a, b), y), z) = Cat(Cat(a, b), Cat(y, z))
  BY <1>4, CatProperties
<1> QED BY <1>1, <1>2, <1>3, <1>4, <1>5

LEMMA CatPieces ==
  ASSUME NEW s
  PROVE  Pieces(s) = Cat(Cat(Cat(s.parser.bytes, s.net.rx), s.net.wire), s.net.queue)
BY DEF Pieces, Cat

\* Pieces arrive: they move from the network to the receive buffer.
Arrived(s, t, k) ==
  /\ t.client = s.client /\ t.timers = s.timers /\ t.player = s.player
  /\ t.parser = s.parser /\ t.net.up = s.net.up /\ t.net.queue = s.net.queue
  /\ t.net.rx = s.net.rx \o SubSeq(s.net.wire, 1, k)
  /\ t.net.wire = DropFirst(s.net.wire, k)

LEMMA ArrivedSame ==
  ASSUME NEW s, Well(s), NEW k \in 0 .. Len(s.net.wire), NEW t, Arrived(s, t, k)
  PROVE  Same(s, t)
<1>1. PICK p \in Seq(Units) : p = s.parser.bytes
  BY PiecesTyped
<1>2. PICK x \in Seq(Units) : x = s.net.rx
  BY PiecesTyped
<1>3. PICK w \in Seq(Units) : w = s.net.wire
  BY PiecesTyped
<1>4. Cat(Cat(p, Cat(x, SubSeq(w, 1, k))), DropFirst(w, k)) = Cat(Cat(p, x), w)
  BY <1>3, Moved
<1>5. /\ t.parser.bytes = p /\ t.net.rx = Cat(x, SubSeq(w, 1, k))
      /\ t.net.wire = DropFirst(w, k) /\ t.net.queue = s.net.queue
  BY <1>1, <1>2, <1>3 DEF Arrived, Cat
<1>6. Pieces(t) = Pieces(s)
  <2>1. Pieces(t) = Cat(Cat(Cat(p, Cat(x, SubSeq(w, 1, k))), DropFirst(w, k)), s.net.queue)
    BY <1>5, CatPieces
  <2>2. Pieces(s) = Cat(Cat(Cat(p, x), w), s.net.queue)
    BY <1>1, <1>2, <1>3, CatPieces
  <2> QED BY <1>4, <2>1, <2>2
<1> QED BY <1>6 DEF Same, Arrived

\* Pieces are sent: they move from the server to the network.
Sent(s, t) ==
  /\ t.client = s.client /\ t.timers = s.timers /\ t.player = s.player
  /\ t.parser = s.parser /\ t.net = Flushed(s.net)

LEMMA SentSame ==
  ASSUME setup \in Setups, NEW s, Well(s), NEW t, Sent(s, t)
  PROVE  Same(s, t)
<1>1. PICK p \in Seq(Units) : p = s.parser.bytes
  BY PiecesTyped
<1>2. PICK x \in Seq(Units) : x = s.net.rx
  BY PiecesTyped
<1>3. PICK w \in Seq(Units) : w = s.net.wire
  BY PiecesTyped
<1>4. PICK q \in Seq(Units) : q = s.net.queue
  BY PiecesTyped
<1>5. s.net \in Nets
  BY WellFields DEF Well
<1>6. PICK k : k = IF Len(q) <= TxAvailable(s.net) THEN Len(q) ELSE TxAvailable(s.net)
  OBVIOUS
<1>7. k \in 0 .. Len(q)
  <2>1. PICK n \in Nat : n = Len(q)
    BY LenProperties
  <2>2. PICK v \in Nat : v = TxAvailable(s.net)
    <3>1. PICK e \in Nat : e = SendWindow
      BY SetupSizes
    <3>2. PICK d \in Nat : d = Len(w)
      BY LenProperties
    <3>3. d <= e
      BY <1>3, <3>1, <3>2 DEF Well, Bounded
    <3>4. e - d \in Nat
      BY <3>3
    <3> QED BY <1>3, <3>1, <3>2, <3>4 DEF TxAvailable
  <2>3. k = IF n <= v THEN n ELSE v
    BY <1>6, <2>1, <2>2
  <2> QED BY <2>1, <2>3
<1>8. /\ t.net.up = s.net.up /\ t.net.rx = x /\ t.net.wire = Cat(w, SubSeq(q, 1, k))
      /\ t.net.queue = DropFirst(q, k)
  BY <1>2, <1>3, <1>4, <1>5, <1>6 DEF Sent, Flushed, Nets, Cat
<1>9. PICK a \in Seq(Units) : a = Cat(p, x)
  BY CatProperties
<1>10. Cat(Cat(a, Cat(w, SubSeq(q, 1, k))), DropFirst(q, k)) = Cat(Cat(a, w), q)
  BY <1>7, Moved
<1>11. Pieces(t) = Pieces(s)
  <2>1. Pieces(t) = Cat(Cat(a, Cat(w, SubSeq(q, 1, k))), DropFirst(q, k))
    BY <1>1, <1>8, <1>9, CatPieces DEF Sent
  <2>2. Pieces(s) = Cat(Cat(a, w), q)
    BY <1>1, <1>2, <1>3, <1>4, <1>9, CatPieces
  <2> QED BY <1>10, <2>1, <2>2
<1> QED BY <1>8, <1>11 DEF Same, Sent

\* The server takes a request: the pieces of its segment follow all others.
Served(s, t) ==
  /\ t.client = s.client /\ t.timers = s.timers /\ t.player = s.player
  /\ t.parser = s.parser /\ t.net.rx = s.net.rx /\ t.net.wire = s.net.wire
  /\ t.net.up = Tail(s.net.up)
  /\ t.net.queue = s.net.queue \o SegmentUnits(Head(s.net.up))

LEMMA ServedPieces ==
  ASSUME NEW s, Well(s), NEW t, Served(s, t), SegmentUnits(Head(s.net.up)) \in Seq(Units)
  PROVE  Pieces(t) = Pieces(s) \o SegmentUnits(Head(s.net.up))
<1>1. PICK b \in Seq(Units) : b = Cat(Cat(s.parser.bytes, s.net.rx), s.net.wire)
  BY PiecesTyped, CatProperties
<1>2. PICK q \in Seq(Units) : q = s.net.queue
  BY PiecesTyped
<1>3. PICK g \in Seq(Units) : g = SegmentUnits(Head(s.net.up))
  OBVIOUS
<1>4. Cat(Cat(b, q), g) = Cat(b, Cat(q, g))
  BY CatProperties
<1>5. Pieces(s) = Cat(b, q)
  BY <1>1, <1>2, CatPieces
<1>6. Pieces(t) = Cat(b, Cat(q, g))
  <2>1. t.net.queue = Cat(q, g)
    BY <1>2, <1>3 DEF Served, Cat
  <2> QED BY <1>1, <2>1, CatPieces DEF Served
<1> QED BY <1>3, <1>4, <1>5, <1>6 DEF Cat

LEMMA ServedGood ==
  ASSUME setup \in Setups, NEW s, Well(s), NEW l, Placed(l), Good(s, l), s.net.up # <<>>,
         NEW t, Served(s, t)
  PROVE  Good(t, l)
<1>1. SUFFICES ASSUME OneConnection PROVE Good(t, l)
  BY GoodOrNot
<1>2. Ordered(s, l) /\ Staged(s, l)
  BY <1>1, GoodOrNot
<1>3. PICK u \in Seq(Segments) : u = s.net.up /\ u # <<>>
  BY WellFields DEF Well, Nets
<1>4. PICK n \in Nat : n = Len(u) /\ 1 \in 1 .. n
  <2>1. Len(u) \in Nat /\ Len(u) # 0
    BY <1>3, EmptySeq, LenProperties
  <2> QED BY <2>1
<1>5. PICK h \in Segments : h = Head(u) /\ h = u[1]
  <2>1. u[1] \in Segments
    BY <1>4, ElementOfSeq
  <2> QED BY <2>1
<1>6. PICK v \in Seq(Segments) :
        v = Tail(u) /\ Len(v) = n - 1 /\ \A i \in 1 .. n - 1 : v[i] = u[i + 1]
  <2>1. /\ Tail(u) \in Seq(Segments) /\ Len(Tail(u)) = Len(u) - 1
        /\ \A i \in 1 .. Len(Tail(u)) : Tail(u)[i] = u[i + 1]
    BY <1>3, HeadTailProperties
  <2>2. PICK w \in Seq(Segments) : w = Tail(u)
    BY <2>1
  <2>3. Len(w) = n - 1 /\ \A i \in 1 .. n - 1 : w[i] = u[i + 1]
    BY <1>4, <2>1, <2>2
  <2> QED BY <2>2, <2>3
<1>7. PICK g \in Seq(Units) :
        /\ g = SegmentUnits(h) /\ g # <<>> /\ Len(g) = FrameUnits * FramesPerSegment
        /\ Whole(g) /\ \A k \in 1 .. Len(g) : g[k].seg = h
        /\ FrameOf(g[1]) = [seg |-> h, fid |-> 0]
        /\ FrameOf(g[Len(g)]) = [seg |-> h, fid |-> LastFrame]
  BY SegmentWhole
<1>8. PICK q \in Seq(Units) : q = Pieces(s)
  BY PiecesTyped
<1>9. Pieces(t) = q \o g
  BY <1>3, <1>5, <1>7, <1>8, ServedPieces
<1>10. PICK f : f = Newest(s.player.buffer, l)
  OBVIOUS
<1>11. PICK e : e = EndOf(q, f)
  OBVIOUS
<1>12. PICK p : p = s.client.pendSeg
  OBVIOUS
<1>13. /\ Continues(q, f) /\ Asked(u, e, p) /\ InOrder(s.player.buffer, l)
       /\ p <= s.client.nextSeg
  BY <1>2, <1>3, <1>8, <1>10, <1>11, <1>12 DEF Ordered
<1>14. /\ Follows(e, [seg |-> h, fid |-> 0]) /\ h <= p
       /\ \A i \in 1 .. n : u[i] <= p /\ h <= u[i]
  <2>1. \A i \in 1 .. n : 1 <= i
    BY <1>4
  <2> QED BY <1>4, <1>5, <1>13, <2>1 DEF Asked
<1>15. PICK c : c = q \o g
  OBVIOUS
<1>16. PICK d : d = [seg |-> h, fid |-> LastFrame]
  OBVIOUS
<1>17. /\ Len(c) = Len(q) + Len(g) /\ Continues(c, f) /\ EndOf(c, f) = d
  <2>1. Follows(EndOf(q, f), FrameOf(g[1]))
    BY <1>7, <1>11, <1>14
  <2>2. /\ Len(q \o g) = Len(q) + Len(g) /\ Continues(q \o g, f)
        /\ EndOf(q \o g, f) = FrameOf(g[Len(g)])
    BY <1>7, <1>13, <2>1, WholeAppend
  <2> QED BY <1>7, <1>15, <1>16, <2>2
<1>18. Complete(d) /\ d.seg <= p /\ d.fid # -1
  <2>1. LastFrame # -1
    BY SetupSizes DEF LastFrame
  <2> QED BY <1>14, <1>16, <2>1 DEF Complete
<1>19. Asked(v, d, p)
  <2>1. \A i \in 1 .. n - 1 : i + 1 \in 1 .. n
    BY <1>4
  <2>2. \A i \in 1 .. n - 1 : v[i] <= p /\ h <= v[i]
    BY <1>6, <1>14, <2>1
  <2>3. \A i \in 1 .. n - 1 : v[i] \in Int
    BY <1>6, ElementOfSeq, SetupSizes DEF Segments
  <2>4. h \in Int
    BY SetupSizes DEF Segments
  <2>5. \A i \in 1 .. n - 1 : Follows(d, [seg |-> v[i], fid |-> 0])
    BY <1>16, <2>2, <2>3, <2>4 DEF Follows
  <2>6. ASSUME NEW i \in 1 .. n - 1, NEW j \in 1 .. n - 1, i <= j PROVE v[i] <= v[j]
    <3>1. i + 1 \in 1 .. n /\ j + 1 \in 1 .. n /\ i + 1 <= j + 1
      BY <1>4, <2>6
    <3>2. u[i + 1] <= u[j + 1]
      BY <1>4, <1>13, <3>1 DEF Asked
    <3> QED BY <1>6, <3>2
  <2> QED BY <1>6, <2>2, <2>5, <2>6 DEF Asked
<1>20. /\ t.client = s.client /\ t.timers = s.timers /\ t.player = s.player
       /\ t.parser = s.parser /\ t.net.up = v
  BY <1>3, <1>6 DEF Served
<1>21. Ordered(t, l)
  <2>1. InOrder(t.player.buffer, l) /\ Newest(t.player.buffer, l) = f
    BY <1>10, <1>13, <1>20
  <2>2. Pieces(t) = c
    BY <1>9, <1>15
  <2> QED BY <1>12, <1>13, <1>17, <1>18, <1>19, <1>20, <2>1, <2>2 DEF Ordered
<1>22. Staged(t, l)
  <2>1. s.client.sock \notin {"none", "connecting"}
    BY <1>2, <1>3 DEF Staged
  <2> QED BY <1>2, <1>20, <2>1 DEF Staged
<1>23. Roomy => OneAtATime(t, l)
  <2>1. SUFFICES ASSUME OneAtATime(s, l) PROVE OneAtATime(t, l)
    BY GoodOrNot
  <2>2. s.client.pending /\ u = << p >> /\ q = <<>> /\ s.client.got = 0
    BY <1>3, <1>8, <1>12, <2>1 DEF OneAtATime
  <2>3. h = p /\ v = <<>>
    <3>1. Len(u) = 1 /\ u[1] = p
      BY <2>2
    <3>2. Len(v) = 0
      BY <1>4, <1>6, <3>1
    <3> QED BY <1>5, <1>6, <3>1, <3>2, EmptySeq
  <2>4. Pieces(t) = g
    <3>1. <<>> \o g = g
      BY ConcatEmptySeq
    <3> QED BY <1>9, <2>2, <3>1
  <2>5. PICK m \in Nat : m = FramesPerSegment
    BY SetupSizes
  <2>6. Missing(t.client) = m
    <3>1. m - 0 = m
      OBVIOUS
    <3> QED BY <1>20, <2>2, <2>5, <3>1 DEF Missing
  <2>7. Len(Pieces(t)) = FrameUnits * Missing(t.client)
    BY <1>7, <2>4, <2>5, <2>6
  <2>8. \A k \in 1 .. Len(Pieces(t)) : Pieces(t)[k].seg = t.client.pendSeg
    BY <1>7, <1>12, <1>20, <2>3, <2>4
  <2> QED BY <1>20, <2>1, <2>2, <2>3, <2>7, <2>8 DEF OneAtATime
<1>24. Roomy => Fitting(t)
  <2>1. Fitting(s) => Fitting(t)
    BY <1>20 DEF Fitting
  <2> QED BY <2>1, GoodOrNot
<1>25. Roomy => Drained(t)
  <2>1. Drained(s) => Drained(t)
    BY <1>20 DEF Drained
  <2> QED BY <2>1, GoodOrNot
<1> QED BY <1>21, <1>22, <1>23, <1>24, <1>25, GoodParts

\* The rest of the buffer, once its first frame has been played.
LEMMA TailOrder ==
  ASSUME NEW b \in Seq(Frames), b # <<>>, NEW l, InOrder(b, l)
  PROVE  \E h \in Frames, c \in Seq(Frames) :
           /\ h = Head(b) /\ c = Tail(b) /\ Len(c) = Len(b) - 1
           /\ Follows(l, h) /\ InOrder(c, h) /\ Newest(c, h) = Newest(b, l)
           /\ Newest(b, l) \in Frames
<1>1. PICK n \in Nat : n = Len(b) /\ 1 \in 1 .. n /\ n \in 1 .. n
  <2>1. Len(b) \in Nat /\ Len(b) # 0
    BY EmptySeq, LenProperties
  <2> QED BY <2>1
<1>2. PICK h \in Frames : h = Head(b) /\ h = b[1]
  <2>1. b[1] \in Frames
    BY <1>1, ElementOfSeq
  <2> QED BY <2>1
<1>3. PICK c \in Seq(Frames) :
        c = Tail(b) /\ Len(c) = n - 1 /\ \A i \in 1 .. n - 1 : c[i] = b[i + 1]
  <2>1. /\ Tail(b) \in Seq(Frames) /\ Len(Tail(b)) = Len(b) - 1
        /\ \A i \in 1 .. Len(Tail(b)) : Tail(b)[i] = b[i + 1]
    BY HeadTailProperties
  <2>2. PICK w \in Seq(Frames) : w = Tail(b)
    BY <2>1
  <2>3. Len(w) = n - 1 /\ \A i \in 1 .. n - 1 : w[i] = b[i + 1]
    BY <1>1, <2>1, <2>2
  <2> QED BY <2>2, <2>3
<1>4. Follows(l, h)
  BY <1>1, <1>2 DEF InOrder
<1>5. ASSUME NEW k \in 1 .. n - 1 PROVE Follows(IF k = 1 THEN h ELSE c[k - 1], c[k])
  <2>1. k + 1 \in 1 .. n /\ k + 1 # 1 /\ (k + 1) - 1 = k /\ (k # 1 => k - 1 \in 1 .. n - 1)
    BY <1>1
  <2>2. Follows(b[k], b[k + 1])
    BY <1>1, <2>1 DEF InOrder
  <2>3. c[k] = b[k + 1]
    BY <1>3
  <2>4. k # 1 => c[k - 1] = b[k]
    <3>1. k # 1 => c[k - 1] = b[(k - 1) + 1]
      BY <1>3, <2>1
    <3>2. (k - 1) + 1 = k
      OBVIOUS
    <3> QED BY <3>1, <3>2
  <2> QED BY <1>2, <2>2, <2>3, <2>4
<1>6. InOrder(c, h)
  BY <1>3, <1>5 DEF InOrder
<1>7. Newest(b, l) = b[n]
  BY <1>1 DEF Newest
<1>8. b[n] \in Frames
  BY <1>1, ElementOfSeq
<1>9. Newest(c, h) = b[n]
  <2>1. CASE n = 1
    <3>1. c = <<>>
      BY <1>3, <2>1, EmptySeq
    <3> QED BY <1>2, <2>1, <3>1 DEF Newest
  <2>2. CASE n # 1
    <3>1. n - 1 \in 1 .. n - 1 /\ (n - 1) + 1 = n
      BY <1>1, <2>2
    <3>2. c # <<>>
      <4>1. Len(c) # 0
        BY <1>1, <1>3, <2>2
      <4> QED BY <4>1, EmptySeq
    <3>3. c[n - 1] = b[n]
      BY <1>3, <3>1
    <3> QED BY <1>3, <3>2, <3>3 DEF Newest
  <2> QED BY <2>1, <2>2
<1> QED BY <1>1, <1>2, <1>3, <1>4, <1>6, <1>7, <1>8, <1>9

\* A frame is played: it may follow the one before it.
LEMMA PlayedGood ==
  ASSUME setup \in Setups, NEW s, Well(s), NEW l, Good(s, l),
         s.player.events > 0, s.player.state # "DONE", s.player.buffer # <<>>,
         NEW t, t.client = s.client, t.parser = s.parser, t.net = s.net,
         t.player = [s.player EXCEPT !.state = "PLAYING", !.buffer = Tail(s.player.buffer),
                                     !.played = s.player.played + 1],
         t.timers.delayed = s.timers.delayed, t.timers.underrun = s.timers.underrun
  PROVE  /\ Good(t, Head(s.player.buffer))
         /\ OneConnection => Follows(l, Head(s.player.buffer))
<1>1. SUFFICES ASSUME OneConnection
               PROVE  Good(t, Head(s.player.buffer)) /\ Follows(l, Head(s.player.buffer))
  BY GoodOrNot
<1>2. Ordered(s, l) /\ Staged(s, l)
  BY <1>1, GoodOrNot
<1>3. s.player \in Players
  BY WellFields DEF Well
<1>4. PICK b \in Seq(Frames) : b = s.player.buffer
  BY <1>3 DEF Players
<1>5. PICK h \in Frames, c \in Seq(Frames) :
        /\ h = Head(b) /\ c = Tail(b) /\ Len(c) = Len(b) - 1
        /\ Follows(l, h) /\ InOrder(c, h) /\ Newest(c, h) = Newest(b, l)
        /\ Newest(b, l) \in Frames
  BY <1>2, <1>4, TailOrder DEF Ordered
<1>6. /\ t.player.state = "PLAYING" /\ t.player.buffer = c
      /\ t.player.played = s.player.played + 1
  BY <1>3, <1>4, <1>5 DEF Players
<1>7. Pieces(t) = Pieces(s)
  BY SamePieces
<1>8. Newest(b, l).fid # -1
  <2>1. Newest(b, l).fid \in 0 .. LastFrame
    BY <1>5 DEF Frames
  <2>2. LastFrame \in Int
    BY SetupSizes DEF LastFrame
  <2> QED BY <2>1, <2>2
<1>9. s.player.state # "NOT_STARTED"
  BY <1>2 DEF Staged
<1>10. Ordered(t, h)
  BY <1>2, <1>4, <1>5, <1>6, <1>7 DEF Ordered
<1>11. Staged(t, h)
  <2>1. s.client.sock \notin {"none", "connecting"}
    BY <1>2, <1>9 DEF Staged
  <2>2. s.client.connected => s.client.sock = "open"
    BY <1>2 DEF Staged
  <2> QED BY <1>5, <1>6, <1>8, <2>1, <2>2 DEF Staged
<1>12. Roomy => OneAtATime(t, h)
  <2>1. OneAtATime(s, l) => OneAtATime(t, h)
    BY <1>4, <1>5, <1>6, <1>7 DEF OneAtATime
  <2> QED BY <2>1, GoodOrNot
<1>13. Roomy => Fitting(t)
  <2>1. SUFFICES ASSUME Fitting(s) PROVE Fitting(t)
    BY GoodOrNot
  <2>2. PICK a \in Nat : a = s.player.played
    BY <1>3 DEF Players
  <2>3. PICK n \in Nat : n = Len(b)
    BY LenProperties
  <2>4. PICK i \in Int : i = Missing(s.client)
    <3>1. s.client.got \in Nat /\ FramesPerSegment \in Nat
      BY WellFields, SetupSizes DEF Well, Clients
    <3>2. FramesPerSegment - s.client.got \in Int
      BY <3>1
    <3> QED BY <3>2 DEF Missing
  <2>5. PICK m \in Nat : m = MaxBuffer
    BY SetupSizes
  <2>6. PICK st \in Nat : st = StartTime
    BY SetupSizes
  <2>7. PICK v \in Int : v = FramesPerSegment * s.client.nextSeg
    <3>1. s.client.nextSeg \in Int
      BY WellFields, SetupSizes DEF Well, Clients
    <3> QED BY <3>1, OneSegmentMore
  <2>8. a + n + i = v /\ v <= a + m + st
    BY <1>4, <2>1, <2>2, <2>3, <2>4, <2>5, <2>6, <2>7 DEF Fitting
  <2>9. (a + 1) + (n - 1) + i = v /\ v <= (a + 1) + m + st
    BY <2>8
  <2>10. /\ t.player.played + Len(t.player.buffer) + Missing(t.client)
              = FramesPerSegment * t.client.nextSeg
         /\ FramesPerSegment * t.client.nextSeg <= t.player.played + MaxBuffer + StartTime
    BY <1>4, <1>5, <1>6, <2>2, <2>3, <2>4, <2>5, <2>6, <2>7, <2>9
  <2>11. ~s.timers.underrun
    BY <2>1 DEF Fitting
  <2>12. t.player.state # "PAUSED"
    BY <1>6
  <2> QED BY <2>1, <2>10, <2>11, <2>12 DEF Fitting
<1>14. Roomy => Drained(t)
  <2>1. Drained(s) => Drained(t)
    BY DEF Drained
  <2> QED BY <2>1, GoodOrNot
<1>15. Good(t, h)
  BY <1>10, <1>11, <1>12, <1>13, <1>14, GoodParts
<1> QED BY <1>4, <1>5, <1>15

\* The buffer is empty: what was put off until a later frame may be due at once, but
\* in an undisturbed session nothing was.
LEMMA PausedGood ==
  ASSUME setup \in Setups, NEW s, Well(s), NEW l, Good(s, l),
         s.player.events > 0, s.player.state # "DONE", s.player.buffer = <<>>,
         s.player.state # "PAUSED" =>
           \A k \in DOMAIN s.timers.delayed : s.timers.delayed[k].latest > s.player.played,
         NEW t, t.client = s.client, t.parser = s.parser, t.net = s.net,
         t.player = [s.player EXCEPT !.state = "PAUSED"],
         t.timers.underrun = ~s.client.pending,
         t.timers.delayed = Overtaken(s.timers.delayed, s.player.played)
  PROVE  Good(t, l)
<1>1. SUFFICES ASSUME OneConnection PROVE Good(t, l)
  BY GoodOrNot
<1>2. Ordered(s, l) /\ Staged(s, l)
  BY <1>1, GoodOrNot
<1>3. s.player \in Players
  BY WellFields DEF Well
<1>4. /\ t.player.state = "PAUSED" /\ t.player.buffer = s.player.buffer
      /\ t.player.played = s.player.played
  BY <1>3 DEF Players
<1>5. Pieces(t) = Pieces(s)
  BY SamePieces
<1>6. s.player.state # "NOT_STARTED"
  BY <1>2 DEF Staged
<1>7. Newest(s.player.buffer, l).fid # -1
  BY <1>2, <1>6 DEF Staged
<1>8. Ending(s, l).fid # -1
  BY <1>7, EndingBegun
<1>9. Ordered(t, l)
  BY <1>2, <1>4, <1>5, <1>8 DEF Ordered, Ending
<1>10. Staged(t, l)
  <2>1. s.client.sock \notin {"none", "connecting"}
    BY <1>2, <1>6 DEF Staged
  <2>2. s.client.connected => s.client.sock = "open"
    BY <1>2 DEF Staged
  <2> QED BY <1>4, <1>7, <2>1, <2>2 DEF Staged
<1>11. Roomy => OneAtATime(t, l)
  <2>1. OneAtATime(s, l) => OneAtATime(t, l)
    BY <1>4, <1>5 DEF OneAtATime
  <2> QED BY <2>1, GoodOrNot
<1>12. Roomy => Fitting(t)
  <2>1. SUFFICES ASSUME Fitting(s) PROVE Fitting(t)
    BY GoodOrNot
  <2>2. PICK q \in Seq(Deadlines) : q = s.timers.delayed
    BY WellFields DEF Well, Timers
  <2>3. q = <<>>
    <3>1. SUFFICES ASSUME q # <<>> PROVE FALSE
      OBVIOUS
    <3>2. /\ s.player.state # "PAUSED" /\ ~s.client.pending
          /\ q[1].latest <= FramesPerSegment * s.client.nextSeg
      BY <2>1, <2>2, <3>1 DEF Fitting
    <3>3. 1 \in DOMAIN q
      <4>1. Len(q) \in Nat /\ Len(q) # 0 /\ DOMAIN q = 1 .. Len(q)
        BY <3>1, EmptySeq, LenProperties
      <4> QED BY <4>1
    <3>4. q[1].latest > s.player.played
      BY <2>2, <3>2, <3>3
    <3>5. PICK a \in Nat : a = s.player.played
      BY <1>3 DEF Players
    <3>6. PICK d \in Nat : d = q[1].latest
      <4>1. q[1] \in Deadlines
        BY <3>3, ElementOfSeq, LenProperties
      <4> QED BY <4>1 DEF Deadlines
    <3>7. a = FramesPerSegment * s.client.nextSeg
      <4>1. a + 0 + 0 = FramesPerSegment * s.client.nextSeg
        <5>1. Len(<<>>) = 0
          OBVIOUS
        <5> QED BY <2>1, <3>2, <3>5, <5>1 DEF Fitting, Missing
      <4>2. a + 0 + 0 = a
        BY <3>5
      <4> QED BY <4>1, <4>2
    <3> QED BY <3>2, <3>4, <3>5, <3>6, <3>7
  <2>4. t.timers.delayed = <<>>
    <3>1. Overtaken(<<>>, s.player.played) = <<>>
      <4>1. DOMAIN <<>> = {}
        OBVIOUS
      <4> QED BY <4>1 DEF Overtaken
    <3> QED BY <2>2, <2>3, <3>1
  <2>5. Len(t.timers.delayed) <= 1
    BY <2>4
  <2> QED BY <1>4, <2>1, <2>4, <2>5 DEF Fitting
<1>13. Roomy => Drained(t)
  <2>1. Drained(s) => Drained(t)
    BY DEF Drained
  <2> QED BY <2>1, GoodOrNot
<1> QED BY <1>9, <1>10, <1>11, <1>12, <1>13, GoodParts

\* Once playback has ended, the chain of frames ends.
LEMMA EndedGood ==
  ASSUME NEW s, Well(s), NEW l, Good(s, l), s.player.state = "DONE", NEW e,
         NEW t, t.client = s.client, t.parser = s.parser, t.net = s.net,
         t.player = [s.player EXCEPT !.events = e],
         t.timers.underrun = s.timers.underrun, t.timers.delayed = s.timers.delayed
  PROVE  Good(t, l)
<1>1. s.player \in Players
  BY WellFields DEF Well
<1>2. /\ t.player.state = s.player.state /\ t.player.buffer = s.player.buffer
      /\ t.player.played = s.player.played
  BY <1>1 DEF Players
<1>3. Pieces(t) = Pieces(s)
  BY SamePieces
<1>4. Ordered(s, l) => Ordered(t, l)
  BY <1>2, <1>3 DEF Ordered
<1>5. Staged(s, l) => Staged(t, l)
  BY <1>2, <1>3 DEF Staged
<1>6. OneAtATime(s, l) => OneAtATime(t, l)
  BY <1>2, <1>3 DEF OneAtATime
<1>7. Fitting(s) => Fitting(t)
  BY <1>2 DEF Fitting
<1>8. Drained(s) => Drained(t)
  BY DEF Drained
<1> QED BY <1>4, <1>5, <1>6, <1>7, <1>8, GoodOrNot, GoodParts

\* Good speaks of the session and the frame played last, and of the setup, which
\* never changes.
LEMMA GoodNext ==
  ASSUME setup' = setup, NEW t, Session' = t, NEW l, last' = l, Good(t, l)
  PROVE  Good(Session, last)'
<1>1. /\ FrameUnits' = FrameUnits /\ MaxBuffer' = MaxBuffer /\ BufferSpace' = BufferSpace
      /\ Timely' = Timely
  BY DEF FrameUnits, MaxBuffer, BufferSpace, Timely
<1>2. Undisturbed' = Undisturbed /\ OneConnection' = OneConnection
  BY <1>1 DEF Undisturbed, OneConnection
<1>3. Roomy' = Roomy
  BY <1>1, <1>2 DEF Roomy
<1>4. Ordered(t, l) => Ordered(Session, last)'
  <2>1. InOrder(t.player.buffer, l) => InOrder(Session.player.buffer, last)'
    BY DEF InOrder, Follows
  <2>2. ASSUME NEW q, NEW f PROVE Continues(q, f) => Continues(q, f)'
    BY <1>1 DEF Continues, Whole, InPlace
  <2>3. PICK q : q = Pieces(t)
    OBVIOUS
  <2>4. Pieces(Session)' = q
    BY <2>3 DEF Pieces
  <2>5. PICK f : f = Newest(t.player.buffer, l)
    OBVIOUS
  <2>6. Newest(Session.player.buffer, last)' = f
    BY <2>5 DEF Newest
  <2>7. Continues(Pieces(t), Newest(t.player.buffer, l))
          => Continues(Pieces(Session), Newest(Session.player.buffer, last))'
    <3>1. Continues(q, f)' => Continues(Pieces(Session), Newest(Session.player.buffer, last))'
      BY <2>4, <2>6 DEF Continues, Whole, InPlace
    <3> QED BY <2>2, <2>3, <2>5, <3>1
  <2>8. EndOf(Pieces(Session), Newest(Session.player.buffer, last))' = EndOf(q, f)
    BY <2>4, <2>6 DEF EndOf
  <2> QED BY <2>1, <2>3, <2>5, <2>7, <2>8 DEF Ordered, Complete, Asked, Follows
<1>5. Staged(t, l) => Staged(Session, last)'
  BY <1>1 DEF Staged, Newest, Pieces
<1>6. OneAtATime(t, l) => OneAtATime(Session, last)'
  BY <1>1 DEF OneAtATime, Missing, Newest, Pieces
<1>7. Fitting(t) => Fitting(Session)'
  BY <1>1 DEF Fitting, Missing
<1>8. Drained(t) => Drained(Session)'
  BY <1>1 DEF Drained
<1> QED BY <1>2, <1>3, <1>4, <1>5, <1>6, <1>7, <1>8 DEF Good, Kept

\* Nothing has been asked for at first.
LEMMA GoodInit ==
  ASSUME Init, setup \in Setups
  PROVE  Good(Session, last)
<1>1. PICK s : s = Session
  OBVIOUS
<1>2. /\ s.client.sock = "none" /\ ~s.client.connected /\ ~s.client.pending
      /\ s.client.nextSeg = 0 /\ s.client.pendSeg = 0
      /\ s.timers.delayed = <<>> /\ ~s.timers.underrun
      /\ s.player.state = "NOT_STARTED" /\ s.player.buffer = <<>>
      /\ s.player.played = 0 /\ s.player.events = 0 /\ s.parser.bytes = <<>>
      /\ s.net.up = <<>>
  BY <1>1 DEF Init, Session, EmptyNet
<1>3. Pieces(s) = <<>>
  <2>1. s.net.rx = <<>> /\ s.net.wire = <<>> /\ s.net.queue = <<>>
    BY <1>1 DEF Init, Session, EmptyNet
  <2>2. <<>> \o <<>> \o <<>> \o <<>> = <<>>
    OBVIOUS
  <2> QED BY <1>2, <2>1, <2>2 DEF Pieces
<1>4. PICK l : l = last
  OBVIOUS
<1>5. l.seg = 0 /\ l.fid = -1
  BY <1>4 DEF Init
<1>6. Ordered(s, l)
  <2>1. InOrder(<<>>, l) /\ Newest(<<>>, l) = l
    BY DEF InOrder, Newest
  <2>2. Continues(<<>>, l) /\ EndOf(<<>>, l) = l
    BY DEF Continues, Whole, EndOf
  <2>3. Complete(l) /\ l.seg <= 0 /\ Asked(<<>>, l, 0) /\ 0 <= 0
    BY <1>5 DEF Complete, Asked
  <2> QED BY <1>2, <1>3, <2>1, <2>2, <2>3 DEF Ordered
<1>7. Staged(s, l)
  BY <1>2, <1>3 DEF Staged
<1>8. OneAtATime(s, l)
  BY <1>2, <1>3 DEF OneAtATime
<1>9. Fitting(s)
  <2>1. PICK f \in Nat : f = FramesPerSegment
    BY SetupSizes
  <2>2. f * 0 = 0
    OBVIOUS
  <2>3. MaxBuffer \in Nat /\ StartTime \in Nat
    BY SetupSizes
  <2>4. 0 <= 0 + MaxBuffer + StartTime
    BY <2>3
  <2>5. Len(<<>>) = 0 /\ 0 + 0 + 0 = 0
    OBVIOUS
  <2> QED BY <1>2, <2>1, <2>2, <2>4, <2>5 DEF Fitting, Missing
<1>10. Drained(s)
  <2>1. Len(<<>>) = 0 /\ 0 < FrameUnits
    BY SetupSizes
  <2> QED BY <1>2, <2>1 DEF Drained
<1> QED BY <1>1, <1>4, <1>6, <1>7, <1>8, <1>9, <1>10, GoodParts

------------------------------------------------------------------------------
(* The invariant, and every action of the session.                         *)

\* The inductive invariant.
DashInv ==
  /\ setup \in Setups
  /\ Well(Session)
  /\ last.seg \in Segments /\ last.fid \in -1 .. LastFrame
  /\ failures \in 0 .. setup.maxFailures
  /\ Good(Session, last)

LEMMA DashInit == Init => DashInv
<1> SUFFICES ASSUME Init PROVE DashInv
  OBVIOUS
<1>1. setup \in Setups
  BY DEF Init
<1>2. 0 \in Segments /\ 0 \in 0 .. MaxSegments /\ 0 \in 0 .. StuckLimit
  BY <1>1, SetupSizes DEF Segments
<1>3. <<>> \in Seq(Units) /\ <<>> \in Seq(Segments) /\ <<>> \in Seq(Frames) /\ <<>> \in Seq(Nat)
      /\ Len(<<>>) = 0
  OBVIOUS
<1>4. client \in Clients
  BY <1>2 DEF Init, Clients
<1>5. timers \in Timers
  BY <1>3 DEF Init, Timers
<1>6. player \in Players
  BY <1>3 DEF Init, Players
<1>7. parser \in Parsers
  BY <1>3 DEF Init, Parsers
<1>8. net \in Nets
  BY <1>3 DEF Init, Nets, EmptyNet
<1>9. Session \in Sessions
  BY <1>4, <1>5, <1>6, <1>7, <1>8 DEF Session, Sessions
<1>10. /\ Session.client = client /\ Session.timers = timers /\ Session.player = player
       /\ Session.net = net
  BY DEF Session
<1>11. Bounded(Session)
  BY <1>1, <1>3, <1>10, SetupSizes DEF Bounded, Init, EmptyNet
<1>12. Guarded(Session) /\ Ticking(Session) /\ OneChain(Session.player)
  BY <1>10 DEF Guarded, Ticking, OneChain, Init
<1>13. last.seg \in Segments /\ last.fid \in -1 .. LastFrame
  BY <1>1, <1>2, SetupSizes DEF Init, LastFrame
<1>14. failures \in 0 .. setup.maxFailures
  BY <1>1, SetupSizes DEF Init
<1>15. Good(Session, last)
  BY <1>1, GoodInit
<1> QED BY <1>1, <1>9, <1>11, <1>12, <1>13, <1>14, <1>15 DEF DashInv, Well

\* A handler whose outcomes are all well and good leaves the session so.
LEMMA BecomesWell ==
  ASSUME setup' = setup, NEW outcomes, Becomes(outcomes), NEW l, last' = l,
         \A t \in outcomes : Well(t), \A t \in outcomes : Good(t, l)
  PROVE  Well(Session)' /\ Good(Session, last)'
<1>1. PICK t \in outcomes :
        /\ client' = t.client /\ timers' = t.timers /\ player' = t.player
        /\ parser' = t.parser /\ net' = t.net
  BY DEF Becomes
<1>2. Well(t) /\ Good(t, l)
  BY <1>1
<1>3. t \in Sessions
  BY <1>2 DEF Well
<1>4. Session' = t
  BY <1>1, <1>3, WellFields DEF Session
<1>5. /\ MaxSegments' = MaxSegments /\ FrameUnits' = FrameUnits /\ BufferSpace' = BufferSpace
      /\ SendWindow' = SendWindow /\ RcvBuf' = RcvBuf
  BY DEF MaxSegments, FrameUnits, BufferSpace, SendWindow, RcvBuf
<1>6. Segments' = Segments /\ Frames' = Frames /\ Units' = Units
  BY <1>5 DEF Segments, Frames, Units
<1>7. Clients' = Clients /\ Players' = Players /\ Parsers' = Parsers /\ Nets' = Nets
  BY <1>5, <1>6 DEF Clients, Players, Parsers, Nets
<1>8. Sessions' = Sessions
  BY <1>7 DEF Sessions
<1>9. Bounded(Session)'
  BY <1>2, <1>4, <1>5 DEF Well, Bounded
<1>10. Guarded(Session)' /\ Ticking(Session)' /\ OneChain(Session.player)'
  BY <1>2, <1>4 DEF Well, Guarded, Ticking, OneChain, RetryDue
<1>11. (Session \in Sessions)'
  BY <1>3, <1>4, <1>8
<1>12. Well(Session)'
  BY <1>9, <1>10, <1>11 DEF Well
<1>13. Good(Session, last)'
  BY <1>2, <1>4, GoodNext
<1> QED BY <1>12, <1>13

\* The rest of the invariant depends on three variables only.
LEMMA RestKept ==
  ASSUME DashInv, setup' = setup, last' = last, failures' \in 0 .. setup.maxFailures,
         Well(Session)', Good(Session, last)'
  PROVE  DashInv'
<1>1. Segments' = Segments /\ LastFrame' = LastFrame
  BY DEF Segments, MaxSegments, LastFrame
<1>2. (setup \in Setups)' /\ (failures \in 0 .. setup.maxFailures)'
  BY DEF DashInv
<1>3. (last.seg \in Segments /\ last.fid \in -1 .. LastFrame)'
  BY <1>1 DEF DashInv
<1> QED BY <1>2, <1>3 DEF DashInv

LEMMA SessionParts ==
  ASSUME DashInv
  PROVE  /\ setup \in Setups /\ Well(Session) /\ Session \in Sessions
         /\ Session.client = client /\ Session.timers = timers /\ Session.player = player
         /\ Session.parser = parser /\ Session.net = net
         /\ client \in Clients /\ timers \in Timers /\ player \in Players
         /\ parser \in Parsers /\ net \in Nets
         /\ failures \in 0 .. setup.maxFailures
<1>1. setup \in Setups /\ Well(Session) /\ Session \in Sessions
      /\ failures \in 0 .. setup.maxFailures
  BY DEF DashInv, Well
<1>2. /\ Session.client = client /\ Session.timers = timers /\ Session.player = player
      /\ Session.parser = parser /\ Session.net = net
  BY DEF Session
<1> QED BY <1>1, <1>2, WellFields

LEMMA SessionGood ==
  ASSUME DashInv
  PROVE  \E l : l = last /\ Placed(l) /\ Good(Session, l)
<1>1. PICK l : l = last
  OBVIOUS
<1>2. Placed(l)
  BY <1>1 DEF DashInv, Placed
<1>3. Good(Session, l)
  BY <1>1 DEF DashInv
<1> QED BY <1>1, <1>2, <1>3

\* A change of the timers that are not about requests.
LEMMA TimersGood ==
  ASSUME NEW s, Well(s), NEW l, Good(s, l), NEW m \in Timers,
         m.delayed = s.timers.delayed, m.underrun = s.timers.underrun,
         NEW t, t = [s EXCEPT !.timers = m]
  PROVE  Good(t, l)
<1>1. s \in Sessions
  BY DEF Well
<1>2. t.client = s.client /\ t.timers = m /\ t.player = s.player /\ t.parser = s.parser
      /\ t.net = s.net
  BY <1>1 DEF Sessions
<1>3. Same(s, t)
  BY <1>2, SamePieces DEF Same
<1> QED BY <1>2, <1>3, SameGood

\* A change of the timers that leaves the segment watchdog alone.
LEMMA TimersWell ==
  ASSUME setup \in Setups, NEW s, Well(s), NEW m \in Timers,
         m.segment = s.timers.segment,
         NEW t, t = [s EXCEPT !.timers = m]
  PROVE  Well(t)
<1>1. s \in Sessions
  BY DEF Well
<1>2. t \in Sessions /\ t.client = s.client /\ t.timers = m /\ t.player = s.player
      /\ t.net = s.net
  BY <1>1 DEF Sessions
<1> QED BY <1>2 DEF Well, Bounded, Guarded, Ticking

LEMMA StartApplicationKeeps ==
  ASSUME DashInv, StartApplication
  PROVE  DashInv'
<1>1. PICK s : s = Session
  OBVIOUS
<1>2. setup \in Setups /\ Well(s) /\ s \in Sessions /\ s.timers \in Timers
  BY <1>1, SessionParts
<1>3. PICK m : m = [s.timers EXCEPT !.start = FALSE]
  OBVIOUS
<1>4. PICK u : u = [s EXCEPT !.timers = m]
  OBVIOUS
<1>5. m \in Timers /\ m.segment = s.timers.segment
  BY <1>2, <1>3 DEF Timers
<1>6. Well(u)
  BY <1>2, <1>4, <1>5, TimersWell
<1>7. PICK t : t = Started(u)
  OBVIOUS
<1>8. Well(t)
  BY <1>2, <1>6, <1>7, StartedWell
<1>9. PICK l : l = last /\ Placed(l) /\ Good(s, l)
  BY <1>1, SessionGood
<1>10. Good(u, l)
  <2>1. m.delayed = s.timers.delayed /\ m.underrun = s.timers.underrun
    BY <1>2, <1>3 DEF Timers
  <2> QED BY <1>2, <1>4, <1>5, <1>9, <2>1, TimersGood
<1>11. Good(t, l)
  <2>1. CASE u.client.sock # "none"
    BY <1>7, <1>10, <2>1 DEF Started
  <2>2. CASE u.client.sock = "none"
    <3>1. u \in Sessions /\ u.client \in Clients /\ u.timers \in Timers
      BY <1>6, WellFields DEF Well
    <3>2. t = [u EXCEPT !.client.sock = "connecting", !.timers.connect = TRUE,
                        !.net = EmptyNet]
      BY <1>7, <2>2 DEF Started
    <3>3. /\ t.client = [u.client EXCEPT !.sock = "connecting"]
          /\ t.player = u.player /\ t.parser = u.parser /\ t.net = EmptyNet
      BY <3>1, <3>2 DEF Sessions
    <3>4. t.timers.delayed = u.timers.delayed /\ t.timers.underrun = u.timers.underrun
      BY <3>1, <3>2 DEF Sessions, Timers
    <3> QED BY <1>2, <1>6, <1>10, <2>2, <3>3, <3>4, SocketGood
  <2> QED BY <2>1, <2>2
<1>12. u = [Session EXCEPT !.timers.start = FALSE]
  BY <1>1, <1>2, <1>3, <1>4 DEF Sessions
<1>13. Becomes({t}) /\ last' = last /\ failures' = failures /\ setup' = setup
  BY <1>7, <1>12 DEF StartApplication
<1>14. Well(Session)' /\ Good(Session, last)'
  BY <1>8, <1>13, <1>9, <1>11, BecomesWell
<1> QED BY <1>13, <1>14, RestKept, SessionParts

LEMMA ConnectionSucceededKeeps ==
  ASSUME DashInv, ConnectionSucceeded
  PROVE  DashInv'
<1>1. PICK s : s = Session
  OBVIOUS
<1>2. setup \in Setups /\ Well(s) /\ s \in Sessions /\ s.timers \in Timers
      /\ s.client \in Clients
  BY <1>1, SessionParts
<1>3. PICK m : m = [s.timers EXCEPT !.connect = FALSE]
  OBVIOUS
<1>4. PICK c : c = [s.client EXCEPT !.sock = "open", !.connected = TRUE]
  OBVIOUS
<1>5. PICK u : u = [s EXCEPT !.client = c, !.timers = m]
  OBVIOUS
<1>6. m \in Timers /\ m.segment = s.timers.segment
  BY <1>2, <1>3 DEF Timers
<1>7. /\ c \in Clients /\ c.connected /\ c.pending = s.client.pending
      /\ c.ticks = s.client.ticks /\ c.got = s.client.got
      /\ c.retryUsed = s.client.retryUsed
  BY <1>2, <1>4 DEF Clients
<1>8. /\ u \in Sessions /\ u.client = c /\ u.timers = m /\ u.player = s.player
      /\ u.net = s.net
  BY <1>2, <1>5, <1>6, <1>7 DEF Sessions
<1>9. Bounded(u)
  BY <1>2, <1>8 DEF Well, Bounded
<1>10. Guarded(u) /\ Ticking(u)
  BY <1>2, <1>6, <1>7, <1>8 DEF Well, Guarded, Ticking, RetryDue
<1>11. Well(u)
  BY <1>2, <1>8, <1>9, <1>10 DEF Well
<1>12. u = [Session EXCEPT !.client.sock = "open", !.client.connected = TRUE,
                           !.timers.connect = FALSE]
  BY <1>1, <1>2, <1>3, <1>4, <1>5 DEF Sessions, Clients
<1>13. PICK outcomes : outcomes = RequestSegment(u)
  OBVIOUS
<1>14. Becomes(outcomes) /\ last' = last /\ failures' = failures /\ setup' = setup
  BY <1>12, <1>13 DEF ConnectionSucceeded
<1>15. \A t \in outcomes : Well(t)
  BY <1>2, <1>11, <1>13, RequestWell
<1>16. PICK l : l = last /\ Placed(l) /\ Good(s, l)
  BY <1>1, SessionGood
<1>17. \A t \in outcomes : Good(t, l)
  <2>1. s.client.sock = "connecting"
    BY <1>1, SessionParts DEF ConnectionSucceeded
  <2>2. /\ u.client = [s.client EXCEPT !.sock = "open", !.connected = TRUE]
        /\ u.player = s.player /\ u.parser = s.parser /\ u.net = s.net
    BY <1>2, <1>4, <1>5, <1>8 DEF Sessions
  <2>3. u.timers.delayed = s.timers.delayed /\ u.timers.underrun = s.timers.underrun
    BY <1>2, <1>3, <1>8 DEF Timers
  <2>4. /\ Good(u, l)
        /\ OneConnection => u.client.nextSeg = 0
        /\ Roomy => RoomForSegment(u)
    <3>1. setup \in Setups /\ Well(s) /\ Good(s, l)
      BY <1>2, <1>16
    <3> QED BY <2>1, <2>2, <2>3, <3>1, ConnectedGood
  <2> QED BY <1>2, <1>11, <1>13, <1>16, <2>4, RequestGood
<1>18. Well(Session)' /\ Good(Session, last)'
  BY <1>14, <1>15, <1>16, <1>17, BecomesWell
<1> QED BY <1>14, <1>18, RestKept, SessionParts

LEMMA LostBound ==
  ASSUME DashInv, Lost
  PROVE  failures' \in 0 .. setup.maxFailures /\ ~OneConnection
BY SessionParts, SetupSizes DEF Lost, OneConnection

LEMMA ConnectionErrorClosedKeeps ==
  ASSUME DashInv, ConnectionErrorClosed
  PROVE  DashInv'
<1>1. PICK s : s = Session
  OBVIOUS
<1>2. setup \in Setups /\ Well(s)
  BY <1>1, SessionParts
<1>3. PICK t : t = Started(Disconnected(s))
  OBVIOUS
<1>4. Well(t)
  <2>1. PICK d : d = Disconnected(s)
    OBVIOUS
  <2>2. Well(d)
    BY <1>2, <2>1, DisconnectedWell
  <2>3. Well(Started(d))
    BY <1>2, <2>2, StartedWell
  <2> QED BY <1>3, <2>1, <2>3
<1>5. Becomes({t}) /\ last' = last /\ setup' = setup /\ Lost
  BY <1>1, <1>3 DEF ConnectionErrorClosed
<1>6. PICK l : l = last
  OBVIOUS
<1>7. Good(t, l)
  BY <1>5, LostBound, GoodOrNot
<1>8. Well(Session)' /\ Good(Session, last)'
  BY <1>4, <1>5, <1>6, <1>7, BecomesWell
<1> QED BY <1>5, <1>8, RestKept, LostBound

LEMMA ConnectWatchdogKeeps ==
  ASSUME DashInv, ConnectWatchdog
  PROVE  DashInv'
<1>1. PICK s : s = Session
  OBVIOUS
<1>2. setup \in Setups /\ Well(s)
  BY <1>1, SessionParts
<1>3. PICK d : d = Disconnected(s)
  OBVIOUS
<1>4. Well(d)
  BY <1>2, <1>3, DisconnectedWell
<1>5. d \in Sessions /\ d.timers \in Timers
  BY <1>4, WellFields DEF Well
<1>6. PICK m : m = [d.timers EXCEPT !.start = TRUE]
  OBVIOUS
<1>7. m \in Timers /\ m.segment = d.timers.segment
  BY <1>5, <1>6 DEF Timers
<1>8. PICK t : t = [d EXCEPT !.timers = m]
  OBVIOUS
<1>9. Well(t)
  BY <1>2, <1>4, <1>7, <1>8, TimersWell
<1>10. t = [d EXCEPT !.timers.start = TRUE]
  BY <1>5, <1>6, <1>8 DEF Sessions
<1>11. Becomes({t}) /\ last' = last /\ setup' = setup /\ Lost
  BY <1>1, <1>3, <1>10 DEF ConnectWatchdog
<1>12. PICK l : l = last
  OBVIOUS
<1>13. Good(t, l)
  BY <1>11, LostBound, GoodOrNot
<1>14. Well(Session)' /\ Good(Session, last)'
  BY <1>9, <1>11, <1>12, <1>13, BecomesWell
<1> QED BY <1>11, <1>14, RestKept, LostBound

LEMMA StopApplicationKeeps ==
  ASSUME DashInv, StopApplication
  PROVE  DashInv'
<1>1. PICK s : s = Session
  OBVIOUS
<1>2. setup \in Setups /\ Well(s) /\ s \in Sessions /\ s.timers \in Timers
      /\ s.client \in Clients /\ s.player \in Players
  BY <1>1, SessionParts
<1>3. PICK m : m = [s.timers EXCEPT !.connect = FALSE, !.segment = FALSE]
  OBVIOUS
<1>4. PICK c : c = [s.client EXCEPT !.sock = "closing", !.connected = FALSE]
  OBVIOUS
<1>5. PICK p : p = [s.player EXCEPT !.state = "DONE"]
  OBVIOUS
<1>6. PICK u : u = [s EXCEPT !.client = c, !.timers = m, !.player = p]
  OBVIOUS
<1>7. m \in Timers /\ ~m.segment
  BY <1>2, <1>3 DEF Timers
<1>8. c \in Clients
  BY <1>2, <1>4 DEF Clients
<1>9. /\ p \in Players /\ p.state = "DONE" /\ p.buffer = s.player.buffer
      /\ p.events = s.player.events
  BY <1>2, <1>5 DEF Players
<1>10. /\ u \in Sessions /\ u.client = c /\ u.timers = m /\ u.player = p /\ u.net = s.net
  BY <1>2, <1>6, <1>7, <1>8, <1>9 DEF Sessions
<1>11. Bounded(u)
  BY <1>2, <1>9, <1>10 DEF Well, Bounded
<1>12. Guarded(u) /\ Ticking(u) /\ OneChain(u.player)
  BY <1>2, <1>7, <1>9, <1>10 DEF Well, Guarded, Ticking, OneChain
<1>13. Well(u)
  BY <1>10, <1>11, <1>12 DEF Well
<1>14. u = [Session EXCEPT !.client.sock = "closing", !.client.connected = FALSE,
                           !.player.state = "DONE",
                           !.timers.connect = FALSE, !.timers.segment = FALSE]
  BY <1>1, <1>2, <1>3, <1>4, <1>5, <1>6 DEF Sessions, Clients, Timers
<1>15. Becomes({u}) /\ last' = last /\ failures' = failures /\ setup' = setup
  BY <1>14 DEF StopApplication
<1>16. PICK l : l = last /\ Placed(l) /\ Good(s, l)
  BY <1>1, SessionGood
<1>17. Good(u, l)
  <2>1. u.parser = s.parser
    BY <1>2, <1>6 DEF Sessions
  <2>2. u.timers.delayed = s.timers.delayed /\ u.timers.underrun = s.timers.underrun
    BY <1>2, <1>3, <1>10 DEF Timers
  <2>3. /\ u.client = [s.client EXCEPT !.sock = "closing", !.connected = FALSE]
        /\ u.player = [s.player EXCEPT !.state = "DONE"] /\ u.net = s.net
    BY <1>4, <1>5, <1>10
  <2>4. setup \in Setups /\ Well(s) /\ Good(s, l)
    BY <1>2, <1>16
  <2> QED BY <2>1, <2>2, <2>3, <2>4, StoppedGood
<1>18. Well(Session)' /\ Good(Session, last)'
  BY <1>13, <1>15, <1>16, <1>17, BecomesWell
<1> QED BY <1>15, <1>18, RestKept, SessionParts

\* One tick of the watchdog, with or without progress.
LEMMA TickedParts ==
  ASSUME setup \in Setups, NEW s, Well(s), s.client.pending, s.timers.segment
  PROVE  LET t == Ticked(s)
         IN /\ t \in Sessions /\ t.timers = s.timers /\ t.player = s.player /\ t.net = s.net
            /\ t.client \in Clients /\ t.client.pending
            /\ t.client.connected = s.client.connected /\ Same(s, t) /\ t.parser = s.parser
            /\ t.client.pendSeg = s.client.pendSeg
            /\ t.client.got = s.client.got /\ t.client.retryUsed = s.client.retryUsed
            /\ Progressing(s.client) => t.client.ticks = 0 /\ s.client.got # 0
            /\ RetryDue(s.client) /\ ~Progressing(s.client) => t.client.ticks < StuckLimit
<1>1. /\ s \in Sessions /\ s.client \in Clients /\ s.timers \in Timers
      /\ s.client.ticks < StuckLimit
      /\ RetryDue(s.client) => s.client.ticks = 0
  BY WellFields DEF Well, Ticking
<1>2. s.client.got \in Nat /\ s.client.lastGot \in Nat /\ s.client.ticks \in Nat
  BY <1>1 DEF Clients
<1>3. PICK n : n = IF Progressing(s.client) THEN 0 ELSE s.client.ticks + 1
  OBVIOUS
<1>4. n \in 0 .. StuckLimit
  BY <1>1, <1>2, <1>3, SetupSizes
<1>5. PICK c : c = [s.client EXCEPT !.lastGot = s.client.got, !.ticks = n]
  OBVIOUS
<1>6. PICK t : t = Ticked(s)
  OBVIOUS
<1>7. t = [s EXCEPT !.client = c]
  BY <1>1, <1>3, <1>5, <1>6 DEF Ticked, Sessions, Clients
<1>8. /\ c \in Clients /\ c.pending = s.client.pending /\ c.connected = s.client.connected
      /\ c.got = s.client.got /\ c.retryUsed = s.client.retryUsed /\ c.ticks = n
      /\ c.pendSeg = s.client.pendSeg /\ c.nextSeg = s.client.nextSeg
      /\ c.sock = s.client.sock
  BY <1>1, <1>2, <1>4, <1>5 DEF Clients
<1>9. /\ t \in Sessions /\ t.client = c /\ t.timers = s.timers /\ t.player = s.player
      /\ t.net = s.net /\ t.parser = s.parser
  BY <1>1, <1>7, <1>8 DEF Sessions
<1>10. Progressing(s.client) => n = 0 /\ s.client.got # 0
  BY <1>2, <1>3 DEF Progressing
<1>11. RetryDue(s.client) /\ ~Progressing(s.client) => n < StuckLimit
  BY <1>1, <1>3, SetupSizes
<1>12. Same(s, t)
  BY <1>8, <1>9, SamePieces DEF Same
<1> QED BY <1>6, <1>8, <1>9, <1>10, <1>11, <1>12

LEMMA SegmentRequestWatchdogKeeps ==
  ASSUME DashInv, SegmentRequestWatchdog
  PROVE  DashInv'
<1>1. PICK s : s = Session
  OBVIOUS
<1>2. /\ setup \in Setups /\ Well(s) /\ s \in Sessions /\ s.timers \in Timers
      /\ s.client \in Clients /\ s.client = client /\ s.timers = timers
  BY <1>1, SessionParts
<1>3. PICK outcomes : outcomes =
        IF ~client.connected \/ ~client.pending
        THEN {[s EXCEPT !.timers.segment = FALSE]}
        ELSE IF Progressing(client) THEN {Ticked(s)}
        ELSE IF RetryDue(client)
        THEN SendSegmentRequest([Ticked(s) EXCEPT !.client.retryUsed = TRUE], client.pendSeg)
        ELSE IF Ticked(s).client.ticks < StuckLimit THEN {Ticked(s)}
        ELSE {[Ticked(s) EXCEPT !.client.pending = FALSE, !.timers.segment = FALSE]}
  OBVIOUS
<1>4. /\ Becomes(outcomes) /\ last' = last /\ failures' = failures /\ setup' = setup
      /\ timers.segment
  BY <1>1, <1>3 DEF SegmentRequestWatchdog
<1>5. PICK l : l = last /\ Placed(l) /\ Good(s, l)
  BY <1>1, SessionGood
<1>6. Roomy /\ client.connected /\ client.pending => Progressing(client)
  <2>1. SUFFICES ASSUME Roomy, client.connected, client.pending, ~Progressing(client)
                 PROVE  FALSE
    OBVIOUS
  <2>2. Quiet
    BY <2>1, GoodOrNot DEF SegmentRequestWatchdog, MayExpire, Undisturbed
  <2>3. s.net.up = <<>> /\ s.net.rx = <<>> /\ s.net.wire = <<>> /\ s.net.queue = <<>>
    <3>1. s.net = [EmptyNet EXCEPT !.begun = net.begun]
      BY <1>1, <2>2, SessionParts DEF Quiet
    <3> QED BY <3>1 DEF EmptyNet
  <2> QED BY <1>2, <1>5, <2>1, <2>3, NothingToRetry
<1>7. ASSUME NEW t \in outcomes PROVE Well(t) /\ Good(t, l)
  <2>1. CASE ~client.connected \/ ~client.pending
    <3>1. t = [s EXCEPT !.timers.segment = FALSE]
      BY <1>3, <2>1
    <3>2. PICK m : m = [s.timers EXCEPT !.segment = FALSE]
      OBVIOUS
    <3>3. m \in Timers /\ ~m.segment
      BY <1>2, <3>2 DEF Timers
    <3>4. t = [s EXCEPT !.timers = m]
      BY <1>2, <3>1, <3>2 DEF Sessions
    <3>5. t \in Sessions /\ t.client = s.client /\ t.timers = m /\ t.player = s.player
          /\ t.net = s.net
      BY <1>2, <3>3, <3>4 DEF Sessions
    <3>6. Well(t)
      BY <1>2, <2>1, <3>3, <3>5 DEF Well, Bounded, Guarded, Ticking
    <3>7. m.delayed = s.timers.delayed /\ m.underrun = s.timers.underrun
      BY <1>2, <3>2 DEF Timers
    <3>8. Good(t, l)
      BY <1>2, <1>5, <3>3, <3>4, <3>7, TimersGood
    <3> QED BY <3>6, <3>8
  <2>2. CASE client.connected /\ client.pending
    <3>1. PICK u : u = Ticked(s)
      OBVIOUS
    <3>2. /\ u \in Sessions /\ u.timers = s.timers /\ u.player = s.player /\ u.net = s.net
          /\ u.client \in Clients /\ u.client.pending
          /\ u.client.connected = s.client.connected
          /\ u.client.got = s.client.got /\ u.client.retryUsed = s.client.retryUsed
          /\ Progressing(s.client) => u.client.ticks = 0 /\ s.client.got # 0
          /\ RetryDue(s.client) /\ ~Progressing(s.client) => u.client.ticks < StuckLimit
      BY <1>2, <1>4, <2>2, <3>1, TickedParts
    <3>3. Bounded(u) /\ Guarded(u) /\ OneChain(u.player)
      BY <1>2, <1>4, <2>2, <3>2 DEF Well, Bounded, Guarded
    <3>4. Good(u, l)
      <4>1. Same(s, u) /\ u.parser = s.parser
        BY <1>2, <1>4, <2>2, <3>1, TickedParts
      <4> QED BY <1>5, <4>1, SameGood
    <3>5. CASE Progressing(client)
      <4>1. t = u
        BY <1>3, <2>2, <3>1, <3>5
      <4>2. Ticking(u)
        BY <1>2, <3>2, <3>5, SetupSizes DEF Ticking, RetryDue
      <4> QED BY <3>2, <3>3, <3>4, <4>1, <4>2 DEF Well
    <3>6. CASE ~Progressing(client) /\ RetryDue(client)
      <4>1. PICK c : c = [u.client EXCEPT !.retryUsed = TRUE]
        OBVIOUS
      <4>2. PICK v : v = [u EXCEPT !.client = c]
        OBVIOUS
      <4>3. v = [Ticked(s) EXCEPT !.client.retryUsed = TRUE]
        BY <3>1, <3>2, <4>1, <4>2 DEF Sessions
      <4>4. /\ c \in Clients /\ c.retryUsed /\ c.pending = u.client.pending
            /\ c.connected = u.client.connected /\ c.ticks = u.client.ticks
            /\ c.pendSeg = u.client.pendSeg /\ c.nextSeg = u.client.nextSeg
            /\ c.got = u.client.got /\ c.sock = u.client.sock
        BY <3>2, <4>1 DEF Clients
      <4>5. /\ v \in Sessions /\ v.client = c /\ v.timers = u.timers
            /\ v.player = u.player /\ v.net = u.net /\ v.parser = u.parser
        BY <3>2, <4>2, <4>4 DEF Sessions
      <4>6. Bounded(v) /\ Guarded(v) /\ OneChain(v.player)
        BY <3>3, <4>4, <4>5 DEF Bounded, Guarded
      <4>7. Ticking(v)
        BY <1>2, <3>2, <3>6, <4>4, <4>5 DEF Ticking, RetryDue
      <4>8. Well(v)
        BY <4>5, <4>6, <4>7 DEF Well
      <4>9. client.pendSeg \in Segments
        BY <1>2 DEF Clients
      <4>10. t \in SendSegmentRequest(v, client.pendSeg)
        BY <1>3, <2>2, <3>6, <4>3
      <4>11. Good(v, l)
        <5>1. Same(u, v)
          BY <4>4, <4>5, SamePieces DEF Same
        <5> QED BY <3>4, <4>5, <5>1, SameGood
      <4>12. Good(t, l)
        <5>1. ~Roomy
          BY <1>6, <2>2, <3>6
        <5>2. v.client.pendSeg = client.pendSeg
          <6>1. u.client.pendSeg = s.client.pendSeg
            BY <1>2, <1>4, <2>2, <3>1, TickedParts
          <6> QED BY <1>2, <4>4, <4>5, <6>1
        <5>3. v.client.connected
          BY <1>2, <2>2, <3>2, <4>4, <4>5
        <5> QED BY <1>2, <1>5, <4>8, <4>10, <4>11, <5>1, <5>2, <5>3, RetryGood
      <4>13. Well(t)
        BY <1>2, <4>8, <4>9, <4>10, SendWell
      <4> QED BY <4>12, <4>13
    <3>7. CASE ~Progressing(client) /\ ~RetryDue(client) /\ u.client.ticks < StuckLimit
      <4>1. t = u
        BY <1>3, <2>2, <3>1, <3>7
      <4>2. Ticking(u)
        BY <1>2, <3>2, <3>7 DEF Ticking, RetryDue
      <4> QED BY <3>2, <3>3, <3>4, <4>1, <4>2 DEF Well
    <3>8. CASE ~Progressing(client) /\ ~RetryDue(client) /\ ~(u.client.ticks < StuckLimit)
      <4>1. PICK c : c = [u.client EXCEPT !.pending = FALSE]
        OBVIOUS
      <4>2. PICK m : m = [u.timers EXCEPT !.segment = FALSE]
        OBVIOUS
      <4>3. t = [Ticked(s) EXCEPT !.client.pending = FALSE, !.timers.segment = FALSE]
        BY <1>3, <2>2, <3>1, <3>8
      <4>4. t = [u EXCEPT !.client = c, !.timers = m]
        BY <3>1, <3>2, <4>1, <4>2, <4>3 DEF Sessions
      <4>5. c \in Clients /\ ~c.pending
        BY <3>2, <4>1 DEF Clients
      <4>6. m \in Timers
        BY <1>2, <3>2, <4>2 DEF Timers
      <4>7. /\ t \in Sessions /\ t.client = c /\ t.timers = m /\ t.player = u.player
            /\ t.net = u.net /\ t.parser = u.parser
        BY <3>2, <4>4, <4>5, <4>6 DEF Sessions
      <4>8. Well(t)
        BY <3>3, <4>5, <4>7 DEF Well, Bounded, Guarded, Ticking
      <4>9. m.delayed = u.timers.delayed /\ m.underrun = u.timers.underrun
        BY <1>2, <3>2, <4>2 DEF Timers
      <4>10. ~Roomy
        BY <1>6, <2>2, <3>8
      <4>11. Good(t, l)
        BY <3>2, <3>4, <4>1, <4>7, <4>9, <4>10, GivenUpGood
      <4> QED BY <4>8, <4>11
    <3> QED BY <3>5, <3>6, <3>7, <3>8
  <2> QED BY <2>1, <2>2
<1>8. Well(Session)' /\ Good(Session, last)'
  BY <1>4, <1>5, <1>7, BecomesWell
<1> QED BY <1>4, <1>8, RestKept, SessionParts

\* One element less.
LEMMA RemoveProperties ==
  ASSUME NEW S, NEW q \in Seq(S), NEW k \in DOMAIN q
  PROVE  RemoveAt(q, k) \in Seq(S)
<1>1. Len(q) \in Nat /\ k \in 1 .. Len(q)
  BY LenProperties
<1>2. k - 1 \in 0 .. Len(q) /\ k \in 0 .. Len(q)
  BY <1>1
<1>3. SubSeq(q, 1, k - 1) \in Seq(S)
  BY <1>2, TakeProperties
<1>4. SubSeq(q, k + 1, Len(q)) \in Seq(S)
  BY <1>2, DropProperties DEF DropFirst
<1> QED BY <1>3, <1>4, ConcatProperties DEF RemoveAt

LEMMA DelayedRequestKeeps ==
  ASSUME DashInv, DelayedRequest
  PROVE  DashInv'
<1>1. PICK s : s = Session
  OBVIOUS
<1>2. setup \in Setups /\ Well(s) /\ s \in Sessions /\ s.timers \in Timers
      /\ s.timers = timers
  BY <1>1, SessionParts
<1>3. PICK k \in DOMAIN timers.delayed :
        /\ timers.delayed[k].earliest <= player.played \/ player.state = "DONE"
        /\ Becomes(RequestSegment([Session EXCEPT !.timers.delayed = RemoveAt(@, k)]))
  BY DEF DelayedRequest
<1>4. PICK q : q = RemoveAt(s.timers.delayed, k)
  OBVIOUS
<1>5. q \in Seq(Deadlines)
  BY <1>2, <1>3, <1>4, RemoveProperties DEF Timers
<1>6. PICK m : m = [s.timers EXCEPT !.delayed = q]
  OBVIOUS
<1>7. m \in Timers /\ m.segment = s.timers.segment
  BY <1>2, <1>5, <1>6 DEF Timers
<1>8. PICK u : u = [s EXCEPT !.timers = m]
  OBVIOUS
<1>9. Well(u)
  BY <1>2, <1>7, <1>8, TimersWell
<1>10. u = [Session EXCEPT !.timers.delayed = RemoveAt(@, k)]
  BY <1>1, <1>2, <1>4, <1>6, <1>8 DEF Sessions, Timers
<1>11. PICK outcomes : outcomes = RequestSegment(u)
  OBVIOUS
<1>12. Becomes(outcomes) /\ last' = last /\ failures' = failures /\ setup' = setup
  BY <1>3, <1>10, <1>11 DEF DelayedRequest
<1>13. \A t \in outcomes : Well(t)
  BY <1>2, <1>9, <1>11, RequestWell
<1>14. PICK l : l = last /\ Placed(l) /\ Good(s, l)
  BY <1>1, SessionGood
<1>15. \A t \in outcomes : Good(t, l)
  <2>1. k \in DOMAIN s.timers.delayed
        /\ (s.timers.delayed[k].earliest <= s.player.played \/ s.player.state = "DONE")
    BY <1>1, <1>2, <1>3, SessionParts
  <2>2. /\ u.client = s.client /\ u.timers = m /\ u.player = s.player
        /\ u.parser = s.parser /\ u.net = s.net
    BY <1>2, <1>8 DEF Sessions
  <2>3. u.timers.underrun = s.timers.underrun /\ u.timers.delayed = RemoveAt(s.timers.delayed, k)
    BY <1>2, <1>4, <1>6, <2>2 DEF Timers
  <2>4. /\ Good(u, l)
        /\ OneConnection => Ending(u, l).fid # -1
        /\ Roomy /\ MayRequest(u.client) => RoomForSegment(u)
    BY <1>2, <1>14, <2>1, <2>2, <2>3, DelayedGood
  <2> QED BY <1>2, <1>9, <1>11, <1>14, <2>4, RequestGood
<1>16. Well(Session)' /\ Good(Session, last)'
  BY <1>12, <1>13, <1>14, <1>15, BecomesWell
<1> QED BY <1>12, <1>16, RestKept, SessionParts

LEMMA UnderrunRequestKeeps ==
  ASSUME DashInv, UnderrunRequest
  PROVE  DashInv'
<1>1. PICK s : s = Session
  OBVIOUS
<1>2. setup \in Setups /\ Well(s) /\ s \in Sessions /\ s.timers \in Timers
  BY <1>1, SessionParts
<1>3. PICK m : m = [s.timers EXCEPT !.underrun = FALSE]
  OBVIOUS
<1>4. m \in Timers /\ m.segment = s.timers.segment
  BY <1>2, <1>3 DEF Timers
<1>5. PICK u : u = [s EXCEPT !.timers = m]
  OBVIOUS
<1>6. Well(u)
  BY <1>2, <1>4, <1>5, TimersWell
<1>7. u = [Session EXCEPT !.timers.underrun = FALSE]
  BY <1>1, <1>2, <1>3, <1>5 DEF Sessions
<1>8. PICK outcomes : outcomes = RequestSegment(u)
  OBVIOUS
<1>9. Becomes(outcomes) /\ last' = last /\ failures' = failures /\ setup' = setup
  BY <1>7, <1>8 DEF UnderrunRequest
<1>10. \A t \in outcomes : Well(t)
  BY <1>2, <1>6, <1>8, RequestWell
<1>11. PICK l : l = last /\ Placed(l) /\ Good(s, l)
  BY <1>1, SessionGood
<1>12. \A t \in outcomes : Good(t, l)
  <2>1. s.timers.underrun
    BY <1>1, SessionParts DEF UnderrunRequest
  <2>2. /\ u.client = s.client /\ u.timers = m /\ u.player = s.player
        /\ u.parser = s.parser /\ u.net = s.net
    BY <1>2, <1>5 DEF Sessions
  <2>3. ~u.timers.underrun /\ u.timers.delayed = s.timers.delayed
    BY <1>2, <1>3, <2>2 DEF Timers
  <2>4. /\ Good(u, l)
        /\ OneConnection => Ending(u, l).fid # -1
        /\ Roomy /\ MayRequest(u.client) => RoomForSegment(u)
    BY <1>2, <1>11, <2>1, <2>2, <2>3, UnderrunGood
  <2> QED BY <1>2, <1>6, <1>8, <1>11, <2>4, RequestGood
<1>13. Well(Session)' /\ Good(Session, last)'
  BY <1>9, <1>10, <1>11, <1>12, BecomesWell
<1> QED BY <1>9, <1>13, RestKept, SessionParts

LEMMA CheckBufferKeeps ==
  ASSUME DashInv, CheckBuffer
  PROVE  DashInv'
<1>1. PICK s : s = Session
  OBVIOUS
<1>2. setup \in Setups /\ Well(s) /\ s \in Sessions /\ s.timers \in Timers
  BY <1>1, SessionParts
<1>3. PICK m : m = [s.timers EXCEPT !.check = FALSE]
  OBVIOUS
<1>4. m \in Timers /\ m.segment = s.timers.segment
  BY <1>2, <1>3 DEF Timers
<1>5. PICK u : u = [s EXCEPT !.timers = m]
  OBVIOUS
<1>6. Well(u)
  BY <1>2, <1>4, <1>5, TimersWell
<1>7. u = [Session EXCEPT !.timers.check = FALSE]
  BY <1>1, <1>2, <1>3, <1>5 DEF Sessions
<1>8. PICK outcomes : outcomes = IF client.sock = "none" THEN {u} ELSE ReadSocket(u)
  OBVIOUS
<1>9. Becomes(outcomes) /\ last' = last /\ failures' = failures /\ setup' = setup
  BY <1>7, <1>8 DEF CheckBuffer
<1>10. \A t \in outcomes : Well(t)
  BY <1>2, <1>6, <1>8, ReadWell
<1>11. PICK l : l = last /\ Placed(l) /\ Good(s, l)
  BY <1>1, SessionGood
<1>12. \A t \in outcomes : Good(t, l)
  <2>1. m.delayed = s.timers.delayed /\ m.underrun = s.timers.underrun
    BY <1>2, <1>3 DEF Timers
  <2>2. Good(u, l)
    BY <1>2, <1>4, <1>5, <1>11, <2>1, TimersGood
  <2> QED BY <1>2, <1>6, <1>8, <1>11, <2>2, ReadGood
<1>13. Well(Session)' /\ Good(Session, last)'
  BY <1>9, <1>10, <1>11, <1>12, BecomesWell
<1> QED BY <1>9, <1>13, RestKept, SessionParts

\* A change of the network within its bounds.
LEMMA NetWell ==
  ASSUME NEW s, Well(s), NEW n \in Nets, Len(n.wire) <= SendWindow, Len(n.rx) <= RcvBuf,
         NEW t, t = [s EXCEPT !.net = n]
  PROVE  Well(t)
<1>1. s \in Sessions
  BY DEF Well
<1>2. t \in Sessions /\ t.client = s.client /\ t.timers = s.timers /\ t.player = s.player
      /\ t.net = n
  BY <1>1 DEF Sessions
<1> QED BY <1>2 DEF Well, Bounded, Guarded, Ticking

LEMMA HandleReadKeeps ==
  ASSUME DashInv, HandleRead
  PROVE  DashInv'
<1>1. PICK s : s = Session
  OBVIOUS
<1>2. setup \in Setups /\ Well(s) /\ s \in Sessions /\ s.net \in Nets /\ s.net = net
  BY <1>1, SessionParts
<1>3. PICK k \in 1 .. Len(net.wire) :
        /\ Len(net.rx) + k <= RcvBuf
        /\ Becomes(ReadSocket([Session EXCEPT !.net.begun = TRUE,
                                              !.net.rx = @ \o SubSeq(net.wire, 1, k),
                                              !.net.wire = DropFirst(@, k)]))
  BY DEF HandleRead
<1>4. PICK w \in Seq(Units) : w = s.net.wire
  BY <1>2 DEF Nets
<1>5. PICK r \in Seq(Units) : r = s.net.rx
  BY <1>2 DEF Nets
<1>6. Len(w) \in Nat /\ Len(r) \in Nat /\ k \in 0 .. Len(w)
  BY <1>2, <1>3, <1>4, LenProperties
<1>7. PICK x : x = SubSeq(w, 1, k)
  OBVIOUS
<1>8. x \in Seq(Units) /\ Len(x) = k
  BY <1>6, <1>7, TakeProperties
<1>9. PICK y : y = DropFirst(w, k)
  OBVIOUS
<1>10. y \in Seq(Units) /\ Len(y) = Len(w) - k
  BY <1>6, <1>9, DropProperties
<1>11. PICK z : z = r \o x
  OBVIOUS
<1>12. z \in Seq(Units) /\ Len(z) = Len(r) + k
  BY <1>8, <1>11, ConcatProperties
<1>13. PICK n : n = [s.net EXCEPT !.begun = TRUE, !.rx = z, !.wire = y]
  OBVIOUS
<1>14. n \in Nets /\ n.wire = y /\ n.rx = z
  BY <1>2, <1>10, <1>12, <1>13 DEF Nets
<1>15. Len(y) <= SendWindow
  <2>1. Len(w) <= SendWindow
    BY <1>2, <1>4 DEF Well, Bounded
  <2> QED BY <1>2, <1>6, <1>10, <2>1, SetupSizes
<1>16. Len(z) <= RcvBuf
  BY <1>2, <1>3, <1>5, <1>12
<1>17. PICK u : u = [s EXCEPT !.net = n]
  OBVIOUS
<1>18. Well(u)
  BY <1>2, <1>14, <1>15, <1>16, <1>17, NetWell
<1>19. u = [Session EXCEPT !.net.begun = TRUE,
                           !.net.rx = @ \o SubSeq(net.wire, 1, k),
                           !.net.wire = DropFirst(@, k)]
  BY <1>1, <1>2, <1>4, <1>5, <1>7, <1>9, <1>11, <1>13, <1>17 DEF Sessions, Nets
<1>20. PICK outcomes : outcomes = ReadSocket(u)
  OBVIOUS
<1>21. Becomes(outcomes) /\ last' = last /\ failures' = failures /\ setup' = setup
  BY <1>3, <1>19, <1>20 DEF HandleRead
<1>22. \A t \in outcomes : Well(t)
  BY <1>2, <1>18, <1>20, ReadWell
<1>23. PICK l : l = last /\ Placed(l) /\ Good(s, l)
  BY <1>1, SessionGood
<1>24. \A t \in outcomes : Good(t, l)
  <2>1. /\ u.client = s.client /\ u.timers = s.timers /\ u.player = s.player
        /\ u.parser = s.parser /\ u.net = n
    BY <1>2, <1>17 DEF Sessions
  <2>2. n.up = s.net.up /\ n.queue = s.net.queue
    BY <1>2, <1>13 DEF Nets
  <2>3. Arrived(s, u, k)
    BY <1>4, <1>5, <1>7, <1>9, <1>11, <1>14, <2>1, <2>2 DEF Arrived
  <2>4. k \in 0 .. Len(s.net.wire)
    BY <1>4, <1>6
  <2>5. Same(s, u)
    BY <1>2, <2>3, <2>4, ArrivedSame
  <2>6. Good(u, l)
    BY <1>23, <2>1, <2>5, SameGood
  <2> QED BY <1>2, <1>18, <1>20, <1>23, <2>6, ReadGood
<1>25. Well(Session)' /\ Good(Session, last)'
  BY <1>21, <1>22, <1>23, <1>24, BecomesWell
<1> QED BY <1>21, <1>25, RestKept, SessionParts

\* A pause changes deadlines, but not how many there are.
LEMMA OvertakenProperties ==
  ASSUME NEW q \in Seq(Deadlines), NEW n \in Nat
  PROVE  Overtaken(q, n) \in Seq(Deadlines) /\ Len(Overtaken(q, n)) = Len(q)
<1>1. Len(q) \in Nat /\ DOMAIN q = 1 .. Len(q) /\ \A k \in 1 .. Len(q) : q[k] \in Deadlines
  BY LenProperties, ElementOfSeq
<1>2. \A k \in 1 .. Len(q) : [q[k] EXCEPT !.earliest = n] \in Deadlines
  BY <1>1 DEF Deadlines
<1>3. Overtaken(q, n) \in [1 .. Len(q) -> Deadlines]
  BY <1>1, <1>2 DEF Overtaken
<1> QED BY <1>1, <1>3, SeqDef, LenProperties

LEMMA PlayFrameKeeps ==
  ASSUME DashInv, PlayFrame
  PROVE  DashInv'
<1>1. PICK s : s = Session
  OBVIOUS
<1>2. /\ setup \in Setups /\ Well(s) /\ s \in Sessions /\ s.timers \in Timers
      /\ s.player \in Players /\ s.timers = timers /\ s.player = player
      /\ s.client = client /\ s.parser = parser /\ s.net = net
      /\ failures \in 0 .. setup.maxFailures
  BY <1>1, SessionParts
<1>3. /\ client' = client /\ parser' = parser /\ net' = net /\ failures' = failures
      /\ setup' = setup /\ player.events > 0
  BY DEF PlayFrame, PlayFrameDue
<1>4. player.events = 1
  BY <1>2, <1>3 DEF Well, OneChain, Players
<1>5. ASSUME NEW p \in Players, OneChain(p), Len(p.buffer) <= BufferSpace,
             player.state = "DONE" => p.state = "DONE",
             NEW m \in Timers, m.segment = timers.segment,
             player' = p, timers' = m, NEW l, last' = l,
             Good([s EXCEPT !.player = p, !.timers = m], l)
      PROVE  Well(Session)' /\ Good(Session, last)'
  <2>1. PICK t : t = [s EXCEPT !.player = p, !.timers = m]
    OBVIOUS
  <2>2. /\ t \in Sessions /\ t.client = client /\ t.timers = m /\ t.player = p
        /\ t.net = net /\ t.parser = parser
    BY <1>2, <1>5, <2>1 DEF Sessions
  <2>3. Bounded(t)
    BY <1>2, <1>5, <2>2 DEF Well, Bounded
  <2>4. Guarded(t) \/ p.state = "DONE"
    BY <1>2, <1>5, <2>2 DEF Well, Guarded
  <2>5. Guarded(t)
    BY <2>2, <2>4 DEF Guarded
  <2>6. Ticking(t)
    BY <1>2, <1>5, <2>2 DEF Well, Ticking
  <2>7. Well(t)
    BY <1>5, <2>2, <2>3, <2>5, <2>6 DEF Well
  <2>8. Becomes({t})
    BY <1>3, <1>5, <2>2 DEF Becomes
  <2> QED BY <1>3, <1>5, <2>1, <2>7, <2>8, BecomesWell
<1>6. PICK l : l = last /\ Placed(l) /\ Good(s, l)
  BY <1>1, SessionGood
<1>7. CASE player.state = "DONE"
  <2>1. PICK p : p = [player EXCEPT !.events = player.events - 1]
    OBVIOUS
  <2>2. player' = p /\ timers' = timers /\ last' = last
    BY <1>7, <2>1 DEF PlayFrame
  <2>3. /\ p \in Players /\ p.state = "DONE" /\ p.events = 0 /\ p.buffer = player.buffer
    BY <1>2, <1>4, <1>7, <2>1 DEF Players
  <2>4. OneChain(p)
    BY <2>3 DEF OneChain
  <2>5. Len(p.buffer) <= BufferSpace
    BY <1>2, <2>3 DEF Well, Bounded
  <2>6. PICK m : m = timers
    OBVIOUS
  <2>7. Good([s EXCEPT !.player = p, !.timers = m], l)
    <3>1. PICK t : t = [s EXCEPT !.player = p, !.timers = m]
      OBVIOUS
    <3>2. /\ t.client = s.client /\ t.parser = s.parser /\ t.net = s.net
          /\ t.player = p /\ t.timers = m
      BY <1>2, <3>1 DEF Sessions
    <3>3. PICK e : e = player.events - 1
      OBVIOUS
    <3>4. t.player = [s.player EXCEPT !.events = e]
      BY <1>2, <2>1, <3>2, <3>3
    <3>5. t.timers.underrun = s.timers.underrun /\ t.timers.delayed = s.timers.delayed
      BY <1>2, <2>6, <3>2
    <3>6. Good(t, l)
      BY <1>2, <1>7, <1>6, <3>2, <3>4, <3>5, EndedGood
    <3> QED BY <3>1, <3>6
  <2>8. Well(Session)' /\ Good(Session, last)'
    BY <1>2, <1>5, <1>7, <1>6, <2>2, <2>3, <2>4, <2>5, <2>6, <2>7
  <2> QED BY <1>2, <1>3, <2>2, <2>8, RestKept
<1>8. CASE player.state # "DONE" /\ player.buffer = <<>>
  <2>1. PICK p : p = [player EXCEPT !.state = "PAUSED"]
    OBVIOUS
  <2>2. PICK g : g = ~client.pending
    OBVIOUS
  <2>3. PICK m : m = [timers EXCEPT !.underrun = g, !.delayed = Overtaken(@, player.played)]
    OBVIOUS
  <2>4. player' = p /\ timers' = m /\ last' = last
    BY <1>8, <2>1, <2>2, <2>3 DEF PlayFrame
  <2>5. g \in BOOLEAN
    BY <2>2
  <2>6. m \in Timers /\ m.segment = timers.segment
    <3>1. PICK d : d = Overtaken(timers.delayed, player.played)
      OBVIOUS
    <3>2. timers.delayed \in Seq(Deadlines) /\ player.played \in Nat
      BY <1>2 DEF Timers, Players
    <3>3. d \in Seq(Deadlines)
      BY <3>1, <3>2, OvertakenProperties
    <3>4. m = [timers EXCEPT !.underrun = g, !.delayed = d]
      BY <2>3, <3>1
    <3> QED BY <1>2, <2>5, <3>3, <3>4 DEF Timers
  <2>7. /\ p \in Players /\ p.state = "PAUSED" /\ p.events = 1 /\ p.buffer = player.buffer
    BY <1>2, <1>4, <2>1 DEF Players
  <2>8. OneChain(p)
    BY <2>7 DEF OneChain
  <2>9. Len(p.buffer) <= BufferSpace
    BY <1>2, <2>7 DEF Well, Bounded
  <2>10. Good([s EXCEPT !.player = p, !.timers = m], l)
    <3>1. PICK t : t = [s EXCEPT !.player = p, !.timers = m]
      OBVIOUS
    <3>2. /\ t.client = s.client /\ t.parser = s.parser /\ t.net = s.net
          /\ t.player = p /\ t.timers = m
      BY <1>2, <3>1 DEF Sessions
    <3>3. t.player = [s.player EXCEPT !.state = "PAUSED"]
      BY <1>2, <2>1, <3>2
    <3>4. PICK d : d = Overtaken(timers.delayed, player.played)
      OBVIOUS
    <3>5. m = [timers EXCEPT !.underrun = g, !.delayed = d]
      BY <2>3, <3>4
    <3>6. m.underrun = g /\ m.delayed = d
      BY <1>2, <3>5 DEF Timers
    <3>7. /\ t.timers.underrun = ~s.client.pending
          /\ t.timers.delayed = Overtaken(s.timers.delayed, s.player.played)
      BY <1>2, <2>2, <3>2, <3>4, <3>6
    <3>8. s.player.state # "PAUSED" =>
            \A k \in DOMAIN s.timers.delayed : s.timers.delayed[k].latest > s.player.played
      BY <1>2 DEF PlayFrame, PlayFrameDue
    <3>9. Good(t, l)
      BY <1>2, <1>3, <1>8, <1>6, <3>2, <3>3, <3>7, <3>8, PausedGood
    <3> QED BY <3>1, <3>9
  <2>11. Well(Session)' /\ Good(Session, last)'
    BY <1>5, <1>8, <1>6, <2>4, <2>6, <2>7, <2>8, <2>9, <2>10
  <2> QED BY <1>2, <1>3, <2>4, <2>11, RestKept
<1>9. CASE player.state # "DONE" /\ player.buffer # <<>>
  <2>1. PICK b \in Seq(Frames) : b = player.buffer
    BY <1>2 DEF Players
  <2>2. Head(b) \in Frames /\ Tail(b) \in Seq(Frames) /\ Len(Tail(b)) = Len(b) - 1
    BY <1>9, <2>1, HeadTailProperties
  <2>3. PICK c : c = Tail(b)
    OBVIOUS
  <2>4. PICK p : p = [player EXCEPT !.state = "PLAYING", !.buffer = c,
                                    !.played = player.played + 1]
    OBVIOUS
  <2>5. PICK m : m = [timers EXCEPT !.check = TRUE]
    OBVIOUS
  <2>6. player' = p /\ timers' = m /\ last' = Head(b)
    BY <1>9, <2>1, <2>3, <2>4, <2>5 DEF PlayFrame
  <2>7. m \in Timers /\ m.segment = timers.segment
    BY <1>2, <2>5 DEF Timers
  <2>8. player.played + 1 \in Nat
    BY <1>2 DEF Players
  <2>9. p \in Players /\ p.state = "PLAYING" /\ p.events = 1 /\ p.buffer = c
    BY <1>2, <1>4, <2>2, <2>3, <2>4, <2>8 DEF Players
  <2>10. OneChain(p)
    BY <2>9 DEF OneChain
  <2>11. Len(p.buffer) <= BufferSpace
    <3>1. Len(b) <= BufferSpace /\ Len(b) \in Nat
      BY <1>2, <2>1, LenProperties DEF Well, Bounded
    <3> QED BY <1>2, <2>2, <2>3, <2>9, <3>1, SetupSizes
  <2>12. PICK h : h = Head(b)
    OBVIOUS
  <2>13. Good([s EXCEPT !.player = p, !.timers = m], h)
    <3>1. PICK t : t = [s EXCEPT !.player = p, !.timers = m]
      OBVIOUS
    <3>2. /\ t.client = s.client /\ t.parser = s.parser /\ t.net = s.net
          /\ t.player = p /\ t.timers = m
      BY <1>2, <3>1 DEF Sessions
    <3>3. t.player = [s.player EXCEPT !.state = "PLAYING", !.buffer = Tail(s.player.buffer),
                                      !.played = s.player.played + 1]
      BY <1>2, <2>1, <2>3, <2>4, <3>2
    <3>4. t.timers.delayed = s.timers.delayed /\ t.timers.underrun = s.timers.underrun
      BY <1>2, <2>5, <3>2 DEF Timers
    <3>5. Good(t, Head(s.player.buffer))
      BY <1>2, <1>3, <1>9, <1>6, <3>2, <3>3, <3>4, PlayedGood
    <3> QED BY <1>2, <2>1, <2>12, <3>1, <3>5
  <2>14. Well(Session)' /\ Good(Session, last)'
    BY <1>5, <1>9, <2>6, <2>7, <2>9, <2>10, <2>11, <2>12, <2>13
  <2>15. last'.seg \in Segments /\ last'.fid \in 0 .. LastFrame
    BY <2>2, <2>6 DEF Frames
  <2>16. last'.fid \in -1 .. LastFrame
    <3>1. LastFrame \in Int
      BY <1>2, SetupSizes DEF LastFrame
    <3> QED BY <2>15, <3>1
  <2>17. Segments' = Segments /\ LastFrame' = LastFrame
    BY <1>3 DEF Segments, MaxSegments, LastFrame
  <2>18. (setup \in Setups)' /\ (failures \in 0 .. setup.maxFailures)'
    BY <1>2, <1>3
  <2>19. (last.seg \in Segments /\ last.fid \in -1 .. LastFrame)'
    BY <2>15, <2>16, <2>17
  <2> QED BY <2>14, <2>18, <2>19 DEF DashInv
<1> QED BY <1>7, <1>8, <1>9

\* The server's steps move pieces within the network.
LEMMA ServerKeeps ==
  ASSUME DashInv, NEW n \in Nets, Len(n.wire) <= SendWindow, n.rx = net.rx,
         NEW l, l = last, Good([Session EXCEPT !.net = n], l),
         net' = Flushed(n), UNCHANGED <<client, timers, player, parser, last, failures, setup>>
  PROVE  DashInv'
<1>1. PICK s : s = Session
  OBVIOUS
<1>2. /\ setup \in Setups /\ Well(s) /\ s \in Sessions /\ s.timers = timers
      /\ s.player = player /\ s.client = client /\ s.parser = parser /\ s.net = net
      /\ failures \in 0 .. setup.maxFailures
  BY <1>1, SessionParts
<1>3. PICK m : m = Flushed(n)
  OBVIOUS
<1>4. m \in Nets /\ Len(m.wire) <= SendWindow /\ m.rx = n.rx
  BY <1>2, <1>3, FlushedNet
<1>5. Len(m.rx) <= RcvBuf
  BY <1>2, <1>4 DEF Well, Bounded
<1>6. PICK t : t = [s EXCEPT !.net = m]
  OBVIOUS
<1>7. Well(t)
  BY <1>2, <1>4, <1>5, <1>6, NetWell
<1>8. /\ t.client = client /\ t.timers = timers /\ t.player = player
      /\ t.parser = parser /\ t.net = m
  BY <1>2, <1>6 DEF Sessions
<1>9. Becomes({t})
  BY <1>3, <1>8 DEF Becomes
<1>10. Good(t, l)
  <2>1. PICK v : v = [s EXCEPT !.net = n]
    OBVIOUS
  <2>2. /\ v.client = client /\ v.timers = timers /\ v.player = player
        /\ v.parser = parser /\ v.net = n
    BY <1>2, <2>1 DEF Sessions
  <2>3. Well(v)
    BY <1>2, <2>1, NetWell DEF Well, Bounded
  <2>4. Sent(v, t)
    BY <1>3, <1>8, <2>2 DEF Sent
  <2>5. Same(v, t)
    BY <1>2, <2>3, <2>4, SentSame
  <2>6. Good(v, l)
    BY <1>1, <2>1
  <2> QED BY <1>8, <2>2, <2>5, <2>6, SameGood
<1>11. Well(Session)' /\ Good(Session, last)'
  BY <1>2, <1>7, <1>9, <1>10, BecomesWell
<1> QED BY <1>2, <1>11, RestKept

LEMMA ServerHandleReadKeeps ==
  ASSUME DashInv, ServerHandleRead
  PROVE  DashInv'
<1>1. setup \in Setups /\ net \in Nets /\ Len(net.wire) <= SendWindow
  BY SessionParts DEF Well, Bounded
<1>2. PICK u \in Seq(Segments) : u = net.up
  BY <1>1 DEF Nets
<1>3. Head(u) \in Segments /\ Tail(u) \in Seq(Segments)
  BY <1>2, HeadTailProperties DEF ServerHandleRead
<1>4. PICK q \in Seq(Units) : q = net.queue
  BY <1>1 DEF Nets
<1>5. PICK g : g = SegmentUnits(Head(u))
  OBVIOUS
<1>6. g \in Seq(Units)
  BY <1>1, <1>3, <1>5, SegmentPieces
<1>7. PICK r : r = q \o g
  OBVIOUS
<1>8. r \in Seq(Units)
  BY <1>6, <1>7, ConcatProperties
<1>9. PICK v : v = Tail(u)
  OBVIOUS
<1>10. PICK n : n = [net EXCEPT !.up = v, !.queue = r]
  OBVIOUS
<1>11. n \in Nets /\ n.wire = net.wire /\ n.rx = net.rx
  BY <1>1, <1>3, <1>8, <1>9, <1>10 DEF Nets
<1>12. n = [net EXCEPT !.up = Tail(@), !.queue = @ \o SegmentUnits(Head(net.up))]
  BY <1>1, <1>2, <1>4, <1>5, <1>7, <1>9, <1>10 DEF Nets
<1>13. net' = Flushed(n) /\ UNCHANGED <<client, timers, player, parser, last, failures, setup>>
  BY <1>12 DEF ServerHandleRead
<1>14. Len(n.wire) <= SendWindow
  BY <1>1, <1>11
<1>15. PICK s : s = Session
  OBVIOUS
<1>16. PICK l : l = last /\ Placed(l) /\ Good(s, l)
  BY <1>15, SessionGood
<1>17. PICK t : t = [s EXCEPT !.net = n]
  OBVIOUS
<1>18. /\ Well(s) /\ s.net = net /\ t.client = s.client /\ t.timers = s.timers
       /\ t.player = s.player /\ t.parser = s.parser /\ t.net = n
  BY <1>15, <1>17, SessionParts DEF Sessions
<1>19. n.up = v /\ n.queue = r
  BY <1>1, <1>10 DEF Nets
<1>20. Served(s, t)
  BY <1>2, <1>4, <1>5, <1>7, <1>9, <1>11, <1>18, <1>19 DEF Served
<1>21. Good(t, l)
  BY <1>1, <1>16, <1>18, <1>20, ServedGood DEF ServerHandleRead
<1>22. Good([Session EXCEPT !.net = n], l)
  BY <1>15, <1>17, <1>21
<1> QED BY <1>11, <1>13, <1>14, <1>16, <1>22, ServerKeeps

LEMMA DataSendKeeps ==
  ASSUME DashInv, DataSend
  PROVE  DashInv'
<1>1. setup \in Setups /\ net \in Nets /\ Len(net.wire) <= SendWindow
  BY SessionParts DEF Well, Bounded
<1>2. PICK n : n = net
  OBVIOUS
<1>3. n \in Nets /\ Len(n.wire) <= SendWindow /\ n.rx = net.rx
  BY <1>1, <1>2
<1>4. net' = Flushed(n) /\ UNCHANGED <<client, timers, player, parser, last, failures, setup>>
  BY <1>2 DEF DataSend
<1>5. PICK l : l = last /\ Placed(l) /\ Good(Session, l)
  BY SessionGood
<1>6. [Session EXCEPT !.net = n] = Session
  BY <1>2, SessionParts DEF Sessions
<1>7. Good([Session EXCEPT !.net = n], l)
  BY <1>5, <1>6
<1> QED BY <1>3, <1>4, <1>5, <1>7, ServerKeeps

LEMMA DashStep ==
  ASSUME DashInv, [Next]_vars
  PROVE  DashInv'
<1>1. CASE UNCHANGED vars
  <2>1. PICK s : s = Session
    OBVIOUS
  <2>2. PICK l : l = last /\ Placed(l) /\ Good(s, l)
    BY <2>1, SessionGood
  <2>3. /\ s.client = client /\ s.timers = timers /\ s.player = player
        /\ s.parser = parser /\ s.net = net /\ Well(s)
    BY <2>1, SessionParts
  <2>4. /\ client' = client /\ timers' = timers /\ player' = player /\ parser' = parser
        /\ net' = net /\ last' = last /\ failures' = failures /\ setup' = setup
    BY <1>1 DEF vars
  <2>5. Becomes({s})
    BY <2>3, <2>4 DEF Becomes
  <2>6. Well(Session)' /\ Good(Session, last)'
    BY <2>2, <2>3, <2>4, <2>5, BecomesWell
  <2> QED BY <2>4, <2>6, RestKept, SessionParts
<1>2. CASE Events
  BY <1>2, StartApplicationKeeps, ConnectionSucceededKeeps, SegmentRequestWatchdogKeeps,
     DelayedRequestKeeps, UnderrunRequestKeeps, CheckBufferKeeps, HandleReadKeeps,
     PlayFrameKeeps, ServerHandleReadKeeps, DataSendKeeps DEF Events
<1>3. CASE Disturbances
  BY <1>3, ConnectionErrorClosedKeeps, ConnectWatchdogKeeps, StopApplicationKeeps
     DEF Disturbances
<1> QED BY <1>1, <1>2, <1>3 DEF Next

------------------------------------------------------------------------------
(* Theorems.                                                               *)

\* The invariant holds throughout.
LEMMA DashInvariant == Spec => []DashInv
<1>1. Init => DashInv
  BY DashInit
<1>2. DashInv /\ [Next]_vars => DashInv'
  BY DashStep
<1> QED BY <1>1, <1>2, PTL DEF Spec

\* Every variable of a session keeps its shape: the player never holds more
\* frames than BufferSpace, TCP never more than its two buffers, and the
\* watchdog never ticks past its limit, whatever happens to the connection.
THEOREM SessionTyped == Spec => []TypeOK
<1>1. DashInv => TypeOK
  <2> SUFFICES ASSUME DashInv PROVE TypeOK
    OBVIOUS
  <2>1. /\ client \in Clients /\ timers \in Timers /\ player \in Players
        /\ parser \in Parsers /\ net \in Nets
    BY SessionParts
  <2>2. /\ Len(player.buffer) <= BufferSpace
        /\ Len(net.wire) <= SendWindow /\ Len(net.rx) <= RcvBuf
    BY SessionParts DEF Well, Bounded
  <2>3. client \in [sock : {"none", "connecting", "open", "closing"}, connected : BOOLEAN,
                    pending : BOOLEAN, retryUsed : BOOLEAN, nextSeg : 0 .. MaxSegments,
                    pendSeg : Segments, got : Nat, lastGot : Nat, ticks : 0 .. StuckLimit]
    BY <2>1 DEF Clients
  <2>4. /\ \A t \in {"start", "connect", "segment", "underrun", "check"} : timers[t] \in BOOLEAN
        /\ timers.delayed \in Seq([earliest : Nat, latest : Nat])
    BY <2>1 DEF Timers, Deadlines
  <2>5. /\ player.state \in {"NOT_STARTED", "INITIAL_BUFFERING", "PLAYING", "PAUSED", "DONE"}
        /\ player.buffer \in Seq(Frames) /\ player.played \in Nat /\ player.events \in Nat
    BY <2>1 DEF Players
  <2>6. parser.bytes \in Seq(Units) /\ parser.size \in {0, FrameUnits}
    BY <2>1 DEF Parsers
  <2>7. net.up \in Seq(Segments) /\ {net.queue, net.wire, net.rx} \subseteq Seq(Units)
    BY <2>1 DEF Nets
  <2> QED BY <2>2, <2>3, <2>4, <2>5, <2>6, <2>7 DEF TypeOK, DashInv
<1> QED BY <1>1, DashInvariant, PTL

\* A pending request always has an armed watchdog on a connection that is up:
\* through retries, late duplicates, lost connections and reconnects no request
\* waits for a segment with nothing left to end the wait.
THEOREM RequestGuarded == Spec => []PendingGuarded
<1>1. DashInv => PendingGuarded
  BY SessionParts DEF Well, Guarded, PendingGuarded
<1> QED BY <1>1, DashInvariant, PTL

\* Once playback has begun there is exactly one chain of PlayFrame events,
\* however often the player stalls and resumes.
THEOREM OneChainOfFrames == Spec => []SinglePlayChain
<1>1. DashInv => SinglePlayChain
  BY SessionParts DEF Well, OneChain, SinglePlayChain
<1> QED BY <1>1, DashInvariant, PTL

\* On one connection every frame played follows the one before it: the frames of a
\* segment come whole and in order, and a segment is followed by itself or a later
\* one, whatever the player refuses, the parser keeps back, TCP cuts in two and the
\* watchdog asks for again.
THEOREM FramesPlayedInOrder == Spec => WholeSegments
<1>1. ASSUME DashInv, [Next]_vars
      PROVE  [ \/ setup.maxFailures > 0
               \/ last'.seg = last.seg /\ last'.fid = last.fid + 1
               \/ last.fid = LastFrame /\ last'.fid = 0 /\ last'.seg >= last.seg ]_last
  <2>1. SUFFICES ASSUME last' # last, ~(setup.maxFailures > 0)
                 PROVE  Follows(last, last')
    BY DEF Follows
  <2>2. OneConnection
    BY <1>1, <2>1, SessionParts, SetupSizes DEF OneConnection
  <2>3. PlayFrame
    BY <1>1, <2>1 DEF Next, Events, Disturbances, vars, StartApplication, ConnectionSucceeded,
       SegmentRequestWatchdog, DelayedRequest, UnderrunRequest, CheckBuffer, HandleRead,
       ServerHandleRead, DataSend, ConnectionErrorClosed, ConnectWatchdog, StopApplication
  <2>4. /\ player.events > 0 /\ player.state # "DONE" /\ player.buffer # <<>>
        /\ last' = Head(player.buffer)
    BY <2>1, <2>3 DEF PlayFrame, PlayFrameDue
  <2>5. PICK s : s = Session
    OBVIOUS
  <2>6. /\ setup \in Setups /\ Well(s) /\ s \in Sessions /\ s.player = player
        /\ s.timers \in Timers
    BY <1>1, <2>5, SessionParts
  <2>7. PICK l : l = last /\ Placed(l) /\ Good(s, l)
    BY <1>1, <2>5, SessionGood
  <2>8. PICK p : p = [s.player EXCEPT !.state = "PLAYING", !.buffer = Tail(s.player.buffer),
                                      !.played = s.player.played + 1]
    OBVIOUS
  <2>9. PICK t : t = [s EXCEPT !.player = p]
    OBVIOUS
  <2>10. /\ t.client = s.client /\ t.parser = s.parser /\ t.net = s.net
         /\ t.player = p /\ t.timers = s.timers
    BY <2>6, <2>9 DEF Sessions
  <2>11. Follows(l, Head(s.player.buffer))
    BY <2>2, <2>4, <2>6, <2>7, <2>8, <2>10, PlayedGood
  <2> QED BY <2>4, <2>6, <2>7, <2>11
<1> QED BY <1>1, DashInvariant, PTL DEF Spec, WholeSegments

\* In an undisturbed session the buffer exceeds the cap MaxBufferS by m_start_time at
\* the most, whatever the sizes: a request is made, at once or put off, only when its
\* segment fits, and it is the only one on its way.
THEOREM CapHolds == Spec => []CapOverrunBounded
<1>1. DashInv => CapOverrunBounded
  <2> SUFFICES ASSUME DashInv, Undisturbed
               PROVE  Len(player.buffer) <= MaxBuffer + StartTime
    BY DEF CapOverrunBounded
  <2>1. PICK s : s = Session
    OBVIOUS
  <2>2. /\ setup \in Setups /\ Well(s) /\ s.player = player /\ s.client \in Clients
        /\ s.player \in Players
    BY <2>1, SessionParts
  <2>3. PICK l : l = last /\ Placed(l) /\ Good(s, l)
    BY <2>1, SessionGood
  <2>4. Len(player.buffer) \in Nat
    BY <2>2, LenProperties DEF Players
  <2>5. CASE ~(BufferSpace > MaxBuffer + StartTime)
    <3>1. Len(player.buffer) <= BufferSpace
      BY <2>2 DEF Well, Bounded
    <3> QED BY <2>2, <2>4, <2>5, <3>1, SetupSizes
  <2>6. CASE BufferSpace > MaxBuffer + StartTime
    <3>1. Roomy
      BY <2>6 DEF Roomy
    <3>2. OneAtATime(s, l) /\ Fitting(s)
      BY <2>3, <3>1, GoodOrNot
    <3> QED BY <2>2, <3>1, <3>2, NeverFull
  <2> QED BY <2>5, <2>6
<1> QED BY <1>1, DashInvariant, PTL
==============================================================================
