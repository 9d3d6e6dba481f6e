----------------------------- MODULE DashSession -----------------------------
(***************************************************************************)
(* One DASH session over a reliable byte stream (src/dash/model):          *)
(*                                                                         *)
(*   - DashClient: connection set-up, the request flag, the segment        *)
(*     watchdog, the playback-buffer cap (dash-client.cc);                 *)
(*   - HttpParser, which cuts the byte stream into frames;                 *)
(*   - MpegPlayer with its FrameBuffer and its chain of PlayFrame events;  *)
(*   - DashServer: a queue of segment bytes behind the send buffer.        *)
(*                                                                         *)
(* Time is measured in frames played.  Network delays are arbitrary unless *)
(* Timely, so a watchdog may expire at any moment.  A byte of the model is *)
(* a piece of a frame, of which the first HeaderUnits are its headers.     *)
(*                                                                         *)
(* Operators whose comment begins with "Fault:" are single mistakes in the *)
(* handler that follows; they take its place when the properties are       *)
(* tested, and Next never uses them.                                       *)
(***************************************************************************)
EXTENDS Integers, SequencesExt

CONSTANTS
  FramesPerSegment,  \* MPEG_FRAMES_PER_SEGMENT
  HeaderUnits,       \* pieces that the HTTP and MPEG headers of a frame take
  StartTime,         \* m_start_time, in frames: when playback begins
  StuckLimit,        \* watchdog ticks without progress before giving up
  Setups             \* the sizes and switches a session may have

\* A setup of a session; every session has one of Setups.
SetupType ==
  [maxSegments : Nat \ {0},   \* m_maxSegments, from MaxVideoDuration
   frameUnits  : Nat \ {0},   \* pieces of a whole frame
   bufferSpace : Nat \ {0},   \* m_bufferSpace, in frames
   maxBuffer   : Nat,         \* m_maxBufferS, in frames (0: unlimited)
   sendWindow  : Nat \ {0},   \* pieces the server's send buffer and the network hold
   rcvBuf      : Nat \ {0},   \* pieces the client's receive buffer holds
   maxFailures : Nat,         \* bound on failed, broken and timed-out connections
   mayStop     : BOOLEAN,     \* TRUE iff the client has a stop time
   sendMayFail : BOOLEAN,     \* TRUE iff Send() of a request may return -1
   timely      : BOOLEAN]     \* TRUE iff no watchdog expires while a reply is on its way

ASSUME SizeAssumption ==
  /\ {FramesPerSegment, HeaderUnits} \subseteq Nat \ {0}
  /\ StuckLimit \in Nat \ {0, 1}
  /\ StartTime \in Nat
ASSUME SetupAssumption ==
  \A s \in Setups : s \in SetupType /\ HeaderUnits <= s.frameUnits

VARIABLES
  client,   \* DashClient's socket and members
  timers,   \* the events it, or the player for it, has scheduled
  player,   \* MpegPlayer with its FrameBuffer
  parser,   \* m_pending_packet and m_pending_message_size of HttpParser
  net,      \* requests and pieces in flight, on the connection of m_socket
  last,     \* the frame played last
  failures, \* connections lost so far
  setup     \* the session's setup

vars == <<client, timers, player, parser, net, last, failures, setup>>

MaxSegments == setup.maxSegments
FrameUnits  == setup.frameUnits
BufferSpace == setup.bufferSpace
MaxBuffer   == setup.maxBuffer
SendWindow  == setup.sendWindow
RcvBuf      == setup.rcvBuf
Timely      == setup.timely

LastFrame == FramesPerSegment - 1
Segments  == 0 .. MaxSegments - 1
Frames    == [seg : Segments, fid : 0 .. LastFrame]
Units     == [seg : Segments, fid : 0 .. LastFrame, pos : 1 .. FrameUnits]

\* `begun' is set while a transmission that began on an idle network goes on.
EmptyNet == [up |-> <<>>, queue |-> <<>>, wire |-> <<>>, rx |-> <<>>, begun |-> FALSE]

Quiet == net = [EmptyNet EXCEPT !.begun = net.begun]

Init ==
  /\ client = [sock |-> "none", connected |-> FALSE, pending |-> FALSE,
               retryUsed |-> FALSE, nextSeg |-> 0, pendSeg |-> 0,
               got |-> 0, lastGot |-> 0, ticks |-> 0]
  /\ timers = [start |-> TRUE, connect |-> FALSE, segment |-> FALSE,
               underrun |-> FALSE, check |-> FALSE, delayed |-> <<>>]
  /\ player = [state |-> "NOT_STARTED", buffer |-> <<>>, played |-> 0, events |-> 0]
  /\ parser = [bytes |-> <<>>, size |-> 0]
  /\ net = EmptyNet
  /\ last = [seg |-> 0, fid |-> -1]
  /\ failures = 0
  /\ setup \in Setups

\* The handlers below map this record to the set of its possible successors:
\* Send() of a request may succeed or fail.
Session == [client |-> client, timers |-> timers, player |-> player,
            parser |-> parser, net |-> net]

Becomes(outcomes) ==
  \E s \in outcomes :
    /\ client' = s.client /\ timers' = s.timers /\ player' = s.player
    /\ parser' = s.parser /\ net' = s.net

-----------------------------------------------------------------------------
(***************************************************************************)
(* Requests.                                                               *)
(***************************************************************************)
SendSegmentRequest(s, seg) ==
  {[s EXCEPT !.net.up = Append(@, seg)]} \cup (IF setup.sendMayFail THEN {s} ELSE {})

MayRequest(c) == ~c.pending /\ c.connected /\ c.nextSeg < MaxSegments

RequestSegment(s) ==
  IF ~MayRequest(s.client) THEN {s}
  ELSE SendSegmentRequest(
         [s EXCEPT !.client = [@ EXCEPT !.pending = TRUE, !.retryUsed = FALSE,
                                        !.pendSeg = s.client.nextSeg,
                                        !.nextSeg = s.client.nextSeg + 1,
                                        !.got = 0, !.lastGot = 0, !.ticks = 0],
                   !.timers.segment = TRUE],
         s.client.nextSeg)

\* The buffer level the client reckons with after frame f, in frames still to
\* be played.  Until playback begins, m_start_time is still 0.
PlayTimeLeft(p, f) ==
  LET position == f.seg * FramesPerSegment + f.fid + 1 IN
  IF p.state = "INITIAL_BUFFERING" THEN position - StartTime ELSE position - p.played

\* Fault: reckons with the buffer as it is, not with one more segment.
BufferDelayWithoutSegment(p, f) ==
  IF MaxBuffer = 0 THEN 0 ELSE PlayTimeLeft(p, f) - MaxBuffer

BufferDelay(p, f) ==
  IF MaxBuffer = 0 THEN 0 ELSE PlayTimeLeft(p, f) + FramesPerSegment - MaxBuffer

-----------------------------------------------------------------------------
(***************************************************************************)
(* A frame of the stream reaches the player and the client.                *)
(***************************************************************************)
\* Fault: resumes without cancelling the underrun tick.
ReceiveFrameTwoChains(p, f) ==
  [p EXCEPT !.buffer = Append(@, f),
            !.state  = IF @ = "PAUSED" THEN "PLAYING"
                       ELSE IF @ = "NOT_STARTED" THEN "INITIAL_BUFFERING" ELSE @,
            !.events = IF p.state \in {"PAUSED", "NOT_STARTED"} THEN @ + 1 ELSE @]

\* Cancel and Schedule leave one PlayFrame event.
ReceiveFrame(p, f) ==
  [p EXCEPT !.buffer = Append(@, f),
            !.state  = IF @ = "PAUSED" THEN "PLAYING"
                       ELSE IF @ = "NOT_STARTED" THEN "INITIAL_BUFFERING" ELSE @,
            !.events = IF p.state \in {"PAUSED", "NOT_STARTED"} THEN 1 ELSE @]

Freed(s) == [s EXCEPT !.client = [@ EXCEPT !.pending = FALSE, !.retryUsed = FALSE]]

\* The end of MessageReceived.  Whose segment the frame is does not matter.
LastFrameReceived(s, f) ==
  LET delay == BufferDelay(s.player, f)
      idle  == [Freed(s) EXCEPT !.timers.segment = FALSE]
  IN IF delay <= 0
     THEN RequestSegment(idle)
     ELSE {[idle EXCEPT !.timers.delayed =
              Append(@, [earliest |-> s.player.played + delay,
                         latest   |-> s.player.played + delay])]}

MessageReceived(s, f) ==
  LET heard == [s EXCEPT !.player = ReceiveFrame(@, f), !.client.got = @ + 1] IN
  IF heard.player.state # "DONE" /\ f.fid = LastFrame
  THEN LastFrameReceived(heard, f)
  ELSE {heard}

\* Fault: takes one frame more than there is space for.
BufferFullLate(p) == Len(p.buffer) > BufferSpace

BufferFull(p) == Len(p.buffer) >= BufferSpace

-----------------------------------------------------------------------------
(***************************************************************************)
(* HttpParser.                                                             *)
(***************************************************************************)
\* Headers that are not those of one frame have nonsensical fields.
HeadersValid(bytes) ==
  \A k \in 1 .. HeaderUnits : bytes[k] = [bytes[1] EXCEPT !.pos = k]

FrameOf(unit) == [seg |-> unit.seg, fid |-> unit.fid]

DropFirst(bytes, n) == SubSeq(bytes, n + 1, Len(bytes))

\* Fault: a frame that the full player refuses is dropped.
PushOneOrDrop(s) ==
  LET bytes == s.parser.bytes
      sized == [s EXCEPT !.parser.size = FrameUnits]
      rest  == [sized EXCEPT !.parser.bytes = DropFirst(@, FrameUnits)]
  IN
  IF Len(bytes) < HeaderUnits THEN {s}
  ELSE IF ~HeadersValid(bytes) THEN {[s EXCEPT !.parser = [bytes |-> <<>>, size |-> 0]]}
  ELSE IF Len(bytes) < FrameUnits THEN {sized}
  ELSE IF BufferFull(s.player) THEN {rest}
  ELSE MessageReceived(rest, FrameOf(bytes[1]))

\* One turn of the loop of TryToPushToPlayer; no change once it returns.
PushOne(s) ==
  LET bytes == s.parser.bytes
      sized == [s EXCEPT !.parser.size = FrameUnits]
      rest  == [sized EXCEPT !.parser.bytes = DropFirst(@, FrameUnits)]
  IN
  IF Len(bytes) < HeaderUnits THEN {s}
  ELSE IF ~HeadersValid(bytes) THEN {[s EXCEPT !.parser = [bytes |-> <<>>, size |-> 0]]}
  ELSE IF Len(bytes) < FrameUnits THEN {sized}
  ELSE IF BufferFull(s.player) THEN {sized}
  ELSE MessageReceived(rest, FrameOf(bytes[1]))

\* What is left after k turns; each takes a piece, or changes nothing any more.
TryToPushToPlayer(s) ==
  LET after[k \in Nat] ==
        IF k = 0 THEN {s} ELSE UNION {PushOne(t) : t \in after[k - 1]}
  IN after[Len(s.parser.bytes)]

\* The parser does not read the socket while it believes that it holds a
\* whole message.
HoldsMessage(p) == p.bytes # <<>> /\ Len(p.bytes) >= p.size

ReadSocket(s) ==
  UNION {IF HoldsMessage(t.parser) \/ t.net.rx = <<>> THEN {t}
         ELSE TryToPushToPlayer([t EXCEPT !.parser.bytes = @ \o t.net.rx, !.net.rx = <<>>]) :
           t \in TryToPushToPlayer(s)}

-----------------------------------------------------------------------------
(***************************************************************************)
(* Connection set-up and loss.                                             *)
(***************************************************************************)
\* StartApplication does nothing while there is a socket.
Started(s) ==
  IF s.client.sock # "none" THEN s
  ELSE [s EXCEPT !.client.sock = "connecting", !.timers.connect = TRUE, !.net = EmptyNet]

\* Fault: the request flag survives the connection.
DisconnectedPending(s) ==
  [s EXCEPT !.client = [@ EXCEPT !.sock = "none", !.connected = FALSE, !.retryUsed = FALSE],
            !.timers = [@ EXCEPT !.connect = FALSE, !.segment = FALSE],
            !.net    = EmptyNet]

Disconnected(s) ==
  [s EXCEPT !.client = [@ EXCEPT !.sock = "none", !.connected = FALSE,
                                 !.pending = FALSE, !.retryUsed = FALSE],
            !.timers = [@ EXCEPT !.connect = FALSE, !.segment = FALSE],
            !.net    = EmptyNet]

StartApplication ==
  /\ timers.start
  /\ Becomes({Started([Session EXCEPT !.timers.start = FALSE])})
  /\ UNCHANGED <<last, failures, setup>>

ConnectionSucceeded ==
  /\ client.sock = "connecting"
  /\ Becomes(RequestSegment([Session EXCEPT !.client.sock = "open",
                                            !.client.connected = TRUE,
                                            !.timers.connect = FALSE]))
  /\ UNCHANGED <<last, failures, setup>>

Lost == failures < setup.maxFailures /\ failures' = failures + 1

\* ConnectionFailed and ConnectionErrorClosed have the same body.
ConnectionErrorClosed ==
  /\ Lost
  /\ client.sock \in {"connecting", "open", "closing"}
  /\ Becomes({Started(Disconnected(Session))})
  /\ UNCHANGED <<last, setup>>

ConnectWatchdog ==
  /\ Lost
  /\ timers.connect
  /\ Becomes({[Disconnected(Session) EXCEPT !.timers.start = TRUE]})
  /\ UNCHANGED <<last, setup>>

\* At a moment without a socket the stop is lost: the client goes on as if it
\* had no stop time.
StopApplication ==
  /\ setup.mayStop
  /\ client.sock \in {"connecting", "open"} /\ player.state # "DONE"
  /\ Becomes({[Session EXCEPT !.client.sock = "closing", !.client.connected = FALSE,
                              !.player.state = "DONE",
                              !.timers.connect = FALSE, !.timers.segment = FALSE]})
  /\ UNCHANGED <<last, failures, setup>>

-----------------------------------------------------------------------------
(***************************************************************************)
(* The segment watchdog and the other ways to a request.                   *)
(***************************************************************************)
Progressing(c) == c.got > c.lastGot

MayExpire == Timely => Progressing(client) \/ Quiet

\* Nothing has arrived, and the one retry has not been used.
RetryDue(c) == c.got = 0 /\ ~c.retryUsed

Ticked(s) ==
  [s EXCEPT !.client.lastGot = s.client.got,
            !.client.ticks   = IF Progressing(s.client) THEN 0 ELSE @ + 1]

SegmentRequestWatchdog ==
  /\ timers.segment /\ MayExpire
  /\ Becomes(IF ~client.connected \/ ~client.pending
             THEN {[Session EXCEPT !.timers.segment = FALSE]}
             ELSE IF Progressing(client) THEN {Ticked(Session)}
             ELSE IF RetryDue(client)
             THEN SendSegmentRequest([Ticked(Session) EXCEPT !.client.retryUsed = TRUE],
                                     client.pendSeg)
             ELSE IF Ticked(Session).client.ticks < StuckLimit THEN {Ticked(Session)}
             ELSE {[Ticked(Session) EXCEPT !.client.pending = FALSE,
                                           !.timers.segment = FALSE]})
  /\ UNCHANGED <<last, failures, setup>>

\* Time goes on while the player is paused, for how long is open: what was to
\* wait for more frames may run from now on.
Overtaken(delayed, played) ==
  [k \in DOMAIN delayed |-> [delayed[k] EXCEPT !.earliest = played]]

\* A request that waited for the buffer to drain: a frame time per frame
\* played, less any pause; once playback has ended, at any time.
DelayedRequest ==
  /\ \E k \in DOMAIN timers.delayed :
       /\ timers.delayed[k].earliest <= player.played \/ player.state = "DONE"
       /\ Becomes(RequestSegment([Session EXCEPT !.timers.delayed = RemoveAt(@, k)]))
  /\ UNCHANGED <<last, failures, setup>>

UnderrunRequest ==
  /\ timers.underrun
  /\ Becomes(RequestSegment([Session EXCEPT !.timers.underrun = FALSE]))
  /\ UNCHANGED <<last, failures, setup>>

-----------------------------------------------------------------------------
(***************************************************************************)
(* Reading and playing.                                                    *)
(***************************************************************************)
CheckBuffer ==
  /\ timers.check
  /\ LET checked == [Session EXCEPT !.timers.check = FALSE] IN
     Becomes(IF client.sock = "none" THEN {checked} ELSE ReadSocket(checked))
  /\ UNCHANGED <<last, failures, setup>>

\* The next k pieces arrive in order.  The first TCP segment after an idle time
\* is longer than the headers; later ones may end anywhere.
HandleRead ==
  /\ client.sock \in {"open", "closing"}
  /\ \E k \in 1 .. Len(net.wire) :
       /\ Len(net.rx) + k <= RcvBuf
       /\ net.begun \/ k >= HeaderUnits \/ k = Len(net.wire)
       /\ Becomes(ReadSocket(
            [Session EXCEPT !.net.begun = TRUE,
                            !.net.rx = @ \o SubSeq(net.wire, 1, k),
                            !.net.wire = DropFirst(@, k)]))
  /\ UNCHANGED <<last, failures, setup>>

\* Everything scheduled for this instant, or for an earlier one, has run.
PlayFrameDue ==
  /\ player.events > 0
  /\ ~timers.underrun /\ ~timers.check
  /\ player.state # "PAUSED" =>
       \A k \in DOMAIN timers.delayed : timers.delayed[k].latest > player.played

\* Fault: no look at the socket after a frame has left the buffer.
PlayFrameWithoutCheck ==
  /\ PlayFrameDue
  /\ IF player.state = "DONE"
     THEN player' = [player EXCEPT !.events = @ - 1] /\ UNCHANGED <<timers, last>>
     ELSE IF player.buffer = <<>>
     THEN /\ player' = [player EXCEPT !.state = "PAUSED"]
          /\ timers' = [timers EXCEPT !.underrun = ~client.pending,
                                      !.delayed  = Overtaken(@, player.played)]
          /\ UNCHANGED last
     ELSE /\ player' = [player EXCEPT !.state = "PLAYING", !.buffer = Tail(@),
                                      !.played = @ + 1]
          /\ last' = Head(player.buffer)
          /\ UNCHANGED timers
  /\ UNCHANGED <<client, parser, net, failures, setup>>

PlayFrame ==
  /\ PlayFrameDue
  /\ IF player.state = "DONE"
     THEN player' = [player EXCEPT !.events = @ - 1] /\ UNCHANGED <<timers, last>>
     ELSE IF player.buffer = <<>>
     THEN /\ player' = [player EXCEPT !.state = "PAUSED"]
          /\ timers' = [timers EXCEPT !.underrun = ~client.pending,
                                      !.delayed  = Overtaken(@, player.played)]
          /\ UNCHANGED last
     ELSE /\ player' = [player EXCEPT !.state = "PLAYING", !.buffer = Tail(@),
                                      !.played = @ + 1]
          /\ last' = Head(player.buffer)
          /\ timers' = [timers EXCEPT !.check = TRUE]
  /\ UNCHANGED <<client, parser, net, failures, setup>>

-----------------------------------------------------------------------------
(***************************************************************************)
(* DashServer, for the connection of m_socket.                             *)
(***************************************************************************)
SegmentUnits(seg) ==
  [k \in 1 .. FramesPerSegment * FrameUnits |->
     [seg |-> seg, fid |-> (k - 1) \div FrameUnits, pos |-> 1 + ((k - 1) % FrameUnits)]]

TxAvailable(n) == SendWindow - Len(n.wire)

\* DataSend sends what the send buffer takes, cutting the last frame if need
\* be, and leaves the rest to the callback of the socket.
Flushed(n) ==
  LET k == IF Len(n.queue) <= TxAvailable(n) THEN Len(n.queue) ELSE TxAvailable(n) IN
  [n EXCEPT !.wire = @ \o SubSeq(n.queue, 1, k), !.queue = DropFirst(@, k),
            !.begun = @ /\ n.wire # <<>>]

ServerHandleRead ==
  /\ net.up # <<>>
  /\ net' = Flushed([net EXCEPT !.up = Tail(@), !.queue = @ \o SegmentUnits(Head(net.up))])
  /\ UNCHANGED <<client, timers, player, parser, last, failures, setup>>

DataSend ==
  /\ net.queue # <<>> /\ TxAvailable(net) > 0
  /\ net' = Flushed(net)
  /\ UNCHANGED <<client, timers, player, parser, last, failures, setup>>

-----------------------------------------------------------------------------
Events ==
  \/ StartApplication
  \/ ConnectionSucceeded
  \/ SegmentRequestWatchdog
  \/ DelayedRequest
  \/ UnderrunRequest
  \/ CheckBuffer
  \/ HandleRead
  \/ PlayFrame
  \/ ServerHandleRead
  \/ DataSend

Disturbances == ConnectionErrorClosed \/ ConnectWatchdog \/ StopApplication

Next == Events \/ Disturbances

Spec == Init /\ [][Next]_vars

\* Scheduled events run, an open connection delivers, and a connection that
\* is being set up is set up unless it fails.
FairSpec ==
  /\ Spec
  /\ WF_vars(StartApplication)
  /\ WF_vars(ConnectionSucceeded)
  /\ WF_vars(SegmentRequestWatchdog)
  /\ WF_vars(DelayedRequest)
  /\ WF_vars(UnderrunRequest)
  /\ WF_vars(CheckBuffer)
  /\ WF_vars(HandleRead)
  /\ WF_vars(PlayFrame)
  /\ WF_vars(ServerHandleRead)
  /\ WF_vars(DataSend)

-----------------------------------------------------------------------------
(***************************************************************************)
(* Properties.                                                             *)
(***************************************************************************)
\* Every variable keeps its shape; the player holds no more than BufferSpace
\* and TCP no more than its two buffers.
TypeOK ==
  /\ client \in [sock : {"none", "connecting", "open", "closing"}, connected : BOOLEAN,
                  pending : BOOLEAN, retryUsed : BOOLEAN, nextSeg : 0 .. MaxSegments,
                  pendSeg : Segments, got : Nat, lastGot : Nat, ticks : 0 .. StuckLimit]
  /\ \A t \in {"start", "connect", "segment", "underrun", "check"} : timers[t] \in BOOLEAN
  /\ timers.delayed \in Seq([earliest : Nat, latest : Nat])
  /\ player.state \in {"NOT_STARTED", "INITIAL_BUFFERING", "PLAYING", "PAUSED", "DONE"}
  /\ player.buffer \in Seq(Frames) /\ Len(player.buffer) <= BufferSpace
  /\ player.played \in Nat /\ player.events \in Nat
  /\ parser.bytes \in Seq(Units) /\ parser.size \in {0, FrameUnits}
  /\ net.up \in Seq(Segments)
  /\ {net.queue, net.wire, net.rx} \subseteq Seq(Units)
  /\ Len(net.wire) <= SendWindow /\ Len(net.rx) <= RcvBuf
  /\ last.seg \in Segments /\ last.fid \in -1 .. LastFrame
  /\ failures \in 0 .. setup.maxFailures
  /\ setup \in Setups

\* A request that is pending always has an armed watchdog on a connection
\* that is up, through retries, late duplicates, lost connections and
\* reconnects: the flag cannot stay set for ever.
PendingGuarded ==
  client.pending /\ player.state # "DONE" => client.connected /\ timers.segment

\* There is one chain of PlayFrame events once playback has begun, however
\* often it stalls and resumes (comment in ReceiveFrame).
SinglePlayChain ==
  /\ player.events <= 1
  /\ player.state \in {"INITIAL_BUFFERING", "PLAYING", "PAUSED"} => player.events = 1

\* On one connection the stream is played whole and in order: frame by frame,
\* segment by segment, whatever the buffer refuses and the parser has to keep.
\* A segment may come twice, never an earlier one.
WholeSegments ==
  [][ \/ setup.maxFailures > 0
      \/ last'.seg = last.seg /\ last'.fid = last.fid + 1
      \/ last.fid = LastFrame /\ last'.fid = 0 /\ last'.seg >= last.seg
    ]_last

\* One connection that takes every request, no watchdog that fires early, and a
\* cap that a segment fits under.
Undisturbed ==
  /\ Timely /\ ~setup.sendMayFail /\ setup.maxFailures = 0
  /\ MaxBuffer >= FramesPerSegment

\* What the "hard" cap MaxBufferS gives in an undisturbed session: it is exceeded by
\* no more than m_start_time, which the level reckoned before playback begins
\* lacks.  A reconnect requests past the cap, and so does what was put off for a
\* segment that never came.
CapOverrunBounded == Undisturbed => Len(player.buffer) <= MaxBuffer + StartTime

\* Until the client is stopped, everything sent is read and played, again and
\* again, through lost connections, retries and stalls; also after the parser
\* has dropped what it could not parse, as long as every read brings whole
\* headers (HeaderUnits = 1).
Recovers == []<>((Quiet /\ player.buffer = <<>>) \/ player.state = "DONE")

\* A parser that has dropped what it holds resynchronises (comment in
\* TryToPushToPlayer): unless nothing more comes, it finds the headers of a
\* frame again, wherever the reads cut the stream.
Resynchronises == parser.size = 0 ~> parser.size # 0 \/ Quiet \/ player.state = "DONE"
==============================================================================
