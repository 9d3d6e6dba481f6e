----------------------------- MODULE QuicStream -----------------------------
(***************************************************************************)
(* One QUIC stream over one path: the sender's scheduler queue and list of *)
(* sent packets, pacing, loss detection and its alarm, the wire, and the   *)
(* receiver's acknowledgments and reassembly (src/src/quic/model), for the *)
(* QUIC congestion controllers with a paced rate.                          *)
(*                                                                         *)
(* A byte is its offset.  A frame carries the bytes from..to-1 and takes   *)
(* one unit more, for its subheader.  Packets may be lost and overtake     *)
(* each other, in both directions.  The handshake and closing, stream 0,   *)
(* control frames and credit updates are left out; a socket buffer of the  *)
(* receiving application that refuses data is, too.                        *)
(*                                                                         *)
(* Operators whose comment begins with "Fault:" are single mistakes in the *)
(* definition that follows; no specification uses them.                    *)
(***************************************************************************)
EXTENDS Integers, Sequences, FiniteSets, FiniteSetsExt

CONSTANTS
  Total,                \* bytes the application may write
  WriteSizes,           \* bytes of one frame the stream passes to the socket
  SegSize,              \* MaxPacketSize
  Windows,              \* congestion windows; the smallest is kMinimumWindow
  MaxData,              \* credit of the connection
  ReorderingThreshold,  \* kReorderingThreshold
  MaxTLPs,              \* kMaxTLPs
  MaxTrackedGaps,       \* gaps an ACK frame reports
  RxMax,                \* room of the stream's receive buffer
  MaxTroubles,          \* packets lost, alarms that expire while packets are
                        \* under way or with nothing in flight and nothing queued
  MaxPackets            \* packet numbers of the sender

MinWindow == 2 * SegSize

ASSUME QuicStreamAssumption ==
  /\ Total \in Nat /\ SegSize \in Nat \ {0, 1} /\ MaxData \in Nat
  /\ WriteSizes \subseteq 1 .. (SegSize - 1)
  /\ Windows \subseteq Nat /\ MinWindow \in Windows /\ \A w \in Windows : w >= MinWindow
  /\ MaxData >= SegSize
  /\ ReorderingThreshold \in Nat \ {0} /\ MaxTLPs \in Nat
  /\ MaxTrackedGaps \in Nat \ {0}
  /\ RxMax \in Nat /\ MaxTroubles \in Nat /\ MaxPackets \in Nat

VARIABLES
  written,  \* bytes the sending application has written
  tx,       \* the sending socket
  wire,     \* packets under way to the receiver
  rx,       \* the receiving socket and stream
  app,      \* bytes handed to the receiving application, in order
  acks,     \* ACK frames under way to the sender
  troubles, \* losses, early and idle alarms so far
  history   \* cut: an ACK left gaps out; dropped: bytes the receiver threw away

vars == <<written, tx, wire, rx, app, acks, troubles, history>>

\* The pipe this is meant to be.
Stream == INSTANCE ByteStream

------------------------------------------------------------------------------
(* Frames.                                                                 *)

Bytes(f) == f.from .. (f.to - 1)
BytesOf(F) == UNION {Bytes(f) : f \in F}

\* The size of frames that do not overlap, with a subheader for each.
Size(F) == Cardinality(BytesOf(F)) + Cardinality(F)

\* The order of the scheduler's priority queue.
Before(f, g) ==
  \/ f.retx /\ ~g.retx
  \/ f.retx = g.retx /\ f.from < g.from

First(F) == CHOOSE f \in F : \A g \in F : ~Before(g, f)

\* The frames that are taken whole into a packet of n units: the scheduler
\* takes them in order while they fit.
Whole(F, n) == {f \in F : Size({g \in F : ~Before(f, g)}) <= n}

\* Fault: what a packet has no room for is dropped.
NewSegmentDropsTail(F, n) ==
  LET whole == Whole(F, n)
      rest  == F \ whole
      next  == First(rest)
      room  == n - Size(whole) - 1
  IN IF rest = {} \/ room \notin 1 .. (next.to - next.from - 1)
     THEN [frames |-> whole, rest |-> rest]
     ELSE [frames |-> whole \union {[next EXCEPT !.to = next.from + room]},
           rest   |-> rest \ {next}]

\* GetNewSegment: the whole frames, then as much of the next as there is room
\* for; its tail goes back to the queue with its priority.
NewSegment(F, n) ==
  LET whole == Whole(F, n)
      rest  == F \ whole
      next  == First(rest)
      room  == n - Size(whole) - 1
  IN IF rest = {} \/ room \notin 1 .. (next.to - next.from - 1)
     THEN [frames |-> whole, rest |-> rest]
     ELSE [frames |-> whole \union {[next EXCEPT !.to = next.from + room]},
           rest   |-> (rest \ {next}) \union {[next EXCEPT !.from = next.from + room]}]

------------------------------------------------------------------------------
(* The sending socket: each operation on its state s gives the states it   *)
(* may leave it in.                                                        *)
(*   queue   frames the scheduler holds       list    packets sent, neither *)
(*   next    last packet number used                  acknowledged nor lost *)
(*   high    last one of SendDataPacket       cwnd    congestion window     *)
(*   tlp, rto  alarms since the last progress epoch   high when they began  *)
(*   stuck, lastBiF  the count of alarms without progress                  *)
(*   pacing, armed   the timers               out     packets this step     *)
(*                                                    puts on the wire      *)

InFlight(s) == Size(UNION {p.frames : p \in s.list})

Positive(n) == IF n > 0 THEN n ELSE 0

\* Fault: the credit does not count what is under way.
WholeCredit(s) == MaxData

ConnectionWindow(s) == Positive(MaxData - InFlight(s))

AvailableWindow(s) == Positive(Min({MaxData, s.cwnd}) - InFlight(s))

Numbered(s) == [s EXCEPT !.next = @ + 1]

\* A packet of n units with number s.next, which restarts the pacing timer.
\* With nothing to take it carries an ACK frame only: it is not kept, and
\* does not arm the alarm.
SendDataPacket(s, n) ==
  {[s EXCEPT !.queue = segment.rest,
             !.list = IF segment.frames = {} THEN @
                      ELSE @ \union {[pn |-> s.next, frames |-> segment.frames]},
             !.out = @ \union {[pn |-> s.next, frames |-> segment.frames]},
             !.high = s.next,
             !.pacing = TRUE,
             !.armed = @ \/ segment.frames # {}] : segment \in {NewSegment(s.queue, n)}}

\* The pacing timer lets one packet through; a window of less than a packet
\* waits while there is more to send than it takes.
SendPendingData(s) ==
  LET available == AvailableWindow(s)
  IN IF \/ s.queue = {} \/ s.pacing \/ available = 0
        \/ available < SegSize /\ available < Size(s.queue)
     THEN {s}
     ELSE SendDataPacket(Numbered(s), Min({available, SegSize}))

\* Fault: what was lost stays with the packets sent.
RequeueKeeps(s, lost) ==
  [s EXCEPT !.queue = @ \union {[f EXCEPT !.retx = TRUE] : f \in UNION {p.frames : p \in lost}}]

\* Retransmission: the frames of the lost packets, each on its own, go back to
\* the queue, before all that was never sent.
Requeue(s, lost) ==
  [s EXCEPT !.list = @ \ lost,
            !.queue = @ \union {[f EXCEPT !.retx = TRUE] : f \in UNION {p.frames : p \in lost}}]

\* The rest of DoRetransmit after a first packet of sent units: a second
\* packet, if anything is left.  The number taken for a next one stays unused.
SecondPacket(s, sent, total) ==
  IF sent = 0 THEN {s}
  ELSE IF sent >= total THEN {Numbered(s)}
  ELSE {IF InFlight(t) = InFlight(s) THEN t ELSE Numbered(t) :
          t \in SendDataPacket(Numbered(s), Min({total - sent, SegSize}))}

\* At most two packets at once, whatever the window.
DoRetransmit(s, lost) ==
  LET total == Size(UNION {p.frames : p \in lost})
  IN UNION {IF total = 0 THEN {start}
            ELSE UNION {SecondPacket(t, InFlight(t) - InFlight(start), total) :
                          t \in SendDataPacket(start, Min({total, SegSize}))} :
              start \in {Requeue(Numbered(s), lost)}}

\* MarkAllOutstandingAsLost and Retransmission.
Flush(s) ==
  IF s.list = {} THEN s ELSE Requeue(Numbered(s), s.list)

Oldest(s) == {p \in s.list : \A q \in s.list : p.pn <= q.pn}

\* A probe of an alarm: new data, at once; with no window, what is oldest.
Probe(s, window) ==
  IF window = 0 /\ InFlight(s) > 0
  THEN DoRetransmit([s EXCEPT !.pacing = FALSE], Oldest(s))
  ELSE SendDataPacket(Numbered([s EXCEPT !.pacing = FALSE]), Min({window, SegSize}))

TailLossProbe(s) ==
  {[t EXCEPT !.tlp = @ + 1] : t \in Probe(s, ConnectionWindow(s))}

\* Two probes; the second timeout in a row declares everything lost.
RetransmissionTimeout(s) ==
  LET probed == UNION {Probe(t, AvailableWindow(t)) : t \in Probe(s, AvailableWindow(s))}
      counted == {[t EXCEPT !.rto = @ + 1] : t \in probed}
  IN IF s.rto = 0
     THEN counted
     ELSE UNION {SendPendingData(Flush([t EXCEPT !.cwnd = MinWindow])) : t \in counted}

\* The third alarm in a row that finds the window taken up by no fewer units
\* declares everything lost, too.
Unstick(s) ==
  LET pinned == InFlight(s) > 0 /\ AvailableWindow(s) < SegSize
      count  == IF pinned /\ InFlight(s) >= s.lastBiF THEN s.stuck + 1 ELSE 0
  IN IF count < 3
     THEN {[s EXCEPT !.stuck = count, !.lastBiF = InFlight(s)]}
     ELSE SendPendingData(Flush([s EXCEPT !.cwnd = MinWindow, !.stuck = 0, !.lastBiF = 0]))

\* Fault: no alarm after a probe that carries nothing.
AlarmNotKept(s) ==
  LET begun == [s EXCEPT !.armed = FALSE,
                         !.epoch = IF s.tlp = 0 /\ s.rto = 0 THEN s.high ELSE @]
      tried == IF s.tlp < MaxTLPs THEN TailLossProbe(begun) ELSE RetransmissionTimeout(begun)
  IN UNION {Unstick(t) : t \in tried}

\* The alarm: a probe, a timeout after MaxTLPs of them, and the alarm again
\* while anything is in flight.
ReTxTimeout(s) ==
  LET begun == [s EXCEPT !.armed = FALSE,
                         !.epoch = IF s.tlp = 0 /\ s.rto = 0 THEN s.high ELSE @]
      tried == IF s.tlp < MaxTLPs THEN TailLossProbe(begun) ELSE RetransmissionTimeout(begun)
  IN {[t EXCEPT !.armed = @ \/ InFlight(t) > 0] : t \in UNION {Unstick(t) : t \in tried}}

\* What an ACK frame covers, and what it shows to be lost: by the distance
\* from the largest if that one is just acknowledged, and everything once it
\* is beyond a timeout's epoch.
Sacked(s, ack) == {p \in s.list : p.pn <= ack.largest /\ p.pn \notin ack.missing}

Lost(s, ack) ==
  {p \in s.list \ Sacked(s, ack) :
     \/ s.rto > 0 /\ s.epoch < ack.largest
     \/ /\ \E q \in s.list : q.pn = ack.largest
        /\ ack.largest - p.pn >= ReorderingThreshold}

\* What was sent since the alarms began is acknowledged.
Resumed(s, ack) == \E p \in Sacked(s, ack) : p.pn > s.epoch

\* The window grows with what is acknowledged, and shrinks with a loss and
\* when an acknowledgment confirms a timeout.
WindowsAfter(s, ack) ==
  {w \in Windows :
     /\ w > s.cwnd => Sacked(s, ack) # {}
     /\ w < s.cwnd => \/ Lost(s, ack) # {}
                      \/ s.rto > 0 /\ Resumed(s, ack)}

\* Losses are repaired with the count of probes as it is then, pending data
\* sent with the new window.
OnReceivedAckFrame(s, ack) ==
  LET probed   == Sacked(s, ack) # {} /\ s.epoch < ack.largest
      cleaned  == [s EXCEPT !.list = @ \ Sacked(s, ack), !.tlp = IF probed THEN 0 ELSE @]
      repaired == IF Lost(s, ack) = {} THEN {cleaned} ELSE DoRetransmit(cleaned, Lost(s, ack))
      counted  == UNION {{[t EXCEPT !.cwnd = w, !.rto = IF Resumed(s, ack) THEN 0 ELSE @] :
                            w \in WindowsAfter(s, ack)} : t \in repaired}
  IN {[t EXCEPT !.armed = TRUE] : t \in UNION {SendPendingData(t) : t \in counted}}

------------------------------------------------------------------------------
(* The system.                                                             *)

Init ==
  /\ written = 0
  /\ \E w \in Windows :
       tx = [queue |-> {}, list |-> {}, next |-> 0, high |-> 0, cwnd |-> w,
             tlp |-> 0, rto |-> 0, epoch |-> 0, stuck |-> 0, lastBiF |-> 0,
             pacing |-> FALSE, armed |-> FALSE, out |-> {}]
  /\ wire = {}
  /\ rx = [got |-> {0}, due |-> FALSE, inbox |-> {}, recvSize |-> 0, held |-> {},
           open |-> TRUE]
  /\ app = <<>>
  /\ acks = {}
  /\ troubles = 0
  /\ history = [cut |-> FALSE, dropped |-> {}]

\* The sender is in one of the states S; what it sent is on the wire.
Becomes(S) ==
  \E s \in S : /\ tx' = [s EXCEPT !.out = {}]
               /\ wire' = wire \union s.out

\* The stream passes a frame to the socket.
AppendingTx ==
  \E size \in WriteSizes :
    /\ written + size <= Total
    /\ written' = written + size
    /\ LET frame == [from |-> written, to |-> written + size, retx |-> FALSE]
       IN Becomes(SendPendingData([tx EXCEPT !.queue = @ \union {frame}]))
    /\ UNCHANGED <<rx, app, acks, troubles, history>>

NotifyPacingPerformed ==
  /\ UNCHANGED <<written, rx, app, acks, troubles, history>>
  /\ tx.pacing
  /\ Becomes(SendPendingData([tx EXCEPT !.pacing = FALSE]))

\* Nothing the sender could still hear of is under way, and the pacing timer,
\* which is the shorter one, has expired.
Silent == wire = {} /\ acks = {} /\ ~rx.due /\ ~tx.pacing

Idle == tx.queue = {} /\ tx.list = {}

Trouble ==
  /\ troubles < MaxTroubles
  /\ troubles' = troubles + 1

\* The alarm comes when all is silent, or too early.
Alarm ==
  /\ UNCHANGED <<written, rx, app, acks, history>>
  /\ tx.armed
  /\ IF Silent /\ ~Idle THEN UNCHANGED troubles ELSE Trouble
  /\ Becomes(ReTxTimeout(tx))

ReceiveAck(ack) ==
  /\ UNCHANGED <<written, rx, app, troubles, history>>
  /\ acks' = acks \ {ack}
  /\ Becomes(OnReceivedAckFrame(tx, ack))

\* ReceivedData: the packet's frames are handled one by one before anything
\* else happens at the receiver.
Arrive(packet) ==
  /\ UNCHANGED <<written, tx, app, acks, troubles, history>>
  /\ rx.open /\ rx.inbox = {}
  /\ wire' = wire \ {packet}
  /\ rx' = [rx EXCEPT !.got = @ \union {packet.pn}, !.due = TRUE, !.inbox = packet.frames]

\* Fault: what was received before is not connected.
ChainIgnored(held, from) == from

\* The end of the bytes held without a gap from from.
ChainEnd(held, from) ==
  Min({to \in from .. (from + Cardinality(held)) : to \notin held})

\* Fault: the part delivered before is not trimmed.
RecvUntrimmed(frame) ==
  LET end == ChainEnd(rx.held, frame.to)
  IN /\ frame.from <= rx.recvSize
     /\ frame.from = rx.recvSize \/ frame.to > rx.recvSize
     /\ app' = app \o Stream!Run(frame.from, frame.to) \o Stream!Run(frame.to, end)
     /\ rx' = [rx EXCEPT !.inbox = @ \ {frame},
                         !.recvSize = end,
                         !.held = IF end > frame.to THEN {b \in @ : b >= end} ELSE @]
     /\ UNCHANGED history

\* A frame that starts at or reaches beyond the read offset is delivered,
\* without what was delivered before and with all that it connects to.  Bytes
\* held below the new offset go only if some were taken out.
RecvInOrder(frame) ==
  LET end == ChainEnd(rx.held, frame.to)
  IN /\ frame.from <= rx.recvSize
     /\ frame.from = rx.recvSize \/ frame.to > rx.recvSize
     /\ app' = app \o Stream!Run(rx.recvSize, frame.to) \o Stream!Run(frame.to, end)
     /\ rx' = [rx EXCEPT !.inbox = @ \ {frame},
                         !.recvSize = end,
                         !.held = IF end > frame.to THEN {b \in @ : b >= end} ELSE @]
     /\ UNCHANGED history

\* Fault: the room of the buffer is not looked at.
RecvUnbounded(frame) ==
  /\ \/ frame.from > rx.recvSize
     \/ frame.from < rx.recvSize /\ frame.to <= rx.recvSize
  /\ rx' = [rx EXCEPT !.inbox = @ \ {frame},
                      !.held = @ \union {b \in Bytes(frame) : b >= rx.recvSize}]
  /\ UNCHANGED <<app, history>>

\* Of the bytes not yet held, the runs that fit from the first on are kept.
\* A frame of which nothing is kept, and too large for the room left, aborts
\* the connection.
RecvBuffered(frame) ==
  LET free == {b \in Bytes(frame) : b >= rx.recvSize /\ b \notin rx.held}
      room == RxMax - Cardinality(rx.held)
      upTo(c) == {b \in free : b < c}
      ends == {c \in frame.from .. frame.to : c \in free => c - 1 \notin free}
      kept == upTo(Max({c \in ends \union {frame.from} : Cardinality(upTo(c)) <= room}))
  IN /\ \/ frame.from > rx.recvSize
        \/ frame.from < rx.recvSize /\ frame.to <= rx.recvSize
     /\ rx' = [rx EXCEPT !.inbox = @ \ {frame},
                         !.held = @ \union kept,
                         !.open = kept # {} \/ frame.to - frame.from <= room]
     /\ history' = [history EXCEPT !.dropped = @ \union (free \ kept)]
     /\ UNCHANGED app

Recv ==
  /\ UNCHANGED <<written, tx, wire, acks, troubles>>
  /\ rx.inbox # {}
  /\ LET frame == First(rx.inbox) IN RecvInOrder(frame) \/ RecvBuffered(frame)

\* An ACK frame tells the largest number received and the gaps below it, up to
\* MaxTrackedGaps of them: whatever is below the last one told counts as
\* received.
Missing(got) == (Min(got) .. Max(got)) \ got

Told(got) ==
  {m \in Missing(got) :
     Cardinality({t \in Missing(got) : t >= m /\ t + 1 \in got}) <= MaxTrackedGaps}

SendAck ==
  /\ UNCHANGED <<written, tx, wire, app, troubles>>
  /\ rx.due /\ rx.inbox = {}
  /\ acks' = acks \union {[largest |-> Max(rx.got), missing |-> Told(rx.got)]}
  /\ rx' = [rx EXCEPT !.due = FALSE]
  /\ history' = [history EXCEPT !.cut = @ \/ Told(rx.got) # Missing(rx.got)]

\* The network loses a packet.
Lose ==
  /\ Trouble
  /\ \/ \E packet \in wire : wire' = wire \ {packet} /\ UNCHANGED acks
     \/ \E ack \in acks : acks' = acks \ {ack} /\ UNCHANGED wire
  /\ UNCHANGED <<written, tx, rx, app, history>>

\* The receiver has not aborted, and packet numbers are left.
Running == rx.open /\ tx.next < MaxPackets

\* What the simulator executes when its time comes.
Event ==
  \/ NotifyPacingPerformed
  \/ Silent /\ Alarm
  \/ \E ack \in acks : ReceiveAck(ack)
  \/ \E packet \in wire : Arrive(packet)
  \/ Recv
  \/ SendAck

Next ==
  /\ Running
  /\ \/ Event
     \/ ~Silent /\ Alarm
     \/ AppendingTx
     \/ Lose

Spec == Init /\ [][Next]_vars

\* As long as an event is scheduled, one is executed; the application need not
\* write, and packets need not be lost.
FairSpec == Spec /\ WF_vars(Running /\ Event)

------------------------------------------------------------------------------
(* Properties.                                                             *)

Frames == [from : 0 .. Total, to : 0 .. Total, retx : BOOLEAN]
Packets == [pn : Nat, frames : SUBSET Frames]

\* The types; every frame carries something, and a byte that is held or was
\* handed over was written.
TypeOK ==
  /\ written \in 0 .. Total
  /\ tx.queue \subseteq Frames /\ tx.list \subseteq Packets /\ wire \subseteq Packets
  /\ tx.cwnd \in Windows /\ tx.tlp \in 0 .. MaxTLPs /\ tx.stuck \in 0 .. 2
  /\ rx.got \subseteq 0 .. tx.next /\ rx.inbox \subseteq Frames
  /\ rx.held \subseteq 0 .. (written - 1) /\ Cardinality(rx.held) <= RxMax
  /\ acks \subseteq [largest : Nat, missing : SUBSET Nat]

Queued == BytesOf(tx.queue)
Outstanding == BytesOf(UNION {p.frames : p \in tx.list})
Arrived == 0 .. (rx.recvSize - 1) \union rx.held \union BytesOf(rx.inbox)

\* Every byte written is with the sender, to be sent or sent again, or with
\* the receiver, or the receiver is known to have thrown it away; unless an
\* ACK frame left gaps out, which acknowledges what never came.
NothingForgotten ==
  ~history.cut =>
    0 .. (written - 1) \subseteq Queued \union Outstanding \union Arrived \union history.dropped

\* The sender holds no byte twice, however often frames were split, merged and
\* put back.
SingleCopy ==
  LET held == tx.queue \union UNION {p.frames : p \in tx.list}
  IN /\ \A f, g \in held : f # g => Bytes(f) \intersect Bytes(g) = {}
     /\ \A p, q \in tx.list : p # q => p.frames \intersect q.frames = {}
     /\ \A p \in tx.list : p.frames \intersect tx.queue = {}

\* A sender with anything to send or to hear of has a timer running.
NeverStalled == tx.queue # {} \/ tx.list # {} => tx.armed \/ tx.pacing

\* The sender never has more under way than the credit it was given, though
\* retransmissions and probes do not ask for the window.
WithinCredit == InFlight(tx) <= MaxData

\* What the application is handed is the stream, in order and without
\* repetition.
InOrder == Stream!Spec

\* What an ACK frame leaves out has been retransmitted: no packet that is
\* missing, and that the frame does not tell to be, is still with the sender.
\* (OnSendingAckFrame says so where it limits the gaps.)
OlderRetransmitted ==
  [][SendAck => \A p \in tx.list : p.pn \in Missing(rx.got) => p.pn \in Told(rx.got)]_vars

\* In the end everything written has been handed over, unless the receiver
\* threw something away or an ACK frame left gaps out.
Delivers ==
  <>[](\/ Len(app) = written
       \/ history.cut \/ history.dropped # {} \/ ~Running)
==============================================================================
