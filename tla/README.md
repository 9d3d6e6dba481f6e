# Verification of IAB attachment and handover, the DASH session, QUIC streams and the Python tools

The repository is a fork of ns-3 for "adaptive video streaming over a
satellite-backhauled 5G IAB network".  Most of it is upstream ns-3; what is its
own is the attachment of IAB nodes and UEs through other IAB nodes, the handover
of an IAB node from one satellite donor to the next with the migration of
everything behind that node, the DASH applications that stream over it, a QUIC
and multipath QUIC transport, mmWave IAB devices and their schedulers, traffic
generators, and scripts.

This directory holds TLA+ modules for the first three, for a stream of the QUIC
transport and for the two multi-threaded Python programs of the tree, the test runner and the visualizer;
the TLC runs that check them; and proofs of their main safety properties.  Paths
below are relative to the repository.

## 1. Inventory

### 1.1 Attachment of IAB nodes and UEs (modelled)

| part | state | operations |
|---|---|---|
| RRC of the parent's cell, `src/lte/model/lte-enb-rrc.cc` | `UeManager` per RNTI: state, `m_drbMap`, reconfiguration that waits | connection request, setup and reconfiguration completed, bearer setup |
| RRC and NAS of the device, `lte-ue-rrc.cc`, `epc-ue-nas.cc` | NAS state, bearers, packets kept while the NAS is off | connection setup, reconfiguration, send |
| IAB node, `epc-iab-application.cc` | `m_imsiRntiMap`, `m_rntiLocalImsiMap`, `m_imsiIabMap`, `m_imsiLocalRbidMap`, `m_teidRbidMap`, `m_rntiImsiChildrenMap`, `m_remoteImsiRequestMap` | announce a device, relay a request up and an answer down |
| donor, `epc-enb-application.cc` | the same maps | the same, with S1-AP to the MME instead of a backhaul |
| MME and SGW | cell of each IMSI, tunnel of each UE | find the wired donor, create the session, answer |

A device's request climbs hop by hop, each hop noting the bearer it came from;
the MME answers the wired donor at the root; the answer descends along the same
bearers and leaves a TEID behind at each hop.  Hard here: devices connect to an
IAB node before, while and after it connects itself; what the backhaul socket
does with a packet depends on the NAS and bearer state it meets; the same maps
hold a node's own devices and those behind them; a flag is read that may not be
set.  It is correct when no assertion fails in any order of connections, relay
traffic is recognised as such, the path a bearer's packets take ends at that
bearer, the schedulers know the relays behind each node, and every device gets
its bearer.

### 1.2 IAB backhaul handover and migration (modelled)

| part | state | operations |
|---|---|---|
| scenario, `scratch/ntn-iab-tcp-dash.cc` (the QUIC scenario has the same code) | `g_hoSrcDonor`, `g_hoTgtDonor`, `g_hoOldIabRnti`, `g_hoPending`, events deferred by `g_hoExecDelay` | `TriggerIabBackhaulHandover`, `IabHandoverStart/EndOk/EndError`, `MigrateIabDescendants` |
| donor, `src/lte/model/epc-enb-application.cc` | `m_imsiRntiMap`, `m_rntiLocalImsiMap`, `m_imsiIabMap`, `m_teidRbidMap`, `m_teidRemoteMap`, `m_teidRemoteImsiMap`, `m_rbidTeidMap`, `m_migratedDescendantImsi` | path switch request and acknowledgement, context release, export, import and release of descendants, uplink classification |
| donor RRC, `lte-enb-rrc.cc` | `UeManager` per RNTI: state, queued handover, joining and leaving timers | prepare, request, acknowledgement, completion, context release, timeouts |
| IAB-MT RRC, `lte-ue-rrc.cc` | state, cell, RNTI | handover command, random access success and failure |
| MME and SGW, `epc-mme-application.cc`, `epc-sgw-pgw-application.cc` | cell of each IMSI, `m_enbAddr` of each UE | path switch, bearer modification |

The parts call each other through SAPs within one event, and send messages over
X2 (donor to donor), S1-AP (donor to MME and back) and radio.  The simulator
runs one event at a time, so a handler is atomic; what interleaves is the order
in which messages and scheduled events run.  Hard here: a second handover while
the first is completing, a migration deferred behind it, acknowledgements of
descendants that resolve to the IAB-MT's RNTI, path switches of the same IMSI
from two handovers, and random access that fails.  It is correct when relay
state is neither lost nor duplicated, the SGW's tunnels follow it in order, no
assertion of a handler fails when triggers are spaced as the scenario intends,
and service comes back after every handover.

### 1.3 DASH session (modelled)

| part | state | operations |
|---|---|---|
| `src/dash/model/dash-client.cc` | socket, `m_connected`, `m_RequestPending`, `m_pendingRetryUsed`, segment counters, three timers | start, stop, connect, lose, request, watchdogs, cap, read |
| `http-parser.cc` | `m_pending_packet`, `m_pending_message_size` | read the socket, cut frames |
| `mpeg-player.cc` | state, frame buffer, `m_playFrameEvent` | receive a frame, play a frame |
| `dash-server.cc` | a queue of frames per socket | request, send, send again when there is space |

Everything runs in callbacks of the socket and in scheduled events.  Hard here:
a watchdog racing a late answer, last frames of duplicate segments, a full
frame buffer with data left in the socket, reconnection, and deferred requests.
It is correct when the request flag is never stuck, the stream is played whole
and in order on one connection, playback is one chain of events, the buffer
keeps to its cap, and everything sent is read in the end.

### 1.4 Test runner (modelled)

`test.py` runs every test suite, example and Python test as a command of its
own.

| part | state | operations |
|---|---|---|
| main thread, `run_tests` | counts of passed and skipped tests, `results.xml` | put jobs and break jobs on `input_queue`, take results from `output_queue`, join the workers, return |
| `worker_thread`, one per processor | the job it holds | get, hand back after an interrupt, skip, run the command, put |
| `Job` | `is_break`, `is_skip`, `returncode`, file of its results | shared between the threads |
| `sigint_hook` | `thread_exit` | set by SIGINT, read once per job by each worker |

Hard here: the interrupt comes while some jobs are in the queue, others running
and others already done; one break job per worker must be enough and not too
many; a command may crash with half of its results written, print what cannot be
decoded, or an exception may end a worker.  It is correct when every job is
reported once, a session that reports success ran every test to exit code 0, the
interrupt never hides a test that ran, and the session ends.

### 1.5 Visualizer (modelled)

`src/visualizer/visualizer/core.py` shows a running simulation in a GTK window.

| part | state | operations |
|---|---|---|
| `SimulationThread` | `target_time`, `quit`, the event `go` | wait, clear `go`, take the lock, `SimulatorRunUntil`, post `update_model` |
| `Visualizer`, in the GTK main loop | `_update_timeout_id`, play button, `sample_period`, `simulation.lock` | `update_view_timeout`, `update_model`, play, speed, quit |
| `PyViz`, `src/visualizer/model/pyviz.cc` | samples, pause messages | run until a time, pause, statistics |

Hard here: `update_view_timeout` does not block for the lock but dispatches
events until it gets it, so that clicks, other timers, and itself run inside it,
and what it goes on with may be stale; a wake-up of the simulation thread may be
set just as that thread clears it.  It is correct when the simulation is never
more than a sample period ahead of the view, a simulation that plays has a timer
and goes on, pause stops it, and closing the window ends both threads.

### 1.6 QUIC stream (modelled)

| part, in `src/quic/model` | state | operations |
|---|---|---|
| scheduler, `quic-socket-tx-scheduler.cc` | priority queue of frames | add, take the next segment, splitting a frame |
| sent list, `quic-socket-tx-buffer.cc` | packets sent, acknowledged, lost | acknowledge, declare lost, put back into the queue |
| socket, `quic-socket-base.cc` | packet numbers, probe and timeout counts, `m_largestSentBeforeRto`, `m_stuckNoProgress`, pacing timer, alarm; on the other side received packet numbers | send, retransmit, probe, time out, receive a packet or an ACK, acknowledge |
| congestion control, `quic-congestion-ops.cc` | window | grows with ACKs, shrinks with losses and timeouts |
| stream, `quic-stream-base.cc`, `quic-stream-rx-buffer.cc` | read offset, bytes out of order | pass frames to the socket, receive, reassemble |

Hard here: a byte wanders between queue, sent list and wire, in frames that are
cut anew each time; probes, timeouts, flushes of the whole list and late ACKs
come in any order; retransmissions overlap what was delivered or buffered.  It is
correct when the sender neither loses nor doubles a byte, always has a timer
running, keeps to the credit, and the receiving application is handed the stream,
in order, and in the end all of it.

### 1.7 Not modelled

| part | why |
|---|---|
| user plane of the EPC applications | only what decides whether and where a packet goes on is in the models |
| cell search, random access, measurements, dual connectivity, reestablishment in the RRC | not used by the attachment and the handover of an IAB node, or assumed to end |
| ABR algorithms, `src/dash/model/algorithms` | pure functions, planned |
| of QUIC: handshake and closing, stream 0, control frames and credit updates, the other schedulers, congestion control by ns-3's TCP classes | outside the model of one established stream; planned |
| multipath QUIC | numerical schedulers over several paths; planned |
| traffic generators | planned, small |
| mmWave MAC, PHY and channel | real-valued; only the slot allocation of a scheduler is within TLC's reach |
| Python bindings, `src/*/bindings/modulegen__*.py` | generated by pybindgen's scanner: 760 000 lines of calls that register C++ declarations, without branches, state or behaviour of their own; nearly all Python of the repository |
| `wscript` files, `waf-tools`, `waf`, `utils.py` | declarative build configuration and vendored tools |
| upstream ns-3, scripts | third-party, or pure I/O; TCP and the event queue are modelled by the way the code uses them |

## 2. Modules

* `IabAttach` — the parts of section 1.1 as one state machine, for any tree.
* `IabTree` — what attachment promises: bearers appear from the donors outwards,
  each once.
* `MCIabAttach` — the instance for TLC; `IabAttachProofs`,
  `IabAttachAnswerProofs` — theorems.
* `IabMigration` — the five parts of section 1.2 as one state machine.
* `IabRelay` — what the migration promises: three positions on the chain of
  donors (IAB-MT, relay state, tunnels) that follow each other.
* `MCIabMigration` — the instance for TLC; `IabMigrationProofs`,
  `IabRelayProofs` — theorems.
* `DashSession` — the client, parser, player and server of one session;
  `MCDashSession` — the setups TLC checks it with; `DashSessionProofs` — theorems.
* `TestSession` — what a session of `test.py` promises; `TestRunner` — its
  threads and queues; `TestRunnerProofs` — theorems.
* `Visualizer` — its two threads; `VisualizerProofs` — theorems.
* `ByteStream` — what a QUIC stream promises: a reliable, ordered pipe;
  `QuicStream` — the parts of section 1.6 between two applications;
  `QuicStreamProofs` — theorems.

Operators whose comment begins with `Fault:` are single plausible mistakes in
the handler that follows them.  `Next` never uses them; substituted for the
handler they must break the property that guards against the mistake
(`PROJECT.json`, "mutants").

### 2.1 IabAttach and IabTree

`ueMgr`, `pending` and `bearer` are the `UeManager` of each device in its
parent's cell; `nas` and `drb` are the device's own side; `buffer` is
`m_bufferReceivedNasOff` of an IAB node's NAS.  `app[n]` is the record of maps
of the application of node `n`, donor or IAB node, with those of its
`EpcS1apEnb`; handlers are functions of that record.  `up` and `down` are one
FIFO per radio link and direction, RRC messages and relayed S1-AP in the order
the handlers queue them; `s1apUp` and `s1apDown` lead to the MME and back;
`cellId` and `enbAddr` are the tables of MME and SGW.  `fault` names the
assertion that stopped the program.  `lost` remembers whose request was lost: no
action reads it.

`SendToBackhaul` has the three cases of the code: the NAS is off and keeps the
packet; it has a bearer and sends; it has a connection but no bearer yet, and
the packet is gone.  `RecvFromLteSocket` and `RecvInitialContextSetupRequest`
are one operator each for donors and IAB nodes, whose code differs where the
operator says so.  `CellsUp` is the MME's loop from a cell to its donor, written
as the smallest closed set, since a recursive definition is of no use to the
proofs.

Abstractions: a device has one default bearer, and its IMSI, its RNTI at the
parent, that bearer and its TEID are all named after it, its cell after the
node; what a node sends itself through its local S1-AP socket takes no time (the
code goes through a socket on the same node); MME and SGW exchange their session
messages within one action, since nothing they read can change between them;
random access ends, and the radio loses nothing once a bearer is there.  A flag
that `RecvFromLteSocket` reads behind `end()` is a choice between both outcomes;
`UplinkClassified` shows that this never happens here.

`IabTree` has one variable, the set of attached devices; `IabAttach` implements
it with `attached <- drb`.

### 2.2 IabMigration

`app[d]` is the record of maps of the `EpcEnbApplication` of donor `d`, and
each of its handlers is a function from that record to the next one;
`ueMgr[d]` is the state of the IAB-MT's `UeManager`, with `queued[d]` its
`m_queuedHandoverRequestCellId` and `postponed` the donors where
`m_pendingRrcConnectionReconfiguration` is set; `mt` is the IAB-MT itself;
`ho` holds the globals of the scenario and `deferred` the migrations it has
scheduled; `x2`, `air`, `s1apUp` and `s1apDown` are messages in flight; `sgw` is
the donor each IMSI's downlink is tunnelled to.  `fault` names the assertion
that stopped the program, after which nothing happens.

Each action is one simulator event.  `RandomAccessSuccessful`, for instance, is
`DoNotifyRandomAccessSuccessful` together with the `HandoverEndOk` trace it
fires, hence with the migration when there is no delay.  S1-AP links have one
constant delay for all donors, so each direction is one FIFO queue; X2 and
radio messages are sets.

At the target the bearers of the handover request ask for a reconfiguration,
which `HANDOVER_JOINING` postpones (`RecvHandoverRequest`).  It is sent when the
release of the source switches the context to `CONNECTED_NORMALLY`
(`SwitchToConnectedNormally`), which therefore passes through
`CONNECTION_RECONFIGURATION` until the IAB-MT has answered.  A trigger that comes
while the context is joining or reconfiguring is queued, and
`RecvRrcConnectionReconfigurationCompleted` executes it; one that comes on the path
switch stops the program.  One code handler is two actions where its cases have
nothing in common: `RecvHandoverCommand` and `RecvRrcConnectionReconfiguration` at
the IAB-MT, `RecvHandoverCompleted` and `RecvRrcConnectionReconfigurationCompleted`
at the donor.  The latter does not touch the scheduler's count of IAB nodes: the
context that a handover request made is not marked as an IAB's.

`Spacing` stands for `hoTime`: `"settled"` lets a trigger come when nothing is
in flight, `"any"` at any moment.  `ExecDelay` is `g_hoExecDelay > 0`.

Abstractions: the IAB-MT has one backhaul bearer, so a radio bearer is its
RNTI; `m_teidRemoteImsiMap` follows from `m_teidRemoteMap`; maps that no
modelled handler reads are left out; RNTIs are given by `RntiOf`; one uplink
packet at a time stands for traffic.  Reading the flag behind `end()` in
`RecvFromLteSocket` is a choice between both outcomes.  The wire format of
messages is abstracted, and a message the model delivers only to the handler in
the right state is one that the code, too, cannot get in another.  The joining
timer is modelled for a failed random access, which leaves it no other way to
run: the timers are longer than a successful random access takes.

### 2.3 IabRelay

`Reparent` moves the IAB-MT on, possibly with its relay state; `MoveRelay`
moves the relay state one donor on; `Repoint(i)` moves the tunnel of `i` one
donor on, at most up to the relay state (for the IAB-MT itself, up to where it
is).  `IabMigration` implements it with `serving` the donor the IAB-MT is
connected to (or is leaving), `home` the donor that has all relay state, and
`tunnel` the SGW's table.

### 2.4 DashSession

Handlers map a record of the whole session (`Session`) to the set of records
that may follow: `Send()` may fail.  That lets one action be a whole callback:
`HandleRead` reads the socket, cuts frames until none is whole or the buffer is
full, starts or resumes the player for each, and requests the next segment
after a last frame, as the code does in one call chain.

Time is counted in frames played.  Network delays are arbitrary, hence a
watchdog may expire at any moment, unless `Timely`, where it expires only with
progress since the last tick or with nothing on its way.  A piece is a part of
a frame: `HeaderUnits` pieces of headers, `FrameUnits` in all.  `net` holds
requests on their way, the server's queue, the bytes in TCP and the bytes the
client has not read; a lost connection empties it.  `begun` says that a
transmission is under way: what TCP delivers first after an idle time is longer
than the headers, what it delivers later may end anywhere.  `StartTime` is
`m_start_time` in frames; deferred requests that fall before playback begins
run at once.  A deferred request has two deadlines, `earliest` and `latest`: its
timer runs on while the player is paused (`Overtaken`), and how long a pause takes
is open.  What a session is configured with — number and size of segments,
buffer, cap, windows, faults — is a record `setup` that `Init` chooses from the
constant `Setups`, so one run checks several configurations.

Abstractions: frames have one size; the bit rate, throughput and interruption
statistics, keep-alive and blank packets are left out; the base class's
`CalcNextSegment` asks for no delay; the clamp of an absurd buffer level is
never reached.  On the server, close callbacks and a `Send` that fails although
there was space are left out.

Hazards of this code that therefore no property covers: statistics taken after a
stop (`mpeg-player.cc:291`), `Send`'s -1 counted as four billion bytes
(`dash-server.cc:338`), a stop that comes before the first start
(`dash-client.cc:241`), and segments that are skipped for good after a give-up
(`dash-client.cc:286`).

### 2.5 TestSession and TestRunner

`input_queue` is filled in a fixed order and emptied from the front, so two
counters, `put` and `taken`, stand for it; `output` is everything ever put on
`output_queue`, `collected` how much of it the main thread has taken.  Python's
queues are thread-safe, hence one `put` or `get` is one step, and so is the
write to a job before it is put.  `worker[w]` says where a worker is: the read
of `thread_exit` and the start of the command are steps of their own after
`get()`, so an interrupt can fall between any two.  `ran` is the truth about the
command — its exit code and the file it left — which no action reads except
where the code looks at the file; `job[j].returncode` is what the script believes.

`TestSession` has a verdict per test and a status: a verdict is given once and
not revised, and the session returns when all are given, with success if all
passed or were skipped.  `TestRunner` implements it with its variables of the
same name.

Abstractions: choosing the tests and configuring waf come before `Init`;
printing and times are left out; `results.xml` is the entries per test and
whether the file is still well formed; the translations of that file fail when
it is not, which raises.

### 2.6 Visualizer

Simulated times are relative to the last `update_view`: `ahead` is how far the
simulation has run since, `target` is `target_time`.  `frames` is the stack of
calls of `update_view_timeout`, by the timers that made them; GLib never
dispatches a source whose callback is running, which is `UpdateViewTimeout`'s
guard.  `samples` remembers whether what the last run sampled was read.  Every
step between two accesses of shared state is an action of the simulation thread,
the test of `quit` at the head of its loop (`LoopTest`) among them.  In the GUI
thread a critical section is one action, and each statement outside of it that
writes what the simulation thread reads is one: `go.set()` at the end of
`update_view_timeout` (`SetGo`), and the two writes of `_quit`, `quit` (`Quit`) and
then `go` (`WakeForQuit`), in the order that `QuitWrite` gives them.  `Init` is the
moment after `create_gui`: the timer it starts is there, the play button is not
active, and the simulation thread is at the head of its loop.

Abstractions: drawing, plugins, the IPython shell and what is sampled are left
out; `Inspect` stands for all handlers that take the lock to look at something.

### 2.7 QuicStream and ByteStream

`tx` is the sending socket: `queue` is the scheduler's, `list` the sent list,
`next` and `high` are `m_nextTxSequence` and `m_highTxMark`, `tlp`, `rto` and
`epoch` are `m_tlpCount`, `m_rtoCount` and `m_largestSentBeforeRto`, `stuck` and
`lastBiF` the count of alarms without progress; `pacing` and `armed` say whether
the two timers run.  `rx` is the other side: `got` is
`m_receivedPacketNumbers`, `due` a scheduled ACK, `inbox` the frames of the
packet being handled, `recvSize` and `held` the stream's read offset and buffer,
`open` ends with an abort.  `wire` and `acks` are what is under way: sets, so
packets overtake each other.  `history` remembers what the properties except; no
action reads it.

The sender's operations map a state of `tx` to the set of those that may follow,
so that one action is a whole callback: `Alarm` is `ReTxTimeout` with the probe or
timeout, the flush when nothing gets better, what can then be sent, and the new
alarm.  `OnReceivedAckFrame` removes what is acknowledged, declares losses,
retransmits, lets the congestion control set its window and sends on.

A byte is its offset.  A frame takes one unit more than its bytes, for its
subheader, so that splitting one costs room.  The window is any of `Windows` in
the direction in which the code may move it; its size is a matter of the
congestion controller.

Abstractions: one established stream on one path and the default scheduler; no
stream 0, control frames, or updates of the credit, which stays what it is; the
receiver's socket buffer never refuses data; the receiver's packets are ACK frames only, and the
sender does not acknowledge them.  Packets are lost but not doubled, as on an
ns-3 link.  Timers have no length: the pacing timer is the shortest, and an alarm
that comes while packets are under way is one of the `MaxTroubles`.

`ByteStream` has two variables, the number of bytes written and the sequence
handed over; `QuicStream` implements it with its variables of the same name.

## 3. Runs

All runs turn off deadlock checking: attachment, the chain of donors, the video,
the stream and the simulation end.

| run | bounds | shows |
|---|---|---|
| `IabAttach` | 2 donors, 2 IAB nodes in a row behind the first, a UE at each, in any order | `TypeOK`; `NoProtocolAbort`: no assertion fails; `UplinkClassified`; `DownlinkPath`: each hop of a TEID leads to the next and the last to the device's bearer; `ChildrenCounted`: schedulers know how many relays are behind a node; `BuildsTree`: `IabTree` is implemented; `AttachedUnlessLost`: every device gets its bearer unless a request was lost for want of one |
| `IabSettled` | 4 donors, 2 descendants (one an IAB node), random access may fail | `NoProtocolAbort`: no assertion fails; `UplinkNotGarbled`; `SettledService`: after each handover one `UeManager`, every descendant reachable, its uplink recognised; `ReleaseAfterRepoint`: the source is released after the SGW re-points |
| `IabAnySpacing` | the same, deferred migration, triggers at any time | `TypeOK`, `RelayExactlyOnce`, that `IabRelay` is implemented, `DownlinkRestored`: unless a handover fails or the program stops, downlink comes back, and `HandoverCompletes`: with the same exceptions a triggered handover ends, also when its trigger was queued |
| `DashSession` | segments of 2 frames, failing sends except in `Cap` and `Torn`; setup `Stream`: 2 segments, frames of 2 pieces, buffer of 2 frames; `Long`: 3 segments; `Cap`: 5 segments, cap of 2 segments, timely network; `Lossy`: the same with failing sends; `Faults`: 2 lost connections, a stop, frames that are their headers; `Torn`: a connection lost within a frame, whose halves the parser joins and drops, headers read whole | `TypeOK`; `PendingGuarded`: a request that is out is watched; `SinglePlayChain`; `CapOverrunBounded`: undisturbed, the cap is exceeded by no more than the start delay; `WholeSegments`: frames of a segment are played in order; `Recovers`: what was sent is read in the end, also after drops when every read brings whole headers |
| `TestRunner` | 3 jobs (2 suites, one of them skipped, and an example), 2 workers, an interrupt, crashes, undecodable output, a dying worker, `--text` | `TypeOK`; `OncePerJob`; `SuccessIsReal`; `SessionImplemented`: `TestSession` is implemented; `Ends` |
| `Visualizer` | sample periods 1 and 2, 4 user actions besides closing the window | `TypeOK`; `OnePeriodAhead`; `PlayHasTimer`; `Closes`; `PlayAdvances`; `PauseStops` |
| `QuicStream` | 6 bytes in frames of 2 or 4, packets of 5 units, windows 10 and 12, credit 8, reordering threshold 2, two probes, one gap in an ACK, a buffer of 2 bytes; 2 troubles, 7 packet numbers | `TypeOK`; `NothingForgotten`: every byte is with the sender or the receiver; `SingleCopy`: with the sender only once; `NeverStalled`: a timer runs; `WithinCredit`; `InOrder`: `ByteStream` is implemented; `Delivers`: all is handed over in the end |

Two IAB nodes in a row give a path with all kinds of hops: first hop, relay in
between, donor.  A third would add another hop of the second kind.  The second
donor is there to be the wrong one.  The proofs of section 4 hold for any forest.

Four donors give three handovers: the last can overlap with the deferred
migrations of both others, and RNTIs differ between the first donor and the
rest.  Two descendants distinguish an IAB node from a UE, and each moves on its
own at the SGW.  In `DashSession` the buffer is smaller than a segment or two,
so that back-pressure reaches the server; `StuckLimit` 2 instead of 10 lets the
watchdog retry and give up; two lost connections let the second hit the
reconnection.

With three jobs and two workers of `TestRunner` a job can be handed back while
another runs and a third is done.  Sample periods matter only by which is
larger.  Four clicks are enough for two timers at once: play, pause inside a
nested call, a change of speed and play again.

Frames of 2 and 4 bytes in packets of 5 units make packets of one frame, of a
frame and a part, and of a part; credit 8 is less than the stream with its
subheaders.  Two troubles are enough for both timeouts in a row with their flush, a
third alarm without progress, a frame that overlaps what is buffered, one that
finds no room, and an ACK frame that leaves a gap out.  `MaxTroubles` counts
losses, alarms that come early and alarms with nothing to do.  `MaxPackets` is
needed because packet numbers grow without end after a single loss (see below);
a behaviour that reaches it stops there, which `Delivers` has to except.  The
proofs of section 4 bound nothing.

Runs that show a disagreement of the code with what it says about itself
(`PROJECT.json`, "findings", quotes the lines):

| run | what happens |
|---|---|
| `IabSentLater` | a device that connects to an IAB node between that node's connection setup and its bearer is never announced to the MME: its request is neither sent nor kept |
| `IabUplinkDeferred` | with an execution delay, uplink of the IAB-MT is not recognised between path switch and migration |
| `IabJoiningTimeout` | after a failed random access a mmWave donor notifies a coordinator it has not got |
| `DashTornHeaders` | after a reconnect within a frame the parser drops what it holds and leaves `m_pending_message_size` at 0; once a read brought less than the headers, `ReadSocket` reads no more and the parser never resynchronises, although the comment says it does |
| `QuicGaps` | an ACK frame that leaves gaps out acknowledges a packet that never arrived and has not been retransmitted: its bytes are never sent again |

Smaller ones came up and have no run: the source forgets the descendants
an S1-AP delay before the SGW is re-pointed (`MigrateIabDescendants` says
after); `m_bufferReceivedNasOff` is never cleared, which does no harm as the
bearer is set up once; after each completed reconfiguration an IAB node's count
is set to one again, as `m_needIabPhyMacConfiguration` is never reset (harmless
while there is one reconfiguration per device); `ImportIabDescendants` counts the
relays behind a node otherwise than attachment does, which counts the node itself
(`epc-enb-application.cc:411` says 0 for a leaf relay); a trigger between EndOk and the path switch acknowledgement stops the
program (`IabHandoverEndOk` says a new handover may be triggered).

`MaxBufferS`, described as hard, is not.  It is exceeded by the start delay, which
`CapOverrunBounded` allows for, and by more when the session is disturbed: a
reconnect requests the next segment whatever the buffer holds
(`ConnectionSucceeded`); a segment given up after failed sends leaves the request
that was deferred for a fuller buffer, and both it and the player's own request
then run; a cap below the length of a segment is exceeded by the first.  Hence
`Undisturbed` in that property: no lost connection, no failed send, no watchdog
that fires early, a cap of at least a segment.

The runs that pass stay clear of these by their constants, not by guards: wide
spacing (or stopping at the assertion, in `IabAnySpacing`), no execution delay
where uplink is checked, and `HeaderUnits` 1 in `DashSession`, so that a read never
cuts headers after an idle time; `DashTornHeaders` has the case where it does.
`Recovers` is about what was sent, not about what a client that gave up might still have asked for.  `NothingForgotten` and `Delivers` except the
behaviours in which an ACK frame has left gaps out (`history.cut`), which is what
`QuicGaps` is about, and the bytes the receiver is known to have dropped.

From the DASH client: the first segment, when its request and the retry are lost,
is given up and never requested again, as no player event exists yet (the comment
at `dash-client.cc:383` counts on one).

From QUIC: with `m_rtoCount` above 0 every ACK beyond `m_largestSentBeforeRto`
declares all that is outstanding lost, packets just sent included
(`quic-socket-base.cc:2667`: `ResetSentList` keeps the distance of packet numbers
divided by the segment size, that is 0), and the late ACK of a packet already
declared lost, or of a probe without data, clears no count, although the comment
in the RTO branch of `ReTxTimeout` says that an ACK of any probe does: one loss
can lead to a retransmission of the same bytes without end.  Each `DoRetransmit`
leaves one packet number unused, which the receiver reports as a gap for ever.
`IsAck()` does not know `MP_ACK` (`quic-subheader.cc:1521`), so that ACKs are
acknowledged, endlessly, and the idle timeout never comes.  A frame of which a
part has no room in the receive buffer is cut without a word, its packet
acknowledged.  `HasReceivedMissing` is always false, so that no ACK is sent at once
for a gap.

From `test.py`: the entry made up for a suite that crashed closes `<Result>`
with `</Suite>` (`test.py:1777`), so that `--text` and `--html` raise after such a
crash; for a suite that valgrind rejects no such entry is written, as its branch
(about `test.py:1781`) is behind one that takes return code 2 too, though the
comment at 1750 promises it; undecodable output counts as return code 1, so a
suite that crashed with it is said to have failed and its half-written file is
copied, or opening it raises; an exception in a worker leaves the main thread
waiting for ever, and nothing bounds the time of a command; two sessions that
start in the same second share a directory of results (`test.py:1233`).

From the visualizer: what was sampled may be cleared unread, or read twice, in
spite of the comment at `core.py:683`; a pause can be overrun by one more period,
when `go` was set before it; a pause and a change of speed inside a nested
`update_view_timeout` leave a timer without an id, which play then doubles —
`PlayHasTimer` and `OnePeriodAhead` hold all the same.

### Fairness

`FairSpec` of `IabAttach` promises that every device gets to connect, as all are
told to at the start and random access is assumed to end, and that messages on
the radio links and in the core arrive.
`FairSpec` of `IabMigration` promises that scheduled events run and messages
arrive: the links of the EPC lose nothing, and random access that starts ends.
Triggers, failures and traffic are not promised.  `FairSpec` of `DashSession`
promises that scheduled events run, that a connection that is open delivers, and
that one being set up is set up unless it fails; loss and stop are not
promised.  Weak fairness per action is what an event queue gives: an event in
it runs unless it is cancelled.
`FairSpec` of `TestRunner` promises that the main thread and each worker are
scheduled and that every command ends; it does not promise an interrupt.
`FairSpec` of `Visualizer` promises that both threads run and that timers fire.
It has one strong fairness, for `TryAgain`: `update_view_timeout` tries the lock
again each time no event is pending, and timers of 100 ms and more leave such
moments between their ticks; the user need do nothing, not even close the window.
`FairSpec` of `QuicStream` promises only that the simulator goes on: while a timer
runs or a packet is under way, some such event is executed.  The application need
not write, and no order is promised among the events.

## 4. Theorems

`IabAttachProofs` proves for any finite set of devices attached to any forest of
cells (`NodesAssumption`, `ParentAssumption`):

* `TypeCorrect` : `Spec => []TypeOK`, which says that the MME answers to wired
  donors only;
* `UplinkRecognised` : `Spec => []UplinkClassified`;
* `TreeBuilt` : `Spec => BuildsTree`, the refinement of `IabTree`;
* `TreeConnected` : `Spec => []Tree!Connected`.

The order in which bearers appear is not kept by any one handler: a device gets
its bearer because an answer came down, that came because a request went up, and
that left the first relay only once the relay had a bearer itself.  The
inductive invariant ties these together:

* `Messages` — a request on a backhaul link is on the link of a relay with a
  bearer; every request that left its first relay, and every answer, is for a
  device whose parent has a bearer or is a donor; a reconfiguration is on its way
  only where the `UeManager` has the bearer;
* `BearersInOrder` — a device with a bearer has a parent with one, and that
  parent knows its IMSI and whether it is an IAB node;
* `CellsKnown` — the MME has the cell a device attached to, or none;
* `AppsConsistent` — an IMSI that an application knows and has not relayed is one
  of its own cell, under its own RNTI.

`Inductive` proves that `Spec` keeps their conjunction with `Shapes` (the types),
one lemma per action.  That the MME answers to a donor or stops needs that no set
of relays is closed under `Parent`: `ParentAssumption`.

`IabAttachAnswerProofs` proves under the same assumptions

* `NeverAborts` : `Spec => []NoProtocolAbort`.

Its invariant `AInv` stands on `IInv`.  `Climbed(i, x)` says that the request of
`i` has been noted by every node from its cell to `x`; it holds of each request
on its way, and once true stays true, which is why requests that overtake each
other need no argument.  At the MME `x` is a donor, so that all cells the search
passes have noted the request, the donor it ends at included (`WiredCellNoted`);
from there `Ready` leads the answer to a relay that has noted it, too.

* `DownlinkFollowsTree` : `Spec => []DownlinkPath`.

A TEID's path is right because nothing that is installed later moves a part of
it, and that is a matter of the forest: the way from a cell to its donor passes
no relay twice (`NotAbove`), comes to each cell through one relay and ends at one
donor (`OneWayUp`), also when the MME knows only some of the cells
(`WiredOnTheWay`).  `DInv` says that requests are on the way up from their
device's cell, that an answer on a backhaul link is for a TEID the node above has
installed as remote (`OnTheWay`), that the bearer a node notes for an answer is the
one on that way (`Routes`), and that each TEID is supplied from above
(`TeidsSupplied`).  Hence a request that came twice, which no test sends, would
install the same path.

* `RelaysCounted` : `Spec => []ChildrenCounted`.

A scheduler hears of the relays behind an IAB node in two ways: the completed
reconfiguration of the node says one, and each answer that passes says how many
relays the requests have listed so far.  Either may come while requests are still on
their way, so that the count is wrong for a while.  `CountInv` says how.  `Listed`: a
request lists the relays it has passed, and what a parent has noted behind relay `c`
is the union of the lists of the requests that came through `c`.  `CountOk`: once the
reconfiguration is known to be complete, the count is that of the list, or an answer
through `c` is due that will correct it.  `FirstOwn`: until then only requests of
devices in `c`'s own cell can have come, in the order of the link, so that one is
right.  That a due answer comes is `AnswersDue` (the request or the answer is still
above the node, or the bearer is set up), and that each device is reconfigured once
is `RrcInv`.  When nothing is in flight, what is due has come; the list at `c`'s
parent then is `RelaysBehind(c)` because each relay with a bearer behind `c` has a
device whose request passed it (`TeidsSupplied`, and of the forest `InLine`,
`OneOrder`, `NextBelow`).

`IabMigrationProofs` proves for any number of donors and descendants, any
spacing, with or without delay and failures:

* `TypeCorrect` : `Spec => []TypeOK`;
* `RelayNeitherLostNorDuplicated` : `Spec => []RelayExactlyOnce`;
* `QueuedTriggersExecuted` : `Spec => []NoneLeftQueued`, no `UeManager` is idle with
  a trigger still queued in it.

None is inductive.  `MigrateIabDescendants` finds relay state by the old
RNTI at the source donor, both taken from a tuple captured earlier; the
property holds because the tuple fits.  The inductive invariant `IInv` says why:

* `HandoverInv` — the IAB-MT, the messages in flight and the two `UeManager`s
  agree on one handover, from `ho.src` to its successor, and on its phase; a
  reconfiguration or its answer is on the air only for the donor that is in
  `CONNECTION_RECONFIGURATION` (`AirConsistent`), and a trigger is queued only in
  a context that is still to send that reconfiguration or waits for its answer, and
  for the handover in the globals (`QueuedConsistent`);
* `LocalBearers` — the release of a context touches the IAB-MT's own bearer,
  never a relayed one;
* `DeferredChain` — deferred migrations are the missing hops, in order, with the
  right RNTIs;
* `RelayHeld` — exactly the donor as many hops behind the IAB-MT as there are
  deferred migrations has all relay state.

`Inductive` proves that `Spec` keeps their conjunction with `TypeOK`, one step
per action; lemmas state what each handler's function does to types and to
relay state, and `MigrateRelay` is the heart: a migration with the right tuple
moves the relay state one donor on.  TLC checked the invariant before it was
proved.  Assumptions: those of the constants in `IabMigration` (finitely many
flows, owners that are descendants, RNTIs above zero).

On top of `IInv`, for the path switches and their acknowledgements:

* `ReleaseFollowsRepoint` : `Spec => []ReleaseAfterRepoint`;
* `RefinesRelay` : `Spec => RelayRefined`, the refinement of `IabRelay`, with the
  IAB-MT's donor, the donor of the relay state (`Holder`) and the SGW's tunnels.

The source is released by an acknowledgement, and S1-AP queues hold those of the
descendants next to the IAB-MT's own.  `TunnelInv` says which they are: `MtTunnel`
— the phase of the `UeManager` at the IAB-MT's donor tells how far its only path
switch has come; `PathSwitchKnown` — the acknowledgement finds the IAB-MT's RNTI;
`Suppressed` — one of a descendant finds its IMSI in `m_migratedDescendants`.
`DescendantTunnels` is what the refinement needs: the path switches of a descendant
that the MME has not seen name the donors between its tunnel and the relay state,
in order and none missing, so that each moves the tunnel one donor on; `IabRelay`
would not allow a jump.

Three theorems have a hypothesis about how the scenario is configured:

* `UplinkClassifiedAtImport` : `Spec => []UplinkNotGarbled` if `~ExecDelay`, with
  any spacing.  With the delay it is false: that is run `IabUplinkDeferred`.
* `SettledTriggersDoNotAbort` : `Spec => []NoProtocolAbort` if
  `Spacing = "settled"`, with failures of random access, with or without delay.
  For triggers that come sooner it is false.
* `SettledServiceHolds` : `Spec => []SettledService` if nested IAB nodes have one
  bearer each (`Cardinality(NestedFlows) = Cardinality(NestedIabs)`), as
  attachment gives them, with any spacing and delay.  `MigrateIabDescendants`
  counts bearers, not nodes, so a second bearer would count its node twice; the
  other parts of the property do not need this.

Their invariants: `NoneStranded` — a `UeManager` that is not the serving one is
released, or what releases it is on its way, and the serving one is not left in
the middle of a handover that is over; `Recognised` — each donor up to the one with
the relay state has the IAB-MT's flag, and that one has the flags of all
descendants; `Counted` — its scheduler has their number; `UplinkAt` — without a
delay a packet is never ahead of the import; `InOrder` — `g_hoPending` waits for
something that is on its way, and the next trigger is at the serving donor.

`IabRelayProofs` proves `TunnelsStayBehind` : `RelaySpec => []Behind`, for a chain of
at least one donor: with the refinement, a tunnel of
`IabMigration` never leads past the donor that has the relay state.

`DashSessionProofs` proves for sessions of any configuration (`SizeAssumption`,
`SetupAssumption`; the watchdog's limit is at least 2, 10 in the code):

* `SessionTyped` : `Spec => []TypeOK`, which says that player and socket buffers
  keep to their bounds;
* `RequestGuarded` : `Spec => []PendingGuarded`;
* `OneChainOfFrames` : `Spec => []SinglePlayChain`;
* `FramesPlayedInOrder` : `Spec => WholeSegments`;
* `CapHolds` : `Spec => []CapOverrunBounded`.

A handler maps a session to its possible outcomes, so each has a lemma that its
outcomes are `Well`: types (`Sessions`), bounds (`Bounded`), the watchdog
(`Guarded`), the chain (`OneChain`), and `Ticking`, which the bound of the ticks
in `TypeOK` needs: a request that is pending has fewer ticks than the limit, and
its retry comes at the first of them.  The retry does not look at the limit, so
that with a limit of 1 the count would pass it.
`TryToPushToPlayer` takes as many turns as
there are bytes, a recursion; `TurnsDefined` shows with the least counterexample
among naturals that it exists and takes one turn after another, since induction
with an operator as a parameter is out of reach.

The last two rest on `Good`, which relates a session to the frame played last.
`Ordered`, for sessions on one connection: the buffer continues what was played,
`Pieces` — the parser's bytes and those on their way, down to the server's queue
— continue the buffer with whole frames, and the requests on their way continue
those.  `WholeDrop` and `WholeAppend` take one frame from the front and put one
segment at the end.  So what the parser holds always begins with the headers of
one frame (`HeadersInOrder`) and is never dropped, and a frame that the full player
refuses stays at the front.  `Staged` says how far connection and playback have
got, which tells apart the first request from the others.

The cap needs that requests are counted: `OneAtATime` — the pieces on their way
are those that the pending request still lacks — and `Fitting` — frames played,
buffered and missing are those of the segments requested, and they fit; a request
that was put off fits by the time it is due, and nothing else requests in the
meantime.  Both hold only if the player never refuses a frame (`Roomy`: the
session is undisturbed and the buffer larger than the cap and the start delay);
then the parser holds no whole frame at rest (`Drained`), which is why a watchdog
that expires in a timely network has nothing to retry (`NothingToRetry`).  In a
smaller buffer the bound holds because the buffer is no larger.

`TestRunnerProofs` proves for any number of jobs, suites, skipped tests and
workers, with or without the faults:

* `TypeCorrect`, the invariants the run checks and three more, `NoJobAbandoned`,
  `InterruptedNeverRan` and `EntryPerTest`: `JobsDeliveredOnce` :
  `Spec => []OncePerJob`, `WorkersStay` (`NoJobAbandoned`), `SuccessRan`
  (`SuccessIsReal`), `InterruptedUnrun` (`InterruptedNeverRan`), `EveryTestInXml`
  (`EntryPerTest`, every test that was not interrupted has an entry in
  `results.xml`; proved, not among the run's properties);
* `Refinement` : `Spec => SessionImplemented`.

What main says of a job is right because what a worker did was right before the
job reached it, and a job object that two threads share is not written by both.
The inductive invariant `Inv` follows a job on its way: one that is not taken is
untouched (`PendingUntouched`), one that is held is not delivered
(`HeldNotDelivered`), one in `output_queue` tells the truth about its command
(`DeliveredTruth`), and so do verdicts, counts, entries and the status derived
from it (`VerdictTruth`, `CountsAgree`, `EntriesAgree`, `StatusAgrees`).
`CountsAgree` equates `passed` and `skipped` with cardinalities of sets of jobs;
that makes `passed + skipped = NumJobs` mean that every job is in one of the two.

`VisualizerProofs` proves for any set of sample periods and any number of user
actions `TypeCorrect`, `NeverFarAhead` : `Spec => []OnePeriodAhead`,
`PlayKeepsTimer` : `Spec => []PlayHasTimer` and `QuitWakes` :
`Spec => []WakeNotLost`: a simulation thread that waits after `quit` was written has
its wake-up set or, between the two writes of `_quit`, still coming.  The invariant
adds that the lock is tried, and `go` set, only inside a call of
`update_view_timeout` (`CallUnderWay`), that there are no more timers than the first
and one per action of the user, and that the simulation never passes `target`, which
is a period, whatever period the next call may set.

`QuicStreamProofs` proves for streams, frames, packets, windows, credit and buffers
of any size, and any number of losses and packets:

* `TypeCorrect` : `Spec => []TypeOK`;
* `NoByteForgotten` : `Spec => []NothingForgotten`;
* `ReliablePipe` : `Spec => InOrder`, the refinement of `ByteStream`;
* `NoByteTwice` : `Spec => []SingleCopy`;
* `CreditKept` : `Spec => []WithinCredit`;
* `TimerRuns` : `Spec => []NeverStalled`.

What the sender forgets when an ACK comes must be with the receiver.  That is so
because an ACK frame names packet numbers, a number is used for one packet only,
and that packet still carries what it was sent with: the invariant `IInv` follows
the chain.  `SenderInv` — packet numbers are taken in order, each once;
`WireInv` — a packet on the wire carries what the list says it does;
`ReceiverInv` — what is held, waits or was handed over are bytes written;
`AckInv` — an ACK frame that leaves nothing out tells the truth; `GotInv` — the
bytes of a listed packet that arrived are with the receiver; `Kept` —
`NothingForgotten`; `HandedOver` — `app` is `0, 1, ..., recvSize - 1`.  Each
operation of the sender is shown to preserve `Good` (the numbers) and to lose no
byte (`Keeps`, `Safe`); the lemmas about `Whole` and `NewSegment` say that splitting
a frame does neither.

The last three rest on two more invariants of the sender.  `Sound`: frames of the
queue and of listed packets share no byte (`Apart`), and what is in flight is
within the credit; the size of a set of frames, a sum, is followed through
`NewSegment`, where a frame that is cut costs one unit more, and `Requeue`.
`Timed`: what is under way needs the alarm, and what is queued the alarm or the
pacing timer.  The second part needs that a packet can always be sent once nothing
is under way, hence that every window is at least `MinWindow`, as in the
congestion controllers (`QuicStreamAssumption`).

Only model-checked: liveness (`HandoverCompletes`, `DownlinkRestored`, `Recovers`,
`Ends`, `Closes`, `PlayAdvances`, `PauseStops`, `Delivers` and that of `IabAttach`).  Liveness and `ENABLED`
are out of the prover's reach, and so is induction over data.

## 5. Plan

Done: `IabTree`, `IabAttach` with proofs; `IabRelay`, `IabMigration` with proofs;
`DashSession` with proofs; `TestSession`, `TestRunner` with proofs; `Visualizer` with proofs;
`ByteStream`, `QuicStream` with proofs.

1. Attachment composed with the handover: several bearers per device, the NAS
   that sends its kept packets again with a second bearer, counts of relays
   after a migration; invariant: the maps that attachment leaves at a donor are
   those that `IabMigration` starts with.
2. `DashAbr`: the seven algorithms as operators: bounds of the choice, no
   oscillation where the code promises it; then the session with their delays.
   Player statistics (`FinalizeInterruptionTime`).
3. QUIC: updates of the credit with a receiver that reads slowly, several streams
   and the other schedulers; then several paths; the handshake with its
   retransmissions.
4. `TrafficGenerator`: bursts over a socket that takes only part of them.
5. Proofs about what the modules above add; of the properties checked so far, only
   liveness has no theorem.
