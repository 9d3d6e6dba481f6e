---------------------------- MODULE MCDashSession ----------------------------
(***************************************************************************)
(* Setups of DashSession.                                                  *)
(***************************************************************************)
EXTENDS DashSession

\* A small playback buffer, one connection: the buffer refuses frames, and
\* those that arrive in pieces wait in the parser.
Stream == [maxSegments |-> 2, frameUnits |-> 2, bufferSpace |-> 2, maxBuffer |-> 0,
           sendWindow |-> 5, rcvBuf |-> 3, maxFailures |-> 0,
           mayStop |-> FALSE, sendMayFail |-> TRUE, timely |-> FALSE]

\* The same with more segments and whole frames.
Long == [Stream EXCEPT !.maxSegments = 3, !.frameUnits = 1, !.sendWindow = 3, !.rcvBuf = 2]

\* A capped buffer that TCP keeps up with.
Cap == [maxSegments |-> 5, frameUnits |-> 1, bufferSpace |-> 8, maxBuffer |-> 4,
        sendWindow |-> 4, rcvBuf |-> 2, maxFailures |-> 0,
        mayStop |-> FALSE, sendMayFail |-> FALSE, timely |-> TRUE]

\* The same with requests that fail: the cap is overrun by more.
Lossy == [Cap EXCEPT !.sendMayFail = TRUE]

\* Lost connections, reconnects and a stop time.
Faults == [maxSegments |-> 2, frameUnits |-> 1, bufferSpace |-> 2, maxBuffer |-> 0,
           sendWindow |-> 3, rcvBuf |-> 2, maxFailures |-> 2,
           mayStop |-> TRUE, sendMayFail |-> TRUE, timely |-> FALSE]

\* A connection lost within a frame: the parser joins its halves to what comes
\* next, and has to drop.
Torn == [Stream EXCEPT !.sendWindow = 3, !.maxFailures = 1,
                       !.sendMayFail = FALSE]

\* The same with headers that a read may cut, when HeaderUnits is 2.
TornHeaders == [Torn EXCEPT !.frameUnits = 3, !.sendWindow = 4]

MCSetups      == {Stream, Long, Cap, Lossy, Faults, Torn}
MCTornHeaders == {TornHeaders}
==============================================================================
