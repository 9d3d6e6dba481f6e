----------------------------- MODULE TestSession -----------------------------
(***************************************************************************)
(* What test.py promises of a session: every test gets one verdict, which  *)
(* is never revised, and the script returns only when all tests have one,  *)
(* with 0 exactly when each passed or was skipped.  TestRunner.tla shows   *)
(* how its threads and queues keep the promise.                            *)
(***************************************************************************)
CONSTANT Jobs

Verdicts == {"PASS", "FAIL", "VALGR", "CRASH", "SKIP", "interrupted"}

VARIABLES
  verdict,  \* of each job, or "none" as long as it has not reported
  status    \* "busy", "success" (0), "failure" (1), or "raised"

svars == <<verdict, status>>

Init ==
  /\ verdict = [j \in Jobs |-> "none"]
  /\ status = "busy"

Decide ==
  /\ status = "busy"
  /\ \E j \in Jobs, v \in Verdicts :
       /\ verdict[j] = "none"
       /\ verdict' = [verdict EXCEPT ![j] = v]
  /\ status' \in {"busy", "raised"}

Return ==
  /\ status = "busy"
  /\ \A j \in Jobs : verdict[j] # "none"
  /\ status' = IF \A j \in Jobs : verdict[j] \in {"PASS", "SKIP"} THEN "success" ELSE "failure"
  /\ UNCHANGED verdict

Raise ==
  /\ status = "busy" /\ status' = "raised"
  /\ UNCHANGED verdict

Next == Decide \/ Return \/ Raise

Spec == Init /\ [][Next]_svars
==============================================================================
