------------------------------ MODULE TestRunner ------------------------------
(***************************************************************************)
(* run_tests() of test.py: the main thread puts one job per test and one   *)
(* break job per worker thread on input_queue, collects as many results    *)
(* from output_queue, joins the workers and closes the XML results file.   *)
(* SIGINT only sets thread_exit (sigint_hook).                             *)
(*                                                                         *)
(* input_queue is FIFO and its items are put in a fixed order: item i is   *)
(* job i up to NumJobs and a break job after that, so two counters stand   *)
(* for it.  A job object is shared by the threads.                         *)
(*                                                                         *)
(* Operators whose comment begins with "Fault:" are single mistakes in the *)
(* definition that follows; no specification uses them.                    *)
(***************************************************************************)
EXTENDS Naturals, Sequences, FiniteSets

CONSTANTS
  NumJobs,       \* tests put on input_queue (total_tests)
  Suites,        \* jobs that run a test suite; the others run an example
  Skips,         \* jobs with is_skip set
  Workers,       \* the worker threads, one per processor
  Report,        \* TRUE iff --text or --html is given
  Undecodable,   \* TRUE iff the output of a command may not be UTF-8
  WorkerMayDie   \* TRUE iff an exception may end a worker (Popen, print)

Jobs == 1 .. NumJobs

ASSUME SizeAssumption ==
  /\ NumJobs \in Nat
  /\ Suites \subseteq Jobs /\ Skips \subseteq Jobs
  /\ IsFiniteSet(Workers)
ASSUME SwitchAssumption == {Report, Undecodable, WorkerMayDie} \subseteq BOOLEAN

VARIABLES
  main,         \* where run_tests() is; "done" and "raised" end it
  put,          \* items put on input_queue so far
  taken,        \* items taken from it so far
  worker,       \* what each worker thread is at, and its job
  job,          \* is_break and returncode of each job object
  output,       \* everything put on output_queue so far
  collected,    \* results taken from it by the main thread
  thread_exit,  \* set by sigint_hook
  ran,          \* exit code of each command and the temporary file it left
  verdict,      \* the line printed for each job
  passed, skipped,
  xml,          \* entries of each job in results.xml
  malformed,    \* TRUE iff results.xml is no longer well formed
  status        \* what run_tests() returned

vars == <<main, put, taken, worker, job, output, collected, thread_exit, ran,
          verdict, passed, skipped, xml, malformed, status>>

mainVars   == <<main, collected, verdict, passed, skipped, xml, malformed, status>>
workerVars == <<taken, worker, job, output, ran>>

\* Exit codes: 0 success, 1 failure, 2 an error valgrind found, and Crashed
\* for every other code.
Crashed == 3
Codes   == 0 .. Crashed
NotRun  == 4

Init ==
  /\ main = "dispatch"
  /\ put = 0 /\ taken = 0
  /\ worker = [w \in Workers |-> [pc |-> "get", job |-> 0]]
  /\ job = [j \in Jobs |-> [is_break |-> FALSE, returncode |-> 0]]
  /\ output = <<>> /\ collected = 0
  /\ thread_exit = FALSE
  /\ ran = [j \in Jobs |-> [exit |-> NotRun, file |-> "none"]]
  /\ verdict = [j \in Jobs |-> "none"]
  /\ passed = 0 /\ skipped = 0
  /\ xml = [j \in Jobs |-> <<>>] /\ malformed = FALSE
  /\ status = "busy"

-----------------------------------------------------------------------------
(***************************************************************************)
(* The main thread.                                                        *)
(***************************************************************************)
\* The loops over suite_list, example_tests and python_tests.
Dispatch ==
  /\ main = "dispatch" /\ put < NumJobs
  /\ put' = put + 1
  /\ UNCHANGED <<mainVars, workerVars, thread_exit>>

\* Fault: a break job more than there are workers.
PutBreakTooMany ==
  /\ main = "dispatch" /\ put >= NumJobs
  /\ IF put <= NumJobs + Cardinality(Workers)
     THEN put' = put + 1 /\ UNCHANGED main
     ELSE main' = "collect" /\ UNCHANGED put
  /\ UNCHANGED <<collected, verdict, passed, skipped, xml, malformed, status,
                 workerVars, thread_exit>>

\* Fault: a break job fewer.
PutBreakTooFew ==
  /\ main = "dispatch" /\ put >= NumJobs
  /\ IF put + 1 < NumJobs + Cardinality(Workers)
     THEN put' = put + 1 /\ UNCHANGED main
     ELSE main' = "collect" /\ UNCHANGED put
  /\ UNCHANGED <<collected, verdict, passed, skipped, xml, malformed, status,
                 workerVars, thread_exit>>

\* One break job for each worker, after every job.
PutBreak ==
  /\ main = "dispatch" /\ put >= NumJobs
  /\ IF put < NumJobs + Cardinality(Workers)
     THEN put' = put + 1 /\ UNCHANGED main
     ELSE main' = "collect" /\ UNCHANGED put
  /\ UNCHANGED <<collected, verdict, passed, skipped, xml, malformed, status,
                 workerVars, thread_exit>>

Verdict(j) ==
  IF j \in Skips THEN "SKIP"
  ELSE CASE job[j].returncode = 0 -> "PASS"
         [] job[j].returncode = 1 -> "FAIL"
         [] job[j].returncode = 2 -> "VALGR"
         [] OTHER                 -> "CRASH"

\* A suite whose command returned 0, 1 or 2 has its results in a file of its own.
CopiesFile(j) == j \in Suites \ Skips /\ job[j].returncode # Crashed

\* Fault: the entry is left to the suite also when it crashed.
EntriesNotFaked(j) ==
  IF j \in Skips \/ j \notin Suites THEN <<Verdict(j)>>
  ELSE IF ran[j].file = "whole" THEN <<"file">> ELSE <<>>

\* What is appended to results.xml; opening a file that is not there raises.
Entries(j) ==
  IF ~CopiesFile(j) THEN <<Verdict(j)>>
  ELSE IF ran[j].file = "whole" THEN <<"file">> ELSE <<>>

OpenFails(j) == CopiesFile(j) /\ ran[j].file = "none"

\* The entry made up for a suite that crashed closes <Result> with </Suite>.
BreaksXml(j) == j \in Suites \ Skips /\ job[j].returncode = Crashed

Collect ==
  /\ main = "collect" /\ collected < NumJobs
  /\ collected < Len(output)
  /\ collected' = collected + 1
  /\ LET j == output[collected + 1] IN
       IF job[j].is_break
       THEN /\ verdict' = [verdict EXCEPT ![j] = "interrupted"]
            /\ UNCHANGED <<main, passed, skipped, xml, malformed, status>>
       ELSE /\ verdict' = [verdict EXCEPT ![j] = Verdict(j)]
            /\ passed'  = IF Verdict(j) = "PASS" THEN passed + 1 ELSE passed
            /\ skipped' = IF Verdict(j) = "SKIP" THEN skipped + 1 ELSE skipped
            /\ xml' = [xml EXCEPT ![j] = @ \o Entries(j)]
            /\ malformed' = (malformed \/ BreaksXml(j))
            /\ main'   = IF OpenFails(j) THEN "raised" ELSE main
            /\ status' = IF OpenFails(j) THEN "raised" ELSE status
  /\ UNCHANGED <<put, workerVars, thread_exit>>

\* Fault: the workers are joined before their results are taken.
FinishUncollected ==
  /\ main = "collect"
  /\ \A w \in Workers : worker[w].pc \in {"exited", "dead"}
  /\ IF Report /\ malformed
     THEN main' = "raised" /\ status' = "raised"
     ELSE /\ main' = "done"
          /\ status' = IF passed + skipped = NumJobs THEN "success" ELSE "failure"
  /\ UNCHANGED <<put, collected, verdict, passed, skipped, xml, malformed,
                 workerVars, thread_exit>>

\* join() of every worker, the end of results.xml, its translation, the result.
Finish ==
  /\ main = "collect" /\ collected = NumJobs
  /\ \A w \in Workers : worker[w].pc \in {"exited", "dead"}
  /\ IF Report /\ malformed
     THEN main' = "raised" /\ status' = "raised"
     ELSE /\ main' = "done"
          /\ status' = IF passed + skipped = NumJobs THEN "success" ELSE "failure"
  /\ UNCHANGED <<put, collected, verdict, passed, skipped, xml, malformed,
                 workerVars, thread_exit>>

sigint_hook ==
  /\ main \in {"dispatch", "collect"} /\ ~thread_exit
  /\ thread_exit' = TRUE
  /\ UNCHANGED <<put, mainVars, workerVars>>

-----------------------------------------------------------------------------
(***************************************************************************)
(* A worker thread: worker_thread.run().                                   *)
(***************************************************************************)
At(w, pc) == worker[w].pc = pc

Becomes(w, pc, j) == worker' = [worker EXCEPT ![w] = [pc |-> pc, job |-> j]]

\* input_queue.get(): a break job ends the thread.
Get(w) ==
  /\ At(w, "get") /\ taken < put
  /\ taken' = taken + 1
  /\ IF taken' > NumJobs THEN Becomes(w, "exited", 0) ELSE Becomes(w, "got", taken')
  /\ UNCHANGED <<put, mainVars, job, output, thread_exit, ran>>

\* Fault: no `continue' after the job has been handed back.
HandBackAndRun(w) ==
  /\ At(w, "got") /\ thread_exit
  /\ job' = [job EXCEPT ![worker[w].job].is_break = TRUE]
  /\ output' = Append(output, worker[w].job)
  /\ Becomes(w, "running", worker[w].job)
  /\ UNCHANGED <<put, taken, mainVars, thread_exit, ran>>

\* After an interrupt the job is handed back as a break job, not run.
HandBack(w) ==
  /\ At(w, "got") /\ thread_exit
  /\ job' = [job EXCEPT ![worker[w].job].is_break = TRUE]
  /\ output' = Append(output, worker[w].job)
  /\ Becomes(w, "get", 0)
  /\ UNCHANGED <<put, taken, mainVars, thread_exit, ran>>

Skip(w) ==
  /\ At(w, "got") /\ ~thread_exit /\ worker[w].job \in Skips
  /\ output' = Append(output, worker[w].job)
  /\ Becomes(w, "get", 0)
  /\ UNCHANGED <<put, taken, mainVars, job, thread_exit, ran>>

Launch(w) ==
  /\ At(w, "got") /\ ~thread_exit /\ worker[w].job \notin Skips
  /\ Becomes(w, "running", worker[w].job)
  /\ UNCHANGED <<put, taken, mainVars, job, output, thread_exit, ran>>

\* A suite that runs to completion leaves its results; one that crashes leaves
\* what it had written, or nothing if it never opened the file.
Outcomes(j) ==
  IF j \in Suites
  THEN [exit : 0 .. 2, file : {"whole"}] \cup [exit : {Crashed}, file : {"none", "partial"}]
  ELSE [exit : Codes, file : {"none"}]

\* Fault: output that cannot be decoded is taken for none.
ReturnCodeUndecoded(code, decoded) == IF decoded THEN code ELSE 0

\* Output that it cannot decode makes run_job_synchronously() return 1.
ReturnCode(code, decoded) == IF decoded THEN code ELSE 1

\* run_job_synchronously() returns.
Complete(w) ==
  /\ At(w, "running")
  /\ \E outcome \in Outcomes(worker[w].job), decoded \in {TRUE, ~Undecodable} :
       /\ ran' = [ran EXCEPT ![worker[w].job] = outcome]
       /\ job' = [job EXCEPT ![worker[w].job].returncode = ReturnCode(outcome.exit, decoded)]
  /\ output' = Append(output, worker[w].job)
  /\ Becomes(w, "get", 0)
  /\ UNCHANGED <<put, taken, mainVars, thread_exit>>

\* An exception in run() ends the thread, and its job is lost.
Die(w) ==
  /\ WorkerMayDie /\ At(w, "running")
  /\ Becomes(w, "dead", worker[w].job)
  /\ UNCHANGED <<put, taken, mainVars, job, output, thread_exit, ran>>

Work(w) == Get(w) \/ HandBack(w) \/ Skip(w) \/ Launch(w) \/ Complete(w)

Main == Dispatch \/ PutBreak \/ Collect \/ Finish

Next == Main \/ sigint_hook \/ (\E w \in Workers : Work(w) \/ Die(w))

Spec == Init /\ [][Next]_vars

\* Every thread is scheduled and every command ends.
FairSpec == Spec /\ WF_vars(Main) /\ \A w \in Workers : WF_vars(Work(w))

-----------------------------------------------------------------------------
(***************************************************************************)
(* Properties.                                                             *)
(***************************************************************************)
\* Every variable keeps its type.
TypeOK ==
  /\ main \in {"dispatch", "collect", "done", "raised"}
  /\ put \in 0 .. NumJobs + Cardinality(Workers)
  /\ taken \in 0 .. put
  /\ worker \in [Workers -> [pc : {"get", "got", "running", "exited", "dead"},
                             job : 0 .. NumJobs]]
  /\ job \in [Jobs -> [is_break : BOOLEAN, returncode : Codes]]
  /\ output \in Seq(Jobs)
  /\ collected \in 0 .. NumJobs
  /\ thread_exit \in BOOLEAN
  /\ ran \in [Jobs -> [exit : Codes \cup {NotRun}, file : {"none", "partial", "whole"}]]
  /\ verdict \in [Jobs -> {"none", "PASS", "FAIL", "VALGR", "CRASH", "SKIP", "interrupted"}]
  /\ passed \in 0 .. NumJobs /\ skipped \in 0 .. NumJobs
  /\ xml \in [Jobs -> Seq({"file", "PASS", "FAIL", "VALGR", "CRASH", "SKIP"})]
  /\ malformed \in BOOLEAN
  /\ status \in {"busy", "success", "failure", "raised"}

Held(w) == worker[w].pc \in {"got", "running", "dead"}

\* A job that has been taken from input_queue is with one worker or in
\* output_queue, once: whatever the interleaving, and whenever the interrupt
\* comes, no result is counted twice and only a dead worker's is missing.
OncePerJob ==
  /\ \A i, k \in 1 .. Len(output) : output[i] = output[k] => i = k
  /\ \A w, v \in Workers : Held(w) /\ Held(v) /\ worker[w].job = worker[v].job => w = v
  /\ \A j \in Jobs :
       (j <= taken) <=> \/ \E i \in 1 .. Len(output) : output[i] = j
                        \/ \E w \in Workers : Held(w) /\ worker[w].job = j
  /\ \A w \in Workers, i \in 1 .. Len(output) : Held(w) => output[i] # worker[w].job

\* A worker leaves only when every job has been taken (comment: each one exits
\* when it sees its is_break task): no job is left without a worker.
NoJobAbandoned == (\E w \in Workers : At(w, "exited")) => taken >= NumJobs

\* A session that returns success ran every test that was not to be skipped,
\* each to exit code 0: an interrupt, a lost job or undecodable output never
\* looks like success.
SuccessIsReal ==
  status = "success" => \A j \in Jobs \ Skips : ran[j].exit = 0

\* "interrupted" is said of a job only if its command was never started.
InterruptedNeverRan ==
  \A j \in Jobs : verdict[j] = "interrupted" => thread_exit /\ ran[j].exit = NotRun

\* When all results are in, results.xml has an entry for every test that was
\* not interrupted, except for a suite that crashed with undecodable output:
\* it counts as a failure, and what it left of its file is copied.
EntryPerTest ==
  main # "raised" /\ collected = NumJobs =>
    \A j \in Jobs : verdict[j] # "interrupted" =>
      \/ Len(xml[j]) > 0
      \/ ran[j] = [exit |-> Crashed, file |-> "partial"] /\ verdict[j] = "FAIL"

\* The threads and queues implement TestSession.
Session == INSTANCE TestSession
SessionImplemented == Session!Spec

\* Every session comes to an end, interrupted or not, unless a worker died: the
\* main thread then waits for a result that never comes.
Ends == <>(main \in {"done", "raised"} \/ \E w \in Workers : At(w, "dead"))
==============================================================================
