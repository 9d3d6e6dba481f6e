--------------------------- MODULE TestRunnerProofs ---------------------------
(***************************************************************************)
(* Theorems about TestRunner, for every number of jobs, every set of       *)
(* worker threads, every choice of suites and of jobs to skip.             *)
(***************************************************************************)
EXTENDS TestRunner, FiniteSetTheorems, SequenceTheorems, TLAPS

-----------------------------------------------------------------------------
(***************************************************************************)
(* The inductive invariant.                                                *)
(***************************************************************************)
Delivered(j) == \E i \in 1 .. Len(output) : output[i] = j
Reported(j)  == \E i \in 1 .. collected : output[i] = j

HeldAreJobs == \A w \in Workers : Held(w) => worker[w].job \in Jobs

\* The four parts of OncePerJob.
OutputOnce  == \A i, k \in 1 .. Len(output) : output[i] = output[k] => i = k
HeldOnce    ==
  \A w, v \in Workers : Held(w) /\ Held(v) /\ worker[w].job = worker[v].job => w = v
TakenSomewhere ==
  \A j \in Jobs : (j <= taken) <=> \/ Delivered(j)
                                   \/ \E w \in Workers : Held(w) /\ worker[w].job = j
HeldNotDelivered == \A w \in Workers : Held(w) => ~Delivered(worker[w].job)

\* A job that has not been delivered is as it was put on input_queue.
PendingUntouched ==
  \A j \in Jobs : ~Delivered(j) => ~job[j].is_break /\ ran[j].exit = NotRun

\* What a delivered job says is what happened to it.
DeliveredTruth ==
  \A j \in Jobs : Delivered(j) =>
    /\ job[j].is_break => thread_exit /\ ran[j].exit = NotRun
    /\ ~job[j].is_break /\ j \notin Skips =>
         /\ job[j].returncode \in {ran[j].exit, 1}
         /\ ran[j].file = "partial" => ran[j].exit = Crashed

\* The verdicts are those of the results collected so far.
VerdictTruth ==
  /\ collected <= Len(output)
  /\ \A j \in Jobs : verdict[j] =
       IF ~Reported(j) THEN "none"
       ELSE IF job[j].is_break THEN "interrupted" ELSE Verdict(j)

\* The counters agree with the verdicts, without counting them.
CountsAgree ==
  /\ passed + skipped <= collected
  /\ passed + skipped = collected <=>
       \A i \in 1 .. collected : verdict[output[i]] \in {"PASS", "SKIP"}

EntriesAgree ==
  main # "raised" =>
    \A j \in Jobs : Reported(j) /\ ~job[j].is_break =>
      \/ Len(xml[j]) > 0
      \/ ran[j].file = "partial" /\ verdict[j] = "FAIL" /\ j \notin Skips

StatusAgrees ==
  /\ status = "busy" <=> main \in {"dispatch", "collect"}
  /\ status = "raised" <=> main = "raised"
  /\ main = "done" => collected = NumJobs
  /\ status = "success" => passed + skipped = collected

Inv ==
  /\ TypeOK /\ HeldAreJobs
  /\ OutputOnce /\ HeldOnce /\ TakenSomewhere /\ HeldNotDelivered
  /\ NoJobAbandoned
  /\ PendingUntouched /\ DeliveredTruth /\ VerdictTruth
  /\ CountsAgree /\ EntriesAgree /\ StatusAgrees

-----------------------------------------------------------------------------
(***************************************************************************)
(* Lemmas about the data.                                                  *)
(***************************************************************************)
LEMMA WorkersFinite == Cardinality(Workers) \in Nat
  BY FS_CardinalityType, SizeAssumption

\* What the main thread prints for a job is one of the five words.
LEMMA VerdictType ==
  ASSUME NEW j \in Jobs
  PROVE  Verdict(j) \in {"PASS", "FAIL", "VALGR", "CRASH", "SKIP"}
  BY DEF Verdict

\* A queue of distinct jobs as long as the list of jobs holds every one of them.
LEMMA AllDelivered ==
  ASSUME NumJobs \in Nat, NEW s \in Seq(Jobs), Len(s) >= NumJobs,
         \A i, k \in 1 .. Len(s) : s[i] = s[k] => i = k
  PROVE  \A j \in Jobs : \E i \in 1 .. NumJobs : s[i] = j
<1> DEFINE f == [i \in Jobs |-> s[i]]
<1>1. \A i \in Jobs : i \in 1 .. Len(s)
  BY DEF Jobs
<1>2. f \in [Jobs -> Jobs]
  BY <1>1, ElementOfSeq
<1>3. \A i, k \in Jobs : f[i] = f[k] => i = k
  BY <1>1
<1>4. f \in Injection(Jobs, Jobs)
  BY <1>2, <1>3 DEF Injection, IsInjective
<1>5. IsFiniteSet(Jobs)
  BY FS_Interval DEF Jobs
<1>6. f \in Surjection(Jobs, Jobs)
  BY <1>4, <1>5, FS_Injection
<1>7. \A j \in Jobs : \E i \in Jobs : f[i] = j
  BY <1>6 DEF Surjection
<1> QED BY <1>7 DEF Jobs

\* Appending a job that is not there yet keeps a queue free of duplicates.
LEMMA AppendOnce ==
  ASSUME NEW s \in Seq(Jobs), NEW j \in Jobs,
         \A i, k \in 1 .. Len(s) : s[i] = s[k] => i = k,
         ~ \E i \in 1 .. Len(s) : s[i] = j
  PROVE  /\ Append(s, j) \in Seq(Jobs)
         /\ Len(Append(s, j)) = Len(s) + 1
         /\ \A i \in 1 .. Len(s) : Append(s, j)[i] = s[i]
         /\ Append(s, j)[Len(s) + 1] = j
         /\ \A i, k \in 1 .. Len(Append(s, j)) : Append(s, j)[i] = Append(s, j)[k] => i = k
         /\ \A x : (\E i \in 1 .. Len(Append(s, j)) : Append(s, j)[i] = x)
                    <=> (\E i \in 1 .. Len(s) : s[i] = x) \/ x = j
<1> DEFINE t == Append(s, j)
<1>1. /\ t \in Seq(Jobs) /\ Len(t) = Len(s) + 1 /\ Len(s) \in Nat
      /\ \A i \in 1 .. Len(s) : t[i] = s[i]
      /\ t[Len(s) + 1] = j
  BY AppendProperties, LenProperties
<1> HIDE DEF t
<1>2. \A i \in 1 .. Len(t) : i \in 1 .. Len(s) \/ i = Len(s) + 1
  BY <1>1
<1>3. \A i, k \in 1 .. Len(t) : t[i] = t[k] => i = k
  BY <1>1, <1>2
<1>4. \A x : (\E i \in 1 .. Len(t) : t[i] = x) <=> (\E i \in 1 .. Len(s) : s[i] = x) \/ x = j
  BY <1>1, <1>2
<1> QED BY <1>1, <1>3, <1>4 DEF t

-----------------------------------------------------------------------------
LEMMA InitInv == Init => Inv
<1> SUFFICES ASSUME Init PROVE Inv
  OBVIOUS
<1>0. /\ <<>> \in Seq(Jobs)
      /\ <<>> \in Seq({"file", "PASS", "FAIL", "VALGR", "CRASH", "SKIP"})
  BY EmptySeq
<1>1. TypeOK
  <2>1. put \in 0 .. NumJobs + Cardinality(Workers) /\ taken \in 0 .. put
    BY WorkersFinite, SizeAssumption DEF Init
  <2>2. /\ worker \in [Workers -> [pc : {"get", "got", "running", "exited", "dead"},
                                 job : 0 .. NumJobs]]
        /\ collected \in 0 .. NumJobs /\ passed \in 0 .. NumJobs /\ skipped \in 0 .. NumJobs
    BY SizeAssumption DEF Init
  <2>3. /\ job \in [Jobs -> [is_break : BOOLEAN, returncode : Codes]]
        /\ ran \in [Jobs -> [exit : Codes \cup {NotRun}, file : {"none", "partial", "whole"}]]
    BY DEF Init, Codes, Crashed, NotRun
  <2> QED BY <1>0, <2>1, <2>2, <2>3 DEF Init, TypeOK
<1>2. Len(output) = 0 /\ collected = 0 /\ (\A w \in Workers : ~Held(w))
  BY EmptySeq DEF Init, Held
<1>3. \A j \in Jobs : ~Delivered(j) /\ ~Reported(j) /\ ~(j <= taken)
  BY <1>2, SizeAssumption DEF Delivered, Reported, Init, Jobs
<1>4. NoJobAbandoned
  BY DEF NoJobAbandoned, At, Init
<1> QED BY <1>1, <1>2, <1>3, <1>4
  DEF Inv, Init, HeldAreJobs, OutputOnce, HeldOnce, TakenSomewhere, HeldNotDelivered,
      PendingUntouched, DeliveredTruth, VerdictTruth, CountsAgree, EntriesAgree, StatusAgrees

\* Steps that leave the results and the job objects alone.
LEMMA DispatchInv == Inv /\ (Dispatch \/ PutBreak) => Inv'
<1> SUFFICES ASSUME Inv, Dispatch \/ PutBreak PROVE Inv'
  OBVIOUS
<1> USE DEF Inv
<1>0. /\ put' \in 0 .. NumJobs + Cardinality(Workers) /\ put' >= put
      /\ main' \in {"dispatch", "collect"} /\ main = "dispatch"
      /\ UNCHANGED <<mainVars, workerVars, thread_exit>> \/ main' = "collect"
      /\ UNCHANGED <<collected, verdict, passed, skipped, xml, malformed, status,
                     workerVars, thread_exit>>
  BY WorkersFinite, SizeAssumption DEF Dispatch, PutBreak, TypeOK, mainVars
<1>1. TypeOK'
  BY <1>0, WorkersFinite, SizeAssumption DEF TypeOK, workerVars
<1>2. (HeldAreJobs /\ OutputOnce /\ HeldOnce /\ TakenSomewhere /\ HeldNotDelivered)'
  BY <1>0 DEF workerVars, HeldAreJobs, OutputOnce, HeldOnce, TakenSomewhere,
              HeldNotDelivered, Held, Delivered
<1>3. (NoJobAbandoned /\ PendingUntouched /\ DeliveredTruth)'
  BY <1>0 DEF workerVars, NoJobAbandoned, At, PendingUntouched, DeliveredTruth, Delivered
<1>4. (VerdictTruth /\ CountsAgree /\ EntriesAgree /\ StatusAgrees)'
  BY <1>0 DEF workerVars, VerdictTruth, CountsAgree, EntriesAgree, StatusAgrees,
              Reported, Verdict
<1> QED BY <1>1, <1>2, <1>3, <1>4

LEMMA InterruptInv == Inv /\ sigint_hook => Inv'
<1> SUFFICES ASSUME Inv, sigint_hook PROVE Inv'
  OBVIOUS
<1> USE DEF Inv, sigint_hook, mainVars, workerVars
<1>1. TypeOK'
  BY DEF TypeOK
<1>2. (HeldAreJobs /\ OutputOnce /\ HeldOnce /\ TakenSomewhere /\ HeldNotDelivered)'
  BY DEF HeldAreJobs, OutputOnce, HeldOnce, TakenSomewhere, HeldNotDelivered, Held, Delivered
<1>3. (NoJobAbandoned /\ PendingUntouched /\ DeliveredTruth)'
  BY DEF NoJobAbandoned, At, PendingUntouched, DeliveredTruth, Delivered
<1>4. (VerdictTruth /\ CountsAgree /\ EntriesAgree /\ StatusAgrees)'
  BY DEF VerdictTruth, CountsAgree, EntriesAgree, StatusAgrees, Reported, Verdict
<1> QED BY <1>1, <1>2, <1>3, <1>4

LEMMA FinishInv == Inv /\ Finish => Inv'
<1> SUFFICES ASSUME Inv, Finish PROVE Inv'
  OBVIOUS
<1> USE DEF Inv
<1>0. /\ main = "collect" /\ collected = NumJobs
      /\ \/ main' = "raised" /\ status' = "raised"
         \/ main' = "done" /\ status' = "success" /\ passed + skipped = NumJobs
         \/ main' = "done" /\ status' = "failure"
      /\ UNCHANGED <<put, collected, verdict, passed, skipped, xml, malformed,
                     workerVars, thread_exit>>
  BY DEF Finish
<1>1. TypeOK'
  BY <1>0 DEF TypeOK, workerVars
<1>2. (HeldAreJobs /\ OutputOnce /\ HeldOnce /\ TakenSomewhere /\ HeldNotDelivered)'
  BY <1>0 DEF workerVars, HeldAreJobs, OutputOnce, HeldOnce, TakenSomewhere,
              HeldNotDelivered, Held, Delivered
<1>3. (NoJobAbandoned /\ PendingUntouched /\ DeliveredTruth)'
  BY <1>0 DEF workerVars, NoJobAbandoned, At, PendingUntouched, DeliveredTruth, Delivered
<1>4. (VerdictTruth /\ CountsAgree)'
  BY <1>0 DEF workerVars, VerdictTruth, CountsAgree, Reported, Verdict
<1>5. (EntriesAgree /\ StatusAgrees)'
  BY <1>0 DEF workerVars, EntriesAgree, StatusAgrees, Reported
<1> QED BY <1>1, <1>2, <1>3, <1>4, <1>5

-----------------------------------------------------------------------------
(***************************************************************************)
(* Steps of a worker thread.                                               *)
(***************************************************************************)
LEMMA GetInv ==
  ASSUME Inv, NEW w \in Workers, Get(w)
  PROVE  Inv'
<1> USE DEF Inv
<1>a. /\ NumJobs \in Nat /\ taken \in Nat /\ put \in Nat /\ taken <= put
      /\ taken < put /\ taken' = taken + 1
      /\ worker \in [Workers -> [pc : {"get", "got", "running", "exited", "dead"},
                                job : 0 .. NumJobs]]
      /\ worker[w].pc = "get"
      /\ UNCHANGED <<put, mainVars, job, output, thread_exit, ran>>
  BY SizeAssumption, WorkersFinite DEF Get, At, TypeOK
<1>b. PICK new \in [pc : {"exited", "got"}, job : 0 .. NumJobs] :
        /\ worker' = [worker EXCEPT ![w] = new]
        /\ \/ taken' > NumJobs /\ new.pc = "exited"
           \/ taken' <= NumJobs /\ new.pc = "got" /\ new.job = taken'
  <2>1. CASE taken' > NumJobs
    BY <1>a, <2>1 DEF Get, Becomes
  <2>2. CASE taken' <= NumJobs
    <3>1. [pc |-> "got", job |-> taken'] \in [pc : {"exited", "got"}, job : 0 .. NumJobs]
      BY <1>a, <2>2
    <3> QED BY <1>a, <2>2, <3>1 DEF Get, Becomes
  <2> QED BY <1>a, <2>1, <2>2
<1>0. /\ taken' = taken + 1 /\ taken' \in 0 .. put /\ taken \in Nat /\ NumJobs \in Nat
      /\ \A v \in Workers : v # w => worker'[v] = worker[v]
      /\ ~Held(w) /\ worker'[w] = new
      /\ \/ taken' > NumJobs /\ new.pc = "exited"
         \/ taken' <= NumJobs /\ new.pc = "got" /\ new.job = taken'
      /\ worker' \in [Workers -> [pc : {"get", "got", "running", "exited", "dead"},
                                 job : 0 .. NumJobs]]
      /\ UNCHANGED <<put, mainVars, job, output, thread_exit, ran>>
  BY <1>a, <1>b DEF Held
<1>1. TypeOK'
  BY <1>0 DEF TypeOK, mainVars
<1>2. (\E i \in 1 .. Len(output) : output[i] = taken') => FALSE
  BY <1>0 DEF TakenSomewhere, Delivered, TypeOK, Jobs
<1>3. \A v \in Workers : Held(v) => worker[v].job # taken'
  BY <1>0 DEF TakenSomewhere, HeldAreJobs, Jobs
<1>4. HeldAreJobs'
  BY <1>0 DEF HeldAreJobs, Held, Jobs
<1>5. (OutputOnce /\ HeldOnce /\ HeldNotDelivered)'
  BY <1>0, <1>2, <1>3 DEF OutputOnce, HeldOnce, HeldNotDelivered, Held, Delivered
<1>6. TakenSomewhere'
  BY <1>0, <1>2, <1>3 DEF TakenSomewhere, Held, Delivered, Jobs
<1>7. NoJobAbandoned'
  BY <1>0 DEF NoJobAbandoned, At
<1>8. (PendingUntouched /\ DeliveredTruth)'
  BY <1>0 DEF mainVars, PendingUntouched, DeliveredTruth, Delivered
<1>9. (VerdictTruth /\ CountsAgree /\ EntriesAgree /\ StatusAgrees)'
  BY <1>0 DEF mainVars, VerdictTruth, CountsAgree, EntriesAgree, StatusAgrees, Reported, Verdict
<1> QED BY <1>1, <1>4, <1>5, <1>6, <1>7, <1>8, <1>9

\* A worker that starts its command, or dies under it, keeps its job.
LEMMA KeepInv ==
  ASSUME Inv, NEW w \in Workers, Launch(w) \/ Die(w)
  PROVE  Inv'
<1> USE DEF Inv
<1>a. /\ worker \in [Workers -> [pc : {"get", "got", "running", "exited", "dead"},
                                job : 0 .. NumJobs]]
      /\ worker[w].pc \in {"got", "running"}
      /\ UNCHANGED <<put, taken, mainVars, job, output, thread_exit, ran>>
  BY DEF Launch, Die, At, TypeOK
<1>b. PICK new \in [pc : {"running", "dead"}, job : 0 .. NumJobs] :
        worker' = [worker EXCEPT ![w] = new] /\ new.job = worker[w].job
  BY <1>a DEF Launch, Die, Becomes
<1>0. /\ \A v \in Workers : v # w => worker'[v] = worker[v]
      /\ worker'[w] = new /\ worker'[w].job = worker[w].job
      /\ worker[w].pc \in {"got", "running"} /\ worker'[w].pc \in {"running", "dead"}
      /\ worker' \in [Workers -> [pc : {"get", "got", "running", "exited", "dead"},
                                 job : 0 .. NumJobs]]
      /\ UNCHANGED <<put, taken, mainVars, job, output, thread_exit, ran>>
  BY <1>a, <1>b
<1>1. TypeOK'
  BY <1>0 DEF TypeOK, mainVars
<1>2. \A v \in Workers : Held(v)' = Held(v) /\ worker'[v].job = worker[v].job
  BY <1>0 DEF Held
<1>3. (HeldAreJobs /\ OutputOnce /\ HeldOnce /\ TakenSomewhere /\ HeldNotDelivered)'
  BY <1>0, <1>2 DEF HeldAreJobs, OutputOnce, HeldOnce, TakenSomewhere, HeldNotDelivered, Delivered
<1>4. NoJobAbandoned'
  BY <1>0 DEF NoJobAbandoned, At
<1>5. (PendingUntouched /\ DeliveredTruth)'
  BY <1>0 DEF mainVars, PendingUntouched, DeliveredTruth, Delivered
<1>6. (VerdictTruth /\ CountsAgree /\ EntriesAgree /\ StatusAgrees)'
  BY <1>0 DEF mainVars, VerdictTruth, CountsAgree, EntriesAgree, StatusAgrees, Reported, Verdict
<1> QED BY <1>1, <1>3, <1>4, <1>5, <1>6

\* A worker that puts its job on output_queue, the job's fields being set to
\* what happened to it.
LEMMA DeliverInv ==
  ASSUME Inv, NEW w \in Workers, NEW j \in Jobs,
         Held(w), worker[w].job = j,
         output' = Append(output, j),
         worker' = [worker EXCEPT ![w] = [pc |-> "get", job |-> 0]],
         job' \in [Jobs -> [is_break : BOOLEAN, returncode : Codes]],
         ran' \in [Jobs -> [exit : Codes \cup {NotRun}, file : {"none", "partial", "whole"}]],
         \A k \in Jobs \ {j} : job'[k] = job[k] /\ ran'[k] = ran[k],
         job'[j].is_break => thread_exit /\ ran'[j].exit = NotRun,
         ~job'[j].is_break /\ j \notin Skips =>
           /\ job'[j].returncode \in {ran'[j].exit, 1}
           /\ ran'[j].file = "partial" => ran'[j].exit = Crashed,
         UNCHANGED <<put, taken, mainVars, thread_exit>>
  PROVE  Inv'
<1> USE DEF Inv
<1>0. /\ output \in Seq(Jobs) /\ Len(output) \in Nat
      /\ ~ \E i \in 1 .. Len(output) : output[i] = j
      /\ \A i, k \in 1 .. Len(output) : output[i] = output[k] => i = k
  BY LenProperties DEF TypeOK, HeldNotDelivered, Delivered, OutputOnce
<1>1. /\ output' \in Seq(Jobs)
      /\ Len(output') = Len(output) + 1
      /\ \A i \in 1 .. Len(output) : output'[i] = output[i]
      /\ output'[Len(output) + 1] = j
      /\ \A i, k \in 1 .. Len(output') : output'[i] = output'[k] => i = k
      /\ \A x : (\E i \in 1 .. Len(output') : output'[i] = x)
                 <=> (\E i \in 1 .. Len(output) : output[i] = x) \/ x = j
  BY <1>0, AppendOnce
<1>2. /\ \A v \in Workers : v # w => worker'[v] = worker[v]
      /\ worker'[w] = [pc |-> "get", job |-> 0]
      /\ worker' \in [Workers -> [pc : {"get", "got", "running", "exited", "dead"},
                                 job : 0 .. NumJobs]]
  BY SizeAssumption DEF TypeOK
<1>3. TypeOK'
  BY <1>1, <1>2 DEF TypeOK, mainVars
<1>4. \A k \in Jobs : Delivered(k)' <=> Delivered(k) \/ k = j
  BY <1>1 DEF Delivered
<1>5. \A v \in Workers : Held(v)' <=> Held(v) /\ v # w
  BY <1>2 DEF Held
<1>6. (HeldAreJobs /\ HeldOnce)'
  BY <1>2, <1>5 DEF HeldAreJobs, HeldOnce
<1>7. (OutputOnce)'
  BY <1>1 DEF OutputOnce
<1>8. (HeldNotDelivered)'
  <2> SUFFICES ASSUME NEW v \in Workers, Held(v)' PROVE ~Delivered(worker[v].job)'
    BY <1>2, <1>5 DEF HeldNotDelivered, Delivered
  <2>1. Held(v) /\ v # w /\ worker[v].job \in Jobs /\ worker[v].job # j
        /\ worker'[v].job = worker[v].job
    BY <1>2, <1>5 DEF HeldAreJobs, HeldOnce
  <2>2. ~Delivered(worker[v].job)
    BY <2>1 DEF HeldNotDelivered
  <2> QED BY <1>1, <2>1, <2>2 DEF Delivered
<1>9. TakenSomewhere'
  <2> SUFFICES ASSUME NEW k \in Jobs
               PROVE (k <= taken) <=> \/ Delivered(k)'
                                      \/ \E v \in Workers : Held(v)' /\ worker'[v].job = k
    BY DEF TakenSomewhere, Delivered, Held
  <2>1. (k <= taken) <=> \/ Delivered(k)
                         \/ \E v \in Workers : Held(v) /\ worker[v].job = k
    BY DEF TakenSomewhere
  <2>2. (\E v \in Workers : Held(v) /\ worker[v].job = k)
          <=> (k = j \/ \E v \in Workers : Held(v)' /\ worker'[v].job = k)
    BY <1>2, <1>5
  <2> QED BY <1>4, <2>1, <2>2
<1>10. NoJobAbandoned'
  BY <1>2 DEF NoJobAbandoned, At
<1>11. (PendingUntouched /\ DeliveredTruth)'
  <2>1. PendingUntouched'
    BY <1>4 DEF PendingUntouched, Delivered
  <2>2. DeliveredTruth'
    BY <1>4 DEF DeliveredTruth, Delivered
  <2> QED BY <2>1, <2>2
<1>12. collected \in Nat /\ collected <= Len(output) /\ collected' = collected
       /\ \A i \in 1 .. collected : output'[i] = output[i] /\ output[i] \in Jobs
                                   /\ output[i] # j
  BY <1>0, <1>1, ElementOfSeq DEF TypeOK, VerdictTruth, mainVars
<1>13. \A k \in Jobs : Reported(k)' <=> Reported(k)
  BY <1>12 DEF Reported
<1>14. ~Reported(j)
  BY <1>12 DEF Reported
<1>15. VerdictTruth'
  BY <1>1, <1>12, <1>13, <1>14 DEF VerdictTruth, Verdict, mainVars
<1>16. CountsAgree'
  BY <1>12 DEF CountsAgree, mainVars
<1>17. EntriesAgree'
  BY <1>13, <1>14 DEF EntriesAgree, mainVars
<1>18. StatusAgrees'
  BY DEF StatusAgrees, mainVars
<1> QED BY <1>3, <1>6, <1>7, <1>8, <1>9, <1>10, <1>11, <1>15, <1>16, <1>17, <1>18

LEMMA WorkerInv ==
  ASSUME Inv, NEW w \in Workers, Work(w) \/ Die(w)
  PROVE  Inv'
<1>1. ASSUME Held(w) PROVE worker[w].job \in Jobs /\ ~Delivered(worker[w].job)
  BY <1>1 DEF Inv, HeldAreJobs, HeldNotDelivered
<1>2. /\ job \in [Jobs -> [is_break : BOOLEAN, returncode : Codes]]
      /\ ran \in [Jobs -> [exit : Codes \cup {NotRun}, file : {"none", "partial", "whole"}]]
  BY DEF Inv, TypeOK
<1>3. CASE HandBack(w)
  <2>1. Held(w) /\ thread_exit
    BY <1>3 DEF HandBack, At, Held
  <2>2. ran[worker[w].job].exit = NotRun /\ worker[w].job \in Jobs
    BY <1>1, <2>1 DEF Inv, PendingUntouched
  <2>3. /\ job' \in [Jobs -> [is_break : BOOLEAN, returncode : Codes]]
        /\ job'[worker[w].job].is_break
        /\ \A k \in Jobs \ {worker[w].job} : job'[k] = job[k]
    BY <1>2, <1>3, <2>2 DEF HandBack
  <2> QED BY <1>2, <1>3, <2>1, <2>2, <2>3, DeliverInv DEF HandBack, Becomes
<1>4. CASE Skip(w)
  <2>1. Held(w) /\ worker[w].job \in Skips
    BY <1>4 DEF Skip, At, Held
  <2>2. ~job[worker[w].job].is_break /\ worker[w].job \in Jobs
    BY <1>1, <2>1 DEF Inv, PendingUntouched
  <2> QED BY <1>2, <1>4, <2>1, <2>2, DeliverInv DEF Skip, Becomes
<1>5. CASE Complete(w)
  <2>1. Held(w)
    BY <1>5 DEF Complete, At, Held
  <2>2. ~job[worker[w].job].is_break /\ worker[w].job \in Jobs
    BY <1>1, <2>1 DEF Inv, PendingUntouched
  <2>3. PICK outcome \in Outcomes(worker[w].job), decoded \in {TRUE, ~Undecodable} :
          /\ ran' = [ran EXCEPT ![worker[w].job] = outcome]
          /\ job' = [job EXCEPT ![worker[w].job].returncode =
                                   IF decoded THEN outcome.exit ELSE 1]
    BY <1>5 DEF Complete, ReturnCode
  <2>4. /\ outcome \in [exit : Codes \cup {NotRun}, file : {"none", "partial", "whole"}]
        /\ outcome.exit \in Codes /\ 1 \in Codes
        /\ outcome.file = "partial" => outcome.exit = Crashed
    BY <2>3 DEF Outcomes, Codes, Crashed
  <2>5. /\ job' \in [Jobs -> [is_break : BOOLEAN, returncode : Codes]]
        /\ ~job'[worker[w].job].is_break
        /\ job'[worker[w].job].returncode \in {outcome.exit, 1}
        /\ \A k \in Jobs \ {worker[w].job} : job'[k] = job[k]
    BY <1>2, <2>2, <2>3, <2>4
  <2>6. /\ ran' \in [Jobs -> [exit : Codes \cup {NotRun}, file : {"none", "partial", "whole"}]]
        /\ ran'[worker[w].job] = outcome
        /\ \A k \in Jobs \ {worker[w].job} : ran'[k] = ran[k]
    BY <1>2, <2>2, <2>3, <2>4
  <2> QED BY <1>5, <2>1, <2>2, <2>4, <2>5, <2>6, DeliverInv DEF Complete, Becomes
<1> QED BY <1>3, <1>4, <1>5, GetInv, KeepInv DEF Work

-----------------------------------------------------------------------------
(***************************************************************************)
(* The main thread takes a result.                                         *)
(***************************************************************************)
LEMMA CollectFacts ==
  ASSUME Inv, Collect
  PROVE  /\ collected \in Nat /\ collected' = collected + 1
         /\ collected < Len(output) /\ collected < NumJobs /\ NumJobs \in Nat
         /\ output[collected'] \in Jobs
         /\ \A i \in 1 .. collected : output[i] \in Jobs /\ output[i] # output[collected']
         /\ \A j \in Jobs : Reported(j)' <=> Reported(j) \/ j = output[collected']
         /\ ~Reported(output[collected'])
         /\ verdict[output[collected']] = "none"
         /\ UNCHANGED <<put, workerVars, thread_exit>>
<1>1. /\ collected \in Nat /\ collected' = collected + 1
      /\ collected < Len(output) /\ collected < NumJobs /\ NumJobs \in Nat
      /\ output \in Seq(Jobs) /\ Len(output) \in Nat
      /\ output' = output /\ UNCHANGED <<put, workerVars, thread_exit>>
  BY SizeAssumption, LenProperties DEF Inv, TypeOK, Collect, workerVars
<1>2. /\ \A i \in 1 .. collected' : output[i] \in Jobs
      /\ \A i \in 1 .. collected : output[i] # output[collected']
  BY <1>1, ElementOfSeq DEF Inv, OutputOnce
<1>3. \A j \in Jobs : Reported(j)' <=> Reported(j) \/ j = output[collected']
  BY <1>1 DEF Reported
<1>4. ~Reported(output[collected'])
  BY <1>1, <1>2 DEF Reported
<1> QED BY <1>1, <1>2, <1>3, <1>4 DEF Inv, VerdictTruth

LEMMA CollectInv == Inv /\ Collect => Inv'
<1> SUFFICES ASSUME Inv, Collect PROVE Inv'
  OBVIOUS
<1>0. PICK j \in Jobs : j = output[collected']
  BY CollectFacts
<1>1. /\ collected \in Nat /\ collected' = collected + 1
      /\ collected < Len(output) /\ collected < NumJobs /\ NumJobs \in Nat
      /\ \A i \in 1 .. collected : output[i] \in Jobs /\ output[i] # j
      /\ \A k \in Jobs : Reported(k)' <=> Reported(k) \/ k = j
      /\ ~Reported(j) /\ verdict[j] = "none" /\ output[collected + 1] = j
      /\ UNCHANGED <<put, taken, worker, job, output, ran, thread_exit>>
  BY <1>0, CollectFacts DEF workerVars
<1>2. PICK v \in {"PASS", "FAIL", "VALGR", "CRASH", "SKIP", "interrupted"} :
        /\ verdict' = [verdict EXCEPT ![j] = v]
        /\ v = IF job[j].is_break THEN "interrupted" ELSE Verdict(j)
  BY <1>0, <1>1, VerdictType DEF Collect
<1>3. /\ main = "collect" /\ main' \in {"collect", "raised"}
      /\ status' = IF main' = "collect" THEN status ELSE "raised"
      /\ malformed' \in BOOLEAN
      /\ passed'  = IF v = "PASS" THEN passed + 1 ELSE passed
      /\ skipped' = IF v = "SKIP" THEN skipped + 1 ELSE skipped
  BY <1>0, <1>1, <1>2 DEF Collect, Inv, TypeOK
<1>4. /\ Verdict(j)' = Verdict(j)
      /\ passed \in Nat /\ skipped \in Nat /\ passed + skipped <= collected
      /\ verdict \in [Jobs -> {"none", "PASS", "FAIL", "VALGR", "CRASH", "SKIP", "interrupted"}]
      /\ xml \in [Jobs -> Seq({"file", "PASS", "FAIL", "VALGR", "CRASH", "SKIP"})]
      /\ \A k \in Jobs : k # j => verdict'[k] = verdict[k]
      /\ verdict'[j] = v
  BY <1>1, <1>2 DEF Inv, TypeOK, CountsAgree, Verdict
<1>5. /\ Entries(j) \in Seq({"file", "PASS", "FAIL", "VALGR", "CRASH", "SKIP"})
      /\ Len(Entries(j)) = 0 => CopiesFile(j) /\ ran[j].file # "whole"
  <2>1. /\ <<>> \in Seq({"file", "PASS", "FAIL", "VALGR", "CRASH", "SKIP"})
        /\ <<"file">> \in Seq({"file", "PASS", "FAIL", "VALGR", "CRASH", "SKIP"})
        /\ Len(<<"file">>) = 1
    BY EmptySeq
  <2>2. Verdict(j) \in {"PASS", "FAIL", "VALGR", "CRASH", "SKIP"}
    BY VerdictType
  <2>3. /\ <<Verdict(j)>> \in Seq({"file", "PASS", "FAIL", "VALGR", "CRASH", "SKIP"})
        /\ Len(<<Verdict(j)>>) = 1
    BY <2>2
  <2>4. CASE ~CopiesFile(j)
    BY <2>3, <2>4 DEF Entries
  <2>5. CASE CopiesFile(j) /\ ran[j].file = "whole"
    BY <2>1, <2>5 DEF Entries
  <2>6. CASE CopiesFile(j) /\ ran[j].file # "whole"
    BY <2>1, <2>6 DEF Entries
  <2> QED BY <2>4, <2>5, <2>6
<1>6. \/ xml' = xml /\ job[j].is_break
      \/ xml' = [xml EXCEPT ![j] = @ \o Entries(j)] /\ ~job[j].is_break
  BY <1>0, <1>1 DEF Collect
<1>7. /\ xml' \in [Jobs -> Seq({"file", "PASS", "FAIL", "VALGR", "CRASH", "SKIP"})]
      /\ \A k \in Jobs : k # j => xml'[k] = xml[k]
      /\ ~job[j].is_break /\ Len(xml'[j]) = 0 => Len(Entries(j)) = 0
  <2> HIDE DEF Entries
  <2>1. /\ xml[j] \o Entries(j) \in Seq({"file", "PASS", "FAIL", "VALGR", "CRASH", "SKIP"})
        /\ Len(xml[j] \o Entries(j)) = Len(xml[j]) + Len(Entries(j))
        /\ Len(xml[j]) \in Nat /\ Len(Entries(j)) \in Nat
    BY <1>4, <1>5, ConcatProperties, LenProperties
  <2>2. CASE job[j].is_break
    BY <1>4, <1>6, <2>2
  <2>3. CASE ~job[j].is_break
    <3>1. PICK e \in Seq({"file", "PASS", "FAIL", "VALGR", "CRASH", "SKIP"}) :
            e = xml[j] \o Entries(j)
      BY <2>1
    <3>2. xml' = [xml EXCEPT ![j] = e]
      BY <1>6, <2>3, <3>1
    <3> QED BY <1>4, <2>1, <3>1, <3>2
  <2> QED BY <2>2, <2>3
<1>8. TypeOK'
  <2>1. /\ collected' \in 0 .. NumJobs /\ passed' \in 0 .. NumJobs /\ skipped' \in 0 .. NumJobs
    BY <1>1, <1>3, <1>4
  <2>2. /\ verdict' \in [Jobs -> {"none", "PASS", "FAIL", "VALGR", "CRASH", "SKIP", "interrupted"}]
        /\ status' \in {"busy", "success", "failure", "raised"}
    BY <1>2, <1>3, <1>4 DEF Inv, TypeOK
  <2> QED BY <1>1, <1>3, <1>7, <2>1, <2>2 DEF Inv, TypeOK
<1>9. (HeldAreJobs /\ OutputOnce /\ HeldOnce /\ TakenSomewhere /\ HeldNotDelivered)'
  BY <1>1 DEF Inv, HeldAreJobs, OutputOnce, HeldOnce, TakenSomewhere, HeldNotDelivered,
              Held, Delivered
<1>10. (NoJobAbandoned /\ PendingUntouched /\ DeliveredTruth)'
  BY <1>1 DEF Inv, NoJobAbandoned, At, PendingUntouched, DeliveredTruth, Delivered
<1>11. VerdictTruth'
  <2>1. collected' <= Len(output')
    BY <1>1 DEF Inv, VerdictTruth
  <2>2. \A k \in Jobs : verdict'[k] = IF ~Reported(k)' THEN "none"
                                      ELSE IF job[k].is_break THEN "interrupted" ELSE Verdict(k)
    BY <1>1, <1>2, <1>4 DEF Inv, VerdictTruth
  <2>3. \A k \in Jobs : Verdict(k)' = Verdict(k) /\ job'[k] = job[k]
    BY <1>1 DEF Verdict
  <2> QED BY <2>1, <2>2, <2>3 DEF VerdictTruth
<1>12. CountsAgree'
  <2>1. \A i \in 1 .. collected : verdict'[output[i]] = verdict[output[i]]
    BY <1>1, <1>4
  <2>2. passed' + skipped' = passed + skipped + (IF v \in {"PASS", "SKIP"} THEN 1 ELSE 0)
    BY <1>3, <1>4
  <2>3. (\A i \in 1 .. collected' : verdict'[output[i]] \in {"PASS", "SKIP"})
          <=> /\ \A i \in 1 .. collected : verdict[output[i]] \in {"PASS", "SKIP"}
              /\ v \in {"PASS", "SKIP"}
    <3>1. \A i \in 1 .. collected' : i \in 1 .. collected \/ i = collected + 1
      BY <1>1
    <3>2. \A i \in 1 .. collected : i \in 1 .. collected'
      BY <1>1
    <3>3. collected + 1 \in 1 .. collected'
      BY <1>1
    <3>4. verdict'[output[collected + 1]] = v
      BY <1>1, <1>4
    <3> QED BY <2>1, <3>1, <3>2, <3>3, <3>4
  <2>4. passed + skipped = collected <=>
          \A i \in 1 .. collected : verdict[output[i]] \in {"PASS", "SKIP"}
    BY DEF Inv, CountsAgree
  <2>5. /\ passed' + skipped' <= collected'
        /\ passed' + skipped' = collected' <=> passed + skipped = collected /\ v \in {"PASS", "SKIP"}
    BY <1>1, <1>3, <1>4, <2>2
  <2> QED BY <1>1, <2>3, <2>4, <2>5 DEF CountsAgree
<1>13. EntriesAgree'
  <2> SUFFICES ASSUME main' # "raised", NEW k \in Jobs, Reported(k)', ~job[k].is_break,
                      Len(xml'[k]) <= 0
               PROVE  ran[k].file = "partial" /\ verdict'[k] = "FAIL" /\ k \notin Skips
    BY <1>1, <1>7, LenProperties DEF EntriesAgree
  <2>1. CASE k # j
    BY <1>1, <1>3, <1>4, <1>7, <2>1 DEF Inv, EntriesAgree
  <2>2. CASE k = j
    <3>1. Len(xml'[j]) = 0
      BY <1>7, <2>2, LenProperties
    <3>2. CopiesFile(j) /\ ran[j].file # "whole" /\ ~OpenFails(j)
      BY <1>0, <1>1, <1>3, <1>5, <1>7, <2>2, <3>1 DEF Collect
    <3>3. ran[j].file = "partial" /\ j \notin Skips /\ job[j].returncode # Crashed
      BY <3>2 DEF CopiesFile, OpenFails, Inv, TypeOK
    <3>4. Delivered(j) /\ ~job[j].is_break
      BY <1>1, <2>2, LenProperties DEF Delivered, Inv, TypeOK
    <3>5. job[j].returncode \in {ran[j].exit, 1} /\ ran[j].exit = Crashed
      BY <3>3, <3>4 DEF Inv, DeliveredTruth
    <3>6. job[j].returncode = 1
      BY <3>3, <3>5
    <3> QED BY <1>2, <1>4, <2>2, <3>3, <3>4, <3>6 DEF Verdict
  <2> QED BY <2>1, <2>2
<1>14. StatusAgrees'
  BY <1>3 DEF Inv, StatusAgrees
<1> QED BY <1>8, <1>9, <1>10, <1>11, <1>12, <1>13, <1>14 DEF Inv

-----------------------------------------------------------------------------
(***************************************************************************)
(* The theorems.                                                           *)
(***************************************************************************)
LEMMA NextInv == Inv /\ [Next]_vars => Inv'
<1> SUFFICES ASSUME Inv, [Next]_vars PROVE Inv'
  OBVIOUS
<1>1. CASE UNCHANGED vars
  <2> USE <1>1 DEF vars, Inv
  <2>1. TypeOK'
    BY DEF TypeOK
  <2>2. (HeldAreJobs /\ OutputOnce /\ HeldOnce /\ TakenSomewhere /\ HeldNotDelivered)'
    BY DEF HeldAreJobs, OutputOnce, HeldOnce, TakenSomewhere, HeldNotDelivered, Held, Delivered
  <2>3. (NoJobAbandoned /\ PendingUntouched /\ DeliveredTruth)'
    BY DEF NoJobAbandoned, At, PendingUntouched, DeliveredTruth, Delivered
  <2>4. (VerdictTruth /\ CountsAgree /\ EntriesAgree /\ StatusAgrees)'
    BY DEF VerdictTruth, CountsAgree, EntriesAgree, StatusAgrees, Reported, Verdict
  <2> QED BY <2>1, <2>2, <2>3, <2>4
<1>2. CASE Next
  BY <1>2, DispatchInv, CollectInv, FinishInv, InterruptInv, WorkerInv DEF Next, Main
<1> QED BY <1>1, <1>2

\* The inductive invariant holds in every session.
THEOREM Invariant == Spec => []Inv
<1>1. Init => Inv
  BY InitInv
<1>2. Inv /\ [Next]_vars => Inv'
  BY NextInv
<1> QED BY <1>1, <1>2, PTL DEF Spec

\* The threads, the queues and the counters of run_tests() keep their types:
\* no more items are put than there are jobs and workers, none is taken twice.
THEOREM TypeCorrect == Spec => []TypeOK
<1>1. Inv => TypeOK
  BY DEF Inv
<1> QED BY <1>1, Invariant, PTL

\* A job is with one worker or in output_queue, once, whatever the number of
\* threads and wherever the interrupt or an exception comes.
THEOREM JobsDeliveredOnce == Spec => []OncePerJob
<1>1. Inv => OncePerJob
  <2> SUFFICES ASSUME Inv PROVE OncePerJob
    OBVIOUS
  <2>1. \A w \in Workers, i \in 1 .. Len(output) : Held(w) => output[i] # worker[w].job
    BY DEF Inv, HeldNotDelivered, Delivered
  <2>2. \A j \in Jobs :
          (j <= taken) <=> \/ \E i \in 1 .. Len(output) : output[i] = j
                           \/ \E w \in Workers : Held(w) /\ worker[w].job = j
    BY DEF Inv, TakenSomewhere, Delivered
  <2> QED BY <2>1, <2>2 DEF OncePerJob, Inv, OutputOnce, HeldOnce
<1> QED BY <1>1, Invariant, PTL

\* No worker thread leaves run() while there is a job on input_queue.
THEOREM WorkersStay == Spec => []NoJobAbandoned
<1>1. Inv => NoJobAbandoned
  BY DEF Inv
<1> QED BY <1>1, Invariant, PTL

\* When every result has been collected, every job has one of the verdicts.
LEMMA EveryJobReported ==
  ASSUME Inv, collected = NumJobs
  PROVE  \A j \in Jobs : Reported(j) /\ Delivered(j)
<1>1. /\ output \in Seq(Jobs) /\ Len(output) >= NumJobs /\ NumJobs \in Nat
      /\ Len(output) \in Nat
      /\ \A i, k \in 1 .. Len(output) : output[i] = output[k] => i = k
  BY SizeAssumption, LenProperties DEF Inv, TypeOK, VerdictTruth, OutputOnce
<1>2. \A j \in Jobs : \E i \in 1 .. NumJobs : output[i] = j
  BY <1>1, AllDelivered
<1> QED BY <1>1, <1>2 DEF Reported, Delivered

\* run_tests() returns success only if the command of every test that was to
\* run ended with exit code 0.
THEOREM SuccessRan == Spec => []SuccessIsReal
<1>1. Inv => SuccessIsReal
  <2> SUFFICES ASSUME Inv, status = "success", NEW j \in Jobs, j \notin Skips
               PROVE  ran[j].exit = 0
    BY DEF SuccessIsReal
  <2>1. collected = NumJobs /\ passed + skipped = collected
    BY DEF Inv, StatusAgrees, TypeOK
  <2>2. Reported(j) /\ Delivered(j)
    BY <2>1, EveryJobReported
  <2>3. verdict[j] \in {"PASS", "SKIP"}
    BY <2>1, <2>2 DEF Inv, CountsAgree, Reported
  <2>4. ~job[j].is_break /\ verdict[j] = Verdict(j)
    BY <2>2, <2>3 DEF Inv, VerdictTruth
  <2>5. job[j].returncode = 0
    BY <2>3, <2>4 DEF Verdict
  <2>6. job[j].returncode \in {ran[j].exit, 1}
    BY <2>2, <2>4 DEF Inv, DeliveredTruth
  <2> QED BY <2>5, <2>6
<1> QED BY <1>1, Invariant, PTL

\* A job reported as interrupted was handed back without being started.
THEOREM InterruptedUnrun == Spec => []InterruptedNeverRan
<1>1. Inv => InterruptedNeverRan
  <2> SUFFICES ASSUME Inv, NEW j \in Jobs, verdict[j] = "interrupted"
               PROVE  thread_exit /\ ran[j].exit = NotRun
    BY DEF InterruptedNeverRan
  <2>1. Verdict(j) # "interrupted"
    BY VerdictType
  <2>2. Reported(j) /\ job[j].is_break
    BY <2>1 DEF Inv, VerdictTruth
  <2>3. Delivered(j)
    BY <2>2, LenProperties DEF Reported, Delivered, Inv, VerdictTruth, TypeOK
  <2> QED BY <2>2, <2>3 DEF Inv, DeliveredTruth
<1> QED BY <1>1, Invariant, PTL

\* results.xml has an entry for every test that was not interrupted, but for
\* the crashed suites whose output was undecodable.
THEOREM EveryTestInXml == Spec => []EntryPerTest
<1>1. Inv => EntryPerTest
  <2> SUFFICES ASSUME Inv, main # "raised", collected = NumJobs, NEW j \in Jobs, verdict[j] # "interrupted",
                      ~(Len(xml[j]) > 0)
               PROVE  ran[j] = [exit |-> Crashed, file |-> "partial"] /\ verdict[j] = "FAIL"
    BY DEF EntryPerTest
  <2>1. Reported(j) /\ Delivered(j)
    BY EveryJobReported
  <2>2. ~job[j].is_break
    BY <2>1 DEF Inv, VerdictTruth
  <2>3. ran[j].file = "partial" /\ verdict[j] = "FAIL" /\ j \notin Skips
    BY <2>1, <2>2 DEF Inv, EntriesAgree
  <2>4. ran[j].exit = Crashed
    BY <2>1, <2>2, <2>3 DEF Inv, DeliveredTruth
  <2>5. ran[j] \in [exit : Codes \cup {NotRun}, file : {"none", "partial", "whole"}]
    BY DEF Inv, TypeOK
  <2> QED BY <2>3, <2>4, <2>5
<1> QED BY <1>1, Invariant, PTL

\* The end of run_tests() is the Return or the Raise of TestSession.
LEMMA FinishDecides == Inv /\ Finish => Session!Return \/ Session!Raise
<1> SUFFICES ASSUME Inv, Finish PROVE Session!Return \/ Session!Raise
  OBVIOUS
<1>1. status = "busy" /\ collected = NumJobs /\ UNCHANGED verdict
  BY DEF Finish, Inv, StatusAgrees
<1>2. CASE main' = "raised" /\ status' = "raised"
  BY <1>1, <1>2 DEF Session!Raise
<1>3. CASE status' = IF passed + skipped = NumJobs THEN "success" ELSE "failure"
  <2>1. \A j \in Jobs : Reported(j)
    BY <1>1, EveryJobReported
  <2>2. \A j \in Jobs : verdict[j] # "none"
    BY <2>1, VerdictType DEF Inv, VerdictTruth
  <2>3. passed + skipped = NumJobs <=> \A j \in Jobs : verdict[j] \in {"PASS", "SKIP"}
    <3>1. \A i \in 1 .. collected : output[i] \in Jobs
      BY <1>1, LenProperties, ElementOfSeq DEF Inv, TypeOK, VerdictTruth
    <3> QED BY <1>1, <2>1, <3>1 DEF Inv, CountsAgree, Reported
  <2> QED BY <1>1, <1>3, <2>2, <2>3 DEF Session!Return
<1> QED BY <1>2, <1>3 DEF Finish

\* The result main takes is a verdict of TestSession, given once.
LEMMA CollectDecides == Inv /\ Collect => Session!Decide
<1> SUFFICES ASSUME Inv, Collect PROVE Session!Decide
  OBVIOUS
<1>1. PICK j \in Jobs : j = output[collected'] /\ verdict[j] = "none" /\ collected' = collected + 1
  BY CollectFacts
<1>2. PICK v \in Session!Verdicts : verdict' = [verdict EXCEPT ![j] = v]
  BY <1>1, VerdictType DEF Collect, Session!Verdicts
<1>3. status = "busy" /\ status' \in {"busy", "raised"}
  BY DEF Collect, Inv, StatusAgrees
<1> QED BY <1>1, <1>2, <1>3 DEF Session!Decide

\* The threads and queues of run_tests() implement TestSession: a verdict per
\* test, never revised, and 0 exactly when all of them passed or were skipped.
THEOREM Refinement == Spec => SessionImplemented
<1>1. Init => Session!Init
  BY DEF Init, Session!Init
<1>2. Inv /\ [Next]_vars => [Session!Next]_(Session!svars)
  <2> SUFFICES ASSUME Inv, [Next]_vars PROVE [Session!Next]_(Session!svars)
    OBVIOUS
  <2>1. CASE Collect
    BY <2>1, CollectDecides DEF Session!Next
  <2>2. CASE Finish
    BY <2>2, FinishDecides DEF Session!Next
  <2>3. CASE Dispatch \/ PutBreak \/ sigint_hook
    BY <2>3 DEF Dispatch, PutBreak, sigint_hook, mainVars, Session!svars
  <2>4. CASE \E w \in Workers : Work(w) \/ Die(w)
    BY <2>4 DEF Work, Get, HandBack, Skip, Launch, Complete, Die, mainVars, Session!svars
  <2>5. CASE UNCHANGED vars
    BY <2>5 DEF vars, Session!svars
  <2> QED BY <2>1, <2>2, <2>3, <2>4, <2>5 DEF Next, Main
<1> QED BY <1>1, <1>2, Invariant, PTL DEF Spec, SessionImplemented, Session!Spec
==============================================================================
