---------------------------- MODULE JobQueueProofs ----------------------------
(***************************************************************************)
(* What the queue keeps for any workers, jobs, attempts and troubles.      *)
(***************************************************************************)
EXTENDS JobQueue, TLAPS

(* A row changed where it stands is a row, and the rest are as they were.  *)
LEMMA RowChanged ==
  ASSUME QueueTypeOK, NEW j \in DOMAIN jobs, NEW row \in Jobs,
         jobs' = [jobs EXCEPT ![j] = row]
  PROVE  jobs' \in Seq(Jobs) /\ DOMAIN jobs' = DOMAIN jobs
<1>1. jobs \in [1..Len(jobs) -> Jobs] /\ Len(jobs) \in Nat
  BY DEF QueueTypeOK
<1>2. jobs' \in [1..Len(jobs) -> Jobs]
  BY <1>1
<1> QED
  BY <1>1, <1>2

LEMMA RowIsARow ==
  ASSUME QueueTypeOK, NEW j \in DOMAIN jobs
  PROVE  jobs[j] \in Jobs
  BY DEF QueueTypeOK

(* Failing the abandoned keeps the rows rows.                              *)
LEMMA RowsFailed ==
  ASSUME QueueTypeOK, NEW w \in Workers, FailAbandoned(w)
  PROVE  jobs' \in Seq(Jobs) /\ DOMAIN jobs' = DOMAIN jobs
<1>1. jobs \in [1..Len(jobs) -> Jobs] /\ Len(jobs) \in Nat
  BY DEF QueueTypeOK
<1>2. \A j \in 1..Len(jobs) : [jobs[j] EXCEPT !.failed = TRUE, !.lease = "none"] \in Jobs
  BY <1>1 DEF Jobs
<1>3. jobs' \in [1..Len(jobs) -> Jobs]
  BY <1>1, <1>2 DEF FailAbandoned
<1> QED
  BY <1>1, <1>3

LEMMA FinishedRow ==
  ASSUME QueueTypeOK, NEW j \in DOMAIN jobs, Finish(j)
  PROVE  jobs' \in Seq(Jobs) /\ DOMAIN jobs' = DOMAIN jobs
<1>1. [jobs[j] EXCEPT !.finished = TRUE, !.lease = "none"] \in Jobs
  BY RowIsARow DEF Jobs
<1>2. jobs' = [jobs EXCEPT ![j] = [jobs[j] EXCEPT !.finished = TRUE, !.lease = "none"]]
  BY DEF Finish
<1> QED
  BY <1>1, <1>2, RowChanged

(* The type after a step of one worker's, whatever it wrote.               *)
LEMMA WorkerChanged ==
  ASSUME QueueTypeOK, NEW w \in Workers, NEW goes \in WorkerStates,
         worker' = [worker EXCEPT ![w] = goes],
         goes.at \in {"running", "ran", "threw", "failed"} => goes.job \in DOMAIN jobs,
         jobs' \in Seq(Jobs), DOMAIN jobs' = DOMAIN jobs,
         UNCHANGED active, troubles' \in Nat
  PROVE  QueueTypeOK'
<1>1. worker' \in [Workers -> WorkerStates]
  BY DEF QueueTypeOK
<1>2. \A v \in Workers : worker'[v] = IF v = w THEN goes ELSE worker[v]
  BY DEF QueueTypeOK
<1>3. active' \in BOOLEAN
  BY DEF QueueTypeOK
<1> QED
  BY <1>1, <1>2, <1>3 DEF QueueTypeOK

(* The records a worker's own steps leave it with.                         *)
LEMMA WorkerGoes ==
  ASSUME QueueTypeOK, NEW w \in Workers
  PROVE  /\ Idle \in WorkerStates /\ Idle.at = "idle"
         /\ \A s \in {"idle", "telling", "running", "ran", "threw", "failed"} :
              /\ [worker[w] EXCEPT !.at = s] \in WorkerStates
              /\ [worker[w] EXCEPT !.at = s].job = worker[w].job
         /\ worker[w].at \in {"running", "ran", "threw", "failed"}
              => worker[w].job \in DOMAIN jobs
<1>1. worker[w] \in WorkerStates
  BY DEF QueueTypeOK
<1>2. Idle \in WorkerStates /\ Idle.at = "idle"
  BY QueueAssumption DEF Idle, WorkerStates
<1>3. ASSUME NEW s \in {"idle", "telling", "running", "ran", "threw", "failed"}
      PROVE  /\ [worker[w] EXCEPT !.at = s] \in WorkerStates
             /\ [worker[w] EXCEPT !.at = s].job = worker[w].job
  BY <1>1 DEF WorkerStates
<1>4. worker[w].at \in {"running", "ran", "threw", "failed"} => worker[w].job \in DOMAIN jobs
  BY DEF QueueTypeOK
<1> QED
  BY <1>2, <1>3, <1>4

(* Every step keeps what the columns may hold, and each worker's job a row. *)
LEMMA StepKeepsTheType ==
  ASSUME QueueTypeOK, [QueueNext]_queueVars
  PROVE  QueueTypeOK'
<1> USE QueueAssumption
<1>0. /\ jobs \in Seq(Jobs) /\ worker \in [Workers -> WorkerStates] /\ troubles \in Nat
      /\ DOMAIN jobs \subseteq Nat
  BY DEF QueueTypeOK
<1>1. ASSUME NEW w \in Workers, FailAbandoned(w)
      PROVE  QueueTypeOK'
  <2> DEFINE goes == [worker[w] EXCEPT !.at = "telling", !.untold = Abandoned]
  <2>1. Abandoned \in SUBSET Nat /\ worker[w] \in WorkerStates
    BY <1>0 DEF Abandoned
  <2>2. goes \in WorkerStates /\ goes.at = "telling"
    BY <2>1 DEF WorkerStates
  <2>3. worker' = [worker EXCEPT ![w] = goes]
    BY <1>0, <1>1 DEF FailAbandoned
  <2>4. UNCHANGED <<active, troubles>>
    BY <1>1 DEF FailAbandoned
  <2>5. jobs' \in Seq(Jobs) /\ DOMAIN jobs' = DOMAIN jobs
    BY <1>1, RowsFailed
  <2> HIDE DEF goes
  <2> QED
    BY <1>0, <2>2, <2>3, <2>4, <2>5, WorkerChanged
<1>2. ASSUME NEW w \in Workers, NEW j \in DOMAIN jobs, TellAbandoned(w, j)
      PROVE  QueueTypeOK'
  <2> DEFINE goes == [worker[w] EXCEPT !.untold = @ \ {j}]
  <2>1. worker[w] \in WorkerStates /\ worker[w].at = "telling"
    BY <1>0, <1>2 DEF TellAbandoned
  <2>2. goes \in WorkerStates /\ goes.at = "telling"
    BY <2>1 DEF WorkerStates
  <2>3. worker' = [worker EXCEPT ![w] = goes]
    BY <1>0, <1>2 DEF TellAbandoned
  <2> QED
    BY <1>0, <1>2, <2>2, <2>3, WorkerChanged DEF TellAbandoned
<1>3. ASSUME NEW w \in Workers, NEW j \in DOMAIN jobs, Claim(w, j)
      PROVE  QueueTypeOK'
  <2>1. jobs[j] \in Jobs /\ jobs[j].attempts + 1 \in 0..MaxAttempts
    BY <1>3, RowIsARow DEF Claim, Claimable, Jobs
  <2>2. [jobs[j] EXCEPT !.attempts = @ + 1, !.lease = "held"] \in Jobs
    BY <2>1 DEF Jobs
  <2>3. jobs' = [jobs EXCEPT ![j] = [jobs[j] EXCEPT !.attempts = @ + 1, !.lease = "held"]]
    BY <1>0, <1>3 DEF Claim
  <2>4. jobs' \in Seq(Jobs) /\ DOMAIN jobs' = DOMAIN jobs
    BY <2>2, <2>3, RowChanged
  <2> DEFINE goes == [at |-> "running", job |-> j, attempts |-> jobs[j].attempts + 1,
                      untold |-> {}]
  <2>5. goes \in WorkerStates /\ goes.job \in DOMAIN jobs
    BY <1>0, <2>1 DEF WorkerStates
  <2>6. worker' = [worker EXCEPT ![w] = goes] /\ UNCHANGED <<active, troubles>>
    BY <1>3 DEF Claim
  <2> QED
    BY <1>0, <2>4, <2>5, <2>6, WorkerChanged
<1>4. ASSUME NEW w \in Workers, FindNothing(w) \/ TellFailed(w) \/ Stop(w)
      PROVE  QueueTypeOK'
  <2>1. worker' = [worker EXCEPT ![w] = Idle] /\ UNCHANGED <<jobs, active>> /\ troubles' \in Nat
    BY <1>0, <1>4 DEF FindNothing, TellFailed, Stop, Trouble, Rests
  <2> QED
    BY <1>0, <2>1, WorkerGoes, WorkerChanged
<1>5. ASSUME NEW w \in Workers, Run(w)
      PROVE  QueueTypeOK'
  <2>1. worker[w] \in WorkerStates /\ worker[w].at = "running" /\ worker[w].job \in DOMAIN jobs
    BY <1>0, <1>5 DEF Run, RunReturns, RunThrows, RunRefuses, QueueTypeOK
  <2> DEFINE refused == [worker[w] EXCEPT !.at = "threw", !.attempts = MaxAttempts]
  <2>2. refused \in WorkerStates /\ refused.job = worker[w].job
    <3>1. MaxAttempts \in 0..MaxAttempts
      OBVIOUS
    <3> HIDE QueueAssumption
    <3> QED
      BY <2>1, <3>1 DEF WorkerStates
  <2>3. \/ worker' = [worker EXCEPT ![w] = [worker[w] EXCEPT !.at = "ran"]]
        \/ worker' = [worker EXCEPT ![w] = [worker[w] EXCEPT !.at = "threw"]]
        \/ worker' = [worker EXCEPT ![w] = refused]
    BY <1>0, <1>5 DEF Run, RunReturns, RunThrows, RunRefuses, Goes
  <2>4. UNCHANGED <<jobs, active, troubles>>
    BY <1>5 DEF Run
  <2>5. PICK goes \in WorkerStates :
          worker' = [worker EXCEPT ![w] = goes] /\ goes.job = worker[w].job
    BY <2>2, <2>3, WorkerGoes
  <2> QED
    BY <1>0, <2>1, <2>4, <2>5, WorkerChanged
<1>6. ASSUME NEW w \in Workers, Complete(w) \/ CompleteThrows(w)
      PROVE  QueueTypeOK'
  <2>1. worker[w].job \in DOMAIN jobs
    BY <1>6 DEF Complete, CompleteThrows, QueueTypeOK
  <2>2. jobs' \in Seq(Jobs) /\ DOMAIN jobs' = DOMAIN jobs
    BY <1>0, <1>6, <2>1, FinishedRow DEF Complete, CompleteThrows
  <2>3. \/ worker' = [worker EXCEPT ![w] = Idle]
        \/ worker' = [worker EXCEPT ![w] = [worker[w] EXCEPT !.at = "threw"]]
    BY <1>0, <1>6 DEF Complete, CompleteThrows, Goes, Rests
  <2>4. UNCHANGED active /\ troubles' \in Nat
    BY <1>0, <1>6 DEF Complete, CompleteThrows, Trouble
  <2> QED
    BY <2>1, <2>2, <2>3, <2>4, WorkerGoes, WorkerChanged
<1>7. ASSUME NEW w \in Workers, FailToRetry(w) \/ FailForGood(w)
      PROVE  QueueTypeOK'
  <2> DEFINE j == worker[w].job
  <2>1. j \in DOMAIN jobs
    BY <1>7 DEF FailToRetry, FailForGood, QueueTypeOK
  <2>2. /\ [jobs[j] EXCEPT !.lease = "none", !.due = FALSE] \in Jobs
        /\ [jobs[j] EXCEPT !.failed = TRUE, !.lease = "none"] \in Jobs
    BY <2>1, RowIsARow DEF Jobs
  <2>3. \/ jobs' = [jobs EXCEPT ![j] = [jobs[j] EXCEPT !.lease = "none", !.due = FALSE]]
        \/ jobs' = [jobs EXCEPT ![j] = [jobs[j] EXCEPT !.failed = TRUE, !.lease = "none"]]
    BY <1>0, <1>7, <2>1 DEF FailToRetry, FailForGood
  <2>4. jobs' \in Seq(Jobs) /\ DOMAIN jobs' = DOMAIN jobs
    BY <2>1, <2>2, <2>3, RowChanged
  <2>5. \/ worker' = [worker EXCEPT ![w] = Idle]
        \/ worker' = [worker EXCEPT ![w] = [worker[w] EXCEPT !.at = "failed"]]
    BY <1>0, <1>7 DEF FailToRetry, FailForGood, Goes, Rests
  <2>6. UNCHANGED <<active, troubles>>
    BY <1>7 DEF FailToRetry, FailForGood
  <2> QED
    BY <1>0, <2>1, <2>4, <2>5, <2>6, WorkerGoes, WorkerChanged
<1>8. ASSUME NEW j \in DOMAIN jobs, LeaseLapses(j) \/ FallsDue(j)
      PROVE  QueueTypeOK'
  <2>1. /\ [jobs[j] EXCEPT !.lease = "lapsed"] \in Jobs
        /\ [jobs[j] EXCEPT !.due = TRUE] \in Jobs
    BY RowIsARow DEF Jobs
  <2>2. jobs' \in Seq(Jobs) /\ DOMAIN jobs' = DOMAIN jobs
    BY <1>8, <2>1, RowChanged DEF LeaseLapses, FallsDue
  <2> QED
    BY <1>8, <2>2 DEF LeaseLapses, FallsDue, QueueTypeOK
<1>9. ASSUME NEW kind \in Kinds, NEW subject \in Subjects, EnqueueJob(kind, subject)
      PROVE  QueueTypeOK'
  <2>1. NewJob(kind, subject) \in Jobs
    BY DEF NewJob, Jobs
  <2>2. jobs' \in Seq(Jobs) /\ DOMAIN jobs \subseteq DOMAIN jobs'
    BY <1>0, <1>9, <2>1 DEF EnqueueJob
  <2> QED
    BY <1>9, <2>2 DEF EnqueueJob, QueueTypeOK
<1>10. CASE Suspend \/ Resume
  <2>1. UNCHANGED <<jobs, worker>> /\ troubles' \in Nat
    BY <1>0, <1>10 DEF Suspend, Resume, Trouble
  <2>2. active' \in BOOLEAN
    BY <1>10 DEF Suspend, Resume
  <2> QED
    BY <2>1, <2>2 DEF QueueTypeOK
<1>11. CASE UNCHANGED queueVars
  BY <1>11 DEF queueVars, QueueTypeOK
<1> QED
  BY <1>1, <1>2, <1>3, <1>4, <1>5, <1>6, <1>7, <1>8, <1>9, <1>10, <1>11
  DEF QueueNext, WorkerStep

(* No job is ever tried past its last attempt, and every table holds what  *)
(* its columns may.                                                        *)
THEOREM QueueTypeCorrect == QueueSpec => []QueueTypeOK
<1>1. QueueInit => QueueTypeOK
  BY QueueAssumption DEF QueueInit, QueueTypeOK, Idle, WorkerStates
<1>2. QueueTypeOK /\ [QueueNext]_queueVars => QueueTypeOK'
  BY StepKeepsTheType
<1> QED
  BY <1>1, <1>2, PTL DEF QueueSpec

-----------------------------------------------------------------------------
(* What makes a run exclusive: a worker's job is under its lease, or was   *)
(* settled - by the worker itself, whose write was kept and answer lost.   *)
LeaseKept ==
  \A w \in Workers : \A j \in DOMAIN jobs :
    On(w, j) => Settled(j) \/ jobs[j].lease = "held"

(* A step after which no worker is on a job it was not on, and every row   *)
(* some worker is on is leased or settled still, keeps runs exclusive.     *)
LEMMA NobodyNew ==
  ASSUME ExclusiveRun, LeaseKept,
         \A v \in Workers : \A j \in DOMAIN jobs' : On(v, j)' =>
           /\ j \in DOMAIN jobs /\ On(v, j)
           /\ (Settled(j) \/ jobs[j].lease = "held")'
  PROVE  ExclusiveRun' /\ LeaseKept'
  BY DEF ExclusiveRun, LeaseKept

(* The same of a step of w's that leaves every row but its own, at most    *)
(* settles others, and puts it on no other job.                            *)
LEMMA OwnRow ==
  ASSUME QueueTypeOK, ExclusiveRun, LeaseKept, NEW w \in Workers, NEW k \in DOMAIN jobs,
         On(w, k), DOMAIN jobs' = DOMAIN jobs,
         \A v \in Workers \ {w} : worker'[v] = worker[v],
         \A j \in DOMAIN jobs \ {k} : jobs'[j] = jobs[j],
         \A j \in DOMAIN jobs : On(w, j)' => j = k /\ (Settled(k) \/ jobs[k].lease = "held")'
  PROVE  ExclusiveRun' /\ LeaseKept'
<1> SUFFICES ASSUME NEW v \in Workers, NEW j \in DOMAIN jobs, On(v, j)'
             PROVE  On(v, j) /\ (Settled(j) \/ jobs[j].lease = "held")'
  BY NobodyNew
<1>1. CASE v = w
  BY <1>1
<1>2. CASE v # w
  <2>1. On(v, j)
    BY <1>2 DEF On
  <2>2. j # k
    BY <1>2, <2>1 DEF ExclusiveRun
  <2> QED
    BY <2>1, <2>2 DEF LeaseKept, Settled
<1> QED
  BY <1>1, <1>2

LEMMA StepKeepsRunsExclusive ==
  ASSUME QueueTypeOK, ~Stalls, ExclusiveRun, LeaseKept, [QueueNext]_queueVars
  PROVE  ExclusiveRun' /\ LeaseKept'
<1>0. jobs \in Seq(Jobs) /\ worker \in [Workers -> WorkerStates]
  BY DEF QueueTypeOK
<1>1. ASSUME NEW w \in Workers, FailAbandoned(w)
      PROVE  ExclusiveRun' /\ LeaseKept'
  <2>1. DOMAIN jobs' = DOMAIN jobs
    BY <1>1, RowsFailed
  <2>2. ASSUME NEW v \in Workers, NEW j \in DOMAIN jobs, On(v, j)'
        PROVE  On(v, j)
    <3>1. worker'[w].at = "telling" /\ \A u \in Workers \ {w} : worker'[u] = worker[u]
      BY <1>0, <1>1 DEF FailAbandoned, WorkerStates
    <3> QED
      BY <2>2, <3>1 DEF On
  <2>3. ASSUME NEW j \in DOMAIN jobs, Settled(j) \/ jobs[j].lease = "held"
        PROVE  jobs'[j] = jobs[j]
    BY <1>1, <2>3 DEF FailAbandoned, Abandoned
  <2> QED
    BY <2>1, <2>2, <2>3, NobodyNew DEF LeaseKept, Settled
<1>2. ASSUME NEW w \in Workers, NEW j \in DOMAIN jobs, TellAbandoned(w, j)
      PROVE  ExclusiveRun' /\ LeaseKept'
  <2>1. \A v \in Workers : worker'[v].at = worker[v].at /\ worker'[v].job = worker[v].job
    BY <1>0, <1>2 DEF TellAbandoned, WorkerStates
  <2> QED
    BY <1>2, <2>1 DEF TellAbandoned, ExclusiveRun, LeaseKept, On, Settled
<1>3. ASSUME NEW w \in Workers, NEW k \in DOMAIN jobs, Claim(w, k)
      PROVE  ExclusiveRun' /\ LeaseKept'
  <2>1. \A v \in Workers : ~On(v, k)
    BY <1>3 DEF Claim, Claimable, LeaseKept
  <2>2. DOMAIN jobs' = DOMAIN jobs /\ \A j \in DOMAIN jobs \ {k} : jobs'[j] = jobs[j]
    BY <1>0, <1>3 DEF Claim
  <2>3. jobs'[k].lease = "held"
    <3>1. jobs'[k] = [jobs[k] EXCEPT !.attempts = @ + 1, !.lease = "held"]
      BY <1>0, <1>3 DEF Claim
    <3>2. jobs[k] \in Jobs
      BY RowIsARow
    <3> QED
      BY <3>1, <3>2 DEF Jobs
  <2>4. /\ \A v \in Workers \ {w} : worker'[v] = worker[v]
        /\ worker'[w].job = k
    BY <1>0, <1>3 DEF Claim
  <2>5. \A v \in Workers : \A j \in DOMAIN jobs :
          On(v, j)' => (v = w /\ j = k) \/ (v # w /\ j # k /\ On(v, j))
    BY <2>1, <2>4 DEF On
  <2> QED
    BY <2>2, <2>3, <2>5 DEF ExclusiveRun, LeaseKept, Settled
<1>4. ASSUME NEW w \in Workers, FindNothing(w) \/ TellFailed(w) \/ Stop(w)
      PROVE  ExclusiveRun' /\ LeaseKept'
  <2>1. UNCHANGED jobs /\ worker' = [worker EXCEPT ![w] = Idle]
    BY <1>4 DEF FindNothing, TellFailed, Stop, Rests
  <2>2. \A v \in Workers, j \in DOMAIN jobs : On(v, j)' => On(v, j)
    BY <1>0, <2>1 DEF On, Idle
  <2> QED
    BY <2>1, <2>2, NobodyNew DEF LeaseKept, Settled
<1>5. ASSUME NEW w \in Workers, Run(w)
      PROVE  ExclusiveRun' /\ LeaseKept'
  <2>1. UNCHANGED jobs /\ worker[w].at = "running"
    BY <1>5 DEF Run, RunReturns, RunThrows, RunRefuses
  <2>2. /\ worker'[w].job = worker[w].job
        /\ \A v \in Workers \ {w} : worker'[v] = worker[v]
    BY <1>0, <1>5 DEF Run, RunReturns, RunThrows, RunRefuses, Goes, WorkerStates
  <2>3. \A v \in Workers, j \in DOMAIN jobs : On(v, j)' => On(v, j)
    BY <2>1, <2>2 DEF On
  <2> QED
    BY <2>1, <2>3, NobodyNew DEF LeaseKept, Settled
<1>6. ASSUME NEW w \in Workers,
             Complete(w) \/ CompleteThrows(w) \/ FailToRetry(w) \/ FailForGood(w)
      PROVE  ExclusiveRun' /\ LeaseKept'
  <2>1. PICK k \in DOMAIN jobs : worker[w].job = k /\ On(w, k)
    BY <1>6 DEF Complete, CompleteThrows, FailToRetry, FailForGood, QueueTypeOK, On
  <2>2. DOMAIN jobs' = DOMAIN jobs /\ \A j \in DOMAIN jobs \ {k} : jobs'[j] = jobs[j]
    BY <1>0, <1>6, <2>1 DEF Complete, CompleteThrows, FailToRetry, FailForGood, Finish
  <2>3. \A v \in Workers \ {w} : worker'[v] = worker[v]
    BY <1>0, <1>6
    DEF Complete, CompleteThrows, FailToRetry, FailForGood, Goes, Rests
  <2>4. CASE Complete(w) \/ FailToRetry(w) \/ FailForGood(w)
    <3>1. worker'[w].at \in {"idle", "failed"}
      BY <1>0, <2>4 DEF Complete, FailToRetry, FailForGood, Goes, Rests, Idle, WorkerStates
    <3> QED
      BY <2>1, <2>2, <2>3, <3>1, OwnRow DEF On
  <2>5. CASE CompleteThrows(w)
    <3>1. worker'[w].job = k
      BY <1>0, <2>1, <2>5 DEF CompleteThrows, Goes, WorkerStates
    <3>2. ASSUME UNCHANGED jobs
          PROVE  (Settled(k) \/ jobs[k].lease = "held")'
      BY <2>1, <3>2 DEF LeaseKept, Settled
    <3>3. ASSUME Finish(k)
          PROVE  (Settled(k) \/ jobs[k].lease = "held")'
      <4>1. jobs'[k] = [jobs[k] EXCEPT !.finished = TRUE, !.lease = "none"] /\ jobs[k] \in Jobs
        BY <1>0, <2>1, <3>3, RowIsARow DEF Finish
      <4>2. jobs'[k].finished = TRUE
        BY <4>1 DEF Jobs
      <4> QED
        BY <4>2 DEF Settled
    <3>4. (Settled(k) \/ jobs[k].lease = "held")'
      BY <2>1, <2>5, <3>2, <3>3 DEF CompleteThrows
    <3> QED
      BY <2>1, <2>2, <2>3, <3>1, <3>4, OwnRow DEF On
  <2> QED
    BY <1>6, <2>4, <2>5
<1>7. ASSUME NEW k \in DOMAIN jobs, LeaseLapses(k) \/ FallsDue(k)
      PROVE  ExclusiveRun' /\ LeaseKept'
  <2>1. /\ UNCHANGED worker /\ DOMAIN jobs' = DOMAIN jobs
        /\ \A j \in DOMAIN jobs \ {k} : jobs'[j] = jobs[j]
    BY <1>0, <1>7 DEF LeaseLapses, FallsDue
  <2>2. CASE LeaseLapses(k)
    <3>1. \A v \in Workers : ~On(v, k)
      BY <2>2 DEF LeaseLapses
    <3> QED
      BY <2>1, <3>1, NobodyNew DEF LeaseKept, On, Settled
  <2>3. CASE FallsDue(k)
    <3>1. /\ jobs'[k].lease = jobs[k].lease
          /\ jobs'[k].finished = jobs[k].finished /\ jobs'[k].failed = jobs[k].failed
      <4>1. jobs'[k] = [jobs[k] EXCEPT !.due = TRUE] /\ jobs[k] \in Jobs
        BY <1>0, <2>3, RowIsARow DEF FallsDue
      <4> QED
        BY <4>1 DEF Jobs
    <3> QED
      BY <2>1, <3>1, NobodyNew DEF LeaseKept, On, Settled
  <2> QED
    BY <1>7, <2>2, <2>3
<1>8. ASSUME NEW kind \in Kinds, NEW subject \in Subjects, EnqueueJob(kind, subject)
      PROVE  ExclusiveRun' /\ LeaseKept'
  <2>1. UNCHANGED worker /\ \A j \in DOMAIN jobs : jobs'[j] = jobs[j]
    BY <1>0, <1>8 DEF EnqueueJob
  <2>2. \A v \in Workers, j \in DOMAIN jobs' : On(v, j)' => j \in DOMAIN jobs /\ On(v, j)
    BY <2>1 DEF On, QueueTypeOK
  <2> QED
    BY <2>1, <2>2, NobodyNew DEF LeaseKept, Settled
<1>9. CASE Suspend \/ Resume \/ UNCHANGED queueVars
  BY <1>9 DEF Suspend, Resume, queueVars, ExclusiveRun, LeaseKept, On, Settled
<1> QED
  BY <1>1, <1>2, <1>3, <1>4, <1>5, <1>6, <1>7, <1>8, <1>9 DEF QueueNext, WorkerStep

(* Where no worker outlasts its lease no two ever run one job, however     *)
(* many workers, jobs and attempts there are, and whatever stops.          *)
THEOREM RunsAreExclusive == ASSUME ~Stalls PROVE QueueSpec => []ExclusiveRun
<1>1. QueueInit => ExclusiveRun /\ LeaseKept
  BY DEF QueueInit, ExclusiveRun, LeaseKept
<1>2. QueueTypeOK /\ ExclusiveRun /\ LeaseKept /\ [QueueNext]_queueVars
        => ExclusiveRun' /\ LeaseKept'
  BY StepKeepsRunsExclusive
<1> QED
  BY <1>1, <1>2, QueueTypeCorrect, PTL DEF QueueSpec
-----------------------------------------------------------------------------
(* Why no job is stranded: a worker's own count of the attempts is its     *)
(* job's or more, so that none gives the job back whose last has begun,    *)
(* and what has begun its last is under a lease, or past one.              *)
AttemptsKept ==
  \A w \in Workers : \A j \in DOMAIN jobs :
    On(w, j) /\ ~Settled(j) => jobs[j].attempts <= worker[w].attempts
LeasedOnTheLast ==
  \A j \in DOMAIN jobs :
    ~Settled(j) => jobs[j].attempts < MaxAttempts \/ jobs[j].lease # "none"

(* A step that begins no attempt, and gives back none that was the last.   *)
LEMMA NoneBegun ==
  ASSUME QueueTypeOK, AttemptsKept, LeasedOnTheLast,
         \A v \in Workers : \A j \in DOMAIN jobs' : On(v, j)' =>
           j \in DOMAIN jobs /\ On(v, j) /\ worker[v].attempts <= worker'[v].attempts,
         \A v \in Workers : worker'[v].attempts \in Nat,
         \A j \in DOMAIN jobs' : ~Settled(j)' =>
           \/ j \notin DOMAIN jobs /\ jobs'[j].attempts < MaxAttempts
           \/ /\ j \in DOMAIN jobs /\ ~Settled(j) /\ jobs'[j].attempts = jobs[j].attempts
              /\ \/ jobs[j].attempts < MaxAttempts
                 \/ jobs[j].lease # "none" => jobs'[j].lease # "none"
  PROVE  AttemptsKept' /\ LeasedOnTheLast'
<1>1. ASSUME NEW v \in Workers, NEW j \in DOMAIN jobs', On(v, j)', ~Settled(j)'
      PROVE  jobs'[j].attempts <= worker'[v].attempts
  <2>1. /\ j \in DOMAIN jobs /\ ~Settled(j) /\ jobs'[j].attempts = jobs[j].attempts
        /\ On(v, j) /\ worker[v].attempts <= worker'[v].attempts
    BY <1>1
  <2>2. jobs[j].attempts <= worker[v].attempts
    BY <2>1 DEF AttemptsKept
  <2>3. jobs[j].attempts \in Nat /\ worker[v].attempts \in Nat
    BY <2>1, RowIsARow DEF QueueTypeOK, Jobs, WorkerStates
  <2> QED
    BY <2>1, <2>2, <2>3
<1>2. ASSUME NEW j \in DOMAIN jobs', ~Settled(j)'
      PROVE  jobs'[j].attempts < MaxAttempts \/ jobs'[j].lease # "none"
  BY <1>2 DEF LeasedOnTheLast
<1> QED
  BY <1>1, <1>2 DEF AttemptsKept, LeasedOnTheLast

(* The same of one whose rows that are not settled are as they were.       *)
LEMMA RowsLeft ==
  ASSUME QueueTypeOK, AttemptsKept, LeasedOnTheLast,
         \A v \in Workers : \A j \in DOMAIN jobs : On(v, j)' =>
           On(v, j) /\ worker[v].attempts <= worker'[v].attempts,
         \A v \in Workers : worker'[v].attempts \in Nat,
         DOMAIN jobs' = DOMAIN jobs,
         \A j \in DOMAIN jobs : jobs'[j] = jobs[j] \/ Settled(j)'
  PROVE  AttemptsKept' /\ LeasedOnTheLast'
<1>1. \A j \in DOMAIN jobs' : ~Settled(j)' =>
        /\ j \in DOMAIN jobs /\ ~Settled(j) /\ jobs'[j].attempts = jobs[j].attempts
        /\ jobs[j].lease # "none" => jobs'[j].lease # "none"
  BY DEF Settled
<1> QED
  BY <1>1, NoneBegun

LEMMA StepKeepsTheAttempts ==
  ASSUME QueueTypeOK, LeaseKept, AttemptsKept, LeasedOnTheLast, [QueueNext]_queueVars
  PROVE  AttemptsKept' /\ LeasedOnTheLast'
<1> USE QueueAssumption
<1>0. /\ jobs \in Seq(Jobs) /\ worker \in [Workers -> WorkerStates]
      /\ \A j \in DOMAIN jobs : jobs[j] \in Jobs
      /\ \A v \in Workers : worker[v] \in WorkerStates /\ worker[v].attempts \in 0..MaxAttempts
  BY RowIsARow DEF QueueTypeOK, WorkerStates
<1>00. ASSUME NEW v \in Workers
       PROVE  worker[v].attempts <= worker[v].attempts /\ worker'[v].attempts \in Nat
  <2>1. QueueTypeOK'
    BY StepKeepsTheType
  <2>2. worker'[v] \in WorkerStates
    BY <2>1 DEF QueueTypeOK
  <2> QED
    BY <1>0, <2>2 DEF WorkerStates
<1>1. ASSUME NEW w \in Workers, FailAbandoned(w)
      PROVE  AttemptsKept' /\ LeasedOnTheLast'
  <2>1. worker'[w].at = "telling" /\ \A v \in Workers \ {w} : worker'[v] = worker[v]
    BY <1>0, <1>1 DEF FailAbandoned, WorkerStates
  <2>2. DOMAIN jobs' = DOMAIN jobs
    BY <1>1, RowsFailed
  <2>3. ASSUME NEW j \in DOMAIN jobs
        PROVE  jobs'[j] = jobs[j] \/ Settled(j)'
    <3>1. CASE j \in Abandoned
      <4>1. jobs'[j].failed = TRUE
        BY <1>0, <1>1, <3>1 DEF FailAbandoned, Jobs
      <4> QED
        BY <4>1 DEF Settled
    <3>2. CASE j \notin Abandoned
      BY <1>1, <3>2 DEF FailAbandoned
    <3> QED
      BY <3>1, <3>2
  <2>4. \A v \in Workers : \A j \in DOMAIN jobs : On(v, j)' =>
          On(v, j) /\ worker[v].attempts <= worker'[v].attempts
    BY <1>00, <2>1 DEF On
  <2> QED
    BY <1>00, <2>2, <2>3, <2>4, RowsLeft
<1>2. ASSUME NEW w \in Workers, NEW j \in DOMAIN jobs, TellAbandoned(w, j)
      PROVE  AttemptsKept' /\ LeasedOnTheLast'
  <2>1. \A v \in Workers : /\ worker'[v].at = worker[v].at /\ worker'[v].job = worker[v].job
                           /\ worker'[v].attempts = worker[v].attempts
    BY <1>0, <1>2 DEF TellAbandoned, WorkerStates
  <2>2. UNCHANGED jobs
    BY <1>2 DEF TellAbandoned
  <2>3. \A v \in Workers : \A k \in DOMAIN jobs : On(v, k)' =>
          On(v, k) /\ worker[v].attempts <= worker'[v].attempts
    BY <1>00, <2>1 DEF On
  <2> QED
    BY <1>00, <2>2, <2>3, RowsLeft
<1>3. ASSUME NEW w \in Workers, NEW k \in DOMAIN jobs, Claim(w, k)
      PROVE  AttemptsKept' /\ LeasedOnTheLast'
  <2>1. \A v \in Workers : ~On(v, k)
    BY <1>3 DEF Claim, Claimable, LeaseKept
  <2>2. DOMAIN jobs' = DOMAIN jobs /\ \A j \in DOMAIN jobs \ {k} : jobs'[j] = jobs[j]
    BY <1>0, <1>3 DEF Claim
  <2>3. jobs'[k].lease = "held" /\ jobs'[k].attempts = jobs[k].attempts + 1
    <3>1. jobs'[k] = [jobs[k] EXCEPT !.attempts = @ + 1, !.lease = "held"]
      BY <1>0, <1>3 DEF Claim
    <3> QED
      BY <1>0, <3>1 DEF Jobs
  <2>4. /\ \A v \in Workers \ {w} : worker'[v] = worker[v]
        /\ worker'[w].job = k /\ worker'[w].attempts = jobs[k].attempts + 1
    BY <1>0, <1>3 DEF Claim
  <2>5. jobs[k].attempts + 1 <= jobs[k].attempts + 1
    BY <1>0 DEF Jobs
  <2>6. ASSUME NEW v \in Workers, NEW j \in DOMAIN jobs, On(v, j)', ~Settled(j)'
        PROVE  jobs'[j].attempts <= worker'[v].attempts
    <3>1. CASE v = w
      BY <2>3, <2>4, <2>5, <2>6, <3>1 DEF On
    <3>2. CASE v # w
      BY <2>1, <2>2, <2>4, <2>6, <3>2 DEF On, Settled, AttemptsKept
    <3> QED
      BY <3>1, <3>2
  <2>7. LeasedOnTheLast'
    BY <2>2, <2>3 DEF LeasedOnTheLast, Settled
  <2> QED
    BY <2>2, <2>6, <2>7 DEF AttemptsKept
<1>4. ASSUME NEW w \in Workers, FindNothing(w) \/ TellFailed(w) \/ Stop(w)
      PROVE  AttemptsKept' /\ LeasedOnTheLast'
  <2>1. UNCHANGED jobs /\ worker' = [worker EXCEPT ![w] = Idle]
    BY <1>4 DEF FindNothing, TellFailed, Stop, Rests
  <2>2. \A v \in Workers : \A j \in DOMAIN jobs : On(v, j)' =>
          On(v, j) /\ worker[v].attempts <= worker'[v].attempts
    BY <1>0, <1>00, <2>1 DEF On, Idle
  <2> QED
    BY <1>00, <2>1, <2>2, RowsLeft
<1>5. ASSUME NEW w \in Workers, Run(w)
      PROVE  AttemptsKept' /\ LeasedOnTheLast'
  <2>1. UNCHANGED jobs /\ worker[w].at = "running"
    BY <1>5 DEF Run, RunReturns, RunThrows, RunRefuses
  <2>2. /\ worker'[w].job = worker[w].job
        /\ worker'[w].attempts \in {worker[w].attempts, MaxAttempts}
        /\ \A v \in Workers \ {w} : worker'[v] = worker[v]
    BY <1>0, <1>5 DEF Run, RunReturns, RunThrows, RunRefuses, Goes, WorkerStates
  <2>3. worker[w].attempts <= worker'[w].attempts
    BY <1>0, <2>2
  <2>4. \A v \in Workers : \A j \in DOMAIN jobs : On(v, j)' =>
          On(v, j) /\ worker[v].attempts <= worker'[v].attempts
    BY <1>00, <2>1, <2>2, <2>3 DEF On
  <2> QED
    BY <1>00, <2>1, <2>4, RowsLeft
<1>6. ASSUME NEW w \in Workers, Complete(w) \/ CompleteThrows(w) \/ FailForGood(w)
      PROVE  AttemptsKept' /\ LeasedOnTheLast'
  <2>1. PICK k \in DOMAIN jobs : worker[w].job = k /\ On(w, k)
    BY <1>6 DEF Complete, CompleteThrows, FailForGood, QueueTypeOK, On
  <2>2. DOMAIN jobs' = DOMAIN jobs /\ \A j \in DOMAIN jobs \ {k} : jobs'[j] = jobs[j]
    BY <1>0, <1>6, <2>1 DEF Complete, CompleteThrows, FailForGood, Finish
  <2>3. jobs'[k] = jobs[k] \/ Settled(k)'
    <3>1. \/ jobs'[k] = jobs[k]
          \/ jobs'[k] = [jobs[k] EXCEPT !.finished = TRUE, !.lease = "none"]
          \/ jobs'[k] = [jobs[k] EXCEPT !.failed = TRUE, !.lease = "none"]
      BY <1>0, <1>6, <2>1 DEF Complete, CompleteThrows, FailForGood, Finish
    <3>2. /\ [jobs[k] EXCEPT !.finished = TRUE, !.lease = "none"].finished = TRUE
          /\ [jobs[k] EXCEPT !.failed = TRUE, !.lease = "none"].failed = TRUE
      BY <1>0, <2>1 DEF Jobs
    <3> QED
      BY <3>1, <3>2 DEF Settled
  <2>4. /\ \A v \in Workers \ {w} : worker'[v] = worker[v]
        /\ worker'[w].at \in {"idle", "failed"}
           \/ (worker'[w].job = k /\ worker'[w].attempts = worker[w].attempts)
    BY <1>0, <1>6, <2>1
    DEF Complete, CompleteThrows, FailForGood, Goes, Rests, Idle, WorkerStates
  <2>5. \A v \in Workers : \A j \in DOMAIN jobs : On(v, j)' =>
          On(v, j) /\ worker[v].attempts <= worker'[v].attempts
    BY <1>00, <2>1, <2>4 DEF On
  <2> QED
    BY <1>00, <2>2, <2>3, <2>5, RowsLeft
<1>7. ASSUME NEW w \in Workers, FailToRetry(w)
      PROVE  AttemptsKept' /\ LeasedOnTheLast'
  <2>1. PICK k \in DOMAIN jobs : worker[w].job = k /\ On(w, k)
    BY <1>7 DEF FailToRetry, QueueTypeOK, On
  <2>2. DOMAIN jobs' = DOMAIN jobs /\ \A j \in DOMAIN jobs \ {k} : jobs'[j] = jobs[j]
    BY <1>0, <1>7, <2>1 DEF FailToRetry
  <2>3. /\ jobs'[k].attempts = jobs[k].attempts
        /\ jobs'[k].finished = jobs[k].finished /\ jobs'[k].failed = jobs[k].failed
    <3>1. jobs'[k] = [jobs[k] EXCEPT !.lease = "none", !.due = FALSE]
      BY <1>0, <1>7, <2>1 DEF FailToRetry
    <3> QED
      BY <1>0, <2>1, <3>1 DEF Jobs
  <2>4. ~Settled(k) => jobs[k].attempts < MaxAttempts
    <3>1. worker[w].attempts < MaxAttempts
      BY <1>7 DEF FailToRetry
    <3>2. ~Settled(k) => jobs[k].attempts <= worker[w].attempts
      BY <2>1 DEF AttemptsKept
    <3> QED
      BY <1>0, <2>1, <3>1, <3>2 DEF Jobs
  <2>5. \A v \in Workers : \A j \in DOMAIN jobs' : On(v, j)' =>
          j \in DOMAIN jobs /\ On(v, j) /\ worker[v].attempts <= worker'[v].attempts
    <3>1. worker'[w].at = "idle" /\ \A v \in Workers \ {w} : worker'[v] = worker[v]
      BY <1>0, <1>7 DEF FailToRetry, Rests, Idle
    <3> QED
      BY <1>00, <2>2, <3>1 DEF On
  <2>6. \A j \in DOMAIN jobs' : ~Settled(j)' =>
          /\ j \in DOMAIN jobs /\ ~Settled(j) /\ jobs'[j].attempts = jobs[j].attempts
          /\ \/ jobs[j].attempts < MaxAttempts
             \/ jobs[j].lease # "none" => jobs'[j].lease # "none"
    BY <2>2, <2>3, <2>4 DEF Settled
  <2> QED
    BY <1>00, <2>5, <2>6, NoneBegun
<1>8. ASSUME NEW k \in DOMAIN jobs, LeaseLapses(k) \/ FallsDue(k)
      PROVE  AttemptsKept' /\ LeasedOnTheLast'
  <2>1. /\ UNCHANGED worker /\ DOMAIN jobs' = DOMAIN jobs
        /\ \A j \in DOMAIN jobs \ {k} : jobs'[j] = jobs[j]
    BY <1>0, <1>8 DEF LeaseLapses, FallsDue
  <2>2. /\ jobs'[k].attempts = jobs[k].attempts
        /\ jobs'[k].finished = jobs[k].finished /\ jobs'[k].failed = jobs[k].failed
        /\ jobs[k].lease # "none" => jobs'[k].lease # "none"
    <3>1. \/ jobs'[k] = [jobs[k] EXCEPT !.lease = "lapsed"]
          \/ jobs'[k] = [jobs[k] EXCEPT !.due = TRUE]
      BY <1>0, <1>8 DEF LeaseLapses, FallsDue
    <3> QED
      BY <1>0, <3>1 DEF Jobs
  <2>3. \A v \in Workers : \A j \in DOMAIN jobs' : On(v, j)' =>
          j \in DOMAIN jobs /\ On(v, j) /\ worker[v].attempts <= worker'[v].attempts
    BY <1>00, <2>1 DEF On
  <2>4. \A j \in DOMAIN jobs' : ~Settled(j)' =>
          /\ j \in DOMAIN jobs /\ ~Settled(j) /\ jobs'[j].attempts = jobs[j].attempts
          /\ jobs[j].lease # "none" => jobs'[j].lease # "none"
    BY <2>1, <2>2 DEF Settled
  <2> QED
    BY <1>00, <2>3, <2>4, NoneBegun
<1>9. ASSUME NEW kind \in Kinds, NEW subject \in Subjects, EnqueueJob(kind, subject)
      PROVE  AttemptsKept' /\ LeasedOnTheLast'
  <2>1. /\ UNCHANGED worker /\ \A j \in DOMAIN jobs : jobs'[j] = jobs[j]
        /\ \A j \in DOMAIN jobs' \ DOMAIN jobs : jobs'[j].attempts = 0
    <3>1. jobs' = Append(jobs, NewJob(kind, subject)) /\ NewJob(kind, subject).attempts = 0
      BY <1>9 DEF EnqueueJob, NewJob
    <3> HIDE DEF NewJob
    <3> QED
      BY <1>0, <1>9, <3>1 DEF EnqueueJob
  <2>2. \A v \in Workers : \A j \in DOMAIN jobs' : On(v, j)' =>
          j \in DOMAIN jobs /\ On(v, j) /\ worker[v].attempts <= worker'[v].attempts
    BY <1>00, <2>1 DEF On, QueueTypeOK
  <2>3. \A j \in DOMAIN jobs' : ~Settled(j)' =>
          \/ j \notin DOMAIN jobs /\ jobs'[j].attempts < MaxAttempts
          \/ /\ j \in DOMAIN jobs /\ ~Settled(j) /\ jobs'[j].attempts = jobs[j].attempts
             /\ jobs[j].lease # "none" => jobs'[j].lease # "none"
    BY <2>1 DEF Settled
  <2> QED
    BY <1>00, <2>2, <2>3, NoneBegun
<1>10. CASE Suspend \/ Resume \/ UNCHANGED queueVars
  BY <1>10 DEF Suspend, Resume, queueVars, AttemptsKept, LeasedOnTheLast, On, Settled
<1> QED
  BY <1>1, <1>2, <1>3, <1>4, <1>5, <1>6, <1>7, <1>8, <1>9, <1>10 DEF QueueNext, WorkerStep

=============================================================================
