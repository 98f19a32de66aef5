-------------------------- MODULE ReportedJobsProofs --------------------------
(***************************************************************************)
(* What the jobs the API reports on keep, for any workers, cohorts, rows,  *)
(* attempts and troubles; all but that rows left pending are waited for    *)
(* whether or not leases are outlasted.                                    *)
(***************************************************************************)
EXTENDS ReportedJobs, JobQueueProofs

(* Steps of the queue's that add no row, and what finishes one.            *)
LEMMA RowsStay ==
  ASSUME QueueTypeOK, NEW w \in Workers,
         \/ FailAbandoned(w) \/ FindNothing(w) \/ Complete(w) \/ CompleteThrows(w)
         \/ FailToRetry(w) \/ FailForGood(w) \/ Stop(w)
         \/ \E j \in DOMAIN jobs : Claim(w, j)
  PROVE  /\ DOMAIN jobs' = DOMAIN jobs
         /\ \A j \in DOMAIN jobs : jobs'[j].finished =>
              jobs[j].finished \/ (worker[w].at = "ran" /\ worker[w].job = j)
<1>0. /\ jobs \in Seq(Jobs) /\ \A j \in DOMAIN jobs : jobs[j] \in Jobs
      /\ worker[w].at \in {"running", "ran", "threw", "failed"} => worker[w].job \in DOMAIN jobs
  BY DEF QueueTypeOK
<1>1. CASE FailAbandoned(w)
  <2>1. \A j \in DOMAIN jobs :
          [jobs[j] EXCEPT !.failed = TRUE, !.lease = "none"].finished = jobs[j].finished
    BY <1>0 DEF Jobs
  <2> QED
    BY <1>1, <2>1, RowsFailed DEF FailAbandoned
<1>2. CASE FindNothing(w) \/ Stop(w) \/ UNCHANGED jobs
  BY <1>2 DEF FindNothing, Stop
<1>3. CASE Complete(w) \/ (CompleteThrows(w) /\ Finish(worker[w].job))
  <2>1. worker[w].at = "ran" /\ Finish(worker[w].job)
    BY <1>3 DEF Complete, CompleteThrows
  <2> QED
    BY <1>0, <2>1, FinishedRow DEF Finish
<1>4. CASE FailToRetry(w) \/ FailForGood(w)
  <2> DEFINE k == worker[w].job
  <2>1. k \in DOMAIN jobs
    BY <1>0, <1>4 DEF FailToRetry, FailForGood
  <2>2. PICK row : jobs' = [jobs EXCEPT ![k] = row] /\ row.finished = jobs[k].finished
    <3>1. /\ [jobs[k] EXCEPT !.lease = "none", !.due = FALSE].finished = jobs[k].finished
          /\ [jobs[k] EXCEPT !.failed = TRUE, !.lease = "none"].finished = jobs[k].finished
      BY <1>0, <2>1 DEF Jobs
    <3> QED
      BY <1>0, <1>4, <2>1, <3>1 DEF FailToRetry, FailForGood
  <2> QED
    BY <1>0, <2>1, <2>2
<1>5. ASSUME NEW j \in DOMAIN jobs, Claim(w, j)
      PROVE  /\ DOMAIN jobs' = DOMAIN jobs
             /\ \A k \in DOMAIN jobs : jobs'[k].finished => jobs[k].finished
  <2>1. [jobs[j] EXCEPT !.attempts = @ + 1, !.lease = "held"].finished = jobs[j].finished
    BY <1>0 DEF Jobs
  <2> QED
    BY <1>0, <1>5, <2>1 DEF Claim
<1> QED
  BY <1>1, <1>2, <1>3, <1>4, <1>5 DEF CompleteThrows

LEMMA RowsPass ==
  ASSUME QueueTypeOK, NEW j \in DOMAIN jobs, LeaseLapses(j) \/ FallsDue(j)
  PROVE  /\ DOMAIN jobs' = DOMAIN jobs
         /\ \A k \in DOMAIN jobs : jobs'[k].finished = jobs[k].finished
<1>1. jobs \in Seq(Jobs) /\ jobs[j] \in Jobs
  BY DEF QueueTypeOK
<1>2. /\ [jobs[j] EXCEPT !.lease = "lapsed"].finished = jobs[j].finished
      /\ [jobs[j] EXCEPT !.due = TRUE].finished = jobs[j].finished
  BY <1>1 DEF Jobs
<1> QED
  BY <1>1, <1>2 DEF LeaseLapses, FallsDue

-----------------------------------------------------------------------------
(* A step is one of the queue's own, or a run's end beside a lost answer.  *)
LEMMA QueueSteps ==
  ASSUME TypeOK, [Next]_vars
  PROVE  [QueueNext]_queueVars \/ \E w \in Workers : FinishJob(w)
<1>1. ASSUME NEW kind \in Kinds, NEW subject, Enqueued(kind, subject)
      PROVE  QueueNext
  <2>1. Len(jobs) + 1 \in Subjects /\ EnqueueJob(kind, Len(jobs) + 1)
    BY <1>1, QueueAssumption, ReportedAssumption
    DEF QueueAssumption, ReportedAssumption, Enqueued, EnqueueJob, TypeOK, QueueTypeOK
  <2> QED
    BY <2>1 DEF QueueNext
<1>2. ASSUME NEW w \in Workers, Works(w), ~FinishJob(w)
      PROVE  [QueueNext]_queueVars
  <2>1. CASE StartJob(w) \/ ReportRefused(w) \/ HandlerThrows(w)
    <3>1. Run(w) \/ UNCHANGED queueVars
      BY <2>1 DEF StartJob, ReportRefused, HandlerThrows, Run, queueVars
    <3> QED
      BY <3>1 DEF QueueNext, WorkerStep
  <2>2. CASE Reads(w) \/ MakeCohortRow(w)
    BY <2>2 DEF Reads, MakeCohortRow
  <2>3. CASE FailedTold(w) \/ \E j \in DOMAIN jobs : AbandonedTold(w, j)
    BY <2>3 DEF FailedTold, AbandonedTold, QueueNext, WorkerStep
  <2> QED
    BY <1>2, <2>1, <2>2, <2>3 DEF Works
<1>3. ASSUME NEW w \in Workers, QueueKeeps(w) \/ Stops(w)
      PROVE  QueueNext
  BY <1>3 DEF QueueKeeps, Stops, QueueNext, WorkerStep
<1>4. ASSUME NEW c \in Cohorts, RerunFailed(c) \/ FindNoRun(c) \/ RerunPending(c)
      PROVE  [QueueNext]_queueVars
  BY <1>1, <1>4, ReportedAssumption
  DEF RerunFailed, FindNoRun, RerunPending, ReportedAssumption
<1>5. CASE SubmitImpactReport \/ \E c \in Cohorts, stop \in BOOLEAN : SubmitCohort(c, stop)
  BY <1>1, <1>5, ReportedAssumption DEF SubmitImpactReport, SubmitCohort, ReportedAssumption
<1>6. CASE Suspend \/ Resume \/ \E j \in DOMAIN jobs : LeaseLapses(j) \/ FallsDue(j)
  BY <1>6 DEF QueueNext
<1> QED
  BY <1>2, <1>3, <1>4, <1>5, <1>6 DEF Next, vars, CancelJob

(* What a run's end leaves of the queue's.                                 *)
LEMMA RunIsOver ==
  ASSUME QueueTypeOK, NEW w \in Workers, FinishJob(w)
  PROVE  /\ UNCHANGED <<jobs, active>> /\ troubles' \in Nat /\ worker[w].at = "running"
         /\ \E s \in {"ran", "threw"} :
              worker' = [worker EXCEPT ![w] = [worker[w] EXCEPT !.at = s]]
<1>1. worker \in [Workers -> WorkerStates] /\ troubles \in Nat
  BY DEF QueueTypeOK
<1> QED
  BY <1>1 DEF FinishJob, RunReturns, RunThrows, Goes, Trouble

(* The queue's own tables are kept by what this component does of it.      *)
LEMMA QueueKept ==
  ASSUME TypeOK, [Next]_vars
  PROVE  QueueTypeOK'
<1>0. QueueTypeOK
  BY DEF TypeOK
<1>1. ASSUME NEW w \in Workers, FinishJob(w)
      PROVE  QueueTypeOK'
  <2>1. PICK s \in {"ran", "threw"} : worker' = [worker EXCEPT ![w] = [worker[w] EXCEPT !.at = s]]
    BY <1>0, <1>1, RunIsOver
  <2>2. UNCHANGED <<jobs, active>> /\ troubles' \in Nat /\ worker[w].at = "running"
    BY <1>0, <1>1, RunIsOver
  <2>3. jobs' \in Seq(Jobs)
    BY <1>0, <2>2 DEF QueueTypeOK
  <2> QED
    BY <1>0, <2>1, <2>2, <2>3, WorkerGoes, WorkerChanged
<1> QED
  BY <1>0, <1>1, QueueSteps, StepKeepsTheType

-----------------------------------------------------------------------------
(* What a step may make of a job's row.                                    *)
Onward(row, next) ==
  /\ next \in ReportedJobRecords
  /\ next.kind = row.kind /\ next.subject = row.subject
  /\ row.state \in {"succeeded", "failed", "cancelled"} => next = row
  /\ row.state # "accepted" => next.state # "accepted"
  /\ row.cancel => next.cancel

LEMMA RowGoesOn ==
  ASSUME TypeOK, NEW j \in DOMAIN reported, NEW row, Onward(reported[j], row),
         reported' = [reported EXCEPT ![j] = row], DOMAIN jobs' = DOMAIN jobs
  PROVE  /\ reported' \in Seq(ReportedJobRecords) /\ DOMAIN reported' = DOMAIN jobs'
         /\ \A k \in DOMAIN reported : k \in DOMAIN reported' /\ Onward(reported[k], reported'[k])
<1>1. reported \in [1..Len(reported) -> ReportedJobRecords] /\ Len(reported) \in Nat
  BY DEF TypeOK
<1>2. reported' \in [1..Len(reported) -> ReportedJobRecords]
  BY <1>1 DEF Onward
<1>3. reported' \in Seq(ReportedJobRecords) /\ DOMAIN reported' = DOMAIN reported
  BY <1>1, <1>2
<1>4. \A k \in DOMAIN reported : Onward(reported[k], reported[k])
  BY <1>1 DEF Onward
<1>5. DOMAIN reported' = DOMAIN jobs'
  BY <1>3 DEF TypeOK
<1> QED
  BY <1>1, <1>3, <1>4, <1>5

(* The rows that FailJob, StartJob, FinishJob and CancelJob leave.         *)
LEMMA FailedRow ==
  ASSUME TypeOK, NEW j \in DOMAIN reported, FailJob(j)
  PROVE  \E row : Onward(reported[j], row) /\ reported' = [reported EXCEPT ![j] = row]
<1> DEFINE state == IF reported[j].state \in {"accepted", "running"} THEN "failed"
                    ELSE reported[j].state
           row == [reported[j] EXCEPT !.state = state]
<1>1. reported[j] \in ReportedJobRecords
  BY DEF TypeOK
<1>2. row \in ReportedJobRecords /\ row.state = state /\ row.cancel = reported[j].cancel
  BY <1>1 DEF ReportedJobRecords
<1>3. reported[j].state \in {"succeeded", "failed", "cancelled"} => row = reported[j]
  BY <1>1 DEF ReportedJobRecords
<1>4. Onward(reported[j], row)
  BY <1>1, <1>2, <1>3 DEF Onward
<1>5. reported' = [reported EXCEPT ![j] = row]
  BY DEF FailJob, TypeOK
<1> QED
  BY <1>4, <1>5

LEMMA ReportedGoesOn ==
  ASSUME TypeOK, [Next]_vars
  PROVE  /\ reported' \in Seq(ReportedJobRecords) /\ DOMAIN reported' = DOMAIN jobs'
         /\ \A k \in DOMAIN reported : k \in DOMAIN reported' /\ Onward(reported[k], reported'[k])
<1> DEFINE Goal == /\ reported' \in Seq(ReportedJobRecords) /\ DOMAIN reported' = DOMAIN jobs'
                   /\ \A k \in DOMAIN reported :
                        k \in DOMAIN reported' /\ Onward(reported[k], reported'[k])
<1>0. /\ QueueTypeOK /\ reported \in Seq(ReportedJobRecords) /\ DOMAIN reported = DOMAIN jobs
      /\ \A k \in DOMAIN reported :
           reported[k] \in ReportedJobRecords /\ Onward(reported[k], reported[k])
      /\ \A w \in Workers : worker[w].at \in {"running", "failed"} => JobOf(w) \in DOMAIN reported
  BY DEF TypeOK, QueueTypeOK, Onward, JobOf
<1>a. ASSUME UNCHANGED reported, DOMAIN jobs' = DOMAIN jobs
      PROVE  Goal
  BY <1>0, <1>a
<1>b. ASSUME NEW j \in DOMAIN reported, NEW row, Onward(reported[j], row),
             reported' = [reported EXCEPT ![j] = row], DOMAIN jobs' = DOMAIN jobs
      PROVE  Goal
  BY <1>b, RowGoesOn
<1>1. ASSUME NEW kind \in Kinds, NEW subject \in Cohorts \cup {Anything}, Enqueued(kind, subject)
      PROVE  Goal
  <2>1. Accepted(kind, subject) \in ReportedJobRecords
    BY DEF Accepted, ReportedJobRecords
  <2>2. /\ reported' = Append(reported, Accepted(kind, subject))
        /\ jobs' = Append(jobs, NewJob(kind, Len(jobs) + 1))
    BY <1>1 DEF Enqueued, EnqueueJob
  <2>3. Len(reported) = Len(jobs) /\ jobs \in Seq(Jobs)
    BY <1>0 DEF QueueTypeOK
  <2> HIDE DEF Accepted
  <2>4. /\ reported' \in Seq(ReportedJobRecords)
        /\ \A k \in DOMAIN reported : k \in DOMAIN reported' /\ reported'[k] = reported[k]
    BY <1>0, <2>1, <2>2
  <2>5. DOMAIN reported' = 1..Len(reported) + 1 /\ DOMAIN jobs' = 1..Len(jobs) + 1
    BY <1>0, <2>2, <2>3
  <2> QED
    BY <1>0, <2>3, <2>4, <2>5
<1>2. ASSUME NEW j \in DOMAIN reported, CancelJob(j)
      PROVE  Goal
  <2> DEFINE row == IF reported[j].state = "accepted"
                    THEN [reported[j] EXCEPT !.state = "cancelled", !.cancel = TRUE]
                    ELSE [reported[j] EXCEPT !.cancel = TRUE]
  <2>1. Onward(reported[j], row)
    BY <1>0, <1>2 DEF CancelJob, Live, Onward, ReportedJobRecords
  <2>2. reported' = [reported EXCEPT ![j] = row] /\ DOMAIN jobs' = DOMAIN jobs
    BY <1>0, <1>2 DEF CancelJob, queueVars
  <2> QED
    BY <1>b, <2>1, <2>2
<1>3. ASSUME NEW w \in Workers, StartJob(w)
      PROVE  Goal
  <2> DEFINE j == JobOf(w)
             row == [reported[j] EXCEPT !.state = "running", !.started = TRUE]
  <2>1. j \in DOMAIN reported /\ DOMAIN jobs' = DOMAIN jobs
    BY <1>0, <1>3 DEF StartJob
  <2>2. CASE MayStart(j)
    <3>1. Onward(reported[j], row)
      BY <1>0, <2>1, <2>2 DEF MayStart, Onward, ReportedJobRecords
    <3>2. reported' = [reported EXCEPT ![j] = row]
      BY <1>0, <1>3, <2>1, <2>2 DEF StartJob
    <3> QED
      BY <1>b, <2>1, <3>1, <3>2
  <2>3. CASE ~MayStart(j)
    BY <1>3, <1>a, <2>1, <2>3 DEF StartJob
  <2> QED
    BY <2>2, <2>3
<1>4. ASSUME NEW w \in Workers, FinishJob(w)
      PROVE  Goal
  <2> DEFINE j == JobOf(w)
             state == IF reported[j].state # "running" THEN reported[j].state
                      ELSE IF walk[w].at = "through" /\ ~reported[j].cancel
                           THEN "succeeded" ELSE "cancelled"
             row == [reported[j] EXCEPT !.state = state]
  <2>1. j \in DOMAIN reported /\ DOMAIN jobs' = DOMAIN jobs
    BY <1>0, <1>4 DEF FinishJob
  <2>2. reported' = [reported EXCEPT ![j] = row]
    BY <1>0, <1>4 DEF FinishJob
  <2>3. row \in ReportedJobRecords /\ row.state = state /\ row.cancel = reported[j].cancel
    BY <1>0, <2>1 DEF ReportedJobRecords
  <2>4. reported[j].state # "running" => row = reported[j]
    BY <1>0, <2>1 DEF ReportedJobRecords
  <2>5. Onward(reported[j], row)
    BY <1>0, <2>1, <2>3, <2>4 DEF Onward
  <2> HIDE DEF row
  <2> QED
    BY <1>b, <2>1, <2>2, <2>5
<1>5. ASSUME NEW w \in Workers, FailedTold(w) \/ \E k \in DOMAIN jobs : AbandonedTold(w, k)
      PROVE  Goal
  <2>1. PICK j \in DOMAIN reported : FailJob(j) /\ DOMAIN jobs' = DOMAIN jobs
    BY <1>0, <1>5 DEF FailedTold, AbandonedTold, TellFailed, TellAbandoned
  <2> QED
    BY <1>b, <2>1, FailedRow
<1>6. ASSUME NEW w \in Workers, QueueKeeps(w) \/ Stops(w)
      PROVE  Goal
  <2>1. UNCHANGED reported
    BY <1>6 DEF QueueKeeps, Stops, tenantVars
  <2>2. DOMAIN jobs' = DOMAIN jobs
    BY <1>0, <1>6, RowsStay DEF QueueKeeps, Stops
  <2> QED
    BY <1>a, <2>1, <2>2
<1>7. CASE \E j \in DOMAIN jobs : (LeaseLapses(j) \/ FallsDue(j)) /\ UNCHANGED tenantVars
  BY <1>0, <1>7, <1>a, RowsPass DEF tenantVars
<1>8. CASE UNCHANGED <<jobs, reported>>
  BY <1>8, <1>a
<1>9. ASSUME NEW w \in Workers, Works(w)
      PROVE  Goal
  <2>1. CASE ReportRefused(w) \/ Reads(w) \/ MakeCohortRow(w) \/ HandlerThrows(w)
    BY <1>8, <2>1 DEF ReportRefused, Reads, MakeCohortRow, HandlerThrows, queueVars, tenantVars
  <2> QED
    BY <1>3, <1>4, <1>5, <1>9, <2>1 DEF Works
<1>10. ASSUME NEW c \in Cohorts, RerunFailed(c) \/ FindNoRun(c) \/ RerunPending(c)
       PROVE  Goal
  BY <1>1, <1>8, <1>10, ReportedAssumption
  DEF RerunFailed, FindNoRun, RerunPending, queueVars, ReportedAssumption
<1>11. CASE SubmitImpactReport \/ \E c \in Cohorts, stop \in BOOLEAN : SubmitCohort(c, stop)
  BY <1>1, <1>11, ReportedAssumption DEF SubmitImpactReport, SubmitCohort, ReportedAssumption
<1>12. CASE (Suspend \/ Resume) /\ UNCHANGED tenantVars
  BY <1>8, <1>12 DEF Suspend, Resume, tenantVars
<1>13. CASE UNCHANGED vars
  BY <1>8, <1>13 DEF vars, queueVars, tenantVars
<1> QED
  BY <1>2, <1>6, <1>7, <1>9, <1>10, <1>11, <1>12, <1>13 DEF Next

-----------------------------------------------------------------------------
(* The cohorts, and the documents made of their rows.                      *)
CohortsInv ==
  /\ cohort \in [Cohorts -> CohortRecords]
  /\ documents \in [Cohorts -> [Rows -> Nat]]
  /\ rerunning \in [Cohorts -> Nat]
  /\ MadeOnce

LEMMA CohortsGoOn ==
  ASSUME TypeOK, CohortsInv, [Next]_vars
  PROVE  CohortsInv'
<1>0. /\ \A c \in Cohorts : cohort[c] \in CohortRecords /\ cohort[c].rows \in [Rows -> RowStates]
      /\ \A c \in Cohorts : documents[c] \in [Rows -> Nat]
  BY DEF CohortsInv, CohortRecords
<1>1. ASSUME UNCHANGED <<cohort, documents>>, rerunning' \in [Cohorts -> Nat]
      PROVE  CohortsInv'
  BY <1>1 DEF CohortsInv, MadeOnce
<1>2. ASSUME NEW c \in Cohorts, NEW stop \in BOOLEAN, SubmitCohort(c, stop)
      PROVE  CohortsInv'
  <2> DEFINE row == [cohort[c] EXCEPT !.asked = TRUE, !.stop = stop]
  <2>1. row \in CohortRecords /\ row.rows = cohort[c].rows
    BY <1>0 DEF CohortRecords
  <2>2. cohort' = [cohort EXCEPT ![c] = row] /\ UNCHANGED <<documents, rerunning>>
    BY <1>2 DEF SubmitCohort, CohortsInv
  <2> HIDE DEF row
  <2> QED
    BY <2>1, <2>2 DEF CohortsInv, MadeOnce
<1>3. ASSUME NEW c \in Cohorts, RerunFailed(c)
      PROVE  CohortsInv'
  <2> DEFINE again == [r \in Rows |-> IF cohort[c].rows[r] = "failed" THEN "pending"
                                      ELSE cohort[c].rows[r]]
             row == [cohort[c] EXCEPT !.rows = again]
  <2>1. again \in [Rows -> RowStates] /\ \A r \in Rows : again[r] = "made" <=> cohort[c].rows[r] = "made"
    BY <1>0 DEF RowStates
  <2>2. cohort' = [cohort EXCEPT ![c] = row] /\ UNCHANGED <<documents, rerunning>>
    BY <1>3 DEF RerunFailed, CohortsInv
  <2> HIDE DEF again
  <2>3. row \in CohortRecords /\ row.rows = again
    BY <1>0, <2>1 DEF CohortRecords
  <2> HIDE DEF row
  <2> QED
    BY <2>1, <2>2, <2>3 DEF CohortsInv, MadeOnce
<1>4. ASSUME NEW c \in Cohorts, FindNoRun(c) \/ RerunPending(c)
      PROVE  CohortsInv'
  <2>1. rerunning \in [Cohorts -> Nat] /\ rerunning[c] \in Nat
    BY DEF CohortsInv
  <2>2. CASE FindNoRun(c)
    BY <1>1, <2>1, <2>2 DEF FindNoRun
  <2>3. CASE RerunPending(c)
    <3>1. rerunning[c] - 1 \in Nat /\ rerunning' = [rerunning EXCEPT ![c] = rerunning[c] - 1]
      BY <2>1, <2>3 DEF RerunPending
    <3> QED
      BY <1>1, <2>1, <2>3, <3>1 DEF RerunPending
  <2> QED
    BY <1>4, <2>2, <2>3
<1>5. ASSUME NEW w \in Workers, MakeCohortRow(w)
      PROVE  CohortsInv'
  <2> DEFINE c == CohortOf(w)
  <2>1. PICK r \in Rows, made \in BOOLEAN :
          IF MayMake(c, r)
          THEN /\ cohort' = [cohort EXCEPT ![c].rows[r] = IF made THEN "made" ELSE "failed"]
               /\ documents' = IF made THEN [documents EXCEPT ![c][r] = @ + 1] ELSE documents
          ELSE UNCHANGED <<cohort, documents>>
    BY <1>5 DEF MakeCohortRow
  <2>2. rerunning' = rerunning
    BY <1>5 DEF MakeCohortRow
  <2>3. CASE ~MayMake(c, r) \/ c \notin Cohorts
    BY <1>1, <2>1, <2>2, <2>3 DEF CohortsInv
  <2>4. CASE MayMake(c, r) /\ c \in Cohorts
    <3> DEFINE state == IF made THEN "made" ELSE "failed"
               rows == [cohort[c].rows EXCEPT ![r] = state]
               row == [cohort[c] EXCEPT !.rows = rows]
               docs == [documents[c] EXCEPT ![r] = documents[c][r] + 1]
    <3>1. cohort[c].rows[r] = "pending" /\ documents[c][r] = 0
      BY <2>4 DEF MayMake, CohortsInv, MadeOnce
    <3>2. /\ rows \in [Rows -> RowStates] /\ rows[r] = state
          /\ \A q \in Rows \ {r} : rows[q] = cohort[c].rows[q]
      BY <1>0, <2>4 DEF RowStates
    <3>3. /\ docs \in [Rows -> Nat] /\ docs[r] = 1
          /\ \A q \in Rows \ {r} : docs[q] = documents[c][q]
      BY <1>0, <2>4, <3>1
    <3>4. cohort' = [cohort EXCEPT ![c] = row]
      BY <2>1, <2>4 DEF CohortsInv
    <3>5. documents' = IF made THEN [documents EXCEPT ![c] = docs] ELSE documents
      BY <2>1, <2>4 DEF CohortsInv
    <3> HIDE DEF rows, docs
    <3>6. row \in CohortRecords /\ row.rows = rows
      BY <1>0, <2>4, <3>2 DEF CohortRecords
    <3> HIDE DEF row, c
    <3>7. ASSUME NEW d \in Cohorts, NEW q \in Rows
          PROVE  documents'[d][q] = IF cohort'[d].rows[q] = "made" THEN 1 ELSE 0
      <4>1. CASE d # c
        BY <3>4, <3>5, <4>1 DEF CohortsInv, MadeOnce
      <4>2. CASE d = c
        BY <2>4, <3>1, <3>2, <3>3, <3>4, <3>5, <3>6, <4>2 DEF CohortsInv, MadeOnce
      <4> QED
        BY <4>1, <4>2
    <3> QED
      BY <2>2, <2>4, <3>3, <3>4, <3>5, <3>6, <3>7 DEF CohortsInv, MadeOnce
  <2> QED
    BY <2>3, <2>4
<1>6. CASE UNCHANGED <<cohort, documents, rerunning>>
  BY <1>1, <1>6 DEF CohortsInv
<1>7. ASSUME NEW w \in Workers, Works(w)
      PROVE  CohortsInv'
  BY <1>5, <1>6, <1>7
  DEF Works, StartJob, ReportRefused, Reads, FinishJob, HandlerThrows, FailedTold, AbandonedTold,
      tenantVars
<1>8. ASSUME NEW w \in Workers, QueueKeeps(w) \/ Stops(w)
      PROVE  CohortsInv'
  BY <1>6, <1>8 DEF QueueKeeps, Stops, tenantVars
<1> QED
  BY <1>2, <1>3, <1>4, <1>6, <1>7, <1>8
  DEF Next, SubmitImpactReport, CancelJob, vars, tenantVars

-----------------------------------------------------------------------------
(* The handlers.  One that has begun has a running worker and a job that   *)
(* is accepted no more, and one that has returned a job that has ended.    *)
(* Only what is next to hear of a cancel has made a row after it.          *)
Sound(w) ==
  /\ walk[w].at # "unbegun" => worker[w].at = "running" /\ reported[JobOf(w)].state # "accepted"
  /\ worker[w].at = "ran" => Ended(JobOf(w))
  /\ walk[w].late <= 1
  /\ walk[w].late > 0 => AskedToStop(w) /\ walk[w].at \in {"telling", "stopped"}

WalksInv == walk \in [Workers -> Walks] /\ \A w \in Workers : Sound(w)

(* What a worker and its handler keep, whatever others do of its job.      *)
LEMMA OthersSound ==
  ASSUME TypeOK, [Next]_vars, NEW v \in Workers, Sound(v),
         worker'[v] = worker[v], walk'[v] = walk[v]
  PROVE  Sound(v)'
<1>1. walk[v] \in Walks /\ (worker[v].at \in {"running", "ran"} => JobOf(v) \in DOMAIN reported)
  BY DEF TypeOK, QueueTypeOK, JobOf
<1>2. JobOf(v)' = JobOf(v)
  BY DEF JobOf
<1>3. CASE worker[v].at \in {"running", "ran"}
  <2>1. JobOf(v) \in DOMAIN reported'
        /\ Onward(reported[JobOf(v)], reported'[JobOf(v)])
    BY <1>1, <1>3, ReportedGoesOn
  <2> QED
    BY <1>1, <1>2, <1>3, <2>1 DEF Sound, Onward, AskedToStop, Ended
<1>4. CASE worker[v].at \notin {"running", "ran"}
  <2>1. walk[v].at = "unbegun" /\ ~(walk[v].late > 0)
    BY <1>4 DEF Sound
  <2> QED
    BY <1>4, <2>1 DEF Sound
<1> QED
  BY <1>3, <1>4

(* A step of w's alone.                                                    *)
LEMMA OneWalks ==
  ASSUME TypeOK, WalksInv, [Next]_vars, NEW w \in Workers, NEW row \in Walks,
         walk' = [walk EXCEPT ![w] = row],
         \A v \in Workers \ {w} : worker'[v] = worker[v],
         Sound(w)'
  PROVE  WalksInv'
<1>1. walk' \in [Workers -> Walks]
  BY DEF WalksInv
<1>2. ASSUME NEW v \in Workers \ {w}
      PROVE  Sound(v)'
  <2>1. walk'[v] = walk[v]
    BY DEF WalksInv
  <2> QED
    BY <2>1, OthersSound DEF WalksInv
<1> QED
  BY <1>1, <1>2 DEF WalksInv

(* Where its handler is not begun a worker is sound, its run not returned. *)
LEMMA UnbegunIsSound ==
  ASSUME NEW w \in Workers, walk'[w] = Unbegun, worker'[w].at # "ran"
  PROVE  Sound(w)'
  BY DEF Unbegun, Sound

(* A worker whose run has not begun, or is over, has no handler begun.     *)
LEMMA NotRunning ==
  ASSUME WalksInv, NEW w \in Workers, worker[w].at # "running"
  PROVE  walk[w].at = "unbegun" /\ walk[w].late = 0
<1>1. walk[w].late \in Nat
  BY DEF WalksInv, Walks
<1> QED
  BY <1>1 DEF WalksInv, Sound

(* A step of the queue's of a worker with no handler begun.                *)
LEMMA QueueWalks ==
  ASSUME TypeOK, WalksInv, [Next]_vars, NEW w \in Workers, worker[w].at # "running",
         UNCHANGED walk, \A v \in Workers \ {w} : worker'[v] = worker[v],
         worker'[w].at # "ran"
  PROVE  WalksInv'
<1>1. Sound(w)'
  BY NotRunning DEF Sound
<1>2. \A v \in Workers \ {w} : Sound(v)'
  BY OthersSound DEF WalksInv
<1> QED
  BY <1>1, <1>2 DEF WalksInv

LEMMA WalksGoOn ==
  ASSUME TypeOK, WalksInv, [Next]_vars
  PROVE  WalksInv'
<1>0. /\ walk \in [Workers -> Walks] /\ worker \in [Workers -> WorkerStates]
      /\ \A w \in Workers : walk[w] \in Walks /\ worker[w] \in WorkerStates /\ Sound(w)
      /\ Unbegun \in Walks
      /\ \A w \in Workers : worker[w].at \in {"running", "ran"} => JobOf(w) \in DOMAIN reported
      /\ \A j \in DOMAIN reported : reported[j] \in ReportedJobRecords
  BY DEF WalksInv, TypeOK, QueueTypeOK, Unbegun, Walks, JobOf
<1>a. ASSUME UNCHANGED <<worker, walk>>
      PROVE  WalksInv'
  BY <1>a, OthersSound DEF WalksInv
<1>b. ASSUME NEW w \in Workers, walk' = [walk EXCEPT ![w] = Unbegun], worker'[w].at # "ran",
             \A v \in Workers \ {w} : worker'[v] = worker[v]
      PROVE  WalksInv'
  BY <1>0, <1>b, UnbegunIsSound, OneWalks
<1>1. ASSUME NEW w \in Workers, StartJob(w)
      PROVE  WalksInv'
  <2> DEFINE j == JobOf(w)
  <2>1. j \in DOMAIN reported /\ worker[w].at = "running" /\ walk[w].at = "unbegun"
    BY <1>0, <1>1 DEF StartJob
  <2>2. walk[w].late = 0
    BY <1>0, <2>1 DEF Sound, Walks
  <2>3. CASE MayStart(j)
    <3> DEFINE row == [walk[w] EXCEPT !.at = "started"]
    <3>1. row \in Walks /\ row.late = 0 /\ row.at = "started"
      BY <1>0, <2>2 DEF Walks
    <3>2. walk' = [walk EXCEPT ![w] = row] /\ worker' = worker
      BY <1>0, <1>1, <2>3 DEF StartJob, Moves
    <3>3. reported'[j].state = "running"
      BY <1>0, <1>1, <2>1, <2>3 DEF StartJob, ReportedJobRecords
    <3> HIDE DEF row
    <3>4. walk'[w] = row
      BY <1>0, <3>2
    <3>5. Sound(w)'
      BY <2>1, <3>1, <3>2, <3>3, <3>4 DEF Sound, JobOf
    <3> QED
      BY <3>1, <3>2, <3>5, OneWalks
  <2>4. CASE ~MayStart(j)
    <3>1. UNCHANGED <<reported, walk>> /\ worker' = [worker EXCEPT ![w].at = "ran"]
      BY <1>1, <2>4 DEF StartJob, RunReturns, Goes
    <3>2. Ended(j) /\ JobOf(w)' = j /\ worker'[w].at = "ran"
      BY <1>0, <2>1, <2>4, <3>1 DEF MayStart, Ended, JobOf, ReportedJobRecords, WorkerStates
    <3>3. Sound(w)'
      BY <2>1, <2>2, <3>1, <3>2 DEF Sound, Ended
    <3>4. \A v \in Workers \ {w} : Sound(v)'
      BY <1>0, <3>1, OthersSound
    <3> QED
      BY <1>0, <3>1, <3>3, <3>4 DEF WalksInv
  <2> QED
    BY <2>3, <2>4
<1>2. ASSUME NEW w \in Workers, ReportRefused(w) \/ HandlerThrows(w) \/ Stops(w)
      PROVE  WalksInv'
  <2>1. walk' = [walk EXCEPT ![w] = Unbegun]
    BY <1>2 DEF ReportRefused, HandlerThrows, Stops
  <2>2. worker'[w].at # "ran" /\ \A v \in Workers \ {w} : worker'[v] = worker[v]
    BY <1>0, <1>2
    DEF ReportRefused, HandlerThrows, Stops, Stop, Rests, Idle, RunRefuses, RunThrows, Goes,
        WorkerStates
  <2> QED
    BY <1>b, <2>1, <2>2
<1>3. ASSUME NEW w \in Workers, Reads(w)
      PROVE  WalksInv'
  <2>1. /\ worker[w].at = "running" /\ walk[w].at # "unbegun"
        /\ UNCHANGED <<worker, reported>>
    BY <1>3
    DEF Reads, ReportReadable, WalkDepth, ReadCohort, PendingRows, ProgressJob, Is, queueVars,
        tenantVars
  <2>2. \E row \in Walks :
          /\ walk' = [walk EXCEPT ![w] = row]
          /\ row.late = walk[w].late
          /\ row.late > 0 => row.at \in {"telling", "stopped"}
    <3>1. ASSUME NEW s \in {"reading", "walking", "stopped", "through"}
          PROVE  /\ [walk[w] EXCEPT !.at = s] \in Walks
                 /\ [walk[w] EXCEPT !.at = s].late = walk[w].late
                 /\ [walk[w] EXCEPT !.at = s].at = s
                 /\ \A rows \in SUBSET Rows :
                      LET row == [walk[w] EXCEPT !.todo = rows, !.at = s] IN
                      row \in Walks /\ row.late = walk[w].late /\ row.at = s
                 /\ LET row == [walk[w] EXCEPT !.at = s, !.todo = {}, !.failed = FALSE] IN
                    row \in Walks /\ row.late = walk[w].late /\ row.at = s
      BY <1>0 DEF Walks
    <3>2. walk[w].late \in Nat /\ (walk[w].late > 0 => AskedToStop(w) /\ walk[w].at \in {"telling", "stopped"})
      BY <1>0 DEF Walks, Sound
    <3>3. CASE ReportReadable(w) \/ WalkDepth(w) \/ ReadCohort(w)
      <4>1. PICK s \in {"reading", "walking", "stopped", "through"} :
              walk' = [walk EXCEPT ![w] = [walk[w] EXCEPT !.at = s]]
        BY <1>0, <3>3 DEF ReportReadable, WalkDepth, ReadCohort, Moves
      <4>2. ~(walk[w].late > 0)
        BY <3>2, <3>3 DEF ReportReadable, WalkDepth, ReadCohort, Is
      <4> QED
        BY <3>1, <4>1, <4>2
    <3>4. CASE PendingRows(w)
      <4> DEFINE rows == Of(CohortOf(w), "pending")
      <4>1. rows \in SUBSET Rows
        BY DEF Of
      <4>2. PICK s \in {"walking", "through"} :
              walk' = [walk EXCEPT ![w] = [walk[w] EXCEPT !.todo = rows, !.at = s]]
        BY <1>0, <3>4 DEF PendingRows
      <4>3. ~(walk[w].late > 0)
        BY <3>2, <3>4 DEF PendingRows, Is
      <4> HIDE DEF rows
      <4> QED
        BY <3>1, <4>1, <4>2, <4>3
    <3>5. CASE ProgressJob(w)
      <4>1. CASE ~MayGoOn(w) /\ Leaves(w, "stopped")
        BY <1>0, <3>1, <4>1 DEF Leaves
      <4>2. CASE MayGoOn(w)
        <5>1. ~(walk[w].late > 0)
          BY <3>2, <4>2 DEF MayGoOn, AskedToStop, Ended
        <5>2. CASE Leaves(w, "through")
          BY <1>0, <3>1, <5>1, <5>2 DEF Leaves
        <5>3. CASE Moves(w, "walking")
          BY <1>0, <3>1, <5>1, <5>3 DEF Moves
        <5> QED
          BY <3>5, <4>2, <5>2, <5>3 DEF ProgressJob
      <4> QED
        BY <3>5, <4>1, <4>2 DEF ProgressJob
    <3> QED
      BY <1>3, <3>3, <3>4, <3>5 DEF Reads
  <2>3. PICK row \in Walks : /\ walk' = [walk EXCEPT ![w] = row]
                             /\ row.late = walk[w].late
                             /\ row.late > 0 => row.at \in {"telling", "stopped"}
    BY <2>2
  <2>4. Sound(w)'
    <3>1. walk'[w] = row
      BY <1>0, <2>3
    <3> QED
      BY <1>0, <2>1, <2>3, <3>1 DEF Sound, JobOf, AskedToStop, Ended
  <2> QED
    BY <2>1, <2>3, <2>4, OneWalks
<1>4. ASSUME NEW w \in Workers, MakeCohortRow(w)
      PROVE  WalksInv'
  <2>1. /\ worker[w].at = "running" /\ walk[w].at = "walking" /\ walk[w].late = 0
        /\ UNCHANGED <<worker, reported>>
    BY <1>0, <1>4 DEF MakeCohortRow, Is, queueVars, Sound, Walks
  <2>2. PICK r \in Rows, made \in BOOLEAN :
          walk' = [walk EXCEPT ![w] =
            [at |-> "telling", todo |-> walk[w].todo \ {r},
             failed |-> MayMake(CohortOf(w), r) /\ ~made,
             late |-> IF MayMake(CohortOf(w), r) /\ AskedToStop(w) THEN walk[w].late + 1
                      ELSE walk[w].late]]
    BY <1>0, <1>4 DEF MakeCohortRow
  <2> DEFINE row == [at |-> "telling", todo |-> walk[w].todo \ {r},
                     failed |-> MayMake(CohortOf(w), r) /\ ~made,
                     late |-> IF MayMake(CohortOf(w), r) /\ AskedToStop(w) THEN walk[w].late + 1
                              ELSE walk[w].late]
  <2>3. row \in Walks /\ row.at = "telling" /\ row.late <= 1
        /\ (row.late > 0 => AskedToStop(w))
    BY <1>0, <2>1 DEF Walks, MayMake
  <2> HIDE DEF row
  <2>4. walk'[w] = row
    BY <1>0, <2>2 DEF row
  <2>5. Sound(w)'
    BY <1>0, <2>1, <2>3, <2>4 DEF Sound, JobOf, AskedToStop, Ended
  <2> QED
    BY <2>1, <2>2, <2>3, <2>5, OneWalks DEF row
<1>5. ASSUME NEW w \in Workers, FinishJob(w)
      PROVE  WalksInv'
  <2> DEFINE j == JobOf(w)
  <2>1. /\ j \in DOMAIN reported /\ walk' = [walk EXCEPT ![w] = Unbegun]
        /\ reported[j].state # "accepted"
    BY <1>0, <1>5 DEF FinishJob, Sound
  <2>2. /\ \A v \in Workers \ {w} : worker'[v] = worker[v]
        /\ JobOf(w)' = j
    BY <1>0, <1>5 DEF FinishJob, RunReturns, RunThrows, Goes, JobOf, WorkerStates
  <2>3. reported'[j].state \in {"succeeded", "failed", "cancelled"}
    <3>1. reported'[j].state = IF reported[j].state # "running" THEN reported[j].state
                               ELSE IF walk[w].at = "through" /\ ~reported[j].cancel
                                    THEN "succeeded" ELSE "cancelled"
      BY <1>0, <1>5, <2>1 DEF FinishJob, ReportedJobRecords
    <3> QED
      BY <1>0, <2>1, <3>1 DEF ReportedJobRecords
  <2>4. walk'[w] = Unbegun
    BY <1>0, <2>1
  <2>5. Sound(w)'
    BY <2>2, <2>3, <2>4 DEF Sound, Unbegun, Ended
  <2> QED
    BY <1>0, <2>1, <2>2, <2>5, OneWalks
<1>6. ASSUME NEW w \in Workers, FailedTold(w) \/ \E j \in DOMAIN jobs : AbandonedTold(w, j)
      PROVE  WalksInv'
  <2>1. worker[w].at # "running" /\ UNCHANGED walk /\ worker'[w].at # "ran"
        /\ \A v \in Workers \ {w} : worker'[v] = worker[v]
    BY <1>0, <1>6
    DEF FailedTold, AbandonedTold, TellFailed, TellAbandoned, Rests, Idle, WorkerStates
  <2> QED
    BY <2>1, QueueWalks
<1>7. ASSUME NEW w \in Workers, QueueKeeps(w)
      PROVE  WalksInv'
  <2>1. worker[w].at # "running" /\ UNCHANGED walk /\ worker'[w].at # "ran"
        /\ \A v \in Workers \ {w} : worker'[v] = worker[v]
    <3>1. UNCHANGED walk
      BY <1>7 DEF QueueKeeps
    <3>2. CASE FailAbandoned(w)
      BY <1>0, <3>1, <3>2 DEF FailAbandoned, WorkerStates
    <3>3. CASE FindNothing(w) \/ Complete(w) \/ FailToRetry(w)
      BY <1>0, <3>1, <3>3 DEF FindNothing, Complete, FailToRetry, Rests, Idle
    <3>4. CASE CompleteThrows(w) \/ FailForGood(w)
      BY <1>0, <3>1, <3>4 DEF CompleteThrows, FailForGood, Goes, WorkerStates
    <3>5. ASSUME NEW k \in DOMAIN jobs, Claim(w, k)
          PROVE  /\ worker[w].at # "running" /\ worker'[w].at # "ran"
                 /\ \A v \in Workers \ {w} : worker'[v] = worker[v]
      BY <1>0, <3>5 DEF Claim
    <3> QED
      BY <1>7, <3>1, <3>2, <3>3, <3>4, <3>5 DEF QueueKeeps
  <2> QED
    BY <2>1, QueueWalks
<1>8. ASSUME NEW w \in Workers, Works(w)
      PROVE  WalksInv'
  BY <1>1, <1>2, <1>3, <1>4, <1>5, <1>6, <1>8 DEF Works
<1>9. CASE \/ SubmitImpactReport \/ \E c \in Cohorts, stop \in BOOLEAN : SubmitCohort(c, stop)
           \/ \E j \in DOMAIN reported : CancelJob(j)
           \/ \E c \in Cohorts : RerunFailed(c) \/ FindNoRun(c) \/ RerunPending(c)
           \/ UNCHANGED vars
  BY <1>9, <1>a
  DEF SubmitImpactReport, SubmitCohort, CancelJob, RerunFailed, FindNoRun, RerunPending,
      Enqueued, EnqueueJob, queueVars, vars
<1>10. CASE /\ Suspend \/ Resume \/ \E j \in DOMAIN jobs : LeaseLapses(j) \/ FallsDue(j)
            /\ UNCHANGED walk
  BY <1>10, <1>a DEF Suspend, Resume, LeaseLapses, FallsDue
<1> QED
  BY <1>2, <1>7, <1>8, <1>9, <1>10 DEF Next

-----------------------------------------------------------------------------
(* What is finished in the queue was finished by a worker whose run had    *)
(* returned, and what has ended stays so.                                  *)
LEMMA FinishedGoesOn ==
  ASSUME TypeOK, WalksInv, FinishedHasEnded, [Next]_vars
  PROVE  FinishedHasEnded'
<1>0. /\ QueueTypeOK /\ jobs \in Seq(Jobs) /\ DOMAIN reported = DOMAIN jobs
      /\ \A j \in DOMAIN reported : Ended(j) => Ended(j)'
  BY ReportedGoesOn DEF TypeOK, QueueTypeOK, Onward, Ended
<1>1. ASSUME NEW w \in Workers, DOMAIN jobs' = DOMAIN jobs,
             \A j \in DOMAIN jobs : jobs'[j].finished =>
               jobs[j].finished \/ (worker[w].at = "ran" /\ worker[w].job = j)
      PROVE  FinishedHasEnded'
  <2>1. Sound(w)
    BY DEF WalksInv
  <2> QED
    BY <1>0, <1>1, <2>1 DEF FinishedHasEnded, Sound, JobOf
<1>2. ASSUME DOMAIN jobs' = DOMAIN jobs, \A j \in DOMAIN jobs : jobs'[j].finished = jobs[j].finished
      PROVE  FinishedHasEnded'
  BY <1>0, <1>2 DEF FinishedHasEnded
<1>3. ASSUME NEW kind, NEW subject, Enqueued(kind, subject)
      PROVE  FinishedHasEnded'
  <2>1. jobs' = Append(jobs, NewJob(kind, Len(jobs) + 1)) /\ ~NewJob(kind, Len(jobs) + 1).finished
    BY <1>3 DEF Enqueued, EnqueueJob, NewJob
  <2> HIDE DEF NewJob
  <2> QED
    BY <1>0, <2>1 DEF FinishedHasEnded
<1>4. ASSUME NEW w \in Workers, QueueKeeps(w) \/ Stops(w)
      PROVE  FinishedHasEnded'
  BY <1>0, <1>1, <1>4, RowsStay DEF QueueKeeps, Stops
<1>5. CASE \E j \in DOMAIN jobs : LeaseLapses(j) \/ FallsDue(j)
  BY <1>0, <1>2, <1>5, RowsPass
<1>6. CASE UNCHANGED jobs
  BY <1>2, <1>6
<1>7. ASSUME NEW w \in Workers, Works(w)
      PROVE  FinishedHasEnded'
  BY <1>6, <1>7
  DEF Works, StartJob, ReportRefused, Reads, MakeCohortRow, FinishJob, HandlerThrows, FailedTold,
      AbandonedTold, TellFailed, TellAbandoned, queueVars
<1>8. ASSUME NEW c \in Cohorts, RerunFailed(c) \/ FindNoRun(c) \/ RerunPending(c)
      PROVE  FinishedHasEnded'
  BY <1>3, <1>6, <1>8 DEF RerunFailed, FindNoRun, RerunPending, queueVars
<1> QED
  BY <1>3, <1>4, <1>5, <1>6, <1>7, <1>8
  DEF Next, SubmitImpactReport, SubmitCohort, CancelJob, Suspend, Resume, vars, queueVars

-----------------------------------------------------------------------------
(* What was never told is written only where a worker stops, and is of     *)
(* jobs there are.                                                         *)
LEMMA NeverToldGoesOn ==
  ASSUME TypeOK, [Next]_vars
  PROVE  neverTold' \subseteq DOMAIN jobs'
<1>1. DOMAIN jobs \subseteq DOMAIN jobs' /\ neverTold \subseteq DOMAIN jobs
  BY ReportedGoesOn DEF TypeOK
<1>2. neverTold' = neverTold \/ \E w \in Workers : neverTold' = neverTold \cup Telling(w)
  BY DEF Next, vars, Stops
<1> QED
  BY <1>1, <1>2 DEF Telling

(* All of it together.                                                     *)
IInv == TypeOK /\ CohortsInv /\ WalksInv /\ FinishedHasEnded

LEMMA Inductive == Spec => []IInv
<1>1. Init => IInv
  <2> SUFFICES ASSUME Init PROVE IInv
    OBVIOUS
  <2>1. QueueTypeOK
    BY QueueAssumption DEF Init, QueueInit, QueueTypeOK, QueueAssumption, Idle, WorkerStates
  <2>2. CohortsInv
    BY DEF Init, CohortsInv, MadeOnce, CohortRecords, RowStates
  <2>3. WalksInv
    BY DEF Init, QueueInit, WalksInv, Sound, Unbegun, Walks, Idle
  <2>4. jobs = <<>> /\ reported = <<>> /\ neverTold = {}
    BY DEF Init, QueueInit
  <2>5. FinishedHasEnded /\ reported \in Seq(ReportedJobRecords) /\ DOMAIN reported = DOMAIN jobs
    BY <2>4 DEF FinishedHasEnded
  <2> QED
    BY <2>1, <2>2, <2>3, <2>4, <2>5 DEF IInv, TypeOK, CohortsInv, WalksInv
<1>2. IInv /\ [Next]_vars => IInv'
  BY QueueKept, ReportedGoesOn, CohortsGoOn, WalksGoOn, FinishedGoesOn, NeverToldGoesOn
  DEF IInv, TypeOK, CohortsInv, WalksInv
<1> QED
  BY <1>1, <1>2, PTL DEF Spec

(* The tables hold what their columns may, and a job's row stands beside   *)
(* its queue's, through every run, rerun, cancel, failure and stop.        *)
THEOREM ReportedTypeCorrect == Spec => []TypeOK
<1>1. IInv => TypeOK
  BY DEF IInv
<1> QED
  BY <1>1, Inductive, PTL

(* API-041 to API-043.  A job ends once and one way, however many attempts *)
(* at it go on at once and whoever cancels, fails or finishes it first.    *)
THEOREM JobsEndOnce == Spec => EndsOnce
<1>1. IInv /\ [Next]_vars
        => [\A j \in DOMAIN reported : Ended(j) => reported'[j] = reported[j]]_vars
  BY ReportedGoesOn DEF IInv, Onward, Ended
<1> QED
  BY <1>1, Inductive, PTL DEF Spec, EndsOnce

(* A job finished in the queue has ended for its requester, whichever of   *)
(* its attempts finished it and whatever the others had done.              *)
THEOREM FinishedJobsHaveEnded == Spec => []FinishedHasEnded
<1>1. IInv => FinishedHasEnded
  BY DEF IInv
<1> QED
  BY <1>1, Inductive, PTL

(* API-042.  Of however many attempts at a job, none makes two rows after  *)
(* the job was asked to stop or ended by another's hand.                   *)
THEOREM CancelsAreHeard == Spec => []HeardAtItsNextStep
<1>1. IInv => HeardAtItsNextStep
  BY DEF IInv, WalksInv, Sound, HeardAtItsNextStep
<1> QED
  BY <1>1, Inductive, PTL

(* REU-033.  However many runs and attempts take a row at once, and however *)
(* often its cohort is run again, one document is made of it.              *)
THEOREM RowsAreMadeOnce == Spec => []MadeOnce
<1>1. IInv => MadeOnce
  BY DEF IInv, CohortsInv
<1> QED
  BY <1>1, Inductive, PTL

-----------------------------------------------------------------------------
(* What is left pending, and who it waits for.  Of a cohort, some rows and *)
(* the job that is to make them: what is pending is among those rows, or   *)
(* waits for a rerun or for a run queued after that job.                   *)
Awaits(c, j, rows) ==
  \/ Of(c, "pending") \subseteq rows
  \/ LeftAtFailed(c) \/ Told(c)
  \/ \E k \in DOMAIN reported : j < k /\ reported[k].subject = c /\ Live(k)

AwaitedBy(w) ==
  CohortOf(w) \in Cohorts =>
    /\ walk[w].at \in {"walking", "telling"} => Awaits(CohortOf(w), JobOf(w), walk[w].todo)
    /\ walk[w].at = "telling" /\ walk[w].failed /\ cohort[CohortOf(w)].stop
         => Awaits(CohortOf(w), JobOf(w), {})
    /\ walk[w].at = "through" => Awaits(CohortOf(w), JobOf(w), {})

AwaitsInv ==
  /\ \A j \in DOMAIN reported : reported[j].kind = "impact_report" => reported[j].subject \notin Cohorts
  /\ \A c \in Cohorts : cohort[c].asked => Awaits(c, 0, {})
  /\ \A w \in Workers : AwaitedBy(w)

RunAdded(c) ==
  \E k \in DOMAIN reported' :
    /\ k \notin DOMAIN reported /\ reported'[k].subject = c
    /\ reported'[k].state = "accepted" /\ reported'[k].kind = "cohort"

(* What a step does of a cohort: a new run of it, or nothing that leaves   *)
(* more of it pending.                                                     *)
LEMMA Submitted ==
  ASSUME TypeOK, NEW kind, NEW subject, Enqueued(kind, subject)
  PROVE  \A k \in DOMAIN reported' :
           \/ k \in DOMAIN reported
           \/ k = Len(reported) + 1 /\ reported'[k] = Accepted(kind, subject)
<1>1. reported' = Append(reported, Accepted(kind, subject)) /\ reported \in Seq(ReportedJobRecords)
  BY DEF Enqueued, TypeOK
<1> HIDE DEF Accepted
<1>2. DOMAIN reported' = 1..Len(reported) + 1 /\ DOMAIN reported = 1..Len(reported)
  BY <1>1
<1> QED
  BY <1>1, <1>2

LEMMA SubmittedIsAdded ==
  ASSUME TypeOK, NEW c, Enqueued("cohort", c)
  PROVE  RunAdded(c)
<1>1. reported' = Append(reported, Accepted("cohort", c)) /\ reported \in Seq(ReportedJobRecords)
  BY DEF Enqueued, TypeOK
<1>2. Accepted("cohort", c).subject = c /\ Accepted("cohort", c).state = "accepted"
      /\ Accepted("cohort", c).kind = "cohort"
  BY DEF Accepted
<1> HIDE DEF Accepted
<1>3. /\ DOMAIN reported' = 1..Len(reported) + 1 /\ DOMAIN reported = 1..Len(reported)
      /\ reported'[Len(reported) + 1] = Accepted("cohort", c)
      /\ Len(reported) \in Nat
  BY <1>1
<1> QED
  BY <1>2, <1>3 DEF RunAdded

LEMMA CohortsLeft ==
  ASSUME TypeOK, [Next]_vars, NEW c \in Cohorts
  PROVE  \/ RunAdded(c)
         \/ /\ Of(c, "pending")' \subseteq Of(c, "pending")
            /\ LeftAtFailed(c) => LeftAtFailed(c)'
            /\ cohort'[c].stop = cohort[c].stop /\ cohort'[c].asked = cohort[c].asked
<1> DEFINE Kept == /\ Of(c, "pending")' \subseteq Of(c, "pending")
                   /\ LeftAtFailed(c) => LeftAtFailed(c)'
                   /\ cohort'[c].stop = cohort[c].stop /\ cohort'[c].asked = cohort[c].asked
<1>0. cohort \in [Cohorts -> CohortRecords] /\ \A d \in Cohorts : cohort[d] \in CohortRecords
  BY DEF TypeOK
<1>1. ASSUME cohort'[c] = cohort[c]
      PROVE  Kept
  BY <1>1 DEF Of, LeftAtFailed
<1>2. ASSUME NEW d \in Cohorts, NEW stop \in BOOLEAN, SubmitCohort(d, stop)
      PROVE  RunAdded(c) \/ Kept
  <2>1. CASE d = c
    BY <1>2, <2>1, SubmittedIsAdded DEF SubmitCohort
  <2>2. CASE d # c
    BY <1>0, <1>1, <1>2, <2>2 DEF SubmitCohort
  <2> QED
    BY <2>1, <2>2
<1>3. ASSUME NEW d \in Cohorts, RerunFailed(d)
      PROVE  RunAdded(c) \/ Kept
  <2>1. CASE d = c
    BY <1>3, <2>1, SubmittedIsAdded DEF RerunFailed
  <2>2. CASE d # c
    BY <1>0, <1>1, <1>3, <2>2 DEF RerunFailed
  <2> QED
    BY <2>1, <2>2
<1>4. ASSUME NEW w \in Workers, MakeCohortRow(w)
      PROVE  RunAdded(c) \/ Kept
  <2> DEFINE d == CohortOf(w)
  <2>1. PICK r \in Rows, made \in BOOLEAN :
          IF MayMake(d, r)
          THEN cohort' = [cohort EXCEPT ![d].rows[r] = IF made THEN "made" ELSE "failed"]
          ELSE UNCHANGED cohort
    BY <1>4 DEF MakeCohortRow
  <2>2. CASE ~MayMake(d, r) \/ c # d
    BY <1>0, <1>1, <2>1, <2>2
  <2>3. CASE MayMake(d, r) /\ c = d
    <3> DEFINE state == IF made THEN "made" ELSE "failed"
               rows == [cohort[c].rows EXCEPT ![r] = state]
               row == [cohort[c] EXCEPT !.rows = rows]
    <3>1. cohort' = [cohort EXCEPT ![c] = row]
      BY <1>0, <2>1, <2>3
    <3>2. cohort[c].rows \in [Rows -> RowStates] /\ cohort[c].rows[r] = "pending"
      BY <1>0, <2>3 DEF CohortRecords, MayMake
    <3>3. rows[r] = state /\ \A q \in Rows \ {r} : rows[q] = cohort[c].rows[q]
      BY <3>2
    <3> HIDE DEF rows
    <3>4. row.rows = rows /\ row.stop = cohort[c].stop /\ row.asked = cohort[c].asked
      BY <1>0 DEF CohortRecords
    <3> HIDE DEF row
    <3>5. cohort'[c] = row
      BY <1>0, <3>1
    <3> QED
      BY <3>2, <3>3, <3>4, <3>5 DEF Of, LeftAtFailed
  <2> QED
    BY <2>2, <2>3
<1>5. CASE UNCHANGED cohort
  BY <1>1, <1>5
<1>6. ASSUME NEW w \in Workers, Works(w)
      PROVE  RunAdded(c) \/ Kept
  BY <1>4, <1>5, <1>6
  DEF Works, StartJob, ReportRefused, Reads, FinishJob, HandlerThrows, FailedTold, AbandonedTold,
      tenantVars
<1>7. ASSUME NEW w \in Workers, QueueKeeps(w) \/ Stops(w)
      PROVE  RunAdded(c) \/ Kept
  BY <1>5, <1>7 DEF QueueKeeps, Stops, tenantVars
<1> QED
  BY <1>2, <1>3, <1>5, <1>6, <1>7
  DEF Next, SubmitImpactReport, CancelJob, FindNoRun, RerunPending, vars, tenantVars

(* Only a handler that is through makes a job a success.                   *)
LEMMA Succeeds ==
  ASSUME TypeOK, [Next]_vars, NEW k \in DOMAIN reported,
         reported[k].state # "succeeded", reported'[k].state = "succeeded"
  PROVE  \E w \in Workers : FinishJob(w) /\ JobOf(w) = k /\ walk[w].at = "through"
<1>0. /\ reported \in Seq(ReportedJobRecords) /\ reported[k] \in ReportedJobRecords
      /\ \A w \in Workers : worker[w].at \in {"running", "failed"} => JobOf(w) \in DOMAIN reported
  BY DEF TypeOK, QueueTypeOK, JobOf
<1>1. ~UNCHANGED reported
  OBVIOUS
<1>2. ASSUME NEW kind, NEW subject, Enqueued(kind, subject)
      PROVE  FALSE
  <2>1. reported' = Append(reported, Accepted(kind, subject))
    BY <1>2 DEF Enqueued
  <2> HIDE DEF Accepted
  <2> QED
    BY <1>0, <2>1
<1>3. ASSUME NEW j \in DOMAIN reported, CancelJob(j)
      PROVE  FALSE
  BY <1>0, <1>3 DEF CancelJob, ReportedJobRecords
<1>4. ASSUME NEW w \in Workers, StartJob(w)
      PROVE  FALSE
  BY <1>0, <1>1, <1>4 DEF StartJob, ReportedJobRecords
<1>5. ASSUME NEW w \in Workers, FailedTold(w) \/ \E j \in DOMAIN jobs : AbandonedTold(w, j)
      PROVE  FALSE
  <2>1. PICK j : FailJob(j)
    BY <1>5 DEF FailedTold, AbandonedTold
  <2> QED
    BY <1>0, <2>1 DEF FailJob, ReportedJobRecords
<1>6. ASSUME NEW w \in Workers, FinishJob(w)
      PROVE  JobOf(w) = k /\ walk[w].at = "through"
  BY <1>0, <1>6 DEF FinishJob, ReportedJobRecords
<1>7. ASSUME NEW w \in Workers, Works(w)
      PROVE  FinishJob(w)
  BY <1>1, <1>4, <1>5, <1>7
  DEF Works, ReportRefused, Reads, MakeCohortRow, HandlerThrows, tenantVars
<1>8. ASSUME NEW w \in Workers, QueueKeeps(w) \/ Stops(w)
      PROVE  FALSE
  BY <1>1, <1>8 DEF QueueKeeps, Stops, tenantVars
<1>9. ASSUME NEW c \in Cohorts,
             \/ RerunFailed(c) \/ FindNoRun(c) \/ RerunPending(c)
             \/ \E stop \in BOOLEAN : SubmitCohort(c, stop)
      PROVE  FALSE
  BY <1>1, <1>2, <1>9 DEF RerunFailed, FindNoRun, RerunPending, SubmitCohort
<1>10. ~SubmitImpactReport
  BY <1>2 DEF SubmitImpactReport
<1> QED
  BY <1>1, <1>3, <1>6, <1>7, <1>8, <1>9, <1>10 DEF Next, vars, tenantVars

(* So a run that was to make what is pending leaves it to a later one, or  *)
(* to a requester who was told, or has nothing left.                       *)
LEMMA AwaitsOn ==
  ASSUME TypeOK, AwaitsInv, [Next]_vars, NEW c \in Cohorts, NEW j \in 0..Len(reported), NEW rows,
         Awaits(c, j, rows)
  PROVE  Awaits(c, j, rows)'
<1>0. /\ reported \in Seq(ReportedJobRecords) /\ DOMAIN reported = 1..Len(reported)
      /\ Len(reported) \in Nat /\ reported' \in Seq(ReportedJobRecords)
      /\ \A k \in DOMAIN reported : k \in DOMAIN reported' /\ Onward(reported[k], reported'[k])
      /\ \A k \in DOMAIN reported : reported[k] \in ReportedJobRecords
      /\ DOMAIN reported' = 1..Len(reported') /\ Len(reported') \in Nat
  BY ReportedGoesOn DEF TypeOK
<1>1. CASE RunAdded(c)
  <2>1. PICK k \in DOMAIN reported' : /\ k \notin DOMAIN reported /\ reported'[k].subject = c
                                      /\ reported'[k].state = "accepted"
    BY <1>1 DEF RunAdded
  <2>2. j < k
    BY <1>0, <2>1
  <2> QED
    BY <2>1, <2>2 DEF Awaits, Live
<1>2. CASE ~RunAdded(c)
  <2>1. /\ Of(c, "pending")' \subseteq Of(c, "pending")
        /\ LeftAtFailed(c) => LeftAtFailed(c)'
    BY <1>2, CohortsLeft
  <2>2. Told(c) => Told(c)'
    BY <1>0 DEF Told, Onward
  <2>3. CASE Of(c, "pending") \subseteq rows \/ LeftAtFailed(c) \/ Told(c)
    BY <2>1, <2>2, <2>3 DEF Awaits
  <2>4. ASSUME NEW k \in DOMAIN reported, j < k, reported[k].subject = c, Live(k)
        PROVE  Awaits(c, j, rows)'
    <3>1. reported'[k].subject = c /\ reported'[k] \in ReportedJobRecords /\ k \in DOMAIN reported'
      BY <1>0, <2>4 DEF Onward
    <3>2. CASE Live(k)'
      BY <2>4, <3>1, <3>2 DEF Awaits
    <3>3. CASE reported'[k].state \in {"failed", "cancelled"}
      BY <3>1, <3>3 DEF Awaits, Told
    <3>4. CASE reported'[k].state = "succeeded"
      <4>1. PICK w \in Workers : FinishJob(w) /\ JobOf(w) = k /\ walk[w].at = "through"
        BY <2>4, <3>4, Succeeds DEF Live
      <4>2. Awaits(c, k, {})
        BY <2>4, <4>1 DEF AwaitsInv, AwaitedBy, CohortOf
      <4>3. CASE Of(c, "pending") \subseteq {} \/ LeftAtFailed(c) \/ Told(c)
        BY <2>1, <2>2, <4>3 DEF Awaits
      <4>4. ASSUME NEW n \in DOMAIN reported, k < n, reported[n].subject = c, Live(n)
            PROVE  Awaits(c, j, rows)'
        <5>1. reported'[n] = reported[n]
          BY <1>0, <4>1, <4>4 DEF FinishJob
        <5>2. n \in DOMAIN reported' /\ j < n
          BY <1>0, <2>4, <4>4
        <5> QED
          BY <4>4, <5>1, <5>2 DEF Awaits, Live
      <4> QED
        BY <4>2, <4>3, <4>4 DEF Awaits
    <3> QED
      BY <3>1, <3>2, <3>3, <3>4 DEF Live, ReportedJobRecords
  <2> QED
    BY <2>3, <2>4 DEF Awaits
<1> QED
  BY <1>1, <1>2

(* What a worker's handler is to make, whatever others do of its cohort.   *)
LEMMA OthersAwait ==
  ASSUME TypeOK, WalksInv, AwaitsInv, [Next]_vars, NEW v \in Workers,
         worker'[v] = worker[v], walk'[v] = walk[v]
  PROVE  AwaitedBy(v)'
<1>1. CASE walk[v].at = "unbegun"
  BY <1>1 DEF AwaitedBy
<1>2. CASE walk[v].at # "unbegun"
  <2>0. PICK j, c : j = JobOf(v) /\ c = CohortOf(v)
    OBVIOUS
  <2>1. j \in DOMAIN reported /\ j \in 0..Len(reported)
    BY <1>2, <2>0 DEF WalksInv, Sound, TypeOK, QueueTypeOK, JobOf
  <2>2. JobOf(v)' = j /\ CohortOf(v)' = c
    BY <2>0, <2>1, ReportedGoesOn DEF JobOf, CohortOf, Onward
  <2>3. CASE c \in Cohorts
    <3>1. ASSUME NEW rows, Awaits(c, j, rows)
          PROVE  Awaits(c, j, rows)'
      BY <2>1, <2>3, <3>1, AwaitsOn
    <3>2. walk[v].at \in {"walking", "telling"} => Awaits(c, j, walk[v].todo)
      BY <2>0, <2>3 DEF AwaitsInv, AwaitedBy
    <3>3. walk[v].at = "telling" /\ walk[v].failed /\ cohort[c].stop => Awaits(c, j, {})
      BY <2>0, <2>3 DEF AwaitsInv, AwaitedBy
    <3>4. walk[v].at = "through" => Awaits(c, j, {})
      BY <2>0, <2>3 DEF AwaitsInv, AwaitedBy
    <3>5. PICK rows : rows = walk[v].todo
      OBVIOUS
    <3>6. walk[v].at \in {"walking", "telling"} => Awaits(c, j, rows)'
      BY <3>1, <3>2, <3>5
    <3>7. RunAdded(c) \/ cohort'[c].stop = cohort[c].stop
      BY <2>3, CohortsLeft
    <3>8. RunAdded(c) => Awaits(c, j, {})'
      <4>1. ASSUME NEW k \in DOMAIN reported', k \notin DOMAIN reported
            PROVE  j < k
        <5>1. reported' \in Seq(ReportedJobRecords) /\ reported \in Seq(ReportedJobRecords)
          BY ReportedGoesOn DEF TypeOK
        <5> QED
          BY <2>1, <4>1, <5>1
      <4> QED
        BY <4>1 DEF RunAdded, Awaits, Live
    <3>9. walk[v].at = "telling" /\ walk[v].failed /\ cohort'[c].stop => Awaits(c, j, {})'
      BY <3>1, <3>3, <3>7, <3>8
    <3>10. walk[v].at = "through" => Awaits(c, j, {})'
      BY <3>1, <3>4
    <3>11. walk'[v].todo = rows
      BY <3>5
    <3> QED
      BY <2>2, <3>6, <3>9, <3>10, <3>11 DEF AwaitedBy
  <2>4. CASE c \notin Cohorts
    BY <2>2, <2>4 DEF AwaitedBy
  <2> QED
    BY <2>3, <2>4
<1> QED
  BY <1>1, <1>2

(* A step of w's alone.                                                    *)
LEMMA OneAwaits ==
  ASSUME TypeOK, WalksInv, AwaitsInv, [Next]_vars, NEW w \in Workers, NEW row,
         walk' = [walk EXCEPT ![w] = row],
         \A v \in Workers \ {w} : worker'[v] = worker[v],
         AwaitedBy(w)'
  PROVE  \A v \in Workers : AwaitedBy(v)'
<1>1. ASSUME NEW v \in Workers \ {w}
      PROVE  AwaitedBy(v)'
  <2>1. walk'[v] = walk[v]
    BY DEF WalksInv
  <2> QED
    BY <2>1, OthersAwait
<1> QED
  BY <1>1

LEMMA WalksAwait ==
  ASSUME TypeOK, WalksInv, AwaitsInv, [Next]_vars
  PROVE  \A v \in Workers : AwaitedBy(v)'
<1>0. /\ walk \in [Workers -> Walks] /\ worker \in [Workers -> WorkerStates]
      /\ \A w \in Workers : walk[w] \in Walks /\ worker[w] \in WorkerStates /\ Sound(w)
      /\ \A w \in Workers : worker[w].at \in {"running", "ran"} => JobOf(w) \in DOMAIN reported
      /\ \A w \in Workers : AwaitedBy(w)
      /\ cohort \in [Cohorts -> CohortRecords]
  BY DEF WalksInv, TypeOK, QueueTypeOK, JobOf, AwaitsInv
<1> DEFINE Goal == \A v \in Workers : AwaitedBy(v)'
<1>a. ASSUME UNCHANGED <<worker, walk>>
      PROVE  Goal
  BY <1>a, OthersAwait
<1>b. ASSUME NEW w \in Workers, NEW row,
             walk' = [walk EXCEPT ![w] = row],
             row.at \in {"unbegun", "started", "reading", "stopped"},
             \A v \in Workers \ {w} : worker'[v] = worker[v]
      PROVE  Goal
  <2>1. walk'[w] = row
    BY <1>0, <1>b
  <2>2. AwaitedBy(w)'
    BY <1>b, <2>1 DEF AwaitedBy
  <2> QED
    BY <1>b, <2>2, OneAwaits
<1>1. ASSUME NEW w \in Workers,
             StartJob(w) \/ ReportRefused(w) \/ HandlerThrows(w) \/ FinishJob(w) \/ Stops(w)
      PROVE  Goal
  <2>1. \A v \in Workers \ {w} : worker'[v] = worker[v]
    BY <1>0, <1>1
    DEF StartJob, ReportRefused, HandlerThrows, FinishJob, Stops, Stop, Rests, RunReturns,
        RunThrows, RunRefuses, Goes
  <2>2. CASE ~StartJob(w)
    <3>1. walk' = [walk EXCEPT ![w] = Unbegun]
      BY <1>1, <2>2 DEF ReportRefused, HandlerThrows, FinishJob, Stops
    <3> QED
      BY <1>b, <2>1, <3>1 DEF Unbegun
  <2>3. CASE StartJob(w)
    <3>1. PICK s \in {"unbegun", "started"} : walk' = [walk EXCEPT ![w] = [walk[w] EXCEPT !.at = s]]
      <4>1. walk = [walk EXCEPT ![w] = [walk[w] EXCEPT !.at = walk[w].at]]
        BY <1>0 DEF Walks
      <4> QED
        BY <1>0, <2>3, <4>1 DEF StartJob, Moves
    <3>2. [walk[w] EXCEPT !.at = s].at = s
      BY <1>0 DEF Walks
    <3> QED
      BY <1>b, <2>1, <3>1, <3>2
  <2> QED
    BY <2>2, <2>3
<1>2. ASSUME NEW w \in Workers, Reads(w)
      PROVE  Goal
  <2>0. PICK j, c : j = JobOf(w) /\ c = CohortOf(w)
    OBVIOUS
  <2>1. /\ worker[w].at = "running" /\ UNCHANGED <<worker, reported, cohort>>
        /\ JobOf(w)' = j /\ CohortOf(w)' = c /\ j \in DOMAIN reported
    BY <1>0, <1>2, <2>0
    DEF Reads, ReportReadable, WalkDepth, ReadCohort, PendingRows, ProgressJob, Is, queueVars,
        tenantVars, JobOf, CohortOf
  <2>2. ASSUME NEW rows, Awaits(c, j, rows)
        PROVE  Awaits(c, j, rows)'
    BY <2>1, <2>2 DEF Awaits, LeftAtFailed, Told, Of, Live
  <2>3. ASSUME NEW s \in {"unbegun", "started", "reading", "walking", "telling", "stopped", "through"}
        PROVE  /\ LET row == [walk[w] EXCEPT !.at = s] IN
                  row.at = s /\ row.todo = walk[w].todo /\ row.failed = walk[w].failed
               /\ \A rows : LET row == [walk[w] EXCEPT !.todo = rows, !.at = s] IN
                  row.at = s /\ row.todo = rows /\ row.failed = walk[w].failed
               /\ LET row == [walk[w] EXCEPT !.at = s, !.todo = {}, !.failed = FALSE] IN
                  row.at = s /\ row.todo = {} /\ row.failed = FALSE
    BY <1>0 DEF Walks
  <2>4. ASSUME NEW row, walk' = [walk EXCEPT ![w] = row],
               \/ c \notin Cohorts
               \/ row.at \in {"started", "reading", "stopped"}
               \/ row.at = "walking" /\ Awaits(c, j, row.todo)'
               \/ row.at = "through" /\ Awaits(c, j, {})'
        PROVE  Goal
    <3>1. walk'[w] = row
      BY <1>0, <2>4
    <3>2. AwaitedBy(w)'
      BY <2>1, <2>4, <3>1 DEF AwaitedBy
    <3> QED
      BY <2>1, <2>4, <3>2, OneAwaits
  <2>5. CASE ReportReadable(w) \/ WalkDepth(w)
    <3>1. c \notin Cohorts
      BY <2>0, <2>1, <2>5 DEF ReportReadable, WalkDepth, Is, AwaitsInv, JobOf, CohortOf
    <3>2. PICK row : walk' = [walk EXCEPT ![w] = row]
      BY <2>5 DEF ReportReadable, WalkDepth, Moves
    <3> QED
      BY <2>4, <3>1, <3>2
  <2>6. CASE ReadCohort(w)
    <3>1. CASE StoppedAt(c)
      <4>1. Awaits(c, j, {})
        BY <3>1 DEF StoppedAt, Awaits, LeftAtFailed
      <4>2. walk' = [walk EXCEPT ![w] = [walk[w] EXCEPT !.at = "through"]]
        BY <2>0, <2>6, <3>1 DEF ReadCohort, Moves
      <4> QED
        BY <2>2, <2>3, <2>4, <4>1, <4>2
    <3>2. CASE ~StoppedAt(c)
      <4>1. walk' = [walk EXCEPT ![w] = [walk[w] EXCEPT !.at = "reading"]]
        BY <2>0, <2>6, <3>2 DEF ReadCohort, Moves
      <4> QED
        BY <2>3, <2>4, <4>1
    <3> QED
      BY <3>1, <3>2
  <2>7. CASE PendingRows(w)
    <3>1. PICK rows : rows = Of(c, "pending")
      OBVIOUS
    <3>2. Awaits(c, j, rows)'
      BY <2>2, <3>1 DEF Awaits
    <3>3. CASE rows = {}
      <4> DEFINE row == [walk[w] EXCEPT !.todo = rows, !.at = "through"]
      <4>1. walk' = [walk EXCEPT ![w] = row]
        BY <2>0, <2>7, <3>1, <3>3 DEF PendingRows
      <4>2. row.at = "through"
        BY <2>3
      <4>3. PICK next : next = row
        OBVIOUS
      <4> HIDE DEF row
      <4> QED
        BY <2>4, <3>2, <3>3, <4>1, <4>2, <4>3
    <3>4. CASE rows # {}
      <4> DEFINE row == [walk[w] EXCEPT !.todo = rows, !.at = "walking"]
      <4>1. walk' = [walk EXCEPT ![w] = row]
        BY <2>0, <2>7, <3>1, <3>4 DEF PendingRows
      <4>2. row.at = "walking" /\ row.todo = rows
        BY <2>3
      <4>3. PICK next : next = row
        OBVIOUS
      <4> HIDE DEF row
      <4> QED
        BY <2>4, <3>2, <4>1, <4>2, <4>3
    <3> QED
      BY <3>3, <3>4
  <2>8. CASE ProgressJob(w)
    <3>1. walk[w].at = "telling"
      BY <2>8 DEF ProgressJob, Is
    <3>2. CASE Leaves(w, "stopped")
      BY <2>3, <2>4, <3>2 DEF Leaves
    <3>3. CASE StopsThere(w) /\ Leaves(w, "through")
      <4>1. c \in Cohorts => Awaits(c, j, {})
        BY <1>0, <2>0, <3>1, <3>3 DEF StopsThere, AwaitedBy
      <4>2. c \in Cohorts => Awaits(c, j, {})'
        BY <2>2, <4>1
      <4> QED
        BY <2>3, <2>4, <3>3, <4>2 DEF Leaves
    <3>4. CASE Moves(w, "walking")
      <4> DEFINE row == [walk[w] EXCEPT !.at = "walking"]
      <4>1. PICK rows : rows = walk[w].todo
        OBVIOUS
      <4>2. c \in Cohorts => Awaits(c, j, rows)
        BY <1>0, <2>0, <3>1, <4>1 DEF AwaitedBy
      <4>3. c \in Cohorts => Awaits(c, j, rows)'
        BY <2>2, <4>2
      <4>4. walk' = [walk EXCEPT ![w] = row] /\ row.at = "walking" /\ row.todo = rows
        BY <2>3, <3>4, <4>1 DEF Moves
      <4>5. PICK next : next = row
        OBVIOUS
      <4> HIDE DEF row
      <4> QED
        BY <2>4, <4>3, <4>4, <4>5
    <3> QED
      BY <2>8, <3>2, <3>3, <3>4 DEF ProgressJob
  <2> QED
    BY <1>2, <2>5, <2>6, <2>7, <2>8 DEF Reads
<1>3. ASSUME NEW w \in Workers, MakeCohortRow(w)
      PROVE  Goal
  <2>0. PICK j, c, todo : j = JobOf(w) /\ c = CohortOf(w) /\ todo = walk[w].todo
    OBVIOUS
  <2>1. /\ worker[w].at = "running" /\ walk[w].at = "walking" /\ UNCHANGED <<worker, reported>>
        /\ JobOf(w)' = j /\ CohortOf(w)' = c /\ j \in 0..Len(reported)
    <3>1. worker[w].at = "running" /\ walk[w].at = "walking" /\ UNCHANGED <<worker, reported>>
      BY <1>3 DEF MakeCohortRow, Is, queueVars
    <3> QED
      BY <1>0, <2>0, <3>1 DEF JobOf, CohortOf, TypeOK
  <2>2. PICK r \in Rows, made \in BOOLEAN :
          /\ IF MayMake(c, r)
             THEN cohort' = [cohort EXCEPT ![c].rows[r] = IF made THEN "made" ELSE "failed"]
             ELSE UNCHANGED cohort
          /\ walk' = [walk EXCEPT ![w] =
               [at |-> "telling", todo |-> todo \ {r}, failed |-> MayMake(c, r) /\ ~made,
                late |-> IF MayMake(c, r) /\ AskedToStop(w) THEN walk[w].late + 1
                         ELSE walk[w].late]]
    BY <1>0, <1>3, <2>0 DEF MakeCohortRow
  <2> DEFINE row == [at |-> "telling", todo |-> todo \ {r}, failed |-> MayMake(c, r) /\ ~made,
                     late |-> IF MayMake(c, r) /\ AskedToStop(w) THEN walk[w].late + 1
                              ELSE walk[w].late]
  <2>3. walk'[w] = row
    BY <1>0, <2>2
  <2>4. ASSUME c \in Cohorts
        PROVE  /\ r \notin Of(c, "pending")'
               /\ MayMake(c, r) /\ ~made /\ cohort'[c].stop => LeftAtFailed(c)'
    <3> DEFINE state == IF made THEN "made" ELSE "failed"
               rows == [cohort[c].rows EXCEPT ![r] = state]
               next == [cohort[c] EXCEPT !.rows = rows]
    <3>1. CASE MayMake(c, r)
      <4>1. cohort'[c] = next
        BY <1>0, <2>2, <2>4, <3>1
      <4>2. cohort[c] \in CohortRecords /\ cohort[c].rows \in [Rows -> RowStates]
        BY <1>0, <2>4 DEF CohortRecords
      <4>3. rows[r] = state
        BY <4>2
      <4>4. next.rows = rows
        BY <4>2 DEF CohortRecords
      <4> HIDE DEF rows, next
      <4> QED
        BY <3>1, <4>1, <4>3, <4>4 DEF Of, LeftAtFailed
    <3>2. CASE ~MayMake(c, r)
      BY <2>2, <3>2 DEF MayMake, Of
    <3> QED
      BY <3>1, <3>2
  <2>5. ASSUME c \in Cohorts
        PROVE  Awaits(c, j, todo \ {r})'
    <3>1. Awaits(c, j, todo)
      BY <1>0, <2>0, <2>1, <2>5 DEF AwaitedBy
    <3>2. Awaits(c, j, todo)'
      BY <2>1, <2>5, <3>1, AwaitsOn
    <3> QED
      BY <2>4, <2>5, <3>2 DEF Awaits
  <2>6. PICK rows : rows = todo \ {r}
    OBVIOUS
  <2>7. AwaitedBy(w)'
    <3>1. walk'[w].at = "telling" /\ walk'[w].todo = rows
      BY <2>3, <2>6
    <3>2. walk'[w].failed = (MayMake(c, r) /\ ~made)
      BY <2>3
    <3>3. c \in Cohorts => Awaits(c, j, rows)'
      BY <2>5, <2>6
    <3>4. c \in Cohorts /\ walk'[w].failed /\ cohort'[c].stop => Awaits(c, j, {})'
      BY <2>4, <3>2 DEF Awaits
    <3> QED
      BY <2>1, <3>1, <3>3, <3>4 DEF AwaitedBy
  <2> QED
    BY <2>1, <2>2, <2>7, OneAwaits
<1>4. ASSUME NEW w \in Workers,
             \/ FailedTold(w) \/ QueueKeeps(w)
             \/ \E j \in DOMAIN jobs : AbandonedTold(w, j)
      PROVE  Goal
  <2>1. UNCHANGED walk
    BY <1>4 DEF FailedTold, QueueKeeps, AbandonedTold
  <2>2. worker[w].at # "running" /\ \A v \in Workers \ {w} : worker'[v] = worker[v]
    BY <1>0, <1>4
    DEF FailedTold, QueueKeeps, AbandonedTold, TellFailed, TellAbandoned, FailAbandoned,
        FindNothing, Complete, CompleteThrows, FailToRetry, FailForGood, Claim, Rests, Goes
  <2>3. walk[w].at = "unbegun"
    BY <2>2, NotRunning
  <2>4. walk' = [walk EXCEPT ![w] = walk[w]]
    BY <1>0, <2>1
  <2> QED
    BY <1>b, <2>2, <2>3, <2>4
<1>5. CASE \/ SubmitImpactReport \/ \E c \in Cohorts, stop \in BOOLEAN : SubmitCohort(c, stop)
           \/ \E j \in DOMAIN reported : CancelJob(j)
           \/ \E c \in Cohorts : RerunFailed(c) \/ FindNoRun(c) \/ RerunPending(c)
           \/ UNCHANGED vars
           \/ /\ Suspend \/ Resume \/ \E j \in DOMAIN jobs : LeaseLapses(j) \/ FallsDue(j)
              /\ UNCHANGED walk
  BY <1>5, <1>a
  DEF SubmitImpactReport, SubmitCohort, CancelJob, RerunFailed, FindNoRun, RerunPending,
      Enqueued, EnqueueJob, queueVars, vars, Suspend, Resume, LeaseLapses, FallsDue
<1>6. ASSUME NEW w \in Workers, Works(w)
      PROVE  Goal
  BY <1>1, <1>2, <1>3, <1>4, <1>6 DEF Works
<1> QED
  BY <1>1, <1>4, <1>5, <1>6 DEF Next

LEMMA AwaitsGoOn ==
  ASSUME TypeOK, WalksInv, AwaitsInv, [Next]_vars
  PROVE  AwaitsInv'
<1>1. ASSUME NEW k \in DOMAIN reported', reported'[k].kind = "impact_report"
      PROVE  reported'[k].subject \notin Cohorts
  <2>1. CASE k \in DOMAIN reported
    BY <1>1, <2>1, ReportedGoesOn DEF AwaitsInv, Onward
  <2>2. CASE k \notin DOMAIN reported
    <3>1. PICK kind, subject :
            /\ Enqueued(kind, subject)
            /\ kind = "impact_report" => subject \notin Cohorts
      <4>1. DOMAIN reported' # DOMAIN reported
        BY <1>1, <2>2
      <4>2. ASSUME NEW w \in Workers, Works(w) \/ QueueKeeps(w) \/ Stops(w)
            PROVE  FALSE
        BY <4>1, <4>2
        DEF Works, StartJob, ReportRefused, Reads, MakeCohortRow, FinishJob, HandlerThrows,
            FailedTold, AbandonedTold, FailJob, QueueKeeps, Stops, tenantVars
      <4>3. ASSUME NEW j \in DOMAIN reported, CancelJob(j)
            PROVE  FALSE
        BY <4>1, <4>3 DEF CancelJob
      <4>4. ASSUME NEW c \in Cohorts,
                   \/ RerunFailed(c) \/ FindNoRun(c) \/ RerunPending(c)
                   \/ \E stop \in BOOLEAN : SubmitCohort(c, stop)
            PROVE  Enqueued("cohort", c)
        BY <4>1, <4>4 DEF RerunFailed, FindNoRun, RerunPending, SubmitCohort
      <4>5. SubmitImpactReport => Enqueued("impact_report", Anything) /\ Anything \notin Cohorts
        BY ReportedAssumption DEF SubmitImpactReport, ReportedAssumption
      <4>6. ~UNCHANGED reported
        BY <4>1
      <4>7. SubmitImpactReport \/ \E c \in Cohorts : Enqueued("cohort", c)
        BY <4>2, <4>3, <4>4, <4>6 DEF Next, vars, tenantVars
      <4>8. "cohort" # "impact_report"
        OBVIOUS
      <4> QED
        BY <4>5, <4>7, <4>8
    <3>2. reported'[k] = Accepted(kind, subject)
      BY <1>1, <2>2, <3>1, Submitted
    <3> QED
      BY <1>1, <3>1, <3>2 DEF Accepted
  <2> QED
    BY <2>1, <2>2
<1>2. ASSUME NEW c \in Cohorts, cohort'[c].asked
      PROVE  Awaits(c, 0, {})'
  <2>1. CASE cohort[c].asked
    <3>1. Awaits(c, 0, {}) /\ 0 \in 0..Len(reported)
      BY <2>1 DEF AwaitsInv, TypeOK
    <3> QED
      BY <3>1, AwaitsOn
  <2>2. CASE ~cohort[c].asked
    <3>1. PICK k \in DOMAIN reported' : /\ reported'[k].subject = c
                                        /\ reported'[k].state = "accepted"
      BY <1>2, <2>2, CohortsLeft DEF RunAdded
    <3>2. 0 < k
      BY ReportedGoesOn
    <3> QED
      BY <3>1, <3>2 DEF Awaits, Live
  <2> QED
    BY <2>1, <2>2
<1> QED
  BY <1>1, <1>2, WalksAwait DEF AwaitsInv

-----------------------------------------------------------------------------
(* A job the queue has given up on, and its requester not been told of, is *)
(* one a worker is about to tell of, or one a stop kept it from.           *)
GivenUpIsTold ==
  \A j \in DOMAIN jobs :
    jobs[j].failed /\ Live(j) => j \in neverTold \/ \E w \in Workers : j \in Telling(w)

(* A step that gives up only on what a worker then is to tell of, and      *)
(* leaves none to be told of that is not told, or was not to be.           *)
LEMMA TellingStays ==
  ASSUME TypeOK, GivenUpIsTold, [Next]_vars, neverTold \subseteq neverTold',
         \A j \in DOMAIN jobs' : jobs'[j].failed =>
           \/ j \in DOMAIN jobs /\ jobs[j].failed
           \/ \E w \in Workers : j \in Telling(w)',
         \A w \in Workers : \A j \in Telling(w) :
           j \in Telling(w)' \/ j \in neverTold' \/ ~Live(j)'
  PROVE  GivenUpIsTold'
<1> SUFFICES ASSUME NEW j \in DOMAIN jobs', jobs'[j].failed, Live(j)',
                    ~\E w \in Workers : j \in Telling(w)'
             PROVE  j \in neverTold'
  BY DEF GivenUpIsTold
<1>1. j \in DOMAIN jobs /\ jobs[j].failed
  OBVIOUS
<1>2. Live(j)
  <2>1. j \in DOMAIN reported /\ reported[j] \in ReportedJobRecords
    BY <1>1 DEF TypeOK
  <2> QED
    BY <2>1, ReportedGoesOn DEF Live, Onward, ReportedJobRecords
<1> QED
  BY <1>1, <1>2 DEF GivenUpIsTold

LEMMA GivenUpGoesOn ==
  ASSUME TypeOK, GivenUpIsTold, [Next]_vars
  PROVE  GivenUpIsTold'
<1>0. /\ QueueTypeOK /\ jobs \in Seq(Jobs) /\ worker \in [Workers -> WorkerStates]
      /\ \A j \in DOMAIN jobs : jobs[j] \in Jobs
      /\ \A w \in Workers : worker[w] \in WorkerStates
      /\ DOMAIN jobs \subseteq DOMAIN jobs'
      /\ neverTold \subseteq neverTold'
  <2>1. neverTold \subseteq neverTold'
    BY DEF Next, vars, Stops
  <2> QED
    BY <2>1, ReportedGoesOn, RowIsARow DEF TypeOK, QueueTypeOK
(* Where nothing more is given up.                                         *)
<1>a. ASSUME \A j \in DOMAIN jobs' : jobs'[j].failed => j \in DOMAIN jobs /\ jobs[j].failed,
             \A w \in Workers : \A j \in Telling(w) :
               j \in Telling(w)' \/ j \in neverTold' \/ ~Live(j)'
      PROVE  GivenUpIsTold'
  BY <1>0, <1>a, TellingStays
(* And one worker moves, that had nothing to tell of.                      *)
<1>b. ASSUME NEW w \in Workers, \A v \in Workers \ {w} : worker'[v] = worker[v],
             Telling(w) = {}
      PROVE  \A v \in Workers : \A j \in Telling(v) : j \in Telling(v)'
  BY <1>0, <1>b DEF Telling, JobOf
<1>1. ASSUME NEW w \in Workers, FailAbandoned(w)
      PROVE  GivenUpIsTold'
  <2>1. /\ worker'[w].at = "telling" /\ worker'[w].untold = Abandoned
        /\ \A v \in Workers \ {w} : worker'[v] = worker[v]
    BY <1>0, <1>1 DEF FailAbandoned, WorkerStates
  <2>2. Telling(w) = {}
    BY <1>1 DEF FailAbandoned, Telling
  <2>3. DOMAIN jobs' = DOMAIN jobs
    BY <1>0, <1>1, RowsFailed
  <2>4. \A j \in DOMAIN jobs : j \in Abandoned => j \in Telling(w)'
    BY <2>1, <2>3 DEF Telling
  <2>5. \A j \in DOMAIN jobs : j \notin Abandoned => jobs'[j] = jobs[j]
    BY <1>1 DEF FailAbandoned
  <2>6. \A j \in DOMAIN jobs' : jobs'[j].failed =>
          \/ j \in DOMAIN jobs /\ jobs[j].failed
          \/ \E v \in Workers : j \in Telling(v)'
    BY <2>3, <2>4, <2>5
  <2> QED
    BY <1>0, <1>b, <2>1, <2>2, <2>6, TellingStays
<1>2. ASSUME NEW w \in Workers, FailForGood(w)
      PROVE  GivenUpIsTold'
  <2> DEFINE k == worker[w].job
  <2>1. k \in DOMAIN jobs /\ worker[w].at = "threw"
    BY <1>0, <1>2 DEF FailForGood, QueueTypeOK
  <2>2. /\ worker'[w].at = "failed" /\ worker'[w].job = k
        /\ \A v \in Workers \ {w} : worker'[v] = worker[v]
    BY <1>0, <1>2 DEF FailForGood, Goes, WorkerStates
  <2>3. DOMAIN jobs' = DOMAIN jobs /\ \A j \in DOMAIN jobs \ {k} : jobs'[j] = jobs[j]
    BY <1>0, <1>2, <2>1 DEF FailForGood
  <2>4. Telling(w) = {}
    BY <2>1 DEF Telling
  <2>5. k \in Telling(w)'
    BY <2>1, <2>2, <2>3 DEF Telling, JobOf
  <2>6. \A j \in DOMAIN jobs' : jobs'[j].failed =>
          \/ j \in DOMAIN jobs /\ jobs[j].failed
          \/ \E v \in Workers : j \in Telling(v)'
    BY <2>3, <2>5
  <2> QED
    BY <1>0, <1>b, <2>2, <2>4, <2>6, TellingStays
<1>3. ASSUME NEW w \in Workers,
             \/ FindNothing(w) \/ Complete(w) \/ CompleteThrows(w) \/ FailToRetry(w)
             \/ \E k \in DOMAIN jobs : Claim(w, k)
      PROVE  GivenUpIsTold'
  <2>1. Telling(w) = {}
    BY <1>3 DEF FindNothing, Complete, CompleteThrows, FailToRetry, Claim, Telling
  <2>2. \A v \in Workers \ {w} : worker'[v] = worker[v]
    BY <1>0, <1>3 DEF FindNothing, Complete, CompleteThrows, FailToRetry, Claim, Rests, Goes
  <2>3. CASE FindNothing(w) \/ UNCHANGED jobs
    <3>1. UNCHANGED jobs
      BY <2>3 DEF FindNothing
    <3> QED
      BY <1>a, <1>b, <2>1, <2>2, <3>1
  <2>4. CASE ~FindNothing(w) /\ ~UNCHANGED jobs
    <3>1. \E k \in DOMAIN jobs : \E row :
            jobs' = [jobs EXCEPT ![k] = row] /\ row.failed = jobs[k].failed
      <4>1. ASSUME NEW k \in DOMAIN jobs
            PROVE  /\ [jobs[k] EXCEPT !.finished = TRUE, !.lease = "none"].failed = jobs[k].failed
                   /\ [jobs[k] EXCEPT !.lease = "none", !.due = FALSE].failed = jobs[k].failed
                   /\ [jobs[k] EXCEPT !.attempts = @ + 1, !.lease = "held"].failed = jobs[k].failed
        BY <1>0 DEF Jobs
      <4>2. CASE Complete(w) \/ CompleteThrows(w) \/ FailToRetry(w)
        <5>1. worker[w].job \in DOMAIN jobs
          BY <1>0, <4>2 DEF Complete, CompleteThrows, FailToRetry, QueueTypeOK
        <5>2. PICK k \in DOMAIN jobs : k = worker[w].job
          BY <5>1
        <5>3. \/ jobs' = [jobs EXCEPT ![k] = [jobs[k] EXCEPT !.finished = TRUE, !.lease = "none"]]
              \/ jobs' = [jobs EXCEPT ![k] = [jobs[k] EXCEPT !.lease = "none", !.due = FALSE]]
          BY <1>0, <2>4, <4>2, <5>2 DEF Complete, CompleteThrows, FailToRetry, Finish
        <5> QED
          BY <4>1, <5>3
      <4>3. ASSUME NEW k \in DOMAIN jobs, Claim(w, k)
            PROVE  \E row : jobs' = [jobs EXCEPT ![k] = row] /\ row.failed = jobs[k].failed
        BY <1>0, <4>1, <4>3 DEF Claim
      <4> QED
        BY <1>3, <2>4, <4>2, <4>3
    <3>2. \A j \in DOMAIN jobs' : jobs'[j].failed => j \in DOMAIN jobs /\ jobs[j].failed
      BY <1>0, <3>1
    <3> QED
      BY <1>a, <1>b, <2>1, <2>2, <3>2
  <2> QED
    BY <2>3, <2>4
<1>4. ASSUME NEW w \in Workers, QueueKeeps(w)
      PROVE  GivenUpIsTold'
  BY <1>1, <1>2, <1>3, <1>4 DEF QueueKeeps
<1>5. ASSUME NEW w \in Workers, Stops(w)
      PROVE  GivenUpIsTold'
  <2>1. /\ UNCHANGED jobs /\ neverTold' = neverTold \cup Telling(w)
        /\ \A v \in Workers \ {w} : worker'[v] = worker[v]
    BY <1>0, <1>5 DEF Stops, Stop, Rests
  <2>2. \A v \in Workers : \A j \in Telling(v) : j \in Telling(v)' \/ j \in neverTold'
    BY <2>1 DEF Telling, JobOf
  <2> QED
    BY <1>a, <2>1, <2>2
(* Telling a handler fails the job it tells of, unless it has ended.       *)
<1>6. ASSUME NEW k \in DOMAIN reported, FailJob(k)
      PROVE  ~Live(k)'
  <2>1. reported[k] \in ReportedJobRecords
    BY DEF TypeOK
  <2>2. reported'[k].state \notin {"accepted", "running"}
    BY <1>6, <2>1 DEF FailJob, ReportedJobRecords, TypeOK
  <2> QED
    BY <2>2 DEF Live
<1>7. ASSUME NEW w \in Workers, FailedTold(w)
      PROVE  GivenUpIsTold'
  <2>1. /\ UNCHANGED jobs /\ \A v \in Workers \ {w} : worker'[v] = worker[v]
        /\ worker[w].at = "failed"
    BY <1>0, <1>7 DEF FailedTold, TellFailed, Rests
  <2>2. \A j \in Telling(w) : j = JobOf(w) /\ j \in DOMAIN reported
    BY <2>1 DEF Telling, TypeOK
  <2>3. \A j \in Telling(w) : ~Live(j)'
    BY <1>6, <1>7, <2>2 DEF FailedTold
  <2>4. \A v \in Workers : \A j \in Telling(v) : j \in Telling(v)' \/ ~Live(j)'
    BY <2>1, <2>3 DEF Telling, JobOf
  <2> QED
    BY <1>a, <2>1, <2>4
<1>8. ASSUME NEW w \in Workers, NEW k \in DOMAIN jobs, AbandonedTold(w, k)
      PROVE  GivenUpIsTold'
  <2>1. /\ UNCHANGED jobs /\ \A v \in Workers \ {w} : worker'[v] = worker[v]
        /\ worker[w].at = "telling"
        /\ worker'[w].at = "telling" /\ worker'[w].untold = worker[w].untold \ {k}
    BY <1>0, <1>8 DEF AbandonedTold, TellAbandoned, WorkerStates
  <2>2. ~Live(k)'
    BY <1>6, <1>8 DEF AbandonedTold, TypeOK
  <2>3. \A v \in Workers : \A j \in Telling(v) : j \in Telling(v)' \/ ~Live(j)'
    BY <2>1, <2>2 DEF Telling, JobOf
  <2> QED
    BY <1>a, <2>1, <2>3
(* The handlers' own steps, of workers with nothing to tell of.            *)
<1>9. ASSUME NEW w \in Workers,
             StartJob(w) \/ ReportRefused(w) \/ MakeCohortRow(w) \/ FinishJob(w)
               \/ HandlerThrows(w) \/ Reads(w)
      PROVE  GivenUpIsTold'
  <2>1. CASE UNCHANGED worker
    <3>1. UNCHANGED jobs
      BY <1>9
      DEF StartJob, ReportRefused, MakeCohortRow, FinishJob, HandlerThrows, Reads, queueVars
    <3> QED
      BY <1>a, <2>1, <3>1 DEF Telling, JobOf
  <2>2. CASE ~UNCHANGED worker
    <3>1. UNCHANGED jobs /\ worker[w].at = "running"
      BY <1>9, <2>2
      DEF StartJob, ReportRefused, MakeCohortRow, FinishJob, HandlerThrows, Reads, RunRefuses,
          RunThrows, queueVars
    <3>2. \A v \in Workers \ {w} : worker'[v] = worker[v]
      BY <1>0, <1>9, <2>2
      DEF StartJob, ReportRefused, MakeCohortRow, FinishJob, HandlerThrows, Reads, RunRefuses,
          RunThrows, RunReturns, Goes, queueVars
    <3>3. Telling(w) = {}
      BY <3>1 DEF Telling
    <3> QED
      BY <1>a, <1>b, <3>1, <3>2, <3>3
  <2> QED
    BY <2>1, <2>2
<1>10. ASSUME NEW w \in Workers, Works(w)
       PROVE  GivenUpIsTold'
  BY <1>7, <1>8, <1>9, <1>10 DEF Works
<1>11. ASSUME NEW kind, NEW subject, Enqueued(kind, subject)
       PROVE  GivenUpIsTold'
  <2>1. /\ jobs' = Append(jobs, NewJob(kind, Len(jobs) + 1))
        /\ ~NewJob(kind, Len(jobs) + 1).failed /\ UNCHANGED worker
    BY <1>11 DEF Enqueued, EnqueueJob, NewJob
  <2> HIDE DEF NewJob
  <2>2. \A j \in DOMAIN jobs' : jobs'[j].failed => j \in DOMAIN jobs /\ jobs[j].failed
    BY <1>0, <2>1
  <2> QED
    BY <1>0, <1>a, <2>1, <2>2 DEF Telling, JobOf
<1>12. CASE \E k \in DOMAIN jobs : LeaseLapses(k) \/ FallsDue(k)
  <2>1. UNCHANGED worker /\ \E k \in DOMAIN jobs : \E row :
          jobs' = [jobs EXCEPT ![k] = row] /\ row.failed = jobs[k].failed
    <3>1. ASSUME NEW k \in DOMAIN jobs
          PROVE  /\ [jobs[k] EXCEPT !.lease = "lapsed"].failed = jobs[k].failed
                 /\ [jobs[k] EXCEPT !.due = TRUE].failed = jobs[k].failed
      BY <1>0 DEF Jobs
    <3> QED
      BY <1>0, <1>12, <3>1 DEF LeaseLapses, FallsDue
  <2>2. \A j \in DOMAIN jobs' : jobs'[j].failed => j \in DOMAIN jobs /\ jobs[j].failed
    BY <1>0, <2>1
  <2> QED
    BY <1>0, <1>a, <2>1, <2>2 DEF Telling, JobOf
<1>13. CASE UNCHANGED <<jobs, worker>>
  BY <1>13, <1>a DEF Telling, JobOf
<1>14. ASSUME NEW c \in Cohorts, RerunFailed(c) \/ FindNoRun(c) \/ RerunPending(c)
       PROVE  GivenUpIsTold'
  BY <1>11, <1>13, <1>14 DEF RerunFailed, FindNoRun, RerunPending, queueVars
<1> QED
  BY <1>4, <1>5, <1>10, <1>11, <1>12, <1>13, <1>14
  DEF Next, SubmitImpactReport, SubmitCohort, CancelJob, Suspend, Resume, vars, queueVars

(* The end of a run begins no attempt and gives no job back.               *)
LEMMA EndsKeepTheQueue ==
  ASSUME QueueTypeOK, ExclusiveRun, LeaseKept, AttemptsKept, LeasedOnTheLast,
         NEW w \in Workers, FinishJob(w)
  PROVE  ExclusiveRun' /\ LeaseKept' /\ AttemptsKept' /\ LeasedOnTheLast'
<1>1. UNCHANGED jobs /\ worker[w].at = "running"
  BY RunIsOver
<1>2. PICK s \in {"ran", "threw"} : worker' = [worker EXCEPT ![w] = [worker[w] EXCEPT !.at = s]]
  BY RunIsOver
<1>3. ASSUME NEW v \in Workers
      PROVE  /\ worker'[v].job = worker[v].job /\ worker'[v].attempts = worker[v].attempts
             /\ v # w => worker'[v] = worker[v]
  BY <1>2 DEF QueueTypeOK, WorkerStates
<1>4. \A v \in Workers : \A j \in DOMAIN jobs : On(v, j)' => On(v, j)
  BY <1>1, <1>3 DEF On
<1> QED
  BY <1>1, <1>3, <1>4 DEF ExclusiveRun, LeaseKept, AttemptsKept, LeasedOnTheLast, Settled

(* REU-035.  Where no worker outlasts its lease, and however many runs and *)
(* attempts take a cohort's rows at once, in whatever order they end, none *)
(* is left pending without a run that is to be tried again or to be told   *)
(* it failed, a rerun to ask for, or a requester told: but for a run whose *)
(* worker stopped between failing it and telling its handler.              *)
THEOREM PendingRowsAreWaitedFor == ASSUME ~Stalls PROVE Spec => []PendingIsWaitedFor
<1> DEFINE Queue == ExclusiveRun /\ LeaseKept /\ AttemptsKept /\ LeasedOnTheLast
<1>1. Init => AwaitsInv /\ GivenUpIsTold /\ Queue
  <2>1. Init => AwaitsInv
    BY DEF Init, AwaitsInv, AwaitedBy, Unbegun
  <2>2. Init => jobs = <<>>
    BY DEF Init, QueueInit
  <2> QED
    BY <2>1, <2>2 DEF GivenUpIsTold, ExclusiveRun, LeaseKept, AttemptsKept, LeasedOnTheLast
<1>2. IInv /\ AwaitsInv /\ GivenUpIsTold /\ Queue /\ [Next]_vars
        => AwaitsInv' /\ GivenUpIsTold' /\ Queue'
  <2> SUFFICES ASSUME IInv, AwaitsInv, GivenUpIsTold, Queue, [Next]_vars
               PROVE  AwaitsInv' /\ GivenUpIsTold' /\ Queue'
    OBVIOUS
  <2>1. TypeOK /\ WalksInv /\ QueueTypeOK
    BY DEF IInv, TypeOK
  <2>2. AwaitsInv' /\ GivenUpIsTold'
    BY <2>1, AwaitsGoOn, GivenUpGoesOn
  <2>3. ASSUME [QueueNext]_queueVars
        PROVE  Queue'
    BY <2>1, <2>3, StepKeepsRunsExclusive, StepKeepsTheAttempts
  <2>4. ASSUME NEW w \in Workers, FinishJob(w)
        PROVE  Queue'
    BY <2>1, <2>4, EndsKeepTheQueue
  <2> QED
    BY <2>1, <2>2, <2>3, <2>4, QueueSteps
<1>3. IInv /\ AwaitsInv /\ GivenUpIsTold /\ Queue => PendingIsWaitedFor
  <2> SUFFICES ASSUME IInv, AwaitsInv, GivenUpIsTold, Queue, NEW c \in Cohorts,
                      cohort[c].asked, Of(c, "pending") # {}
               PROVE  \/ \E j \in DOMAIN reported : reported[j].subject = c /\ Coming(j)
                      \/ LeftAtFailed(c) \/ Told(c) \/ LeftUntold(c)
    BY DEF PendingIsWaitedFor
  <2>1. HasRun(c) \/ LeftAtFailed(c) \/ Told(c)
    BY DEF AwaitsInv, Awaits, HasRun, LeftAtFailed, Told
  <2>2. ASSUME NEW j \in DOMAIN reported, reported[j].subject = c, Live(j)
        PROVE  Coming(j) \/ LeftUntold(c)
    <3>1. j \in DOMAIN jobs /\ ~jobs[j].finished
      BY <2>2 DEF IInv, TypeOK, FinishedHasEnded, Live, Ended
    <3>2. CASE jobs[j].failed
      BY <2>2, <3>1, <3>2 DEF GivenUpIsTold, Coming, LeftUntold
    <3>3. CASE ~jobs[j].failed
      BY <2>2, <3>1, <3>3 DEF LeasedOnTheLast, Settled, Coming
    <3> QED
      BY <3>2, <3>3
  <2> QED
    BY <2>1, <2>2 DEF HasRun
<1> QED
  BY <1>1, <1>2, <1>3, Inductive, PTL DEF Spec
=============================================================================
