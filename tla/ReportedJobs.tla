----------------------------- MODULE ReportedJobs ------------------------------
(***************************************************************************)
(* The jobs the API takes and reports on: impact reports and the runs of   *)
(* cohorts (packages/db/src/jobs.ts and cohorts.ts; apps/worker/src/jobs/  *)
(* impact-report.ts and cohort.ts), run over the queue.  A job's row and   *)
(* its queue's are made together, so both have the same number.            *)
(*                                                                         *)
(* Each transaction of a handler is a step; the handler may fail, and its  *)
(* worker stop, between any two.                                           *)
(***************************************************************************)
EXTENDS JobQueue

CONSTANTS
  Cohorts,    \* bound: the cohorts that may be asked for
  RowCount,   \* the rows of each
  Anything,   \* what an impact report is about
  MaxReports  \* bound: the impact reports there may be

ASSUME ReportedAssumption ==
  /\ Kinds = {"impact_report", "cohort"} /\ Subjects = 1..MaxJobs
  /\ RowCount \in Nat \ {0}
  /\ Anything \notin Cohorts
  /\ MaxReports \in Nat

VARIABLES
  reported,   \* api_job
  cohort,     \* the cohorts and their rows
  documents,  \* how many documents have been made of each row
  rerunning,  \* of each cohort, the reruns that have found no run of it
  walk,       \* where the handler each worker runs has got
  neverTold   \* history: the jobs given up whose handlers a stop kept from being told

tenantVars == <<reported, cohort, documents, rerunning>>
vars == <<queueVars, tenantVars, walk, neverTold>>

-----------------------------------------------------------------------------
(* Jobs, and the rows of a cohort.                                         *)

Rows == 1..RowCount
RowStates == {"pending", "made", "failed"}
CohortRecords == [asked : BOOLEAN, stop : BOOLEAN, rows : [Rows -> RowStates]]

ReportedJobRecords ==
  [kind : Kinds, subject : Cohorts \cup {Anything},
   state : {"accepted", "running", "succeeded", "failed", "cancelled"},
   started : BOOLEAN, cancel : BOOLEAN]

Accepted(kind, subject) ==
  [kind |-> kind, subject |-> subject, state |-> "accepted", started |-> FALSE, cancel |-> FALSE]

Live(j)  == reported[j].state \in {"accepted", "running"}
Ended(j) == reported[j].state \in {"succeeded", "failed", "cancelled"}

Of(c, state) == {r \in Rows : cohort[c].rows[r] = state}
HasRun(c) == \E j \in DOMAIN reported : reported[j].subject = c /\ Live(j)

(* A failed row that rows wait after, where its run was to stop there.     *)
StoppedAt(c) ==
  cohort[c].stop /\ \E r \in Of(c, "failed"), q \in Of(c, "pending") : r < q

-----------------------------------------------------------------------------
(* What a caller asks for.                                                 *)

Enqueued(kind, subject) ==
  /\ EnqueueJob(kind, Len(jobs) + 1)
  /\ reported' = Append(reported, Accepted(kind, subject))

SubmitImpactReport ==
  /\ Cardinality({j \in DOMAIN reported : reported[j].kind = "impact_report"}) < MaxReports
  /\ active /\ Enqueued("impact_report", Anything)
  /\ UNCHANGED <<cohort, documents, rerunning, walk>>

SubmitCohort(c, stop) ==
  /\ active /\ ~cohort[c].asked
  /\ cohort' = [cohort EXCEPT ![c] = [@ EXCEPT !.asked = TRUE, !.stop = stop]]
  /\ Enqueued("cohort", c)
  /\ UNCHANGED <<documents, rerunning, walk>>

CancelJob(j) ==
  /\ active /\ Live(j)
  /\ reported' = [reported EXCEPT ![j] =
       IF @.state = "accepted" THEN [@ EXCEPT !.state = "cancelled", !.cancel = TRUE]
       ELSE [@ EXCEPT !.cancel = TRUE]]
  /\ UNCHANGED <<queueVars, cohort, documents, rerunning, walk>>

(* The failed rows run again, and with them, where no run will make them,  *)
(* those left pending.  A bug to catch: a running run left to make them.   *)
RerunFailedUnlessRunning(c) ==
  /\ active /\ Of(c, "failed") # {}
  /\ cohort' = [cohort EXCEPT ![c].rows =
       [r \in Rows |-> IF @[r] = "failed" THEN "pending" ELSE @[r]]]
  /\ IF HasRun(c) THEN UNCHANGED <<queueVars, reported>> ELSE Enqueued("cohort", c)
  /\ UNCHANGED <<documents, rerunning, walk>>
RerunFailed(c) ==
  /\ active /\ Of(c, "failed") # {}
  /\ cohort' = [cohort EXCEPT ![c].rows =
       [r \in Rows |-> IF @[r] = "failed" THEN "pending" ELSE @[r]]]
  /\ Enqueued("cohort", c)
  /\ UNCHANGED <<documents, rerunning, walk>>

(* Where none has failed, nothing holds two reruns that find no run apart. *)
FindNoRun(c) ==
  /\ active /\ cohort[c].asked
  /\ Of(c, "failed") = {} /\ Of(c, "pending") # {} /\ ~HasRun(c)
  /\ Len(jobs) + rerunning[c] < MaxJobs
  /\ rerunning' = [rerunning EXCEPT ![c] = @ + 1]
  /\ UNCHANGED <<queueVars, reported, cohort, documents, walk>>

RerunPending(c) ==
  /\ rerunning[c] > 0
  /\ rerunning' = [rerunning EXCEPT ![c] = @ - 1]
  /\ Enqueued("cohort", c)
  /\ UNCHANGED <<cohort, documents, walk>>

-----------------------------------------------------------------------------
(* The handlers' `run`.  late counts the rows it made after its job had    *)
(* ended or been asked to.                                                 *)

Unbegun == [at |-> "unbegun", todo |-> {}, failed |-> FALSE, late |-> 0]
Walks ==
  [at : {"unbegun", "started", "reading", "walking", "telling", "stopped", "through"},
   todo : SUBSET Rows, failed : BOOLEAN, late : Nat]

JobOf(w) == worker[w].job
CohortOf(w) == reported[JobOf(w)].subject
Is(w, kind, state) ==
  worker[w].at = "running" /\ reported[JobOf(w)].kind = kind /\ walk[w].at = state

Moves(w, state) == walk' = [walk EXCEPT ![w].at = state]

AskedToStop(w) == reported[JobOf(w)].cancel \/ Ended(JobOf(w))

(* Whether a running job may go on: false where a cancel was asked for.    *)
(* A bug to catch: a cancel that is not asked about.                       *)
RunsStill(w) == reported[JobOf(w)].state = "running"
MayGoOn(w)   == reported[JobOf(w)].state = "running" /\ ~reported[JobOf(w)].cancel

(* A bug to catch: one running taken for one that has ended.               *)
MayStartOnce(j) == reported[j].state = "accepted"
MayStart(j)     == reported[j].state \in {"accepted", "running"}

StartJob(w) ==
  LET j == JobOf(w) IN
  /\ worker[w].at = "running" /\ walk[w].at = "unbegun"
  /\ IF MayStart(j)
     THEN /\ reported' = [reported EXCEPT ![j] = [@ EXCEPT !.state = "running", !.started = TRUE]]
          /\ Moves(w, "started")
          /\ UNCHANGED worker
     ELSE RunReturns(w) /\ UNCHANGED <<reported, walk>>
  /\ UNCHANGED <<jobs, active, troubles, cohort, documents, rerunning>>

(* An impact report: refused where its requester may no longer read, else  *)
(* a step a depth, each telling how far it has got and hearing a cancel.   *)
ReportRefused(w) ==
  /\ Is(w, "impact_report", "started") /\ RunRefuses(w)
  /\ walk' = [walk EXCEPT ![w] = Unbegun]
  /\ UNCHANGED <<jobs, active, troubles, tenantVars>>

ReportReadable(w) == Is(w, "impact_report", "started") /\ Moves(w, "walking")

WalkDepth(w) ==
  /\ Is(w, "impact_report", "walking")
  /\ \E state \in IF MayGoOn(w) THEN {"walking", "through"} ELSE {"stopped"} : Moves(w, state)

(* A cohort's run: where it stopped at a failed row there is nothing to do *)
(* before a rerun; else its pending rows, in order.                        *)
ReadCohort(w) ==
  /\ Is(w, "cohort", "started")
  /\ Moves(w, IF StoppedAt(CohortOf(w)) THEN "through" ELSE "reading")

PendingRows(w) ==
  LET pending == Of(CohortOf(w), "pending") IN
  /\ Is(w, "cohort", "reading")
  /\ walk' = [walk EXCEPT ![w] = [@ EXCEPT !.todo = pending,
                !.at = IF pending = {} THEN "through" ELSE "walking"]]

First(rows, r) == r \in rows /\ \A q \in rows : r <= q

(* Read locked, and left as it is unless pending: made into its document,  *)
(* or refused and failed.  A bug to catch: read without asking.            *)
MayMakeUnlessFailed(c, r) == cohort[c].rows[r] # "failed"
MayMake(c, r) == cohort[c].rows[r] = "pending"

MakeCohortRow(w) ==
  LET c == CohortOf(w) IN
  /\ Is(w, "cohort", "walking")
  /\ \E r \in Rows, made \in BOOLEAN :
       /\ First(walk[w].todo, r)
       /\ IF MayMake(c, r)
          THEN /\ cohort' = [cohort EXCEPT ![c].rows[r] = IF made THEN "made" ELSE "failed"]
               /\ documents' = IF made THEN [documents EXCEPT ![c][r] = @ + 1] ELSE documents
          ELSE UNCHANGED <<cohort, documents>>
       /\ walk' = [walk EXCEPT ![w] =
            [at |-> "telling", todo |-> @.todo \ {r}, failed |-> MayMake(c, r) /\ ~made,
             late |-> IF MayMake(c, r) /\ AskedToStop(w) THEN @.late + 1 ELSE @.late]]
  /\ UNCHANGED <<queueVars, reported, rerunning>>

(* Then told, and a cancel heard; and stopped at a failed row, if asked    *)
(* and a row waits after it.                                               *)
StopsThere(w) == walk[w].todo = {} \/ (cohort[CohortOf(w)].stop /\ walk[w].failed)
Leaves(w, state) ==
  walk' = [walk EXCEPT ![w] = [@ EXCEPT !.at = state, !.todo = {}, !.failed = FALSE]]

ProgressJob(w) ==
  /\ Is(w, "cohort", "telling")
  /\ \/ ~MayGoOn(w) /\ Leaves(w, "stopped")
     \/ MayGoOn(w) /\ StopsThere(w) /\ Leaves(w, "through")
     \/ MayGoOn(w) /\ ~StopsThere(w) /\ Moves(w, "walking")

(* What is through puts its result in the store first, and keeps it only   *)
(* where no cancel was asked for meanwhile.                                *)
FinishJob(w) ==
  LET j == JobOf(w) IN
  /\ worker[w].at = "running" /\ walk[w].at \in {"stopped", "through"}
  /\ reported' = [reported EXCEPT ![j].state =
       IF @ # "running" THEN @
       ELSE IF walk[w].at = "through" /\ ~reported[j].cancel THEN "succeeded" ELSE "cancelled"]
  /\ \/ RunReturns(w) /\ UNCHANGED troubles
     \/ RunThrows(w) /\ Trouble
  /\ walk' = [walk EXCEPT ![w] = Unbegun]
  /\ UNCHANGED <<jobs, active, cohort, documents, rerunning>>

(* Anything may go wrong between two of these.                             *)
HandlerThrows(w) ==
  /\ RunThrows(w)
  /\ walk' = [walk EXCEPT ![w] = Unbegun]
  /\ UNCHANGED <<jobs, active, troubles, tenantVars>>

(* A bug to catch: a job failed though it has ended.                       *)
FailUnlessFailed(j) == reported' = [reported EXCEPT ![j].state = "failed"]
FailJob(j) ==
  reported' = [reported EXCEPT ![j].state = IF @ \in {"accepted", "running"} THEN "failed" ELSE @]

AbandonedTold(w, j) ==
  /\ TellAbandoned(w, j) /\ FailJob(j)
  /\ UNCHANGED <<cohort, documents, rerunning, walk>>

FailedTold(w) ==
  /\ TellFailed(w) /\ FailJob(JobOf(w))
  /\ UNCHANGED <<cohort, documents, rerunning, walk>>

-----------------------------------------------------------------------------
(* The queue's own steps, which write nothing of the tenant's.             *)

QueueKeeps(w) ==
  /\ \/ FailAbandoned(w) \/ FindNothing(w) \/ Complete(w) \/ CompleteThrows(w)
     \/ FailToRetry(w) \/ FailForGood(w)
     \/ \E j \in DOMAIN jobs : Claim(w, j)
  /\ UNCHANGED <<tenantVars, walk>>

(* The jobs a worker has written off and not yet told the handlers of.     *)
Telling(w) ==
  {j \in DOMAIN jobs : \/ worker[w].at = "failed" /\ JobOf(w) = j
                       \/ worker[w].at = "telling" /\ j \in worker[w].untold}

Stops(w) ==
  /\ Stop(w)
  /\ walk' = [walk EXCEPT ![w] = Unbegun]
  /\ neverTold' = neverTold \cup Telling(w)
  /\ UNCHANGED tenantVars

Init ==
  /\ QueueInit
  /\ reported = <<>>
  /\ cohort = [c \in Cohorts |->
       [asked |-> FALSE, stop |-> FALSE, rows |-> [r \in Rows |-> "pending"]]]
  /\ documents = [c \in Cohorts |-> [r \in Rows |-> 0]]
  /\ rerunning = [c \in Cohorts |-> 0]
  /\ walk = [w \in Workers |-> Unbegun]
  /\ neverTold = {}

(* Steps that write nothing but where the handler is.                      *)
Reads(w) ==
  /\ ReportReadable(w) \/ WalkDepth(w) \/ ReadCohort(w) \/ PendingRows(w) \/ ProgressJob(w)
  /\ UNCHANGED <<queueVars, tenantVars>>

Works(w) ==
  \/ StartJob(w) \/ ReportRefused(w) \/ Reads(w) \/ MakeCohortRow(w) \/ FinishJob(w)
  \/ HandlerThrows(w) \/ FailedTold(w) \/ \E j \in DOMAIN jobs : AbandonedTold(w, j)

Next ==
  \/ \E w \in Workers : Stops(w)
  \/ /\ \/ SubmitImpactReport \/ \E c \in Cohorts, stop \in BOOLEAN : SubmitCohort(c, stop)
        \/ \E j \in DOMAIN reported : CancelJob(j)
        \/ \E c \in Cohorts : RerunFailed(c) \/ FindNoRun(c) \/ RerunPending(c)
        \/ \E w \in Workers : Works(w) \/ QueueKeeps(w)
        \/ /\ \/ Suspend \/ Resume
              \/ \E j \in DOMAIN jobs : LeaseLapses(j) \/ FallsDue(j)
           /\ UNCHANGED <<tenantVars, walk>>
     /\ UNCHANGED neverTold

Spec == Init /\ [][Next]_vars

-----------------------------------------------------------------------------
(* Properties.                                                             *)

(* The tables hold what their columns may, a job's row beside its queue's. *)
TypeOK ==
  /\ QueueTypeOK
  /\ reported \in Seq(ReportedJobRecords) /\ DOMAIN reported = DOMAIN jobs
  /\ cohort \in [Cohorts -> CohortRecords]
  /\ documents \in [Cohorts -> [Rows -> Nat]]
  /\ rerunning \in [Cohorts -> Nat]
  /\ walk \in [Workers -> Walks]
  /\ neverTold \subseteq DOMAIN jobs

(* API-041 to API-043.  A job ends once and one way: what it is read to    *)
(* have come to - its result, its failure or its cancellation, at once and *)
(* never started or after - is never changed, though its attempts go on at *)
(* once past their leases, are lost after their commits, or are told that  *)
(* they failed (jobs.ts:143-237).                                          *)
EndsOnce ==
  [][\A j \in DOMAIN reported : Ended(j) => reported'[j] = reported[j]]_vars

(* "The worker meets it exactly when it exists": a job the queue holds     *)
(* finished has ended for its requester too, so a handler that returns has *)
(* left nobody waiting, whichever attempt it was and whatever the others   *)
(* had done (worker.ts:80-85).                                             *)
FinishedHasEnded ==
  \A j \in DOMAIN jobs : jobs[j].finished => Ended(j)

(* API-042.  "A running one is asked to stop, which it does at its next     *)
(* step": after its job is asked to stop, or ends by another's hand, an    *)
(* attempt makes one row more at most (cohort.ts:46-59).                   *)
HeardAtItsNextStep == \A w \in Workers : walk[w].late <= 1

(* REU-033.  "A made row is never touched": one document of each row and   *)
(* no more, however many runs and attempts take the row at once and        *)
(* however often its cohort is run again (cohorts.ts:363-427).             *)
MadeOnce ==
  \A c \in Cohorts : \A r \in Rows :
    documents[c][r] = IF cohort[c].rows[r] = "made" THEN 1 ELSE 0

(* A run that will take its cohort's rows, or that will be told it failed: *)
(* its job is to be tried again, is under a lease or past one, or is one a *)
(* worker is about to tell of.                                             *)
Coming(j) ==
  /\ Live(j)
  /\ \/ ~Settled(j) /\ (jobs[j].attempts < MaxAttempts \/ jobs[j].lease # "none")
     \/ \E w \in Workers : j \in Telling(w)

LeftAtFailed(c) == cohort[c].stop /\ Of(c, "failed") # {}
Told(c) ==
  \E j \in DOMAIN reported :
    reported[j].subject = c /\ reported[j].state \in {"cancelled", "failed"}
LeftUntold(c) == \E j \in neverTold : reported[j].subject = c /\ Live(j)

(* REU-035.  A row left pending is waited for: its cohort has a run to     *)
(* come, or was to stop where a row failed and one has, or had a run that  *)
(* was cancelled or failed, so its requester was told; whatever runs and   *)
(* attempts took its rows at once, in whatever order they ended (cohorts.  *)
(* ts:287-345).  All but where a worker stopped between failing a run for  *)
(* good and telling its handler (worker.ts:46-50, 92-100): its run reads as *)
(* one under way for ever, and nobody will make its rows.                  *)
PendingIsWaitedFor ==
  \A c \in Cohorts :
    cohort[c].asked /\ Of(c, "pending") # {}
      => \/ \E j \in DOMAIN reported : reported[j].subject = c /\ Coming(j)
         \/ LeftAtFailed(c) \/ Told(c) \/ LeftUntold(c)
=============================================================================
