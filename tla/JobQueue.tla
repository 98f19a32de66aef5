------------------------------- MODULE JobQueue -------------------------------
(***************************************************************************)
(* The platform's one queue of jobs (packages/db/src/queue.ts) and the     *)
(* worker's loop over it (apps/worker/src/worker.ts, processNext), for one *)
(* tenant's jobs.                                                          *)
(*                                                                         *)
(* Each statement on platform.job is one transaction and one action; a     *)
(* worker may stop, or its connection fail, between any two.  There is no  *)
(* clock: a lease lapses, and a retry falls due, at some later moment.  A  *)
(* claim lasts a lease and is never extended, so where Stalls holds a      *)
(* worker may go on after its lease has lapsed.                            *)
(***************************************************************************)
EXTENDS Naturals, Sequences, FiniteSets

CONSTANTS
  Workers,      \* the worker processes
  Kinds,        \* what a job may be, every one of which every worker runs
  Subjects,     \* what a job may be about
  MaxAttempts,  \* platform.job's max_attempts
  Stalls,       \* whether a living worker may outlast its lease
  MaxJobs,      \* bound: the jobs ever queued
  MaxTroubles   \* bound: the stops, lost answers and suspensions there may be

ASSUME QueueAssumption ==
  MaxAttempts \in Nat \ {0} /\ Stalls \in BOOLEAN /\ MaxJobs \in Nat /\ MaxTroubles \in Nat

VARIABLES
  jobs,         \* platform.job, in the order of its ids; no row is ever deleted
  worker,       \* where each worker's processNext is
  active,       \* whether the tenant is, or is suspended
  troubles      \* how many there have been

queueVars == <<jobs, worker, active, troubles>>

-----------------------------------------------------------------------------
(* The rows.                                                               *)

(* A lease is locked_until: null, to come, or past.                        *)
Jobs == [kind : Kinds, subject : Subjects, attempts : 0..MaxAttempts,
         lease : {"none", "held", "lapsed"}, due : BOOLEAN,
         finished : BOOLEAN, failed : BOOLEAN]

NewJob(kind, subject) ==
  [kind |-> kind, subject |-> subject, attempts |-> 0, lease |-> "none", due |-> TRUE,
   finished |-> FALSE, failed |-> FALSE]

Settled(j) == jobs[j].finished \/ jobs[j].failed

(* Bugs to catch: a claim that minds no lease, and one attempt too many.   *)
ClaimableUnderLease(j) ==
  active /\ ~Settled(j) /\ jobs[j].attempts < MaxAttempts /\ jobs[j].due
ClaimableOnceMore(j) ==
  /\ active /\ ~Settled(j)
  /\ jobs[j].attempts <= MaxAttempts
  /\ jobs[j].due /\ jobs[j].lease # "held"
Claimable(j) ==
  /\ active /\ ~Settled(j)
  /\ jobs[j].attempts < MaxAttempts
  /\ jobs[j].due /\ jobs[j].lease # "held"

(* Nobody's any more, its last attempt begun: a null lease is never past.  *)
(* A bug to catch: an off-by-one that waits for an attempt too many.       *)
AbandonedPastItsLast ==
  {j \in DOMAIN jobs : active /\ ~Settled(j) /\ jobs[j].attempts > MaxAttempts
                         /\ jobs[j].lease = "lapsed"}
Abandoned ==
  {j \in DOMAIN jobs : active /\ ~Settled(j) /\ jobs[j].attempts >= MaxAttempts
                         /\ jobs[j].lease = "lapsed"}

(* The subjects a sweep finds a job still coming for, and how many of a    *)
(* subject's jobs gave up.  A bug to catch: a job once queued taken for    *)
(* one still coming.                                                       *)
WaitingEver(kind) ==
  {jobs[j].subject : j \in {k \in DOMAIN jobs : jobs[k].kind = kind}}
Waiting(kind) ==
  {jobs[j].subject : j \in {k \in DOMAIN jobs : jobs[k].kind = kind /\ ~Settled(k)}}
GivenUp(kind, subject) ==
  Cardinality({j \in DOMAIN jobs :
                 jobs[j].kind = kind /\ jobs[j].subject = subject /\ jobs[j].failed})

-----------------------------------------------------------------------------
(* A worker.  It keeps the row as it claimed it: the job and its attempts, *)
(* raised to the most there are where its input is refused.                *)

Idle == [at |-> "idle", job |-> 0, attempts |-> 0, untold |-> {}]
WorkerStates ==
  [at : {"idle", "telling", "running", "ran", "threw", "failed"},
   job : Nat, attempts : 0..MaxAttempts, untold : SUBSET Nat]

(* Holding a job whose outcome it has not written.                         *)
On(w, j) == worker[w].at \in {"running", "ran", "threw"} /\ worker[w].job = j

Goes(w, state) == worker' = [worker EXCEPT ![w].at = state]
Rests(w) == worker' = [worker EXCEPT ![w] = Idle]

(* Some trouble, while there may still be some.                            *)
Trouble == troubles < MaxTroubles /\ troubles' = troubles + 1

(* First, every abandoned job failed at once, and each told to its handler. *)
FailAbandoned(w) ==
  /\ worker[w].at = "idle"
  /\ jobs' = [j \in DOMAIN jobs |->
       IF j \in Abandoned THEN [jobs[j] EXCEPT !.failed = TRUE, !.lease = "none"] ELSE jobs[j]]
  /\ worker' = [worker EXCEPT ![w].at = "telling", ![w].untold = Abandoned]
  /\ UNCHANGED <<active, troubles>>

TellAbandoned(w, j) ==
  /\ worker[w].at = "telling" /\ j \in worker[w].untold
  /\ worker' = [worker EXCEPT ![w].untold = @ \ {j}]
  /\ UNCHANGED <<jobs, active, troubles>>

Claim(w, j) ==
  /\ worker[w].at = "telling" /\ worker[w].untold = {}
  /\ Claimable(j)
  /\ jobs' = [jobs EXCEPT ![j].attempts = @ + 1, ![j].lease = "held"]
  /\ worker' = [worker EXCEPT ![w] = [at |-> "running", job |-> j,
                  attempts |-> jobs[j].attempts + 1, untold |-> {}]]
  /\ UNCHANGED <<active, troubles>>

FindNothing(w) ==
  /\ worker[w].at = "telling" /\ worker[w].untold = {}
  /\ \A j \in DOMAIN jobs : ~Claimable(j)
  /\ Rests(w)
  /\ UNCHANGED <<jobs, active, troubles>>

(* handler.run returns, throws, or refuses its input for good.             *)
RunReturns(w) == worker[w].at = "running" /\ Goes(w, "ran")
RunThrows(w)  == worker[w].at = "running" /\ Goes(w, "threw")
RunRefuses(w) ==
  /\ worker[w].at = "running"
  /\ worker' = [worker EXCEPT ![w].at = "threw", ![w].attempts = MaxAttempts]

(* Written by id alone, whoever the row is now leased to.                  *)
Finish(j) == jobs' = [jobs EXCEPT ![j].finished = TRUE, ![j].lease = "none"]

Complete(w) ==
  /\ worker[w].at = "ran"
  /\ Finish(worker[w].job)
  /\ Rests(w)
  /\ UNCHANGED <<active, troubles>>

(* Within the same try as the run: its error fails the job, written or not. *)
CompleteThrows(w) ==
  /\ worker[w].at = "ran" /\ Trouble
  /\ Finish(worker[w].job) \/ UNCHANGED jobs
  /\ Goes(w, "threw")
  /\ UNCHANGED active

FailToRetry(w) ==
  /\ worker[w].at = "threw" /\ worker[w].attempts < MaxAttempts
  /\ jobs' = [jobs EXCEPT ![worker[w].job].lease = "none", ![worker[w].job].due = FALSE]
  /\ Rests(w)
  /\ UNCHANGED <<active, troubles>>

FailForGood(w) ==
  /\ worker[w].at = "threw" /\ worker[w].attempts >= MaxAttempts
  /\ jobs' = [jobs EXCEPT ![worker[w].job].failed = TRUE, ![worker[w].job].lease = "none"]
  /\ Goes(w, "failed")
  /\ UNCHANGED <<active, troubles>>

(* And the handler told, of what it threw.                                 *)
TellFailed(w) ==
  /\ worker[w].at = "failed"
  /\ Rests(w)
  /\ UNCHANGED <<jobs, active, troubles>>

(* A worker stops and starts again, or its loop's catch takes an error of  *)
(* the database's: what it was doing is left as it was, told to nobody.    *)
Stop(w) ==
  /\ worker[w].at # "idle" /\ Trouble
  /\ Rests(w)
  /\ UNCHANGED <<jobs, active>>

-----------------------------------------------------------------------------
(* Time, and the tenant.                                                   *)

LeaseLapses(j) ==
  /\ jobs[j].lease = "held"
  /\ Stalls \/ \A w \in Workers : ~On(w, j)
  /\ jobs' = [jobs EXCEPT ![j].lease = "lapsed"]
  /\ UNCHANGED <<worker, active, troubles>>

FallsDue(j) ==
  /\ ~jobs[j].due
  /\ jobs' = [jobs EXCEPT ![j].due = TRUE]
  /\ UNCHANGED <<worker, active, troubles>>

Suspend ==
  /\ active /\ Trouble
  /\ active' = FALSE
  /\ UNCHANGED <<jobs, worker>>

Resume ==
  /\ ~active
  /\ active' = TRUE
  /\ UNCHANGED <<jobs, worker, troubles>>

(* Queued within the transaction of what it is about.                      *)
EnqueueJob(kind, subject) ==
  /\ Len(jobs) < MaxJobs
  /\ jobs' = Append(jobs, NewJob(kind, subject))
  /\ UNCHANGED <<worker, active, troubles>>

-----------------------------------------------------------------------------
QueueInit ==
  /\ jobs = <<>>
  /\ worker = [w \in Workers |-> Idle]
  /\ active = TRUE
  /\ troubles = 0

(* handler.run where what it does is no concern of the queue's.            *)
Run(w) ==
  /\ RunReturns(w) \/ RunThrows(w) \/ RunRefuses(w)
  /\ UNCHANGED <<jobs, active, troubles>>

(* What a worker does of itself, and what time does, the tenant's among it. *)
WorkerStep(w) ==
  \/ FailAbandoned(w) \/ FindNothing(w) \/ Run(w) \/ Complete(w)
  \/ FailToRetry(w) \/ FailForGood(w) \/ TellFailed(w)
  \/ \E j \in DOMAIN jobs : TellAbandoned(w, j) \/ Claim(w, j)

QueueNext ==
  \/ \E w \in Workers : WorkerStep(w) \/ CompleteThrows(w) \/ Stop(w)
  \/ \E j \in DOMAIN jobs : LeaseLapses(j) \/ FallsDue(j)
  \/ Suspend \/ Resume
  \/ \E kind \in Kinds, subject \in Subjects : EnqueueJob(kind, subject)

(* Every worker's loop goes on, as main.ts's does after an error and a     *)
(* restarted process does; a lease nobody is on, a delay and a suspension  *)
(* each end.  Nothing says a living worker's lease must lapse.             *)
LapsesUnattended(j) == (\A w \in Workers : ~On(w, j)) /\ LeaseLapses(j)

QueueSpec ==
  /\ QueueInit /\ [][QueueNext]_queueVars
  /\ \A w \in Workers : WF_queueVars(WorkerStep(w))
  /\ \A j \in 1..MaxJobs :
       WF_queueVars(j \in DOMAIN jobs /\ (LapsesUnattended(j) \/ FallsDue(j)))
  /\ WF_queueVars(Resume)

-----------------------------------------------------------------------------
(* Properties.                                                             *)

(* The rows hold what their columns may, no attempt past the last among    *)
(* them, and a worker what its loop keeps.                                 *)
QueueTypeOK ==
  /\ jobs \in Seq(Jobs)
  /\ worker \in [Workers -> WorkerStates]
  /\ \A w \in Workers : worker[w].at \in {"running", "ran", "threw", "failed"}
                          => worker[w].job \in DOMAIN jobs
  /\ active \in BOOLEAN
  /\ troubles \in Nat

(* The lease: while no worker outlasts its own, no two run one job, and no *)
(* one's outcome is written over another's, whoever stopped and whatever   *)
(* answer was lost before (queue.ts, claim; publishing.md, "Idempotent     *)
(* under a lease").                                                        *)
ExclusiveRun ==
  \A w, v \in Workers : \A j \in DOMAIN jobs : (On(w, j) /\ On(v, j)) => w = v

(* "A lease so a job a worker dies holding comes back by itself"           *)
(* (queue.ts:149-150): every job is finished or given up in the end,       *)
(* whoever stopped on the way.                                             *)
EveryJobEnds ==
  \A j \in 1..MaxJobs : (j \in DOMAIN jobs) ~> (j \in DOMAIN jobs /\ Settled(j))
=============================================================================
