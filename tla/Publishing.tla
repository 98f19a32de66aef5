------------------------------ MODULE Publishing -------------------------------
(***************************************************************************)
(* Publication requests, the publications and failures they end in, and    *)
(* the veraPDF checks that follow (packages/db/src/publishing.ts;          *)
(* apps/worker/src/jobs/publish.ts, jobs/check.ts and sweep.ts), run over  *)
(* the queue: each step of a handler is taken with the worker's step, and  *)
(* what one transaction enqueues is queued in the same step.               *)
(***************************************************************************)
EXTENDS JobQueue, SequencesExt

CONSTANTS
  Sweepers,      \* the check sweeps that may be under way at once
  CheckGiveUps   \* CHECK_GIVE_UPS

ASSUME PublishingAssumption ==
  Kinds = {"publish", "check_pdf"} /\ CheckGiveUps \in Nat \ {0}

Requests == Subjects   \* a publication is told here by its request

VARIABLES
  request,    \* publication_request's state
  produced,   \* the publications recorded of a request, each with its event
  failures,   \* the publication.failed events of a request
  checked,    \* publication_check
  left,       \* publication_check_given_up
  aged,       \* the publications recorded CHECK_WITHIN_MS ago and more
  reading,    \* the workers whose handler has read its inputs and found work
  sweeper     \* where each check sweep is, and what it has read

pubVars == <<request, produced, failures, checked, left, aged, reading, sweeper>>
vars == <<queueVars, pubVars>>

-----------------------------------------------------------------------------
(* Requests.                                                               *)

SubjectOf(w) == jobs[worker[w].job].subject
KindOf(w)    == jobs[worker[w].job].kind
Runs(w, kind) == worker[w].at = "running" /\ KindOf(w) = kind

(* A request ends once: read locked, and only where it still is queued.    *)
(* A bug to catch: failed without asking whether it was recorded.          *)
MayRecord(r) == request[r] = "queued"
MayFailWhatIsDone(r) == request[r] # "failed"
MayFail(r)   == request[r] = "queued"

RequestPublication(r) ==
  /\ request[r] = "none" /\ active
  /\ request' = [request EXCEPT ![r] = "queued"]
  /\ EnqueueJob("publish", r)
  /\ UNCHANGED <<produced, failures, checked, left, aged, reading, sweeper>>

FailPublicationRequest(r) ==
  IF MayFail(r)
  THEN /\ request' = [request EXCEPT ![r] = "failed"]
       /\ failures' = [failures EXCEPT ![r] = @ + 1]
  ELSE UNCHANGED <<request, failures>>

(* The handlers' `failed`: a check's writes nothing.                       *)
Told(kind, r) ==
  /\ IF kind = "publish" THEN FailPublicationRequest(r) ELSE UNCHANGED <<request, failures>>
  /\ UNCHANGED <<produced, checked, left, aged, reading, sweeper>>

AbandonedTold(w, j) ==
  /\ TellAbandoned(w, j)
  /\ Told(jobs[j].kind, jobs[j].subject)

FailedTold(w) ==
  /\ TellFailed(w)
  /\ Told(KindOf(w), SubjectOf(w))

-----------------------------------------------------------------------------
(* The handlers' `run`: what it works from is read in one transaction, and *)
(* what it made recorded in another, whatever came between.                *)

Reads(w, more) ==
  /\ w \notin reading
  /\ IF more
     THEN reading' = reading \cup {w} /\ UNCHANGED worker
     ELSE RunReturns(w) /\ UNCHANGED reading
  /\ UNCHANGED <<jobs, active, troubles>>
  /\ UNCHANGED <<request, produced, failures, checked, left, aged, sweeper>>

PublicationInputs(w) == Runs(w, "publish") /\ Reads(w, request[SubjectOf(w)] = "queued")
PublicationToCheck(w) == Runs(w, "check_pdf") /\ Reads(w, SubjectOf(w) \notin checked)

(* Anything may go wrong before what was made is recorded; a publish may   *)
(* also be refused on its document's own merits.                           *)
RunFails(w) ==
  /\ RunThrows(w) \/ (Runs(w, "publish") /\ w \in reading /\ RunRefuses(w))
  /\ reading' = reading \ {w}
  /\ UNCHANGED <<jobs, active, troubles>>
  /\ UNCHANGED <<request, produced, failures, checked, left, aged, sweeper>>

(* The commit's answer may be lost: it throws, having recorded.            *)
Recorded(w) ==
  /\ w \in reading /\ reading' = reading \ {w}
  /\ \/ RunReturns(w) /\ UNCHANGED troubles
     \/ RunThrows(w) /\ Trouble
  /\ UNCHANGED active

(* The publication, its event, the request done and the check queued.      *)
RecordPublication(w) ==
  LET r == SubjectOf(w) IN
  /\ Runs(w, "publish") /\ Recorded(w)
  /\ IF MayRecord(r)
     THEN /\ request' = [request EXCEPT ![r] = "done"]
          /\ produced' = [produced EXCEPT ![r] = @ + 1]
          /\ Len(jobs) < MaxJobs
          /\ jobs' = Append(jobs, NewJob("check_pdf", r))
     ELSE UNCHANGED <<request, produced, jobs>>
  /\ UNCHANGED <<failures, checked, left, aged, sweeper>>

(* Once: a second check of one publication is kept out by its key.         *)
RecordPublicationCheck(w) ==
  /\ Runs(w, "check_pdf") /\ Recorded(w)
  /\ checked' = checked \cup {SubjectOf(w)}
  /\ UNCHANGED <<jobs, request, produced, failures, left, aged, sweeper>>

-----------------------------------------------------------------------------
(* The check sweep: two readings of the queue by the worker's own role,    *)
(* then one transaction of the tenant's.                                   *)

Resting == [at |-> "resting", waiting |-> {}, past |-> {}, givenUp |-> [r \in Requests |-> 0]]
SweeperStates ==
  [at : {"resting", "waited", "counted"}, waiting : SUBSET Requests, past : SUBSET Requests,
   givenUp : [Requests -> 0..MaxJobs]]

(* `now` is taken as the sweep begins, before it reads the queue.          *)
ReadWaiting(s) ==
  /\ active /\ sweeper[s].at = "resting"
  /\ sweeper' = [sweeper EXCEPT ![s] =
       [@ EXCEPT !.at = "waited", !.waiting = Waiting("check_pdf"), !.past = aged]]
  /\ UNCHANGED <<queueVars, request, produced, failures, checked, left, aged, reading>>

ReadGivenUp(s) ==
  /\ sweeper[s].at = "waited"
  /\ sweeper' = [sweeper EXCEPT ![s] =
       [@ EXCEPT !.at = "counted", !.givenUp = [r \in Requests |-> GivenUp("check_pdf", r)]]]
  /\ UNCHANGED <<queueVars, request, produced, failures, checked, left, aged, reading>>

(* Bugs to catch: one recorded since the queue was read asked for again,   *)
(* and an off-by-one in what is left.                                      *)
PublicationsToCheckAgainAtAnyAge(s) ==
  {r \in Requests : produced[r] > 0} \ (checked \cup left \cup sweeper[s].waiting)
PublicationsToCheckAgain(s) ==
  {r \in sweeper[s].past : produced[r] > 0} \ (checked \cup left \cup sweeper[s].waiting)

ToLeavePastTheLast(s) ==
  {r \in PublicationsToCheckAgain(s) : sweeper[s].givenUp[r] > CheckGiveUps}
ToLeave(s) ==
  {r \in PublicationsToCheckAgain(s) : sweeper[s].givenUp[r] >= CheckGiveUps}

SweepUncheckedPublications(s) ==
  LET again == PublicationsToCheckAgain(s) \ ToLeave(s) IN
  /\ sweeper[s].at = "counted"
  /\ left' = left \cup ToLeave(s)
  /\ Len(jobs) + Cardinality(again) <= MaxJobs
  /\ jobs' = jobs \o SetToSeq({NewJob("check_pdf", r) : r \in again})
  /\ sweeper' = [sweeper EXCEPT ![s] = Resting]
  /\ UNCHANGED <<worker, active, troubles, request, produced, failures, checked, aged, reading>>

(* A tenant's sweep that fails is passed over until the next.              *)
SweepFails(s) ==
  /\ sweeper[s].at # "resting" /\ Trouble
  /\ sweeper' = [sweeper EXCEPT ![s] = Resting]
  /\ UNCHANGED <<jobs, worker, active, request, produced, failures, checked, left, aged, reading>>

Ages(r) ==
  /\ produced[r] > 0 /\ r \notin aged
  /\ aged' = aged \cup {r}
  /\ UNCHANGED <<queueVars, request, produced, failures, checked, left, reading, sweeper>>

-----------------------------------------------------------------------------
(* The queue's own steps, which write nothing of the tenant's.             *)

QueueKeeps(w) ==
  /\ \/ FailAbandoned(w) \/ FindNothing(w) \/ Complete(w)
     \/ FailToRetry(w) \/ FailForGood(w)
     \/ \E j \in DOMAIN jobs : Claim(w, j)
  /\ UNCHANGED pubVars

Stops(w) ==
  /\ Stop(w)
  /\ reading' = reading \ {w}
  /\ UNCHANGED <<request, produced, failures, checked, left, aged, sweeper>>

Passes(j) == (LeaseLapses(j) \/ FallsDue(j)) /\ UNCHANGED pubVars

Init ==
  /\ QueueInit
  /\ request = [r \in Requests |-> "none"]
  /\ produced = [r \in Requests |-> 0]
  /\ failures = [r \in Requests |-> 0]
  /\ checked = {} /\ left = {} /\ aged = {} /\ reading = {}
  /\ sweeper = [s \in Sweepers |-> Resting]

Works(w) ==
  \/ QueueKeeps(w) \/ FailedTold(w) \/ \E j \in DOMAIN jobs : AbandonedTold(w, j)
  \/ PublicationInputs(w) \/ PublicationToCheck(w) \/ RunFails(w)
  \/ RecordPublication(w) \/ RecordPublicationCheck(w)

Sweeps(s) == ReadWaiting(s) \/ ReadGivenUp(s) \/ SweepUncheckedPublications(s)

Next ==
  \/ \E r \in Requests : RequestPublication(r) \/ Ages(r)
  \/ \E w \in Workers : Works(w) \/ Stops(w) \/ (CompleteThrows(w) /\ UNCHANGED pubVars)
  \/ \E s \in Sweepers : Sweeps(s) \/ SweepFails(s)
  \/ \E j \in DOMAIN jobs : Passes(j)
  \/ (Suspend \/ Resume) /\ UNCHANGED pubVars

(* As the queue's, and the sweep, which an interval runs for ever.         *)
Fairness ==
  /\ \A w \in Workers : WF_vars(Works(w))
  /\ \A s \in Sweepers : WF_vars(Sweeps(s))
  /\ \A j \in 1..MaxJobs :
       WF_vars(j \in DOMAIN jobs /\ (LapsesUnattended(j) \/ FallsDue(j)) /\ UNCHANGED pubVars)
  /\ \A r \in Requests : WF_vars(Ages(r))
  /\ WF_vars(Resume /\ UNCHANGED pubVars)

Spec == Init /\ [][Next]_vars
FairSpec == Spec /\ Fairness

-----------------------------------------------------------------------------
(* Properties.                                                             *)

(* The tables hold what their columns may.                                 *)
TypeOK ==
  /\ QueueTypeOK
  /\ request \in [Requests -> {"none", "queued", "done", "failed"}]
  /\ produced \in [Requests -> Nat] /\ failures \in [Requests -> Nat]
  /\ checked \subseteq Requests /\ left \subseteq Requests /\ aged \subseteq Requests
  /\ reading \subseteq Workers
  /\ sweeper \in [Sweepers -> SweeperStates]

(* PUB-053, and "Idempotent under a lease".  A request ends once and one   *)
(* way - one publication and its event, or one failure's, never both and   *)
(* never two - though workers that outlast their leases run it at once,    *)
(* answers are lost after their commits, and a finished run is failed.     *)
OneOutcome ==
  \A r \in Requests :
    /\ produced[r] = IF request[r] = "done" THEN 1 ELSE 0
    /\ failures[r] = IF request[r] = "failed" THEN 1 ELSE 0

(* With one sweep at a time no check is asked for of a publication that    *)
(* has one coming (publishing.md: "with no check_pdf job waiting or        *)
(* running for it"), though the sweep reads the queue, then its counts,    *)
(* then the publications, and workers go on between.                       *)
Checks(r) == {j \in DOMAIN jobs : jobs[j].kind = "check_pdf" /\ jobs[j].subject = r}
ChecksComing(r) == {j \in Checks(r) : ~Settled(j)}
OneCheckComing == \A r \in Requests : Cardinality(ChecksComing(r)) <= 1

(* "Nine attempts in all": over every check ever queued of a publication,  *)
(* however they ended, it is tried CheckGiveUps * MaxAttempts times and    *)
(* no more, and left only once that many checks gave up.                   *)
Attempts(r) == Cardinality(UNION {{j} \X (1..jobs[j].attempts) : j \in Checks(r)})
TriedSoOften ==
  \A r \in Requests :
    /\ Attempts(r) <= CheckGiveUps * MaxAttempts
    /\ r \in left => GivenUp("check_pdf", r) = CheckGiveUps

(* ADR-0030.  Every publication is checked in the end, or left for good:   *)
(* its page never says for ever that it is not checked yet.                *)
CheckedOrLeft ==
  \A r \in Requests : (produced[r] > 0) ~> (r \in checked \cup left)

(* "The request fails ... after the last attempt, or when a worker never   *)
(* came back" (publish.ts:719-722): every request ends.                    *)
EveryRequestEnds ==
  \A r \in Requests : (request[r] = "queued") ~> (request[r] \in {"done", "failed"})
=============================================================================
