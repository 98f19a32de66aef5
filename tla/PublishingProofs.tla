--------------------------- MODULE PublishingProofs ---------------------------
(***************************************************************************)
(* What publishing keeps for any requests, workers, sweeps and troubles,   *)
(* whether or not a worker may outlast its lease.                          *)
(***************************************************************************)
EXTENDS Publishing, JobQueueProofs, FiniteSetTheorems

Outcomes ==
  /\ request \in [Requests -> {"none", "queued", "done", "failed"}]
  /\ produced \in [Requests -> Nat] /\ failures \in [Requests -> Nat]
  /\ OneOutcome

(* What a handler's `failed` writes is written once, of a queued request.  *)
LEMMA ToldKeepsOutcomes ==
  ASSUME Outcomes, NEW kind, NEW r, Told(kind, r)
  PROVE  Outcomes'
<1>1. CASE kind = "publish" /\ MayFail(r)
  <2>1. /\ request' = [request EXCEPT ![r] = "failed"]
        /\ failures' = [failures EXCEPT ![r] = @ + 1]
        /\ produced' = produced
    BY <1>1 DEF Told, FailPublicationRequest
  <2>2. request[r] = "queued"
    BY <1>1 DEF MayFail
  <2>3. /\ request' \in [Requests -> {"none", "queued", "done", "failed"}]
        /\ produced' \in [Requests -> Nat] /\ failures' \in [Requests -> Nat]
    <3>1. request' \in [Requests -> {"none", "queued", "done", "failed"}]
      BY <2>1 DEF Outcomes
    <3>2. \A x \in Requests : produced[x] + 1 \in Nat /\ failures[x] + 1 \in Nat
      BY DEF Outcomes
    <3>3. produced' \in [Requests -> Nat]
      BY <2>1, <3>2 DEF Outcomes
    <3>4. failures' \in [Requests -> Nat]
      BY <2>1, <3>2 DEF Outcomes
    <3> QED
      BY <3>1, <3>3, <3>4
  <2>4. \A x \in Requests :
          /\ request'[x] = IF x = r THEN "failed" ELSE request[x]
          /\ failures'[x] = IF x = r THEN failures[x] + 1 ELSE failures[x]
    BY <2>1 DEF Outcomes
  <2>5. ASSUME NEW x \in Requests
        PROVE  /\ produced'[x] = IF request'[x] = "done" THEN 1 ELSE 0
               /\ failures'[x] = IF request'[x] = "failed" THEN 1 ELSE 0
    BY <2>1, <2>2, <2>4 DEF Outcomes, OneOutcome
  <2> QED
    BY <2>3, <2>5 DEF Outcomes, OneOutcome
<1>2. CASE ~(kind = "publish" /\ MayFail(r))
  BY <1>2 DEF Told, FailPublicationRequest, Outcomes, OneOutcome
<1> QED
  BY <1>1, <1>2

LEMMA RecordKeepsOutcomes ==
  ASSUME Outcomes, NEW w \in Workers, RecordPublication(w)
  PROVE  Outcomes'
<1>1. PICK r : r = SubjectOf(w)
  OBVIOUS
<1>2. CASE MayRecord(r)
  <2>1. /\ request' = [request EXCEPT ![r] = "done"]
        /\ produced' = [produced EXCEPT ![r] = @ + 1]
        /\ failures' = failures
    BY <1>1, <1>2 DEF RecordPublication
  <2>2. request[r] = "queued"
    BY <1>2 DEF MayRecord
  <2>3. /\ request' \in [Requests -> {"none", "queued", "done", "failed"}]
        /\ produced' \in [Requests -> Nat] /\ failures' \in [Requests -> Nat]
    <3>1. request' \in [Requests -> {"none", "queued", "done", "failed"}]
      BY <2>1 DEF Outcomes
    <3>2. \A x \in Requests : produced[x] + 1 \in Nat /\ failures[x] + 1 \in Nat
      BY DEF Outcomes
    <3>3. produced' \in [Requests -> Nat]
      BY <2>1, <3>2 DEF Outcomes
    <3>4. failures' \in [Requests -> Nat]
      BY <2>1, <3>2 DEF Outcomes
    <3> QED
      BY <3>1, <3>3, <3>4
  <2>4. \A x \in Requests :
          /\ request'[x] = IF x = r THEN "done" ELSE request[x]
          /\ produced'[x] = IF x = r THEN produced[x] + 1 ELSE produced[x]
    BY <2>1 DEF Outcomes
  <2>5. ASSUME NEW x \in Requests
        PROVE  /\ produced'[x] = IF request'[x] = "done" THEN 1 ELSE 0
               /\ failures'[x] = IF request'[x] = "failed" THEN 1 ELSE 0
    BY <2>1, <2>2, <2>4 DEF Outcomes, OneOutcome
  <2> QED
    BY <2>3, <2>5 DEF Outcomes, OneOutcome
<1>3. CASE ~MayRecord(r)
  BY <1>1, <1>3 DEF RecordPublication, Outcomes, OneOutcome
<1> QED
  BY <1>2, <1>3

LEMMA StepKeepsOutcomes ==
  ASSUME Outcomes, [Next]_vars
  PROVE  Outcomes'
<1>1. ASSUME NEW r \in Requests, RequestPublication(r)
      PROVE  Outcomes'
  BY <1>1 DEF RequestPublication, Outcomes, OneOutcome
<1>2. ASSUME NEW w \in Workers, FailedTold(w)
      PROVE  Outcomes'
  <2>1. PICK kind, r : Told(kind, r)
    BY <1>2 DEF FailedTold
  <2> QED
    BY <2>1, ToldKeepsOutcomes
<1>3. ASSUME NEW w \in Workers, NEW j \in DOMAIN jobs, AbandonedTold(w, j)
      PROVE  Outcomes'
  <2>1. PICK kind, r : Told(kind, r)
    BY <1>3 DEF AbandonedTold
  <2> QED
    BY <2>1, ToldKeepsOutcomes
<1>4. ASSUME UNCHANGED <<request, produced, failures>>
      PROVE  Outcomes'
  BY <1>4 DEF Outcomes, OneOutcome
<1>5. ASSUME NEW w \in Workers, Works(w)
      PROVE  Outcomes'
  <2>1. CASE \/ QueueKeeps(w) \/ PublicationInputs(w) \/ PublicationToCheck(w)
             \/ RunFails(w) \/ RecordPublicationCheck(w)
    BY <1>4, <2>1
    DEF QueueKeeps, PublicationInputs, PublicationToCheck, Reads, RunFails,
        RecordPublicationCheck, pubVars
  <2> QED
    BY <1>2, <1>3, <1>5, <2>1, RecordKeepsOutcomes DEF Works
<1>6. CASE \/ \E r \in Requests : Ages(r)
           \/ \E w \in Workers : Stops(w) \/ (CompleteThrows(w) /\ UNCHANGED pubVars)
           \/ \E s \in Sweepers : Sweeps(s) \/ SweepFails(s)
           \/ \E j \in DOMAIN jobs : Passes(j)
           \/ UNCHANGED pubVars
  BY <1>4, <1>6
  DEF Ages, Stops, Sweeps, ReadWaiting, ReadGivenUp, SweepUncheckedPublications, SweepFails,
      Passes, pubVars
<1> QED
  BY <1>1, <1>5, <1>6 DEF Next, vars

(* A request ends once and one way, however many workers run it at once,   *)
(* whatever leases lapse and answers are lost, and whatever is told twice. *)
THEOREM RequestsEndOnce == Spec => []OneOutcome
<1>1. Init => Outcomes
  BY DEF Init, Outcomes, OneOutcome
<1>2. Outcomes /\ [Next]_vars => Outcomes'
  BY StepKeepsOutcomes
<1>3. Outcomes => OneOutcome
  BY DEF Outcomes
<1> QED
  BY <1>1, <1>2, <1>3, PTL DEF Spec
-----------------------------------------------------------------------------
(* What publishing does of the queue besides the queue's own steps: it     *)
(* adds jobs, and lets a handler that was running return or throw.         *)
Adds ==
  /\ jobs' \in Seq(Jobs)
  /\ \A j \in DOMAIN jobs : j \in DOMAIN jobs' /\ jobs'[j] = jobs[j]
  /\ \/ UNCHANGED worker
     \/ \E w \in Workers, s \in {"ran", "threw"} :
          worker[w].at = "running" /\ worker' = [worker EXCEPT ![w] = [worker[w] EXCEPT !.at = s]]
  /\ active' \in BOOLEAN /\ troubles' \in Nat

LEMMA AddingKeepsTheQueue ==
  ASSUME QueueTypeOK, Adds
  PROVE  QueueTypeOK' /\ (ExclusiveRun /\ LeaseKept => ExclusiveRun' /\ LeaseKept')
<1>1. /\ worker' \in [Workers -> WorkerStates]
      /\ \A v \in Workers :
           /\ worker'[v].job = worker[v].job
           /\ worker'[v].at = worker[v].at \/ worker[v].at = "running"
  <2>1. CASE UNCHANGED worker
    BY <2>1 DEF QueueTypeOK
  <2>2. ASSUME NEW w \in Workers, NEW s \in {"ran", "threw"}, worker[w].at = "running",
               worker' = [worker EXCEPT ![w] = [worker[w] EXCEPT !.at = s]]
        PROVE  /\ worker' \in [Workers -> WorkerStates]
               /\ \A v \in Workers :
                    /\ worker'[v].job = worker[v].job
                    /\ worker'[v].at = worker[v].at \/ worker[v].at = "running"
    <3> DEFINE gone == [worker[w] EXCEPT !.at = s]
    <3>1. gone \in WorkerStates /\ gone.job = worker[w].job
      BY WorkerGoes
    <3>2. worker' = [worker EXCEPT ![w] = gone] /\ worker \in [Workers -> WorkerStates]
      BY <2>2 DEF QueueTypeOK
    <3> HIDE DEF gone
    <3> QED
      BY <2>2, <3>1, <3>2
  <2> QED
    BY <2>1, <2>2 DEF Adds
<1>2. ASSUME NEW v \in Workers
      PROVE  /\ worker'[v].job = worker[v].job
             /\ worker'[v].at \in {"running", "ran", "threw"} => worker[v].at \in {"running", "ran", "threw"}
  BY <1>1
<1>3. QueueTypeOK'
  BY <1>1, <1>2 DEF Adds, QueueTypeOK
<1>4. ASSUME ExclusiveRun, LeaseKept
      PROVE  ExclusiveRun' /\ LeaseKept'
  <2>1. ASSUME NEW v \in Workers, NEW j \in DOMAIN jobs', On(v, j)'
        PROVE  j \in DOMAIN jobs /\ On(v, j) /\ jobs'[j] = jobs[j]
    BY <1>2, <2>1 DEF On, QueueTypeOK, Adds
  <2> QED
    BY <1>4, <2>1, NobodyNew DEF LeaseKept, Settled
<1> QED
  BY <1>3, <1>4

(* What a sweep can find is as many as it can queue: the publications are  *)
(* finitely many, each recorded by a step.                                 *)
Published == {r \in Requests : produced[r] > 0}

(* Two facts of sequences, stated apart from the sets they are used of.    *)
LEMMA FunctionIsSequence ==
  ASSUME NEW T, NEW n \in Nat, NEW f \in [1..n -> T]
  PROVE  f \in Seq(T) /\ Len(f) = n
  OBVIOUS

LEMMA Joined ==
  ASSUME NEW T, NEW a \in Seq(T), NEW b \in Seq(T)
  PROVE  /\ a \o b \in Seq(T)
         /\ Len(a \o b) = Len(a) + Len(b)
         /\ \A j \in DOMAIN a : j \in DOMAIN (a \o b) /\ (a \o b)[j] = a[j]
<1>1. a \o b \in Seq(T)
  OBVIOUS
<1>2. Len(a \o b) = Len(a) + Len(b)
  OBVIOUS
<1> QED
  BY <1>1, <1>2

LEMMA AsManyAsAreAsked ==
  ASSUME NEW S, S \subseteq Requests, IsFiniteSet(S)
  PROVE  LET asked == {NewJob("check_pdf", r) : r \in S}
         IN  /\ SetToSeq(asked) \in Seq(Jobs)
             /\ Len(SetToSeq(asked)) = Cardinality(S)
             /\ Cardinality(S) \in Nat
             /\ IsFiniteSet(asked)
<1> DEFINE asked == {NewJob("check_pdf", r) : r \in S}
           job == [r \in S |-> NewJob("check_pdf", r)]
<1>1. asked \subseteq Jobs
  <2>1. 0 \in 0..MaxAttempts /\ "check_pdf" \in Kinds
    BY QueueAssumption, PublishingAssumption DEF QueueAssumption, PublishingAssumption
  <2>2. \A r \in S : NewJob("check_pdf", r) \in Jobs
    BY <2>1 DEF NewJob, Jobs, Requests
  <2> QED
    BY <2>2
<1>2. job \in Bijection(S, asked)
  <2>1. job \in [S -> asked] /\ \A a, b \in S : job[a] = job[b] => a = b
    BY DEF NewJob
  <2>2. \A x \in asked : \E r \in S : job[r] = x
    OBVIOUS
  <2> QED
    BY <2>1, <2>2 DEF Bijection, Injection, Surjection, IsInjective
<1>3. IsFiniteSet(asked) /\ Cardinality(asked) = Cardinality(S)
  BY <1>2, FS_Bijection DEF ExistsBijection
<1> DEFINE n == Cardinality(asked)
<1>4. n \in Nat /\ \E f \in [1..n -> asked] : IsInjective(f)
  <2>1. n \in Nat /\ ExistsBijection(1..n, asked)
    BY <1>3, FS_CardinalityType
  <2> QED
    BY <2>1 DEF ExistsBijection, Bijection, Injection
<1>5. SetToSeq(asked) \in [1..n -> asked]
  BY <1>4 DEF SetToSeq
<1>6. SetToSeq(asked) \in Seq(asked) /\ Len(SetToSeq(asked)) = n
  <2> HIDE DEF n, asked
  <2> QED
    BY <1>4, <1>5, FunctionIsSequence
<1>7. SetToSeq(asked) \in Seq(Jobs)
  <2> HIDE DEF n, asked
  <2> QED
    BY <1>1, <1>6
<1> QED
  BY <1>3, <1>4, <1>6, <1>7

LEMMA SweepAdds ==
  ASSUME QueueTypeOK, IsFiniteSet(Published), Len(jobs) <= MaxJobs,
         NEW s \in Sweepers, SweepUncheckedPublications(s),
         sweeper \in [Sweepers -> SweeperStates]
  PROVE  Adds /\ Len(jobs') <= MaxJobs
<1> DEFINE again == PublicationsToCheckAgain(s) \ ToLeave(s)
           found == SetToSeq({NewJob("check_pdf", r) : r \in again})
<1>1. again \subseteq Requests /\ again \subseteq Published
  BY DEF PublicationsToCheckAgain, Published, SweeperStates
<1>2. IsFiniteSet(again)
  BY <1>1, FS_Subset
<1>3. found \in Seq(Jobs) /\ Len(found) = Cardinality(again) /\ Cardinality(again) \in Nat
  BY <1>1, <1>2, AsManyAsAreAsked
<1>4. jobs' = jobs \o found /\ Len(jobs) + Cardinality(again) <= MaxJobs
  BY DEF SweepUncheckedPublications
<1>5. jobs \in Seq(Jobs) /\ Len(jobs) \in Nat
  BY DEF QueueTypeOK
<1> HIDE DEF again, found
<1>6. /\ jobs' \in Seq(Jobs) /\ Len(jobs') = Len(jobs) + Len(found)
      /\ \A j \in DOMAIN jobs : j \in DOMAIN jobs' /\ jobs'[j] = jobs[j]
  BY <1>3, <1>4, <1>5, Joined
<1>8. UNCHANGED <<worker, active, troubles>>
  BY DEF SweepUncheckedPublications
<1> QED
  BY <1>3, <1>4, <1>6, <1>8 DEF Adds, QueueTypeOK

LEMMA SubjectIsARequest ==
  ASSUME QueueTypeOK, NEW w \in Workers, worker[w].at = "running"
  PROVE  SubjectOf(w) \in Requests
  BY RowIsARow DEF QueueTypeOK, SubjectOf, Requests, Jobs

LEMMA RecordingAdds ==
  ASSUME QueueTypeOK, Len(jobs) <= MaxJobs, NEW w \in Workers,
         RecordPublication(w) \/ RecordPublicationCheck(w)
  PROVE  Adds /\ Len(jobs') <= MaxJobs
<1>1. worker[w].at = "running" /\ Recorded(w)
  BY DEF RecordPublication, RecordPublicationCheck, Runs
<1>2. jobs \in Seq(Jobs) /\ Len(jobs) \in Nat /\ worker \in [Workers -> WorkerStates]
      /\ active \in BOOLEAN /\ troubles \in Nat
  BY DEF QueueTypeOK
<1>3. NewJob("check_pdf", SubjectOf(w)) \in Jobs
  BY <1>1, SubjectIsARequest, QueueAssumption, PublishingAssumption
  DEF QueueAssumption, PublishingAssumption, NewJob, Jobs, Requests
<1>4. \/ jobs' = jobs
      \/ jobs' = Append(jobs, NewJob("check_pdf", SubjectOf(w))) /\ Len(jobs) < MaxJobs
  BY DEF RecordPublication, RecordPublicationCheck
<1>5. /\ jobs' \in Seq(Jobs) /\ Len(jobs') <= MaxJobs
      /\ \A j \in DOMAIN jobs : j \in DOMAIN jobs' /\ jobs'[j] = jobs[j]
  BY <1>2, <1>3, <1>4, QueueAssumption DEF QueueAssumption
<1>6. \E s \in {"ran", "threw"} : worker' = [worker EXCEPT ![w] = [worker[w] EXCEPT !.at = s]]
  BY <1>1, <1>2 DEF Recorded, RunReturns, RunThrows, Goes
<1>7. active' \in BOOLEAN /\ troubles' \in Nat
  BY <1>1, <1>2 DEF Recorded, Trouble
<1> QED
  BY <1>1, <1>5, <1>6, <1>7 DEF Adds

-----------------------------------------------------------------------------
(* The queue's own steps queue no more than its bound.                     *)
LEMMA QueueStaysBounded ==
  ASSUME QueueTypeOK, Len(jobs) <= MaxJobs, [QueueNext]_queueVars
  PROVE  Len(jobs') <= MaxJobs
<1>0. jobs \in Seq(Jobs) /\ Len(jobs) \in Nat /\ DOMAIN jobs = 1..Len(jobs)
  BY DEF QueueTypeOK
<1>1. ASSUME DOMAIN jobs' = DOMAIN jobs, jobs' \in Seq(Jobs)
      PROVE  Len(jobs') <= MaxJobs
  BY <1>0, <1>1
<1>2. ASSUME NEW w \in Workers, WorkerStep(w) \/ CompleteThrows(w) \/ Stop(w)
      PROVE  Len(jobs') <= MaxJobs
  <2>1. jobs' \in Seq(Jobs)
    BY <1>2, StepKeepsTheType DEF QueueNext, QueueTypeOK
  <2>2. DOMAIN jobs' = DOMAIN jobs
    BY <1>0, <1>2
    DEF WorkerStep, FailAbandoned, FindNothing, Run, Complete, CompleteThrows, Finish,
        FailToRetry, FailForGood, TellFailed, TellAbandoned, Claim, Stop
  <2> QED
    BY <1>1, <2>1, <2>2
<1>3. ASSUME NEW j \in DOMAIN jobs, LeaseLapses(j) \/ FallsDue(j)
      PROVE  Len(jobs') <= MaxJobs
  <2>1. jobs' \in Seq(Jobs)
    BY <1>3, StepKeepsTheType DEF QueueNext, QueueTypeOK
  <2> QED
    BY <1>0, <1>1, <1>3, <2>1 DEF LeaseLapses, FallsDue
<1>4. ASSUME NEW kind \in Kinds, NEW subject \in Subjects, EnqueueJob(kind, subject)
      PROVE  Len(jobs') <= MaxJobs
  <2>1. NewJob(kind, subject) \in Jobs
    BY QueueAssumption DEF QueueAssumption, NewJob, Jobs
  <2> QED
    BY <1>0, <1>4, <2>1, QueueAssumption DEF EnqueueJob, QueueAssumption
<1>5. CASE Suspend \/ Resume \/ UNCHANGED queueVars
  BY <1>5 DEF Suspend, Resume, queueVars
<1> QED
  BY <1>2, <1>3, <1>4, <1>5 DEF QueueNext

(* What every step is to the queue.                                        *)
LEMMA QueueSteps ==
  ASSUME TypeOK, IsFiniteSet(Published), Len(jobs) <= MaxJobs, [Next]_vars
  PROVE  /\ [QueueNext]_queueVars \/ Adds
         /\ Len(jobs') <= MaxJobs
<1>0. /\ QueueTypeOK /\ sweeper \in [Sweepers -> SweeperStates]
      /\ jobs \in Seq(Jobs) /\ active \in BOOLEAN /\ troubles \in Nat
  BY DEF TypeOK, QueueTypeOK
<1>1. ASSUME [QueueNext]_queueVars
      PROVE  Len(jobs') <= MaxJobs
  BY <1>0, <1>1, QueueStaysBounded
<1>2. ASSUME NEW r \in Requests, RequestPublication(r) \/ Ages(r)
      PROVE  [QueueNext]_queueVars
  BY <1>2, PublishingAssumption
  DEF RequestPublication, Ages, QueueNext, Requests, PublishingAssumption
<1>3. ASSUME NEW w \in Workers, QueueKeeps(w) \/ Stops(w) \/ CompleteThrows(w)
      PROVE  [QueueNext]_queueVars
  BY <1>3 DEF QueueKeeps, Stops, QueueNext, WorkerStep
<1>4. ASSUME NEW w \in Workers, FailedTold(w) \/ \E j \in DOMAIN jobs : AbandonedTold(w, j)
      PROVE  [QueueNext]_queueVars
  BY <1>4 DEF FailedTold, AbandonedTold, QueueNext, WorkerStep
<1>5. ASSUME NEW w \in Workers, PublicationInputs(w) \/ PublicationToCheck(w) \/ RunFails(w)
      PROVE  [QueueNext]_queueVars
  <2>1. UNCHANGED queueVars \/ Run(w)
    BY <1>5 DEF PublicationInputs, PublicationToCheck, Reads, RunFails, Run, queueVars
  <2> QED
    BY <2>1 DEF QueueNext, WorkerStep
<1>6. ASSUME NEW s \in Sweepers, ReadWaiting(s) \/ ReadGivenUp(s)
      PROVE  [QueueNext]_queueVars
  BY <1>6 DEF ReadWaiting, ReadGivenUp
<1>7. ASSUME NEW s \in Sweepers, SweepFails(s)
      PROVE  Adds /\ Len(jobs') <= MaxJobs
  BY <1>0, <1>7 DEF SweepFails, Trouble, Adds
<1>8. ASSUME NEW j \in DOMAIN jobs, Passes(j)
      PROVE  [QueueNext]_queueVars
  BY <1>8 DEF Passes, QueueNext
<1>9. ASSUME Suspend \/ Resume \/ UNCHANGED vars
      PROVE  [QueueNext]_queueVars
  BY <1>9 DEF QueueNext, vars
<1> QED
  BY <1>0, <1>1, <1>2, <1>3, <1>4, <1>5, <1>6, <1>7, <1>8, <1>9, SweepAdds, RecordingAdds
  DEF Next, Works, Sweeps

-----------------------------------------------------------------------------
(* The tenant's own tables.                                                *)
LEMMA CountIsBounded ==
  ASSUME QueueTypeOK, Len(jobs) <= MaxJobs, NEW r
  PROVE  GivenUp("check_pdf", r) \in 0..MaxJobs
<1> DEFINE G == {j \in DOMAIN jobs :
                   jobs[j].kind = "check_pdf" /\ jobs[j].subject = r /\ jobs[j].failed}
<1>1. DOMAIN jobs = 1..Len(jobs) /\ Len(jobs) \in Nat
  BY DEF QueueTypeOK
<1>2. IsFiniteSet(1..Len(jobs)) /\ Cardinality(1..Len(jobs)) = Len(jobs)
  <2>1. \A n \in Nat : IsFiniteSet(1..n) /\ Cardinality(1..n) = IF 1 > n THEN 0 ELSE n - 1 + 1
    <3>1. 1 \in Int /\ Nat \subseteq Int
      OBVIOUS
    <3> QED
      BY <3>1, FS_Interval
  <2>2. \A n \in Nat : n = IF 1 > n THEN 0 ELSE n - 1 + 1
    OBVIOUS
  <2> QED
    BY <1>1, <2>1, <2>2
<1>3. IsFiniteSet(G) /\ Cardinality(G) <= Len(jobs)
  BY <1>1, <1>2, FS_Subset
<1>4. Cardinality(G) \in Nat
  BY <1>3, FS_CardinalityType
<1> QED
  BY <1>1, <1>3, <1>4, QueueAssumption DEF GivenUp, QueueAssumption

LEMMA SweepersKept ==
  ASSUME TypeOK, Len(jobs) <= MaxJobs, [Next]_vars
  PROVE  sweeper' \in [Sweepers -> SweeperStates]
<1>0. /\ sweeper \in [Sweepers -> SweeperStates] /\ QueueTypeOK
      /\ aged \subseteq Requests
  BY DEF TypeOK
<1>1. ASSUME NEW s \in Sweepers, ReadWaiting(s)
      PROVE  sweeper' \in [Sweepers -> SweeperStates]
  <2>1. Waiting("check_pdf") \subseteq Requests
    <3>1. \A j \in DOMAIN jobs : jobs[j].subject \in Requests
      BY <1>0, RowIsARow DEF Requests, Jobs
    <3> QED
      BY <3>1 DEF Waiting
  <2>2. [sweeper[s] EXCEPT !.at = "waited", !.waiting = Waiting("check_pdf"), !.past = aged]
          \in SweeperStates
    BY <1>0, <2>1 DEF SweeperStates
  <2> QED
    BY <1>0, <1>1, <2>2 DEF ReadWaiting
<1>2. ASSUME NEW s \in Sweepers, ReadGivenUp(s)
      PROVE  sweeper' \in [Sweepers -> SweeperStates]
  <2>1. [r \in Requests |-> GivenUp("check_pdf", r)] \in [Requests -> 0..MaxJobs]
    BY <1>0, CountIsBounded
  <2>2. [sweeper[s] EXCEPT !.at = "counted", !.givenUp = [r \in Requests |-> GivenUp("check_pdf", r)]]
          \in SweeperStates
    BY <1>0, <2>1 DEF SweeperStates
  <2> QED
    BY <1>0, <1>2, <2>2 DEF ReadGivenUp
<1>3. ASSUME NEW s \in Sweepers, SweepUncheckedPublications(s) \/ SweepFails(s)
      PROVE  sweeper' \in [Sweepers -> SweeperStates]
  <2>1. Resting \in SweeperStates
    BY QueueAssumption DEF QueueAssumption, Resting, SweeperStates
  <2> QED
    BY <1>0, <1>3, <2>1 DEF SweepUncheckedPublications, SweepFails
<1>4. ASSUME UNCHANGED sweeper
      PROVE  sweeper' \in [Sweepers -> SweeperStates]
  BY <1>0, <1>4
<1>5. ASSUME NEW w \in Workers, Works(w) \/ Stops(w)
      PROVE  UNCHANGED sweeper
  BY <1>5
  DEF Works, QueueKeeps, FailedTold, AbandonedTold, Told, PublicationInputs, PublicationToCheck,
      Reads, RunFails, RecordPublication, RecordPublicationCheck, Stops, pubVars
<1> QED
  BY <1>1, <1>2, <1>3, <1>4, <1>5
  DEF Next, Sweeps, RequestPublication, Ages, Passes, vars, pubVars

LEMMA SetsKept ==
  ASSUME TypeOK, [Next]_vars
  PROVE  /\ checked' \subseteq Requests /\ left' \subseteq Requests /\ aged' \subseteq Requests
         /\ reading' \subseteq Workers
<1>0. /\ checked \subseteq Requests /\ left \subseteq Requests /\ aged \subseteq Requests
      /\ reading \subseteq Workers
      /\ QueueTypeOK /\ sweeper \in [Sweepers -> SweeperStates]
  BY DEF TypeOK
<1>1. ASSUME NEW w \in Workers, Works(w) \/ Stops(w)
      PROVE  /\ UNCHANGED <<left, aged>>
             /\ checked' \subseteq Requests /\ reading' \subseteq Workers
  <2>1. CASE RecordPublicationCheck(w)
    <3>1. SubjectOf(w) \in Requests
      BY <1>0, <2>1, SubjectIsARequest DEF RecordPublicationCheck, Runs
    <3> QED
      BY <1>0, <2>1, <3>1 DEF RecordPublicationCheck, Recorded
  <2>2. CASE ~RecordPublicationCheck(w)
    BY <1>0, <1>1, <2>2
    DEF Works, QueueKeeps, FailedTold, AbandonedTold, Told, PublicationInputs,
        PublicationToCheck, Reads, RunFails, RecordPublication, Recorded, Stops, pubVars
  <2>3. UNCHANGED <<left, aged>>
    BY <1>1
    DEF Works, QueueKeeps, FailedTold, AbandonedTold, Told, PublicationInputs,
        PublicationToCheck, Reads, RunFails, RecordPublication, RecordPublicationCheck, Stops,
        pubVars
  <2> QED
    BY <2>1, <2>2, <2>3
<1>2. ASSUME NEW s \in Sweepers, Sweeps(s) \/ SweepFails(s)
      PROVE  UNCHANGED <<checked, aged, reading>> /\ left' \subseteq Requests
  <2>1. ToLeave(s) \subseteq Requests
    BY <1>0 DEF ToLeave, PublicationsToCheckAgain, SweeperStates
  <2> QED
    BY <1>0, <1>2, <2>1
    DEF Sweeps, ReadWaiting, ReadGivenUp, SweepUncheckedPublications, SweepFails
<1>3. ASSUME NEW r \in Requests, RequestPublication(r) \/ Ages(r)
      PROVE  UNCHANGED <<checked, left, reading>> /\ aged' \subseteq Requests
  BY <1>0, <1>3 DEF RequestPublication, Ages
<1>4. ASSUME UNCHANGED pubVars
      PROVE  UNCHANGED <<checked, left, aged, reading>>
  BY <1>4 DEF pubVars
<1> QED
  BY <1>0, <1>1, <1>2, <1>3, <1>4 DEF Next, Passes, vars

LEMMA PublishedOneByOne ==
  ASSUME Outcomes, IsFiniteSet(Published), [Next]_vars
  PROVE  IsFiniteSet(Published')
<1>1. \E r : \A x \in Requests \ {r} : produced'[x] = produced[x]
  <2>1. ASSUME UNCHANGED produced
        PROVE  \E r : \A x \in Requests \ {r} : produced'[x] = produced[x]
    BY <2>1
  <2>2. ASSUME NEW w \in Workers, RecordPublication(w)
        PROVE  \E r : \A x \in Requests \ {r} : produced'[x] = produced[x]
    <3>1. \A x \in Requests \ {SubjectOf(w)} : produced'[x] = produced[x]
      BY <2>2 DEF RecordPublication, Outcomes
    <3> QED
      BY <3>1
  <2>3. ASSUME NEW w \in Workers, Works(w) \/ Stops(w), ~RecordPublication(w)
        PROVE  UNCHANGED produced
    BY <2>3
    DEF Works, QueueKeeps, FailedTold, AbandonedTold, Told, PublicationInputs,
        PublicationToCheck, Reads, RunFails, RecordPublicationCheck, Stops, pubVars
  <2> QED
    BY <2>1, <2>2, <2>3
    DEF Next, RequestPublication, Ages, Sweeps, ReadWaiting, ReadGivenUp,
        SweepUncheckedPublications, SweepFails, Passes, vars, pubVars
<1>2. PICK r : \A x \in Requests \ {r} : produced'[x] = produced[x]
  BY <1>1
<1>3. IsFiniteSet(Published \cup {r})
  BY FS_AddElement
<1>4. Published' \subseteq Published \cup {r}
  BY <1>2 DEF Published
<1> QED
  BY <1>3, <1>4, FS_Subset

Kept == TypeOK /\ Outcomes /\ Len(jobs) <= MaxJobs /\ IsFiniteSet(Published)

LEMMA InitIsKept == Init => Kept
<1> SUFFICES ASSUME Init PROVE Kept
  OBVIOUS
<1>1. QueueTypeOK
  BY QueueAssumption DEF Init, QueueInit, QueueTypeOK, Idle, WorkerStates, QueueAssumption
<1>2. Resting \in SweeperStates
  BY QueueAssumption DEF QueueAssumption, Resting, SweeperStates
<1>3. Published = {} /\ IsFiniteSet({})
  BY FS_EmptySet DEF Init, Published
<1>4. Len(jobs) <= MaxJobs
  BY QueueAssumption DEF Init, QueueInit, QueueAssumption
<1> QED
  BY <1>1, <1>2, <1>3, <1>4 DEF Init, Kept, TypeOK, Outcomes, OneOutcome

LEMMA StepKeeps ==
  ASSUME Kept, [Next]_vars
  PROVE  Kept' /\ (~Stalls /\ ExclusiveRun /\ LeaseKept => ExclusiveRun' /\ LeaseKept')
<1>1. Outcomes' /\ IsFiniteSet(Published')
  BY StepKeepsOutcomes, PublishedOneByOne DEF Kept
<1>2. /\ [QueueNext]_queueVars \/ Adds
      /\ Len(jobs') <= MaxJobs
  BY QueueSteps DEF Kept
<1>3. /\ QueueTypeOK'
      /\ ~Stalls /\ ExclusiveRun /\ LeaseKept => ExclusiveRun' /\ LeaseKept'
  BY <1>2, StepKeepsTheType, StepKeepsRunsExclusive, AddingKeepsTheQueue DEF Kept, TypeOK
<1>4. TypeOK'
  BY <1>1, <1>3, SweepersKept, SetsKept DEF Kept, TypeOK, Outcomes
<1> QED
  BY <1>1, <1>2, <1>3, <1>4 DEF Kept

(* The tables hold what their columns may, however many requests, workers  *)
(* and sweeps there are, and no check is tried past its last attempt.      *)
THEOREM PublishingTypeCorrect == Spec => []TypeOK
<1>1. Kept /\ [Next]_vars => Kept'
  BY StepKeeps
<1>2. Kept => TypeOK
  BY DEF Kept
<1> QED
  BY <1>1, <1>2, InitIsKept, PTL DEF Spec

(* Where no worker outlasts its lease no two publish or check at once one  *)
(* job's subject under it, whatever handlers and sweeps queue meanwhile.   *)
THEOREM HandlersAreExclusive == ASSUME ~Stalls PROVE Spec => []ExclusiveRun
<1>1. Init => ExclusiveRun /\ LeaseKept
  BY DEF Init, QueueInit, ExclusiveRun, LeaseKept
<1>2. Kept /\ ExclusiveRun /\ LeaseKept /\ [Next]_vars
        => Kept' /\ ExclusiveRun' /\ LeaseKept'
  BY StepKeeps
<1> QED
  BY <1>1, <1>2, InitIsKept, PTL DEF Spec

-----------------------------------------------------------------------------
(* The checks coming.  Each is of what was published; no two are of one    *)
(* publication; and of what a sweep may ask a check for, none is coming    *)
(* that it has not seen.                                                   *)
Coming(j) == jobs[j].kind = "check_pdf" /\ ~Settled(j)

OneEach ==
  \A i, j \in DOMAIN jobs :
    Coming(i) /\ Coming(j) /\ jobs[i].subject = jobs[j].subject => i = j

SweptRight(s) ==
  sweeper[s].at # "resting" =>
    \A r \in sweeper[s].past :
      /\ produced[r] > 0
      /\ r \notin sweeper[s].waiting => \A j \in DOMAIN jobs : Coming(j) => jobs[j].subject # r

ComingInv ==
  /\ \A j \in DOMAIN jobs : jobs[j].kind = "check_pdf" => produced[jobs[j].subject] > 0
  /\ \A r \in aged : produced[r] > 0
  /\ OneEach
  /\ \A s \in Sweepers : SweptRight(s)

(* A step that queues no check: what is coming was.                        *)
NoCheckAdded ==
  \A j \in DOMAIN jobs' : jobs'[j].kind = "check_pdf" =>
    /\ j \in DOMAIN jobs
    /\ jobs[j].kind = "check_pdf" /\ jobs[j].subject = jobs'[j].subject
    /\ Settled(j) => Settled(j)'

LEMMA OneRowGoesOn ==
  ASSUME QueueTypeOK, NEW k \in DOMAIN jobs, NEW row,
         jobs' = [jobs EXCEPT ![k] = row],
         row.kind = jobs[k].kind, row.subject = jobs[k].subject,
         Settled(k) => row.finished \/ row.failed
  PROVE  NoCheckAdded
<1>1. DOMAIN jobs' = DOMAIN jobs /\ \A j \in DOMAIN jobs : jobs'[j] = IF j = k THEN row ELSE jobs[j]
  BY DEF QueueTypeOK
<1> QED
  BY <1>1 DEF NoCheckAdded, Settled

LEMMA QueueAddsNoCheck ==
  ASSUME QueueTypeOK,
         \/ \E w \in Workers : WorkerStep(w) \/ CompleteThrows(w) \/ Stop(w)
         \/ \E j \in DOMAIN jobs : LeaseLapses(j) \/ FallsDue(j)
         \/ UNCHANGED jobs
  PROVE  NoCheckAdded
<1>0. /\ jobs \in Seq(Jobs) /\ \A j \in DOMAIN jobs : jobs[j] \in Jobs
      /\ \A w \in Workers : worker[w].at \in {"running", "ran", "threw", "failed"}
                              => worker[w].job \in DOMAIN jobs
  BY RowIsARow DEF QueueTypeOK
<1>1. CASE UNCHANGED jobs
  BY <1>1 DEF NoCheckAdded, Settled
<1>2. ASSUME NEW w \in Workers, FailAbandoned(w)
      PROVE  NoCheckAdded
  <2>1. ASSUME NEW j \in DOMAIN jobs
        PROVE  LET row == [jobs[j] EXCEPT !.failed = TRUE, !.lease = "none"] IN
               row.kind = jobs[j].kind /\ row.subject = jobs[j].subject /\ row.failed
    BY <1>0 DEF Jobs
  <2> QED
    BY <1>2, <2>1, RowsFailed DEF FailAbandoned, NoCheckAdded, Settled
<1>3. ASSUME NEW w \in Workers, NEW k \in DOMAIN jobs, Claim(w, k)
      PROVE  NoCheckAdded
  <2> DEFINE row == [jobs[k] EXCEPT !.attempts = @ + 1, !.lease = "held"]
  <2>1. row.kind = jobs[k].kind /\ row.subject = jobs[k].subject
    BY <1>0 DEF Jobs
  <2>2. jobs' = [jobs EXCEPT ![k] = row] /\ ~Settled(k)
    BY <1>0, <1>3 DEF Claim, Claimable
  <2> QED
    BY <2>1, <2>2, OneRowGoesOn
<1>4. ASSUME NEW k \in DOMAIN jobs, Finish(k)
      PROVE  NoCheckAdded
  <2> DEFINE row == [jobs[k] EXCEPT !.finished = TRUE, !.lease = "none"]
  <2>1. row.kind = jobs[k].kind /\ row.subject = jobs[k].subject /\ row.finished
    BY <1>0 DEF Jobs
  <2>2. jobs' = [jobs EXCEPT ![k] = row]
    BY <1>0, <1>4 DEF Finish
  <2> QED
    BY <2>1, <2>2, OneRowGoesOn
<1>5. ASSUME NEW w \in Workers, FailToRetry(w) \/ FailForGood(w)
      PROVE  NoCheckAdded
  <2> DEFINE k == worker[w].job
             a == [jobs[k] EXCEPT !.lease = "none", !.due = FALSE]
             b == [jobs[k] EXCEPT !.failed = TRUE, !.lease = "none"]
  <2>1. k \in DOMAIN jobs
    BY <1>0, <1>5 DEF FailToRetry, FailForGood
  <2>2. /\ a.kind = jobs[k].kind /\ a.subject = jobs[k].subject
        /\ Settled(k) => a.finished \/ a.failed
        /\ b.kind = jobs[k].kind /\ b.subject = jobs[k].subject /\ b.failed
    BY <1>0, <2>1 DEF Jobs, Settled
  <2>3. jobs' = [jobs EXCEPT ![k] = a] \/ jobs' = [jobs EXCEPT ![k] = b]
    BY <1>0, <1>5, <2>1 DEF FailToRetry, FailForGood
  <2> QED
    BY <2>1, <2>2, <2>3, OneRowGoesOn
<1>6. ASSUME NEW k \in DOMAIN jobs, LeaseLapses(k) \/ FallsDue(k)
      PROVE  NoCheckAdded
  <2> DEFINE a == [jobs[k] EXCEPT !.lease = "lapsed"]
             b == [jobs[k] EXCEPT !.due = TRUE]
  <2>1. /\ a.kind = jobs[k].kind /\ a.subject = jobs[k].subject
        /\ Settled(k) => a.finished \/ a.failed
        /\ b.kind = jobs[k].kind /\ b.subject = jobs[k].subject
        /\ Settled(k) => b.finished \/ b.failed
    BY <1>0 DEF Jobs, Settled
  <2>2. jobs' = [jobs EXCEPT ![k] = a] \/ jobs' = [jobs EXCEPT ![k] = b]
    BY <1>0, <1>6 DEF LeaseLapses, FallsDue
  <2> QED
    BY <2>1, <2>2, OneRowGoesOn
<1>7. ASSUME NEW w \in Workers, Complete(w) \/ CompleteThrows(w)
      PROVE  NoCheckAdded
  BY <1>0, <1>1, <1>4, <1>7 DEF Complete, CompleteThrows
<1> QED
  BY <1>1, <1>2, <1>3, <1>5, <1>6, <1>7
  DEF WorkerStep, Run, FindNothing, TellFailed, TellAbandoned, Stop

(* What is published stays so.                                             *)
LEMMA StaysPublished ==
  ASSUME Outcomes, [Next]_vars, NEW r \in Requests, produced[r] > 0
  PROVE  produced'[r] > 0
<1>1. CASE UNCHANGED produced
  BY <1>1
<1>2. ASSUME NEW w \in Workers, RecordPublication(w)
      PROVE  produced'[r] > 0
  BY <1>2 DEF RecordPublication, Outcomes
<1>3. ASSUME NEW w \in Workers, Works(w) \/ Stops(w), ~RecordPublication(w)
      PROVE  UNCHANGED produced
  BY <1>3
  DEF Works, QueueKeeps, FailedTold, AbandonedTold, Told, PublicationInputs, PublicationToCheck,
      Reads, RunFails, RecordPublicationCheck, Stops, pubVars
<1> QED
  BY <1>1, <1>2, <1>3
  DEF Next, RequestPublication, Ages, Sweeps, ReadWaiting, ReadGivenUp,
      SweepUncheckedPublications, SweepFails, Passes, vars, pubVars

(* A step that queues no check, of the sweeps and of what has aged.        *)
LEMMA NoneAdded ==
  ASSUME Kept, ComingInv, [Next]_vars, NoCheckAdded
  PROVE  /\ \A j \in DOMAIN jobs' : jobs'[j].kind = "check_pdf" => produced'[jobs'[j].subject] > 0
         /\ OneEach'
         /\ \A s \in Sweepers : sweeper'[s] = sweeper[s] => SweptRight(s)'
         /\ \A r \in aged : produced'[r] > 0
<1>0. /\ \A j \in DOMAIN jobs : jobs[j].subject \in Requests
      /\ aged \subseteq Requests /\ sweeper \in [Sweepers -> SweeperStates]
  BY RowIsARow DEF Kept, TypeOK, Requests, Jobs
<1>1. \A r \in Requests : produced[r] > 0 => produced'[r] > 0
  BY StaysPublished DEF Kept
<1>2. \A j \in DOMAIN jobs' : jobs'[j].kind = "check_pdf" => produced'[jobs'[j].subject] > 0
  BY <1>0, <1>1 DEF NoCheckAdded, ComingInv
<1>3. \A j \in DOMAIN jobs' : Coming(j)' =>
        j \in DOMAIN jobs /\ Coming(j) /\ jobs'[j].subject = jobs[j].subject
  BY DEF NoCheckAdded, Coming
<1>4. OneEach'
  BY <1>3 DEF ComingInv, OneEach
<1>5. ASSUME NEW s \in Sweepers, sweeper'[s] = sweeper[s]
      PROVE  SweptRight(s)'
  <2>1. sweeper[s].past \subseteq Requests /\ SweptRight(s)
    BY <1>0 DEF SweeperStates, ComingInv
  <2> QED
    BY <1>1, <1>3, <1>5, <2>1 DEF SweptRight
<1> QED
  BY <1>0, <1>1, <1>2, <1>4, <1>5 DEF ComingInv

(* A check is queued with its publication, which had none.                 *)
LEMMA OneOfThePublished ==
  ASSUME Kept, ComingInv, [Next]_vars, NEW w \in Workers, RecordPublication(w),
         MayRecord(SubjectOf(w))
  PROVE  ComingInv'
<1>0. /\ \A j \in DOMAIN jobs : jobs[j].subject \in Requests
      /\ aged \subseteq Requests /\ sweeper \in [Sweepers -> SweeperStates]
      /\ jobs \in Seq(Jobs) /\ produced \in [Requests -> Nat]
  BY RowIsARow DEF Kept, TypeOK, QueueTypeOK, Requests, Jobs
<1>1. PICK r : r = SubjectOf(w)
  OBVIOUS
<1>2. r \in Requests
  BY <1>1, SubjectIsARequest DEF Kept, TypeOK, RecordPublication, Runs
<1>3. produced[r] = 0 /\ produced'[r] > 0
  BY <1>0, <1>1, <1>2 DEF Kept, Outcomes, OneOutcome, MayRecord, RecordPublication
<1>4. jobs' = Append(jobs, NewJob("check_pdf", r)) /\ UNCHANGED <<aged, sweeper>>
  BY <1>1 DEF RecordPublication
<1>5. NewJob("check_pdf", r).subject = r
  BY DEF NewJob
<1> HIDE DEF NewJob
<1>6. /\ DOMAIN jobs' = DOMAIN jobs \cup {Len(jobs) + 1}
      /\ \A j \in DOMAIN jobs : jobs'[j] = jobs[j]
      /\ jobs'[Len(jobs) + 1].subject = r
  BY <1>0, <1>4, <1>5
<1>7. \A x \in Requests : produced[x] > 0 => produced'[x] > 0
  BY StaysPublished DEF Kept
<1>8. \A j \in DOMAIN jobs' : jobs'[j].kind = "check_pdf" => produced'[jobs'[j].subject] > 0
  BY <1>0, <1>3, <1>6, <1>7 DEF ComingInv
<1>9. ASSUME NEW j \in DOMAIN jobs', Coming(j)'
      PROVE  \/ j \in DOMAIN jobs /\ Coming(j) /\ jobs'[j].subject = jobs[j].subject
                /\ jobs[j].subject # r
             \/ j = Len(jobs) + 1 /\ jobs'[j].subject = r
  BY <1>3, <1>6, <1>9 DEF Coming, Settled, ComingInv
<1>10. OneEach'
  BY <1>9 DEF ComingInv, OneEach
<1>11. ASSUME NEW s \in Sweepers
       PROVE  SweptRight(s)'
  <2>1. sweeper[s].past \subseteq Requests /\ SweptRight(s) /\ sweeper'[s] = sweeper[s]
    BY <1>0, <1>4 DEF SweeperStates, ComingInv
  <2> QED
    BY <1>3, <1>7, <1>9, <2>1 DEF SweptRight
<1> QED
  BY <1>0, <1>4, <1>7, <1>8, <1>10, <1>11 DEF ComingInv

(* What the only sweep queues: one check of each it found, and none coming. *)
LEMMA SequenceHasNoRepeats ==
  ASSUME NEW S, IsFiniteSet(S)
  PROVE  /\ \A i \in DOMAIN SetToSeq(S) : SetToSeq(S)[i] \in S
         /\ \A i, j \in DOMAIN SetToSeq(S) : SetToSeq(S)[i] = SetToSeq(S)[j] => i = j
<1> DEFINE n == Cardinality(S)
<1>1. n \in Nat /\ \E f \in [1..n -> S] : IsInjective(f)
  <2>1. n \in Nat /\ ExistsBijection(1..n, S)
    BY FS_CardinalityType
  <2> QED
    BY <2>1 DEF ExistsBijection, Bijection, Injection
<1>2. SetToSeq(S) \in [1..n -> S] /\ IsInjective(SetToSeq(S))
  BY <1>1 DEF SetToSeq
<1> HIDE DEF n
<1> QED
  BY <1>2 DEF IsInjective

LEMMA JoinedRows ==
  ASSUME NEW T, NEW a \in Seq(T), NEW b \in Seq(T)
  PROVE  \A k \in DOMAIN (a \o b) :
           \/ k \in DOMAIN a /\ (a \o b)[k] = a[k]
           \/ k - Len(a) \in DOMAIN b /\ (a \o b)[k] = b[k - Len(a)]
<1>1. \A k \in DOMAIN (a \o b) : k \in 1..Len(a) + Len(b)
  OBVIOUS
<1> QED
  BY <1>1

LEMMA OneOfTheSwept ==
  ASSUME Kept, ComingInv, [Next]_vars, \A s, t \in Sweepers : s = t,
         NEW s \in Sweepers, SweepUncheckedPublications(s)
  PROVE  ComingInv'
<1> DEFINE again == PublicationsToCheckAgain(s) \ ToLeave(s)
           asked == {NewJob("check_pdf", r) : r \in again}
           found == SetToSeq(asked)
<1>0. /\ \A j \in DOMAIN jobs : jobs[j].subject \in Requests
      /\ sweeper \in [Sweepers -> SweeperStates] /\ jobs \in Seq(Jobs) /\ Len(jobs) \in Nat
  BY RowIsARow DEF Kept, TypeOK, QueueTypeOK, Requests, Jobs
<1>1. again \subseteq Requests /\ again \subseteq Published
  BY <1>0 DEF PublicationsToCheckAgain, Published, SweeperStates
<1>2. IsFiniteSet(again) /\ IsFiniteSet(asked)
  <2>1. IsFiniteSet(again)
    BY <1>1, FS_Subset DEF Kept
  <2> QED
    BY <1>1, <2>1, AsManyAsAreAsked
<1>3. found \in Seq(Jobs)
  BY <1>1, <1>2, AsManyAsAreAsked
<1>4. \A i \in DOMAIN found : \E r \in again : found[i] = NewJob("check_pdf", r)
  BY <1>2, SequenceHasNoRepeats
<1>5. \A i, j \in DOMAIN found : found[i] = found[j] => i = j
  BY <1>2, SequenceHasNoRepeats
<1>6. jobs' = jobs \o found /\ UNCHANGED <<produced, aged>>
      /\ sweeper' = [sweeper EXCEPT ![s] = Resting]
  BY DEF SweepUncheckedPublications
<1>7. \A r \in again : produced[r] > 0 /\ \A j \in DOMAIN jobs : Coming(j) => jobs[j].subject # r
  BY DEF ComingInv, SweptRight, PublicationsToCheckAgain, SweepUncheckedPublications
<1>8. \A r : NewJob("check_pdf", r).subject = r
  BY DEF NewJob
<1> HIDE DEF again, found
<1>9. ASSUME NEW k \in DOMAIN jobs'
      PROVE  \/ k \in DOMAIN jobs /\ jobs'[k] = jobs[k]
             \/ /\ k - Len(jobs) \in DOMAIN found
                /\ \E r \in again : jobs'[k] = NewJob("check_pdf", r)
                                    /\ found[k - Len(jobs)] = NewJob("check_pdf", r)
  BY <1>0, <1>3, <1>4, <1>6, <1>9, JoinedRows
<1> HIDE DEF NewJob
<1>10. \A j \in DOMAIN jobs' : jobs'[j].kind = "check_pdf" => produced'[jobs'[j].subject] > 0
  BY <1>6, <1>7, <1>8, <1>9 DEF ComingInv
<1>11. OneEach'
  <2> SUFFICES ASSUME NEW i \in DOMAIN jobs', NEW j \in DOMAIN jobs', Coming(i)', Coming(j)',
                      jobs'[i].subject = jobs'[j].subject
               PROVE  i = j
    BY DEF OneEach
  <2>1. CASE i \in DOMAIN jobs /\ jobs'[i] = jobs[i]
    <3>1. Coming(i)
      BY <2>1 DEF Coming, Settled
    <3>2. CASE j \in DOMAIN jobs /\ jobs'[j] = jobs[j]
      BY <2>1, <3>1, <3>2 DEF Coming, Settled, ComingInv, OneEach
    <3>3. CASE \E r \in again : jobs'[j] = NewJob("check_pdf", r)
      BY <1>7, <1>8, <2>1, <3>1, <3>3
    <3> QED
      BY <1>9, <3>2, <3>3
  <2>2. CASE j \in DOMAIN jobs /\ jobs'[j] = jobs[j]
    <3>1. Coming(j)
      BY <2>2 DEF Coming, Settled
    <3>2. CASE \E r \in again : jobs'[i] = NewJob("check_pdf", r)
      BY <1>7, <1>8, <2>2, <3>1, <3>2
    <3> QED
      BY <1>9, <2>1, <3>2
  <2>3. ASSUME NEW q \in again, NEW r \in again,
               i - Len(jobs) \in DOMAIN found, j - Len(jobs) \in DOMAIN found,
               jobs'[i] = NewJob("check_pdf", q), found[i - Len(jobs)] = NewJob("check_pdf", q),
               jobs'[j] = NewJob("check_pdf", r), found[j - Len(jobs)] = NewJob("check_pdf", r)
        PROVE  i = j
    <3>1. q = r
      BY <1>8, <2>3
    <3>2. i - Len(jobs) = j - Len(jobs)
      BY <1>5, <2>3, <3>1
    <3>3. i \in Nat /\ j \in Nat
      <4>1. jobs' \in Seq(Jobs)
        BY <1>0, <1>3, <1>6, Joined
      <4> QED
        BY <4>1
    <3> QED
      BY <1>0, <3>2, <3>3
  <2> QED
    BY <1>9, <2>1, <2>2, <2>3
<1>12. ASSUME NEW t \in Sweepers
       PROVE  SweptRight(t)'
  <2>1. sweeper'[t].at = "resting"
    BY <1>0, <1>6 DEF Resting
  <2> QED
    BY <2>1 DEF SweptRight
<1> QED
  BY <1>6, <1>10, <1>11, <1>12 DEF ComingInv

LEMMA ComingGoesOn ==
  ASSUME Kept, ComingInv, [Next]_vars, \A s, t \in Sweepers : s = t
  PROVE  ComingInv'
<1>0. /\ QueueTypeOK /\ jobs \in Seq(Jobs) /\ sweeper \in [Sweepers -> SweeperStates]
  BY DEF Kept, TypeOK, QueueTypeOK
<1>a. ASSUME NoCheckAdded, UNCHANGED <<aged, sweeper>>
      PROVE  ComingInv'
  BY <1>a, NoneAdded DEF ComingInv
<1>b. ASSUME UNCHANGED jobs
      PROVE  NoCheckAdded
  BY <1>0, <1>b, QueueAddsNoCheck
<1>1. ASSUME NEW r \in Requests, RequestPublication(r)
      PROVE  ComingInv'
  <2>1. jobs' = Append(jobs, NewJob("publish", r)) /\ NewJob("publish", r).kind # "check_pdf"
    BY <1>1 DEF RequestPublication, EnqueueJob, NewJob
  <2> HIDE DEF NewJob
  <2>2. \A j \in DOMAIN jobs' : \/ j \in DOMAIN jobs /\ jobs'[j] = jobs[j]
                                \/ jobs'[j].kind # "check_pdf"
    BY <1>0, <2>1
  <2>3. NoCheckAdded
    BY <2>2 DEF NoCheckAdded, Settled
  <2> QED
    BY <1>1, <1>a, <2>3 DEF RequestPublication
<1>2. ASSUME NEW r \in Requests, Ages(r)
      PROVE  ComingInv'
  <2>1. NoCheckAdded
    BY <1>2, <1>b DEF Ages, queueVars
  <2>2. UNCHANGED <<produced, sweeper>> /\ aged' = aged \cup {r} /\ produced[r] > 0
    BY <1>2 DEF Ages
  <2> QED
    BY <2>1, <2>2, NoneAdded DEF ComingInv
<1>3. ASSUME NEW w \in Workers, QueueKeeps(w) \/ Stops(w) \/ (CompleteThrows(w) /\ UNCHANGED pubVars)
      PROVE  ComingInv'
  <2>1. NoCheckAdded
    BY <1>0, <1>3, QueueAddsNoCheck DEF QueueKeeps, Stops, WorkerStep
  <2> QED
    BY <1>3, <1>a, <2>1 DEF QueueKeeps, Stops, pubVars
<1>4. ASSUME NEW w \in Workers,
             \/ FailedTold(w) \/ \E j \in DOMAIN jobs : AbandonedTold(w, j)
             \/ PublicationInputs(w) \/ PublicationToCheck(w) \/ RunFails(w)
             \/ RecordPublicationCheck(w)
             \/ RecordPublication(w) /\ ~MayRecord(SubjectOf(w))
      PROVE  ComingInv'
  <2>1. UNCHANGED <<jobs, aged, sweeper>>
    BY <1>4
    DEF FailedTold, AbandonedTold, Told, TellFailed, TellAbandoned, PublicationInputs,
        PublicationToCheck, Reads, RunFails, RecordPublicationCheck, RecordPublication
  <2> QED
    BY <1>a, <1>b, <2>1
<1>5. ASSUME NEW s \in Sweepers, ReadWaiting(s) \/ ReadGivenUp(s) \/ SweepFails(s)
      PROVE  ComingInv'
  <2>1. UNCHANGED <<jobs, aged, produced>>
    BY <1>5 DEF ReadWaiting, ReadGivenUp, SweepFails, queueVars
  <2>2. NoCheckAdded
    BY <1>b, <2>1
  <2>3. \A t \in Sweepers \ {s} : SweptRight(t)'
    OBVIOUS
  <2>4. CASE ReadWaiting(s)
    <3>1. sweeper'[s].past = aged /\ sweeper'[s].waiting = Waiting("check_pdf")
      BY <1>0, <2>4 DEF ReadWaiting, SweeperStates
    <3>2. ASSUME NEW r \in aged, r \notin Waiting("check_pdf"), NEW j \in DOMAIN jobs, Coming(j)
          PROVE  jobs[j].subject # r
      BY <3>2 DEF Waiting, Coming
    <3>3. \A j \in DOMAIN jobs : Coming(j)' = Coming(j)
      BY <2>1 DEF Coming, Settled
    <3>4. SweptRight(s)'
      BY <2>1, <3>1, <3>2, <3>3 DEF SweptRight, ComingInv
    <3> QED
      BY <2>1, <2>2, <2>3, <3>4, NoneAdded DEF ComingInv
  <2>5. CASE ReadGivenUp(s)
    <3>1. /\ sweeper'[s].past = sweeper[s].past /\ sweeper'[s].waiting = sweeper[s].waiting
          /\ sweeper[s].at # "resting"
      BY <1>0, <2>5 DEF ReadGivenUp, SweeperStates
    <3>2. \A j \in DOMAIN jobs : Coming(j)' = Coming(j)
      BY <2>1 DEF Coming, Settled
    <3>3. SweptRight(s)'
      BY <2>1, <3>1, <3>2 DEF SweptRight, ComingInv
    <3> QED
      BY <2>1, <2>2, <2>3, <3>3, NoneAdded DEF ComingInv
  <2>6. CASE SweepFails(s)
    <3>1. sweeper'[s].at = "resting"
      BY <1>0, <2>6 DEF SweepFails, Resting
    <3>2. SweptRight(s)'
      BY <3>1 DEF SweptRight
    <3> QED
      BY <2>1, <2>2, <2>3, <3>2, NoneAdded DEF ComingInv
  <2> QED
    BY <1>5, <2>4, <2>5, <2>6
<1>6. ASSUME NEW j \in DOMAIN jobs, Passes(j)
      PROVE  ComingInv'
  <2>1. NoCheckAdded
    BY <1>0, <1>6, QueueAddsNoCheck DEF Passes
  <2> QED
    BY <1>6, <1>a, <2>1 DEF Passes, pubVars
<1>7. CASE (Suspend \/ Resume) /\ UNCHANGED pubVars
  BY <1>7, <1>a, <1>b DEF Suspend, Resume, pubVars
<1>8. CASE UNCHANGED vars
  BY <1>8, <1>a, <1>b DEF vars, queueVars, pubVars
<1>9. ASSUME NEW w \in Workers, Works(w)
      PROVE  ComingInv'
  BY <1>3, <1>4, <1>9, OneOfThePublished DEF Works
<1> QED
  BY <1>1, <1>2, <1>3, <1>5, <1>6, <1>7, <1>8, <1>9, OneOfTheSwept DEF Next, Sweeps

(* With one sweep at a time a publication has one check coming at most,    *)
(* though a sweep reads the queue, its counts and the publications in turn *)
(* and any number of workers publish and check between.                    *)
THEOREM OneCheckOfEach ==
  ASSUME \A s, t \in Sweepers : s = t PROVE Spec => []OneCheckComing
<1>1. Init => ComingInv
  BY DEF Init, QueueInit, ComingInv, OneEach, SweptRight, Resting
<1>2. Kept /\ ComingInv /\ [Next]_vars => Kept' /\ ComingInv'
  BY StepKeeps, ComingGoesOn
<1>3. Kept /\ ComingInv => OneCheckComing
  <2> SUFFICES ASSUME Kept, ComingInv, NEW r \in Requests
               PROVE  Cardinality(ChecksComing(r)) <= 1
    BY DEF OneCheckComing
  <2>1. CASE ChecksComing(r) = {}
    BY <2>1, FS_EmptySet
  <2>2. CASE ChecksComing(r) # {}
    <3>1. PICK j : j \in ChecksComing(r)
      BY <2>2
    <3>2. ChecksComing(r) = {j}
      BY <3>1 DEF ChecksComing, Checks, ComingInv, OneEach, Coming
    <3>3. Cardinality({j}) = 1
      BY FS_Singleton
    <3> QED
      BY <3>2, <3>3
  <2> QED
    BY <2>1, <2>2
<1> QED
  BY <1>1, <1>2, <1>3, InitIsKept, PTL DEF Spec

-----------------------------------------------------------------------------
(* How often a publication is tried.  A check that finished, or whose      *)
(* handler returned, was recorded; so of what is unrecorded with none      *)
(* coming every check gave up, and what the only sweep counted is them     *)
(* all: a sweep asks for one more only where there were too few.           *)
TriedInv ==
  /\ \A w \in Workers : worker[w].at = "ran" /\ KindOf(w) = "check_pdf" => SubjectOf(w) \in checked
  /\ \A j \in DOMAIN jobs : jobs[j].kind = "check_pdf" /\ jobs[j].finished => jobs[j].subject \in checked
  /\ \A r \in Requests : Cardinality(Checks(r)) <= CheckGiveUps
  /\ \A r \in left : GivenUp("check_pdf", r) = CheckGiveUps
  /\ \A s \in Sweepers : sweeper[s].at = "counted" =>
       \A r \in sweeper[s].past \ (sweeper[s].waiting \cup checked) :
         sweeper[s].givenUp[r] = Cardinality(Checks(r))

(* Every row goes on: what gave up stays so, and what finishes was run.    *)
RowsGoOn ==
  \A j \in DOMAIN jobs :
    /\ j \in DOMAIN jobs'
    /\ jobs'[j].kind = jobs[j].kind /\ jobs'[j].subject = jobs[j].subject
    /\ jobs[j].failed => jobs'[j].failed
    /\ jobs'[j].finished =>
         jobs[j].finished \/ \E w \in Workers : worker[w].at = "ran" /\ worker[w].job = j

LEMMA RowGoesOn ==
  ASSUME QueueTypeOK, NEW k \in DOMAIN jobs, NEW row, jobs' = [jobs EXCEPT ![k] = row],
         row.kind = jobs[k].kind, row.subject = jobs[k].subject, jobs[k].failed => row.failed,
         row.finished => jobs[k].finished \/ \E w \in Workers : worker[w].at = "ran" /\ worker[w].job = k
  PROVE  RowsGoOn
<1>1. DOMAIN jobs' = DOMAIN jobs /\ \A j \in DOMAIN jobs : jobs'[j] = IF j = k THEN row ELSE jobs[j]
  BY DEF QueueTypeOK
<1> QED
  BY <1>1 DEF RowsGoOn

LEMMA StepRowsGoOn ==
  ASSUME QueueTypeOK, [QueueNext]_queueVars \/ Adds
  PROVE  RowsGoOn
<1>0. /\ jobs \in Seq(Jobs) /\ \A j \in DOMAIN jobs : jobs[j] \in Jobs
      /\ \A w \in Workers : worker[w].at \in {"running", "ran", "threw", "failed"}
                              => worker[w].job \in DOMAIN jobs
  BY RowIsARow DEF QueueTypeOK
<1>1. CASE \A j \in DOMAIN jobs : j \in DOMAIN jobs' /\ jobs'[j] = jobs[j]
  BY <1>1 DEF RowsGoOn
<1>2. ASSUME NEW w \in Workers, FailAbandoned(w)
      PROVE  RowsGoOn
  <2>1. ASSUME NEW j \in DOMAIN jobs
        PROVE  LET row == [jobs[j] EXCEPT !.failed = TRUE, !.lease = "none"] IN
               /\ row.kind = jobs[j].kind /\ row.subject = jobs[j].subject
               /\ row.failed /\ row.finished = jobs[j].finished
    BY <1>0 DEF Jobs
  <2>2. /\ DOMAIN jobs' = DOMAIN jobs
        /\ \A j \in DOMAIN jobs : jobs'[j] =
             IF j \in Abandoned THEN [jobs[j] EXCEPT !.failed = TRUE, !.lease = "none"] ELSE jobs[j]
    BY <1>2 DEF FailAbandoned
  <2> QED
    BY <2>1, <2>2 DEF RowsGoOn
<1>3. ASSUME NEW w \in Workers, NEW k \in DOMAIN jobs, Claim(w, k)
      PROVE  RowsGoOn
  <2> DEFINE row == [jobs[k] EXCEPT !.attempts = @ + 1, !.lease = "held"]
  <2>1. /\ row.kind = jobs[k].kind /\ row.subject = jobs[k].subject
        /\ row.failed = jobs[k].failed /\ row.finished = jobs[k].finished
    BY <1>0 DEF Jobs
  <2>2. jobs' = [jobs EXCEPT ![k] = row]
    BY <1>0, <1>3 DEF Claim
  <2> QED
    BY <2>1, <2>2, RowGoesOn
<1>4. ASSUME NEW w \in Workers, worker[w].at = "ran", Finish(worker[w].job)
      PROVE  RowsGoOn
  <2> DEFINE k == worker[w].job  row == [jobs[k] EXCEPT !.finished = TRUE, !.lease = "none"]
  <2>1. k \in DOMAIN jobs
    BY <1>0, <1>4
  <2>2. row.kind = jobs[k].kind /\ row.subject = jobs[k].subject /\ row.failed = jobs[k].failed
    BY <1>0, <2>1 DEF Jobs
  <2>3. jobs' = [jobs EXCEPT ![k] = row]
    BY <1>0, <1>4, <2>1 DEF Finish
  <2> QED
    BY <1>4, <2>1, <2>2, <2>3, RowGoesOn
<1>5. ASSUME NEW w \in Workers, FailToRetry(w) \/ FailForGood(w)
      PROVE  RowsGoOn
  <2> DEFINE k == worker[w].job
             a == [jobs[k] EXCEPT !.lease = "none", !.due = FALSE]
             b == [jobs[k] EXCEPT !.failed = TRUE, !.lease = "none"]
  <2>1. k \in DOMAIN jobs
    BY <1>0, <1>5 DEF FailToRetry, FailForGood
  <2>2. /\ a.kind = jobs[k].kind /\ a.subject = jobs[k].subject
        /\ a.failed = jobs[k].failed /\ a.finished = jobs[k].finished
        /\ b.kind = jobs[k].kind /\ b.subject = jobs[k].subject /\ b.failed /\ b.finished = jobs[k].finished
    BY <1>0, <2>1 DEF Jobs
  <2>3. jobs' = [jobs EXCEPT ![k] = a] \/ jobs' = [jobs EXCEPT ![k] = b]
    BY <1>0, <1>5, <2>1 DEF FailToRetry, FailForGood
  <2> QED
    BY <2>1, <2>2, <2>3, RowGoesOn
<1>6. ASSUME NEW k \in DOMAIN jobs, LeaseLapses(k) \/ FallsDue(k)
      PROVE  RowsGoOn
  <2> DEFINE a == [jobs[k] EXCEPT !.lease = "lapsed"]
             b == [jobs[k] EXCEPT !.due = TRUE]
  <2>1. /\ a.kind = jobs[k].kind /\ a.subject = jobs[k].subject
        /\ a.failed = jobs[k].failed /\ a.finished = jobs[k].finished
        /\ b.kind = jobs[k].kind /\ b.subject = jobs[k].subject
        /\ b.failed = jobs[k].failed /\ b.finished = jobs[k].finished
    BY <1>0 DEF Jobs
  <2>2. jobs' = [jobs EXCEPT ![k] = a] \/ jobs' = [jobs EXCEPT ![k] = b]
    BY <1>0, <1>6 DEF LeaseLapses, FallsDue
  <2> QED
    BY <2>1, <2>2, RowGoesOn
<1>7. ASSUME NEW kind \in Kinds, NEW subject \in Subjects, EnqueueJob(kind, subject)
      PROVE  RowsGoOn
  <2>1. jobs' = Append(jobs, NewJob(kind, subject))
    BY <1>7 DEF EnqueueJob
  <2> HIDE DEF NewJob
  <2>2. \A j \in DOMAIN jobs : j \in DOMAIN jobs' /\ jobs'[j] = jobs[j]
    BY <1>0, <2>1
  <2> QED
    BY <1>1, <2>2
<1>8. ASSUME NEW w \in Workers, Complete(w) \/ CompleteThrows(w)
      PROVE  RowsGoOn
  BY <1>1, <1>4, <1>8 DEF Complete, CompleteThrows
<1>9. ASSUME UNCHANGED jobs
      PROVE  RowsGoOn
  BY <1>1, <1>9
<1> QED
  BY <1>1, <1>2, <1>3, <1>5, <1>6, <1>7, <1>8, <1>9
  DEF Adds, QueueNext, queueVars, WorkerStep, Run, FindNothing, TellFailed, TellAbandoned, Stop,
      Suspend, Resume

(* What is recorded stays so; a check's handler returns once it is.        *)
LEMMA RanIsChecked ==
  ASSUME Kept, TriedInv, RowsGoOn, [Next]_vars
  PROVE  /\ checked \subseteq checked'
         /\ \A w \in Workers : (worker[w].at = "ran" /\ KindOf(w) = "check_pdf" => SubjectOf(w) \in checked)'
<1>0. /\ worker \in [Workers -> WorkerStates] /\ QueueTypeOK
      /\ \A w \in Workers : worker[w].at \in {"running", "ran"} => worker[w].job \in DOMAIN jobs
      /\ Kinds = {"publish", "check_pdf"} /\ \A j \in DOMAIN jobs : jobs[j].kind \in Kinds
  BY PublishingAssumption, RowIsARow DEF Kept, TypeOK, QueueTypeOK, PublishingAssumption, Jobs
<1>1. ASSUME checked \subseteq checked', NEW v \in Workers, NEW j \in DOMAIN jobs,
             worker'[v].job = j, jobs[j].kind = "check_pdf" => jobs[j].subject \in checked'
      PROVE  (KindOf(v) = "check_pdf" => SubjectOf(v) \in checked)'
  BY <1>1 DEF RowsGoOn, KindOf, SubjectOf
<1>2. ASSUME checked \subseteq checked', NEW v \in Workers, worker'[v].at = "ran",
             worker[v].at = "ran", worker'[v].job = worker[v].job
      PROVE  (KindOf(v) = "check_pdf" => SubjectOf(v) \in checked)'
  <2>1. worker[v].job \in DOMAIN jobs /\ (KindOf(v) = "check_pdf" => SubjectOf(v) \in checked)
    BY <1>0, <1>2 DEF TriedInv
  <2> QED
    BY <1>1, <1>2, <2>1 DEF KindOf, SubjectOf
<1>3. ASSUME checked \subseteq checked',
             \A v \in Workers : worker'[v].at = "ran" => worker[v].at = "ran" /\ worker'[v].job = worker[v].job
      PROVE  \A w \in Workers : (worker[w].at = "ran" /\ KindOf(w) = "check_pdf" => SubjectOf(w) \in checked)'
  BY <1>2, <1>3
<1>4. ASSUME NEW w \in Workers, RunReturns(w), checked \subseteq checked',
             KindOf(w) = "publish" \/ SubjectOf(w) \in checked'
      PROVE  \A v \in Workers : (worker[v].at = "ran" /\ KindOf(v) = "check_pdf" => SubjectOf(v) \in checked)'
  <2>1. /\ worker[w].job \in DOMAIN jobs /\ worker'[w].job = worker[w].job
        /\ \A v \in Workers : v # w => worker'[v] = worker[v]
    BY <1>0, <1>4 DEF RunReturns, Goes, WorkerStates
  <2>2. jobs[worker[w].job].kind = "check_pdf" => jobs[worker[w].job].subject \in checked'
    BY <1>4 DEF KindOf, SubjectOf
  <2>3. (KindOf(w) = "check_pdf" => SubjectOf(w) \in checked)'
    BY <1>1, <1>4, <2>1, <2>2
  <2> QED
    BY <1>2, <1>4, <2>1, <2>3
<1>5. ASSUME NEW w \in Workers, RunThrows(w) \/ RunRefuses(w)
      PROVE  \A v \in Workers : worker'[v].at = "ran" => worker[v].at = "ran" /\ worker'[v].job = worker[v].job
  BY <1>0, <1>5 DEF RunThrows, RunRefuses, Goes, WorkerStates
<1>6. ASSUME NEW w \in Workers, QueueKeeps(w) \/ Stops(w) \/ (CompleteThrows(w) /\ UNCHANGED pubVars)
                                \/ FailedTold(w) \/ \E j \in DOMAIN jobs : AbandonedTold(w, j)
      PROVE  /\ \A v \in Workers : worker'[v].at = "ran" => worker[v].at = "ran" /\ worker'[v].job = worker[v].job
             /\ checked' = checked
  <2>1. checked' = checked
    BY <1>6 DEF QueueKeeps, Stops, FailedTold, AbandonedTold, Told, pubVars
  <2>2. ASSUME FindNothing(w) \/ Complete(w) \/ FailToRetry(w) \/ TellFailed(w) \/ Stop(w)
        PROVE  worker'[w].at # "ran" /\ \A v \in Workers : v # w => worker'[v] = worker[v]
    <3>1. worker' = [worker EXCEPT ![w] = Idle] /\ Idle.at # "ran"
      BY <2>2 DEF FindNothing, Complete, FailToRetry, TellFailed, Stop, Rests, Idle
    <3> QED
      BY <1>0, <3>1
  <2>3. ASSUME FailForGood(w) \/ CompleteThrows(w)
        PROVE  worker'[w].at # "ran" /\ \A v \in Workers : v # w => worker'[v] = worker[v]
    BY <1>0, <2>3 DEF FailForGood, CompleteThrows, Goes, WorkerStates
  <2>4. ASSUME FailAbandoned(w)
        PROVE  worker'[w].at # "ran" /\ \A v \in Workers : v # w => worker'[v] = worker[v]
    BY <1>0, <2>4 DEF FailAbandoned, WorkerStates
  <2>5. ASSUME NEW j \in DOMAIN jobs, TellAbandoned(w, j)
        PROVE  worker'[w].at # "ran" /\ \A v \in Workers : v # w => worker'[v] = worker[v]
    BY <1>0, <2>5 DEF TellAbandoned, WorkerStates
  <2>6. ASSUME NEW j \in DOMAIN jobs, Claim(w, j)
        PROVE  worker'[w].at # "ran" /\ \A v \in Workers : v # w => worker'[v] = worker[v]
    BY <1>0, <2>6 DEF Claim, WorkerStates
  <2>7. worker'[w].at # "ran" /\ \A v \in Workers : v # w => worker'[v] = worker[v]
    BY <1>6, <2>2, <2>3, <2>4, <2>5, <2>6 DEF QueueKeeps, Stops, FailedTold, AbandonedTold
  <2> QED
    BY <2>1, <2>7
<1>7. ASSUME UNCHANGED <<worker, checked>>
      PROVE  /\ \A v \in Workers : worker'[v].at = "ran" => worker[v].at = "ran" /\ worker'[v].job = worker[v].job
             /\ checked' = checked
  BY <1>7
<1>8. ASSUME NEW w \in Workers, PublicationInputs(w) \/ PublicationToCheck(w)
      PROVE  /\ checked' = checked
             /\ \/ UNCHANGED worker
                \/ RunReturns(w) /\ (KindOf(w) = "publish" \/ SubjectOf(w) \in checked')
  BY <1>8 DEF PublicationInputs, PublicationToCheck, Reads, Runs
<1>9. ASSUME NEW w \in Workers, RecordPublication(w) \/ RecordPublicationCheck(w)
      PROVE  /\ checked \subseteq checked'
             /\ \/ RunThrows(w)
                \/ RunReturns(w) /\ (KindOf(w) = "publish" \/ SubjectOf(w) \in checked')
  BY <1>9 DEF RecordPublication, RecordPublicationCheck, Recorded, Runs
<1>10. ASSUME NEW w \in Workers, RunFails(w)
       PROVE  checked' = checked /\ (RunThrows(w) \/ RunRefuses(w))
  BY <1>10 DEF RunFails
<1>11. ASSUME NEW w \in Workers, Works(w)
       PROVE  /\ checked \subseteq checked'
              /\ \A v \in Workers : (worker[v].at = "ran" /\ KindOf(v) = "check_pdf" => SubjectOf(v) \in checked)'
  BY <1>3, <1>4, <1>5, <1>6, <1>7, <1>8, <1>9, <1>10, <1>11 DEF Works
<1>12. CASE UNCHANGED <<worker, checked>>
  BY <1>3, <1>7, <1>12
<1> QED
  BY <1>3, <1>6, <1>11, <1>12
  DEF Next, RequestPublication, EnqueueJob, Ages, Sweeps, ReadWaiting, ReadGivenUp,
      SweepUncheckedPublications, SweepFails, Passes, LeaseLapses, FallsDue, Suspend, Resume,
      queueVars, vars, pubVars

(* A publication's checks that gave up, and those there are.               *)
GaveUp(r) == {j \in Checks(r) : jobs[j].failed}

LEMMA ChecksAreFinite ==
  ASSUME QueueTypeOK, NEW r
  PROVE  /\ IsFiniteSet(Checks(r)) /\ Cardinality(Checks(r)) \in Nat
         /\ IsFiniteSet(GaveUp(r)) /\ Cardinality(GaveUp(r)) \in Nat
         /\ GivenUp("check_pdf", r) = Cardinality(GaveUp(r))
<1>1. DOMAIN jobs = 1..Len(jobs) /\ Len(jobs) \in Nat
  BY DEF QueueTypeOK
<1>2. IsFiniteSet(1..Len(jobs))
  <2>1. 1 \in Int /\ Len(jobs) \in Int
    BY <1>1
  <2> QED
    BY <2>1, FS_Interval
<1>3. Checks(r) \subseteq 1..Len(jobs) /\ GaveUp(r) \subseteq 1..Len(jobs)
  BY <1>1 DEF Checks, GaveUp
<1>4. IsFiniteSet(Checks(r)) /\ IsFiniteSet(GaveUp(r))
  BY <1>2, <1>3, FS_Subset
<1>5. GaveUp(r) =
        {j \in DOMAIN jobs : jobs[j].kind = "check_pdf" /\ jobs[j].subject = r /\ jobs[j].failed}
  BY DEF GaveUp, Checks
<1> QED
  BY <1>4, <1>5, FS_CardinalityType DEF GivenUp

(* Where none is coming and none was recorded, every one gave up.          *)
LEMMA AllGaveUp ==
  ASSUME TriedInv, NEW r, r \notin checked, \A j \in DOMAIN jobs : Coming(j) => jobs[j].subject # r
  PROVE  GaveUp(r) = Checks(r)
  BY DEF TriedInv, Coming, Settled, Checks, GaveUp

LEMMA ChecksStay ==
  ASSUME RowsGoOn, NEW r
  PROVE  Checks(r) \subseteq Checks(r)' /\ GaveUp(r) \subseteq GaveUp(r)'
  BY DEF RowsGoOn, Checks, GaveUp

LEMMA ChecksTheSame ==
  ASSUME RowsGoOn, NoCheckAdded, NEW r
  PROVE  Checks(r)' = Checks(r)
  BY DEF RowsGoOn, NoCheckAdded, Checks

(* What queues a check: a publication recorded, or a sweep.                *)
LEMMA WhatAddsAsks ==
  ASSUME Kept, [Next]_vars
  PROVE  \/ NoCheckAdded
         \/ \E w \in Workers : RecordPublication(w) /\ MayRecord(SubjectOf(w))
         \/ \E s \in Sweepers : SweepUncheckedPublications(s)
<1>0. QueueTypeOK /\ jobs \in Seq(Jobs)
  BY DEF Kept, TypeOK, QueueTypeOK
<1>1. ASSUME UNCHANGED jobs
      PROVE  NoCheckAdded
  BY <1>0, <1>1, QueueAddsNoCheck
<1>2. ASSUME NEW r \in Requests, RequestPublication(r)
      PROVE  NoCheckAdded
  <2>1. jobs' = Append(jobs, NewJob("publish", r)) /\ NewJob("publish", r).kind # "check_pdf"
    BY <1>2 DEF RequestPublication, EnqueueJob, NewJob
  <2> HIDE DEF NewJob
  <2>2. \A j \in DOMAIN jobs' : \/ j \in DOMAIN jobs /\ jobs'[j] = jobs[j]
                                \/ jobs'[j].kind # "check_pdf"
    BY <1>0, <2>1
  <2> QED
    BY <2>2 DEF NoCheckAdded, Settled
<1>3. ASSUME NEW w \in Workers, QueueKeeps(w) \/ Stops(w) \/ CompleteThrows(w)
      PROVE  NoCheckAdded
  BY <1>0, <1>3, QueueAddsNoCheck DEF QueueKeeps, Stops, WorkerStep
<1>4. ASSUME NEW w \in Workers,
             \/ FailedTold(w) \/ \E j \in DOMAIN jobs : AbandonedTold(w, j)
             \/ PublicationInputs(w) \/ PublicationToCheck(w) \/ RunFails(w)
             \/ RecordPublicationCheck(w)
             \/ RecordPublication(w) /\ ~MayRecord(SubjectOf(w))
      PROVE  UNCHANGED jobs
  BY <1>4
  DEF FailedTold, AbandonedTold, TellFailed, TellAbandoned, PublicationInputs,
      PublicationToCheck, Reads, RunFails, RecordPublicationCheck, RecordPublication
<1>5. ASSUME \/ \E r \in Requests : Ages(r)
             \/ \E s \in Sweepers : ReadWaiting(s) \/ ReadGivenUp(s) \/ SweepFails(s)
             \/ Suspend \/ Resume \/ UNCHANGED vars
      PROVE  UNCHANGED jobs
  BY <1>5 DEF Ages, ReadWaiting, ReadGivenUp, SweepFails, Suspend, Resume, vars, queueVars
<1>6. ASSUME NEW j \in DOMAIN jobs, Passes(j)
      PROVE  NoCheckAdded
  BY <1>0, <1>6, QueueAddsNoCheck DEF Passes
<1> QED
  BY <1>1, <1>2, <1>3, <1>4, <1>5, <1>6 DEF Next, Works, Sweeps

(* A step adds one check of a publication at most: its first, or one the   *)
(* sweep had reason to ask for.                                            *)
OneMore(r) ==
  /\ \E k : Checks(r)' \subseteq Checks(r) \cup {k}
  /\ \/ produced[r] = 0
     \/ \E s \in Sweepers :
          SweepUncheckedPublications(s) /\ r \in PublicationsToCheckAgain(s) \ ToLeave(s)

AtMostOneMore ==
  /\ \A j \in DOMAIN jobs' : j \in DOMAIN jobs \/ ~jobs'[j].finished \/ jobs'[j].kind # "check_pdf"
  /\ \A r \in Requests : Checks(r)' = Checks(r) \/ OneMore(r)

LEMMA OneMoreOfThePublished ==
  ASSUME Kept, RowsGoOn, NEW w \in Workers, RecordPublication(w), MayRecord(SubjectOf(w))
  PROVE  AtMostOneMore
<1>0. jobs \in Seq(Jobs) /\ produced \in [Requests -> Nat] /\ Len(jobs) \in Nat
  BY DEF Kept, TypeOK, QueueTypeOK
<1>1. PICK r : r = SubjectOf(w)
  OBVIOUS
<1>2. r \in Requests
  BY <1>1, SubjectIsARequest DEF Kept, TypeOK, RecordPublication, Runs
<1>3. produced[r] = 0
  BY <1>0, <1>1, <1>2 DEF Kept, Outcomes, OneOutcome, MayRecord
<1>4. jobs' = Append(jobs, NewJob("check_pdf", r))
  BY <1>1 DEF RecordPublication
<1>5. NewJob("check_pdf", r).subject = r /\ ~NewJob("check_pdf", r).finished
  BY DEF NewJob
<1> HIDE DEF NewJob
<1>6. /\ \A j \in DOMAIN jobs' : (j \in DOMAIN jobs /\ jobs'[j] = jobs[j]) \/ j = Len(jobs) + 1
      /\ jobs'[Len(jobs) + 1] = NewJob("check_pdf", r)
  BY <1>0, <1>4
<1>8. ASSUME NEW x \in Requests
      PROVE  Checks(x)' = Checks(x) \/ OneMore(x)
  <2>1. Checks(x)' \subseteq Checks(x) \cup {Len(jobs) + 1}
    BY <1>6 DEF Checks
  <2>2. CASE x = r
    BY <1>3, <2>1, <2>2 DEF OneMore
  <2>3. CASE x # r
    <3>1. Checks(x)' \subseteq Checks(x)
      BY <1>5, <1>6, <2>3 DEF Checks
    <3> QED
      BY <3>1, ChecksStay
  <2> QED
    BY <2>2, <2>3
<1> QED
  BY <1>5, <1>6, <1>8 DEF AtMostOneMore

LEMMA OneMoreOfTheSwept ==
  ASSUME Kept, RowsGoOn, NEW s \in Sweepers, SweepUncheckedPublications(s)
  PROVE  AtMostOneMore
<1> DEFINE again == PublicationsToCheckAgain(s) \ ToLeave(s)
           asked == {NewJob("check_pdf", r) : r \in again}
           found == SetToSeq(asked)
<1>0. sweeper \in [Sweepers -> SweeperStates] /\ jobs \in Seq(Jobs) /\ Len(jobs) \in Nat
  BY DEF Kept, TypeOK, QueueTypeOK
<1>1. again \subseteq Requests /\ again \subseteq Published
  BY <1>0 DEF PublicationsToCheckAgain, Published, SweeperStates
<1>2. IsFiniteSet(again) /\ IsFiniteSet(asked)
  <2>1. IsFiniteSet(again)
    BY <1>1, FS_Subset DEF Kept
  <2> QED
    BY <1>1, <2>1, AsManyAsAreAsked
<1>3. found \in Seq(Jobs)
  BY <1>1, <1>2, AsManyAsAreAsked
<1>4. \A i \in DOMAIN found : \E r \in again : found[i] = NewJob("check_pdf", r)
  BY <1>2, SequenceHasNoRepeats
<1>5. \A i, j \in DOMAIN found : found[i] = found[j] => i = j
  BY <1>2, SequenceHasNoRepeats
<1>6. jobs' = jobs \o found
  BY DEF SweepUncheckedPublications
<1>7. \A r : NewJob("check_pdf", r).subject = r /\ ~NewJob("check_pdf", r).finished
  BY DEF NewJob
<1>8. \A r \in again : r \in PublicationsToCheckAgain(s) \ ToLeave(s)
  OBVIOUS
<1> HIDE DEF again, found
<1>9. ASSUME NEW k \in DOMAIN jobs'
      PROVE  \/ k \in DOMAIN jobs /\ jobs'[k] = jobs[k]
             \/ /\ k - Len(jobs) \in DOMAIN found
                /\ \E r \in again : jobs'[k] = NewJob("check_pdf", r)
                                    /\ found[k - Len(jobs)] = NewJob("check_pdf", r)
  BY <1>0, <1>3, <1>4, <1>6, <1>9, JoinedRows
<1>10. \A k \in DOMAIN jobs' : k \in Nat
  <2>1. jobs' \in Seq(Jobs)
    BY <1>0, <1>3, <1>6, Joined
  <2> QED
    BY <2>1
<1> HIDE DEF NewJob
<1>11. ASSUME NEW r \in Requests, r \notin again
       PROVE  Checks(r)' = Checks(r)
  <2>1. Checks(r)' \subseteq Checks(r)
    BY <1>7, <1>9, <1>11 DEF Checks
  <2> QED
    BY <2>1, ChecksStay
<1>12. ASSUME NEW r \in again
       PROVE  \E k : Checks(r)' \subseteq Checks(r) \cup {k}
  <2>1. \A k \in Checks(r)' \ Checks(r) :
          /\ k - Len(jobs) \in DOMAIN found /\ found[k - Len(jobs)] = NewJob("check_pdf", r)
          /\ k \in Nat
    BY <1>7, <1>9, <1>10 DEF Checks
  <2>2. ASSUME NEW i \in Checks(r)' \ Checks(r), NEW j \in Checks(r)' \ Checks(r)
        PROVE  i = j
    <3>1. i - Len(jobs) = j - Len(jobs)
      BY <1>5, <2>1, <2>2
    <3> QED
      BY <1>0, <2>1, <2>2, <3>1
  <2>3. CASE Checks(r)' \ Checks(r) = {}
    BY <2>3
  <2>4. ASSUME NEW k \in Checks(r)' \ Checks(r)
        PROVE  Checks(r)' \subseteq Checks(r) \cup {k}
    BY <2>2, <2>4
  <2> QED
    BY <2>3, <2>4
<1>13. ASSUME NEW r \in again
       PROVE  OneMore(r)
  BY <1>8, <1>12, <1>13 DEF OneMore
<1>14. \A j \in DOMAIN jobs' : j \in DOMAIN jobs \/ ~jobs'[j].finished
  BY <1>7, <1>9
<1> QED
  BY <1>11, <1>13, <1>14 DEF AtMostOneMore

LEMMA StepAddsOne ==
  ASSUME Kept, RowsGoOn, [Next]_vars
  PROVE  AtMostOneMore
<1>1. CASE NoCheckAdded
  BY <1>1, ChecksTheSame DEF AtMostOneMore, NoCheckAdded
<1> QED
  BY <1>1, WhatAddsAsks, OneMoreOfThePublished, OneMoreOfTheSwept

LEMMA CountOfChecks ==
  ASSUME Kept, Kept', ComingInv, TriedInv, AtMostOneMore, NEW r \in Requests
  PROVE  (Cardinality(Checks(r)) <= CheckGiveUps)'
<1>0. /\ CheckGiveUps \in Nat \ {0} /\ sweeper \in [Sweepers -> SweeperStates]
      /\ IsFiniteSet(Checks(r)) /\ Cardinality(Checks(r)) \in Nat
      /\ Cardinality(Checks(r)) <= CheckGiveUps
  BY ChecksAreFinite, PublishingAssumption DEF PublishingAssumption, Kept, TypeOK, TriedInv
<1>a. (Cardinality(Checks(r)) \in Nat)'
  <2>1. QueueTypeOK'
    BY DEF Kept, TypeOK
  <2> QED
    BY <2>1, ChecksAreFinite, PTL
<1>1. CASE Checks(r)' = Checks(r)
  BY <1>0, <1>1
<1>2. CASE OneMore(r)
  <2>1. PICK k : Checks(r)' \subseteq Checks(r) \cup {k}
    BY <1>2 DEF OneMore
  <2>2. /\ IsFiniteSet(Checks(r) \cup {k})
        /\ Cardinality(Checks(r) \cup {k}) \in Nat
        /\ Cardinality(Checks(r) \cup {k}) <= Cardinality(Checks(r)) + 1
    <3>1. /\ IsFiniteSet(Checks(r) \cup {k})
          /\ Cardinality(Checks(r) \cup {k})
               = IF k \in Checks(r) THEN Cardinality(Checks(r)) ELSE Cardinality(Checks(r)) + 1
      BY <1>0, FS_AddElement
    <3> QED
      BY <1>0, <3>1
  <2>3. Cardinality(Checks(r)') <= Cardinality(Checks(r)) + 1
    <3>1. Cardinality(Checks(r)') <= Cardinality(Checks(r) \cup {k})
      BY <2>1, <2>2, FS_Subset
    <3> QED
      BY <1>0, <1>a, <2>2, <3>1
  <2>4. Cardinality(Checks(r)) < CheckGiveUps
    <3>1. CASE produced[r] = 0
      <4>1. Checks(r) = {} /\ Cardinality({}) = 0
        BY <3>1, FS_EmptySet DEF ComingInv, Checks
      <4> QED
        BY <1>0, <4>1
    <3>2. ASSUME NEW s \in Sweepers, SweepUncheckedPublications(s),
                 r \in PublicationsToCheckAgain(s) \ ToLeave(s)
          PROVE  Cardinality(Checks(r)) < CheckGiveUps
      <4>1. /\ sweeper[s].at = "counted" /\ sweeper[s].givenUp[r] \in Nat
            /\ r \in sweeper[s].past \ (sweeper[s].waiting \cup checked)
        BY <1>0, <3>2 DEF SweepUncheckedPublications, PublicationsToCheckAgain, SweeperStates
      <4>2. ~(sweeper[s].givenUp[r] >= CheckGiveUps)
        BY <3>2 DEF ToLeave
      <4>3. sweeper[s].givenUp[r] = Cardinality(Checks(r))
        BY <4>1 DEF TriedInv
      <4> QED
        BY <1>0, <4>1, <4>2, <4>3
    <3> QED
      BY <1>2, <3>1, <3>2 DEF OneMore
  <2> QED
    BY <1>0, <1>a, <2>3, <2>4
<1> QED
  BY <1>1, <1>2 DEF AtMostOneMore

(* A publication is left once as many gave up as may be asked for.         *)
LEMMA LeftAfterAll ==
  ASSUME Kept, Kept', ComingInv, TriedInv, RowsGoOn, AtMostOneMore, [Next]_vars, NEW r \in left'
  PROVE  (GivenUp("check_pdf", r) = CheckGiveUps)'
<1>0. /\ CheckGiveUps \in Nat \ {0} /\ sweeper \in [Sweepers -> SweeperStates]
      /\ r \in Requests /\ QueueTypeOK /\ QueueTypeOK'
  BY PublishingAssumption DEF PublishingAssumption, Kept, TypeOK
<1>1. /\ GivenUp("check_pdf", r) = Cardinality(GaveUp(r))
      /\ Cardinality(Checks(r)) \in Nat /\ Cardinality(GaveUp(r)) \in Nat
  BY <1>0, ChecksAreFinite
<1>2. ASSUME Cardinality(GaveUp(r)) = CheckGiveUps
      PROVE  (GivenUp("check_pdf", r) = CheckGiveUps)'
  <2>1. /\ IsFiniteSet(Checks(r))' /\ IsFiniteSet(GaveUp(r))'
        /\ (Cardinality(Checks(r)) \in Nat)' /\ (Cardinality(GaveUp(r)) \in Nat)'
        /\ (GivenUp("check_pdf", r) = Cardinality(GaveUp(r)))'
    BY <1>0, ChecksAreFinite, PTL
  <2>2. (Cardinality(Checks(r)) <= CheckGiveUps)'
    BY <1>0, CountOfChecks
  <2>3. GaveUp(r) \subseteq GaveUp(r)' /\ (GaveUp(r) \subseteq Checks(r))'
    BY ChecksStay DEF GaveUp
  <2>4. /\ Cardinality(GaveUp(r)) <= Cardinality(GaveUp(r)')
        /\ Cardinality(GaveUp(r)') <= Cardinality(Checks(r)')
    BY <2>1, <2>3, FS_Subset
  <2> QED
    BY <1>0, <1>2, <2>1, <2>2, <2>4
<1>3. CASE r \in left
  BY <1>1, <1>2, <1>3 DEF TriedInv
<1>4. ASSUME NEW s \in Sweepers, SweepUncheckedPublications(s), r \in ToLeave(s)
      PROVE  Cardinality(GaveUp(r)) = CheckGiveUps
  <2>1. /\ sweeper[s].at = "counted" /\ sweeper[s].givenUp[r] \in Nat
        /\ r \in sweeper[s].past \ (sweeper[s].waiting \cup checked)
        /\ sweeper[s].givenUp[r] >= CheckGiveUps
    BY <1>0, <1>4 DEF SweepUncheckedPublications, ToLeave, PublicationsToCheckAgain, SweeperStates
  <2>2. \A j \in DOMAIN jobs : Coming(j) => jobs[j].subject # r
    BY <2>1 DEF ComingInv, SweptRight
  <2>3. GaveUp(r) = Checks(r)
    BY <2>1, <2>2, AllGaveUp
  <2>4. sweeper[s].givenUp[r] = Cardinality(Checks(r)) /\ Cardinality(Checks(r)) <= CheckGiveUps
    BY <1>0, <2>1 DEF TriedInv
  <2> QED
    BY <1>0, <1>1, <2>1, <2>3, <2>4
<1>5. r \in left \/ \E s \in Sweepers : SweepUncheckedPublications(s) /\ r \in ToLeave(s)
  <2>1. ASSUME NEW w \in Workers, Works(w) \/ Stops(w)
        PROVE  UNCHANGED left
    BY <2>1
    DEF Works, QueueKeeps, FailedTold, AbandonedTold, Told, PublicationInputs,
        PublicationToCheck, Reads, RunFails, RecordPublication, RecordPublicationCheck, Stops,
        pubVars
  <2>2. ASSUME \/ \E x \in Requests : RequestPublication(x) \/ Ages(x)
               \/ \E s \in Sweepers : ReadWaiting(s) \/ ReadGivenUp(s) \/ SweepFails(s)
               \/ UNCHANGED pubVars
        PROVE  UNCHANGED left
    BY <2>2 DEF RequestPublication, Ages, ReadWaiting, ReadGivenUp, SweepFails, pubVars
  <2>3. ASSUME NEW s \in Sweepers, SweepUncheckedPublications(s)
        PROVE  r \in left \/ r \in ToLeave(s)
    BY <2>3 DEF SweepUncheckedPublications
  <2> QED
    BY <2>1, <2>2, <2>3 DEF Next, Sweeps, Passes, vars
<1> QED
  BY <1>2, <1>3, <1>4, <1>5

(* What the only sweep counted is all there are until it acts on it.       *)
LEMMA CountedRight ==
  ASSUME Kept, ComingInv, TriedInv, AtMostOneMore, [Next]_vars,
         \A s, t \in Sweepers : s = t, checked \subseteq checked',
         NEW s \in Sweepers, sweeper'[s].at = "counted",
         NEW r \in sweeper'[s].past \ (sweeper'[s].waiting \cup checked')
  PROVE  (sweeper[s].givenUp[r] = Cardinality(Checks(r)))'
<1>0. /\ sweeper \in [Sweepers -> SweeperStates] /\ r \notin checked /\ QueueTypeOK
      /\ aged \subseteq Requests
  BY DEF Kept, TypeOK
<1>1. CASE ReadGivenUp(s)
  <2>1. /\ sweeper'[s].past = sweeper[s].past /\ sweeper'[s].waiting = sweeper[s].waiting
        /\ sweeper[s].at # "resting" /\ jobs' = jobs
        /\ sweeper'[s].givenUp = [x \in Requests |-> GivenUp("check_pdf", x)]
    BY <1>0, <1>1 DEF ReadGivenUp, SweeperStates, queueVars
  <2>2. r \in Requests
    BY <1>0, <2>1 DEF SweeperStates
  <2>3. \A j \in DOMAIN jobs : Coming(j) => jobs[j].subject # r
    BY <2>1 DEF ComingInv, SweptRight
  <2>4. GaveUp(r) = Checks(r) /\ GivenUp("check_pdf", r) = Cardinality(GaveUp(r))
    BY <1>0, <2>3, AllGaveUp, ChecksAreFinite
  <2>5. Checks(r)' = Checks(r)
    BY <2>1 DEF Checks
  <2>6. sweeper'[s].givenUp[r] = GivenUp("check_pdf", r)
    BY <2>1, <2>2
  <2> QED
    BY <2>4, <2>5, <2>6
<1>2. CASE ~ReadGivenUp(s)
  <2>1. ASSUME NEW t \in Sweepers, SweepUncheckedPublications(t) \/ SweepFails(t) \/ ReadWaiting(t)
        PROVE  FALSE
    <3>1. t = s
      OBVIOUS
    <3>2. sweeper'[s].at \in {"resting", "waited"}
      <4>1. CASE SweepUncheckedPublications(t) \/ SweepFails(t)
        BY <1>0, <3>1, <4>1 DEF SweepUncheckedPublications, SweepFails, Resting
      <4>2. CASE ReadWaiting(t)
        BY <1>0, <3>1, <4>2 DEF ReadWaiting, SweeperStates
      <4> QED
        BY <2>1, <4>1, <4>2
    <3> QED
      BY <3>2
  <2>2. ASSUME NEW t \in Sweepers, ReadGivenUp(t)
        PROVE  FALSE
    <3>1. t = s
      OBVIOUS
    <3> QED
      BY <1>2, <2>2, <3>1
  <2>3. sweeper' = sweeper
    <3>1. ASSUME NEW w \in Workers, Works(w) \/ Stops(w)
          PROVE  UNCHANGED sweeper
      BY <3>1
      DEF Works, QueueKeeps, FailedTold, AbandonedTold, Told, PublicationInputs,
          PublicationToCheck, Reads, RunFails, RecordPublication, RecordPublicationCheck, Stops,
          pubVars
    <3>2. ASSUME \/ \E x \in Requests : RequestPublication(x) \/ Ages(x)
                 \/ UNCHANGED pubVars
          PROVE  UNCHANGED sweeper
      BY <3>2 DEF RequestPublication, Ages, pubVars
    <3> QED
      BY <2>1, <2>2, <3>1, <3>2 DEF Next, Sweeps, Passes, vars
  <2>4. /\ sweeper[s].at = "counted"
        /\ r \in sweeper[s].past \ (sweeper[s].waiting \cup checked) /\ r \in Requests
    BY <1>0, <2>3 DEF SweeperStates
  <2>5. sweeper[s].givenUp[r] = Cardinality(Checks(r))
    BY <2>4 DEF TriedInv
  <2>6. Checks(r)' = Checks(r)
    <3>1. produced[r] > 0
      BY <2>4 DEF ComingInv, SweptRight
    <3>2. ~OneMore(r)
      BY <2>1, <3>1 DEF OneMore
    <3> QED
      BY <2>4, <3>2 DEF AtMostOneMore
  <2> QED
    BY <2>3, <2>5, <2>6
<1> QED
  BY <1>1, <1>2

LEMMA TriedGoesOn ==
  ASSUME Kept, ComingInv, TriedInv, [Next]_vars, \A s, t \in Sweepers : s = t
  PROVE  TriedInv'
<1>1. Kept'
  BY StepKeeps
<1>2. RowsGoOn
  BY QueueSteps, StepRowsGoOn DEF Kept, TypeOK
<1>3. AtMostOneMore
  BY <1>2, StepAddsOne
<1>4. /\ checked \subseteq checked'
      /\ \A w \in Workers : (worker[w].at = "ran" /\ KindOf(w) = "check_pdf" => SubjectOf(w) \in checked)'
  BY <1>2, RanIsChecked
<1>5. ASSUME NEW j \in DOMAIN jobs', jobs'[j].kind = "check_pdf", jobs'[j].finished
      PROVE  jobs'[j].subject \in checked'
  <2>1. j \in DOMAIN jobs
    BY <1>3, <1>5 DEF AtMostOneMore
  <2>2. jobs'[j].kind = jobs[j].kind /\ jobs'[j].subject = jobs[j].subject
    BY <1>2, <2>1 DEF RowsGoOn
  <2>3. CASE jobs[j].finished
    BY <1>4, <1>5, <2>1, <2>2, <2>3 DEF TriedInv
  <2>4. ASSUME NEW w \in Workers, worker[w].at = "ran", worker[w].job = j
        PROVE  jobs'[j].subject \in checked'
    BY <1>4, <1>5, <2>2, <2>4 DEF TriedInv, KindOf, SubjectOf
  <2> QED
    BY <1>2, <1>5, <2>1, <2>3, <2>4 DEF RowsGoOn
<1>6. \A r \in Requests : (Cardinality(Checks(r)) <= CheckGiveUps)'
  BY <1>1, <1>3, CountOfChecks
<1>7. \A r \in left' : (GivenUp("check_pdf", r) = CheckGiveUps)'
  BY <1>1, <1>2, <1>3, LeftAfterAll
<1>8. ASSUME NEW s \in Sweepers, sweeper'[s].at = "counted",
             NEW r \in sweeper'[s].past \ (sweeper'[s].waiting \cup checked')
      PROVE  (sweeper[s].givenUp[r] = Cardinality(Checks(r)))'
  BY <1>3, <1>4, <1>8, CountedRight
<1> QED
  BY <1>4, <1>5, <1>6, <1>7, <1>8 DEF TriedInv

(* Each check is tried so often at most, and there are so many.            *)
LEMMA AttemptsBounded ==
  ASSUME Kept, TriedInv, NEW r \in Requests
  PROVE  Attempts(r) <= CheckGiveUps * MaxAttempts
<1> DEFINE tries == UNION {{j} \X (1..jobs[j].attempts) : j \in Checks(r)}
           all == Checks(r) \X (1..MaxAttempts)
<1>0. /\ CheckGiveUps \in Nat /\ MaxAttempts \in Nat
      /\ IsFiniteSet(Checks(r)) /\ Cardinality(Checks(r)) \in Nat
      /\ Cardinality(Checks(r)) <= CheckGiveUps
  BY ChecksAreFinite, PublishingAssumption, QueueAssumption
  DEF PublishingAssumption, QueueAssumption, Kept, TypeOK, TriedInv
<1>1. \A j \in Checks(r) : jobs[j].attempts \in 0..MaxAttempts
  <2>1. \A j \in DOMAIN jobs : jobs[j] \in Jobs
    BY RowIsARow DEF Kept, TypeOK
  <2> QED
    BY <2>1 DEF Checks, Jobs
<1>2. tries \subseteq all
  <2>1. ASSUME NEW j \in Checks(r), NEW n \in 1..jobs[j].attempts
        PROVE  <<j, n>> \in all
    <3>1. n \in 1..MaxAttempts
      BY <1>0, <1>1, <2>1
    <3> QED
      BY <3>1
  <2> QED
    BY <2>1
<1>3. IsFiniteSet(1..MaxAttempts) /\ Cardinality(1..MaxAttempts) = MaxAttempts
  <2>1. \A a, b \in Int : IsFiniteSet(a..b) /\ Cardinality(a..b) = IF a > b THEN 0 ELSE b - a + 1
    BY FS_Interval
  <2>2. 1 \in Int /\ MaxAttempts \in Int /\ MaxAttempts = IF 1 > MaxAttempts THEN 0 ELSE MaxAttempts - 1 + 1
    BY <1>0
  <2> QED
    BY <2>1, <2>2
<1>4. IsFiniteSet(all) /\ Cardinality(all) = Cardinality(Checks(r)) * MaxAttempts
  BY <1>0, <1>3, FS_Product
<1>5. Cardinality(tries) <= Cardinality(all)
  <2> HIDE DEF tries, all
  <2> QED
    BY <1>2, <1>4, FS_Subset
<1>6. \A a, b, c \in Nat : a <= b => a * c <= b * c
  OBVIOUS
<1>7. Cardinality(tries) \in Nat
  <2> HIDE DEF tries, all
  <2> QED
    BY <1>2, <1>4, FS_Subset, FS_CardinalityType
<1>8. Cardinality(Checks(r)) * MaxAttempts <= CheckGiveUps * MaxAttempts
  BY <1>0, <1>6
<1>9. /\ CheckGiveUps * MaxAttempts \in Nat
      /\ Cardinality(Checks(r)) * MaxAttempts \in Nat
  BY <1>0
<1> HIDE DEF tries, all
<1>10. Cardinality(tries) <= CheckGiveUps * MaxAttempts
  <2>1. \A a, b, c \in Nat : a <= b /\ b <= c => a <= c
    OBVIOUS
  <2> QED
    BY <1>4, <1>5, <1>7, <1>8, <1>9, <2>1
<1> QED
  BY <1>10 DEF Attempts, tries

(* "Nine attempts in all": with one sweep at a time a publication is tried *)
(* no oftener, over every check ever queued of it, and is left only where  *)
(* that many gave up, whatever comes between a sweep's readings.           *)
THEOREM TriedOftenEnough ==
  ASSUME \A s, t \in Sweepers : s = t PROVE Spec => []TriedSoOften
<1>1. Init => ComingInv
  BY DEF Init, QueueInit, ComingInv, OneEach, SweptRight, Resting
<1>2. Init => TriedInv
  <2> SUFFICES ASSUME Init PROVE TriedInv
    OBVIOUS
  <2>1. /\ jobs = <<>> /\ left = {} /\ \A s \in Sweepers : sweeper[s].at = "resting"
        /\ \A w \in Workers : worker[w].at = "idle"
    BY DEF Init, QueueInit, Resting, Idle
  <2>2. \A r \in Requests : Checks(r) = {}
    BY <2>1 DEF Checks
  <2>3. Cardinality({}) = 0 /\ 0 <= CheckGiveUps
    BY FS_EmptySet, PublishingAssumption DEF PublishingAssumption
  <2>4. \A r \in Requests : Cardinality(Checks(r)) <= CheckGiveUps
    BY <2>2, <2>3
  <2> QED
    BY <2>1, <2>4 DEF TriedInv
<1>3. Kept /\ ComingInv /\ TriedInv /\ [Next]_vars => Kept' /\ ComingInv' /\ TriedInv'
  BY StepKeeps, ComingGoesOn, TriedGoesOn
<1>4. Kept /\ TriedInv => TriedSoOften
  BY AttemptsBounded DEF Kept, TypeOK, TriedInv, TriedSoOften
<1> QED
  BY <1>1, <1>2, <1>3, <1>4, InitIsKept, PTL DEF Spec
=============================================================================
