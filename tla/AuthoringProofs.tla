---------------------------- MODULE AuthoringProofs ---------------------------
(***************************************************************************)
(* What Authoring keeps for every value of its constants, and that it      *)
(* keeps the promise of OneWriter.                                         *)
(***************************************************************************)
EXTENDS AuthoringImplements, Recovery, TLAPS

(* A live lock has a whole row: no row reads as one that has expired.      *)
LEMMA LiveLockHasARow ==
  ASSUME TypeOK, NEW l \in Lines, Live(l)
  PROVE  lock[l] \in LockRows
  BY DEF TypeOK, Live, NoLock, LockRows

(* The row a claim or a take writes is a row, whoever is told of it.       *)
LEMMA RowIsARow ==
  ASSUME TypeOK, NEW who \in Writers, NEW from \in SUBSET Sessions
  PROVE  Row(who, from) \in LockRows
  BY PeriodsAssumption DEF TypeOK, Row, LockRows, Writers

(* The head of a line is the name of a version.                            *)
LEMMA HeadIsAVersion ==
  ASSUME TypeOK, NEW l \in Lines
  PROVE  HeadOf(l) \in VersionIds
  BY DEF TypeOK, HeadOf, VersionIds

(* A recorded version keeps every line a sequence of versions.             *)
LEMMA RecordKeepsTheType ==
  ASSUME TypeOK, NEW l \in Lines, NEW words \in Words, NEW p \in Principals,
         NEW by \in SUBSET Sessions, Record(l, words, p, by)
  PROVE  versions' \in [Lines -> Seq(Versions)]
<1> DEFINE v == [words |-> words, author |-> p, cutBy |-> by, at |-> now]
<1>1. v \in Versions
  BY DEF TypeOK, Versions
<1>2. Append(versions[l], v) \in Seq(Versions)
  BY <1>1 DEF TypeOK
<1>3. versions' = [versions EXCEPT ![l] = Append(@, v)]
  BY DEF Record
<1> QED
  BY <1>2, <1>3 DEF TypeOK

LEMMA PromoteKeepsTheType ==
  ASSUME TypeOK, NEW l \in Lines, NEW who \in Writers, Promote(who, l)
  PROVE  versions' \in [Lines -> Seq(Versions)]
<1>1. PICK i \in LatestDrafts(who, l) : Record(l, i.words, who.principal, {who.session})
  BY DEF Promote
<1>2. i.words \in Words /\ who.principal \in Principals /\ {who.session} \in SUBSET Sessions
  BY <1>1 DEF TypeOK, LatestDrafts, Drafts, IterationsOf, Iterations, Writers
<1> QED
  BY <1>1, <1>2, RecordKeepsTheType

(* A save is made after every other of its principal's.                    *)
LEMMA MadeAfterTheRest ==
  ASSUME TypeOK, NEW p \in Principals, NEW made \in MadeNow(p)
  PROVE  made \in Nat /\ \A i \in iterations : i.principal = p => i.made < made
<1>1. \A i \in iterations : i.made \in Nat
  BY DEF TypeOK, Iterations
<1> QED
  BY <1>1 DEF MadeNow

(* Every step leaves the tables holding what their columns may.            *)
LEMMA StepKeepsTheType ==
  ASSUME TypeOK, [Next]_vars
  PROVE  TypeOK'
<1> USE DEF TypeOK, lineVars
<1>1. ASSUME NEW who \in Writers, NEW l \in Lines, ClaimLock(who, l)
      PROVE  TypeOK'
  <2>1. (IF Live(l) /\ lock[l].session = who.session THEN lock[l].takenFrom ELSE {})
          \in SUBSET Sessions
    BY LiveLockHasARow DEF LockRows
  <2> QED
    BY <1>1, <2>1, RowIsARow DEF ClaimLock
<1>2. ASSUME NEW who \in Writers, NEW l \in Lines, AskForLock(who, l)
      PROVE  TypeOK'
  <2>1. Live(l) /\ lock' = [lock EXCEPT ![l] = [@ EXCEPT !.taking = {Ask(who)}]]
    BY <1>2 DEF AskForLock
  <2>2. Ask(who) \in Asks
    BY CountsAssumption DEF Ask, Asks
  <2>3. [lock[l] EXCEPT !.taking = {Ask(who)}] \in LockRows
    BY <2>1, <2>2, LiveLockHasARow DEF LockRows
  <2> QED
    BY <1>2, <2>1, <2>3 DEF AskForLock
<1>3. ASSUME NEW who \in Writers, NEW l \in Lines, TakeLock(who, l)
      PROVE  TypeOK'
  <2>1. {lock[l].session} \in SUBSET Sessions
    BY <1>3, LiveLockHasARow DEF TakeLock, LockRows
  <2> QED
    BY <1>3, <2>1, RowIsARow DEF TakeLock, TakenRow
<1>4. ASSUME NEW who \in Writers, NEW l \in Lines, SaveIteration(who, l)
      PROVE  TypeOK'
  <2>1. Live(l) /\ lock' = [lock EXCEPT ![l] = SavedRow(l)]
    BY <1>4 DEF SaveIteration, Holds
  <2>2. SavedRow(l) \in LockRows
    <3>1. now + policy.release \in Nat
      BY PeriodsAssumption
    <3>2. lock[l] \in LockRows
      BY <2>1, LiveLockHasARow
    <3> QED
      BY <3>1, <3>2 DEF SavedRow, LockRows
  <2>3. iterations' \subseteq Iterations
    BY <1>4, HeadIsAVersion, MadeAfterTheRest, CountsAssumption
    DEF SaveIteration, Iterations, Writers
  <2> QED
    BY <1>4, <2>1, <2>2, <2>3 DEF SaveIteration
<1>5. ASSUME NEW who \in Writers, NEW l \in Lines, CutVersion(who, l)
      PROVE  TypeOK'
  BY <1>5, PromoteKeepsTheType DEF CutVersion
<1>6. ASSUME NEW who \in Writers, NEW l \in Lines, ReleaseLock(who, l)
      PROVE  TypeOK'
  BY <1>6, PromoteKeepsTheType DEF ReleaseLock, NothingToCut
<1>7. ASSUME NEW p \in Principals, NEW l \in Lines, RestoreVersion(p, l)
      PROVE  TypeOK'
  <2>1. PICK n \in 1..Len(versions[l]) : Record(l, versions[l][n].words, p, {})
    BY <1>7 DEF RestoreVersion
  <2>2. versions[l][n] \in Versions
    BY <2>1
  <2>3. versions[l][n].words \in Words
    BY <2>2 DEF Versions
  <2> QED
    BY <1>7, <2>1, <2>3, RecordKeepsTheType DEF RestoreVersion
<1>8. ASSUME NEW p \in Principals, NEW l \in Lines, CutReturned(p, l)
      PROVE  TypeOK'
  BY <1>8, RecordKeepsTheType DEF CutReturned
<1>9. ASSUME NEW p \in Principals, NEW l \in Lines, BringLineBack(p, l)
      PROVE  TypeOK'
  <2>1. versions' \in [Lines -> Seq(Versions)]
    BY <1>9, RecordKeepsTheType, CountsAssumption DEF BringLineBack, Main, Lines
  <2> QED
    BY <1>9, <2>1 DEF BringLineBack
<1>10. ASSUME NEW p \in Principals, AcceptSuggestion(p)
       PROVE  TypeOK'
  <2>1. versions' \in [Lines -> Seq(Versions)]
    BY <1>10, RecordKeepsTheType, CountsAssumption DEF AcceptSuggestion, Main, Lines
  <2> QED
    BY <1>10, <2>1 DEF AcceptSuggestion
<1>11. ASSUME NEW l \in Lines, NEW k \in Lines, NEW n \in 1..MaxVersions,
              NEW language \in BOOLEAN, Diverge(l, [line |-> k, no |-> n], language)
       PROVE  TypeOK'
  <2>1. [line |-> k, no |-> n] \in VersionIds
    BY CountsAssumption DEF VersionIds
  <2> QED
    BY <1>11, <2>1 DEF Diverge
<1>12. CASE SweepIterations
  BY <1>12 DEF SweepIterations
<1>13. CASE MoveToSpace
  BY <1>13 DEF MoveToSpace
<1>14. CASE DeleteArtifact \/ UndeleteArtifact
  BY <1>14 DEF DeleteArtifact, UndeleteArtifact
<1>15. CASE SetEditingPolicy
  BY <1>15 DEF SetEditingPolicy
<1>16. CASE Tick
  BY <1>16 DEF Tick
<1>17. CASE UNCHANGED vars
  BY <1>17 DEF vars
<1> QED
  BY <1>1, <1>2, <1>3, <1>4, <1>5, <1>6, <1>7, <1>8, <1>9, <1>10, <1>11, <1>12,
     <1>13, <1>14, <1>15, <1>16, <1>17 DEF Next

(* The tables always hold what their columns may.                          *)
THEOREM TypeCorrect == Spec => []TypeOK
<1>1. Init => TypeOK
  <2> SUFFICES ASSUME Init PROVE TypeOK
    OBVIOUS
  <2>1. PICK words \in Words, p \in Principals :
          versions = [l \in Lines |->
            IF l = Main THEN <<[words |-> words, author |-> p, cutBy |-> {}, at |-> 0]>>
                        ELSE <<>>]
    BY DEF Init
  <2>2. versions \in [Lines -> Seq(Versions)]
    <3> DEFINE v == [words |-> words, author |-> p, cutBy |-> {}, at |-> 0]
    <3>1. v \in Versions
      BY <2>1 DEF Versions
    <3>2. <<v>> \in Seq(Versions) /\ <<>> \in Seq(Versions)
      BY <3>1
    <3> QED
      BY <2>1, <3>2
  <2>3. base \in [Lines -> VersionIds]
    BY CountsAssumption DEF Init, NoVersion, VersionIds, Main, Lines
  <2> QED
    BY <2>2, <2>3, PeriodsAssumption DEF Init, TypeOK
<1> QED
  BY <1>1, StepKeepsTheType, PTL DEF Spec

-----------------------------------------------------------------------------
(* A lock live after the clock moved was live before it.                   *)
LEMMA LiveBeforeTheTick ==
  ASSUME TypeOK, Tick, NEW l \in Lines, Live(l)'
  PROVE  Live(l)
<1>1. lock[l] \in LockRows \cup {NoLock}
  BY DEF TypeOK
<1>2. lock[l].expires \in Nat
  BY <1>1 DEF LockRows, NoLock
<1> QED
  BY <1>2 DEF TypeOK, Tick, Live

(* A line with no row is held by nobody.                                   *)
LEMMA NoRowIsNotLive ==
  ASSUME TypeOK, UNCHANGED now, NEW l \in Lines, lock'[l] = NoLock
  PROVE  ~Live(l)'
<1>1. lock'[l].expires = 0
  BY DEF NoLock
<1> QED
  BY <1>1 DEF TypeOK, Live

(* No step leaves a deleted component or a closed line held.               *)
LEMMA StepHoldsNothingGone ==
  ASSUME TypeOK, NothingGoneIsHeld, [Next]_vars
  PROVE  NothingGoneIsHeld'
<1> USE DEF NothingGoneIsHeld, Live, Open, Begun, lineVars
<1>1. ASSUME NEW who \in Writers, NEW l \in Lines,
             ClaimLock(who, l) \/ AskForLock(who, l) \/ TakeLock(who, l)
      PROVE  NothingGoneIsHeld'
  <2>1. /\ ~deleted /\ Open(l)
        /\ \A k \in Lines \ {l} : lock'[k] = lock[k]
        /\ UNCHANGED <<now, lineVars, deleted>>
    BY <1>1 DEF TypeOK, ClaimLock, AskForLock, TakeLock
  <2> QED
    BY <2>1
<1>2. ASSUME NEW who \in Writers, NEW l \in Lines, SaveIteration(who, l)
      PROVE  NothingGoneIsHeld'
  <2>1. Live(l) /\ \A k \in Lines \ {l} : lock'[k] = lock[k]
    BY <1>2 DEF TypeOK, SaveIteration, Holds
  <2> QED
    BY <1>2, <2>1 DEF SaveIteration
<1>3. ASSUME NEW who \in Writers, NEW l \in Lines, ReleaseLock(who, l)
      PROVE  NothingGoneIsHeld'
  <2>1. /\ lock'[l] = NoLock
        /\ \A k \in Lines \ {l} : lock'[k] = lock[k]
        /\ UNCHANGED <<now, lineVars, deleted>>
    BY <1>3 DEF TypeOK, ReleaseLock
  <2> QED
    BY <2>1, NoRowIsNotLive
<1>4. ASSUME NEW who \in Writers, NEW l \in Lines, CutVersion(who, l)
      PROVE  NothingGoneIsHeld'
  BY <1>4 DEF CutVersion
<1>5. ASSUME NEW p \in Principals, NEW l \in Lines, RestoreVersion(p, l) \/ CutReturned(p, l)
      PROVE  NothingGoneIsHeld'
  BY <1>5 DEF RestoreVersion, CutReturned
<1>6. ASSUME NEW p \in Principals, NEW l \in Lines, BringLineBack(p, l)
      PROVE  NothingGoneIsHeld'
  BY <1>6 DEF BringLineBack
<1>7. ASSUME NEW p \in Principals, AcceptSuggestion(p)
      PROVE  NothingGoneIsHeld'
  BY <1>7 DEF AcceptSuggestion
<1>8. ASSUME NEW l \in Lines, NEW k \in Lines, NEW n \in 1..MaxVersions,
             NEW language \in BOOLEAN, Diverge(l, [line |-> k, no |-> n], language)
      PROVE  NothingGoneIsHeld'
  <2>1. ~Live(l) /\ \A m \in Lines \ {l} : base'[m] = base[m]
    BY <1>8 DEF TypeOK, Diverge
  <2> QED
    BY <1>8, <2>1 DEF Diverge
<1>9. CASE SweepIterations
  BY <1>9 DEF SweepIterations
<1>10. CASE MoveToSpace
  BY <1>10 DEF MoveToSpace, NoLock, TypeOK
<1>11. CASE DeleteArtifact
  BY <1>11 DEF DeleteArtifact, HeldAnywhere
<1>12. CASE UndeleteArtifact
  BY <1>12 DEF UndeleteArtifact
<1>13. CASE SetEditingPolicy
  BY <1>13 DEF SetEditingPolicy
<1>14. CASE Tick
  <2>1. \A l \in Lines : Live(l)' => Live(l)
    BY <1>14, LiveBeforeTheTick
  <2> QED
    BY <1>14, <2>1 DEF Tick
<1>15. CASE UNCHANGED vars
  BY <1>15 DEF vars
<1> QED
  BY <1>1, <1>2, <1>3, <1>4, <1>5, <1>6, <1>7, <1>8, <1>9, <1>10, <1>11, <1>12,
     <1>13, <1>14, <1>15 DEF Next

(* Neither a deleted component nor a closed line is ever held.             *)
THEOREM NothingGoneStaysHeld == Spec => []NothingGoneIsHeld
<1>1. Init => NothingGoneIsHeld
  BY DEF Init, NothingGoneIsHeld, Live, NoLock
<1>2. TypeOK /\ NothingGoneIsHeld /\ [Next]_vars => NothingGoneIsHeld'
  BY StepHoldsNothingGone
<1> QED
  BY <1>1, <1>2, TypeCorrect, PTL DEF Spec

-----------------------------------------------------------------------------
(* What an ask rests on: it stands on a live lock only while the holder    *)
(* has done nothing since, so its grace ends a whole take period and grace *)
(* after the holder was last active, by a policy that was in force.        *)
AskedOfTheIdle ==
  \A l \in Lines : Live(l) =>
    \A a \in lock[l].taking :
      \E q \in Policies : a.until >= lock[l].active + q.take + Grace

LEMMA StepAsksTheIdle ==
  ASSUME TypeOK, AskedOfTheIdle, [Next]_vars
  PROVE  AskedOfTheIdle'
<1> USE DEF AskedOfTheIdle, Live, lineVars
<1>1. ASSUME NEW who \in Writers, NEW l \in Lines, ClaimLock(who, l) \/ TakeLock(who, l)
      PROVE  AskedOfTheIdle'
  <2>1. /\ lock'[l].taking = {}
        /\ \A k \in Lines \ {l} : lock'[k] = lock[k]
        /\ UNCHANGED now
    BY <1>1 DEF TypeOK, ClaimLock, TakeLock, TakenRow, Row
  <2> QED
    BY <2>1
<1>2. ASSUME NEW who \in Writers, NEW l \in Lines, AskForLock(who, l)
      PROVE  AskedOfTheIdle'
  <2>1. lock[l] \in LockRows
    BY <1>2, LiveLockHasARow DEF AskForLock
  <2>2. /\ lock'[l].taking = {Ask(who)} /\ lock'[l].active = lock[l].active
        /\ \A k \in Lines \ {l} : lock'[k] = lock[k]
        /\ now >= lock[l].active + policy.take
        /\ UNCHANGED now
    BY <1>2, <2>1 DEF TypeOK, AskForLock, LockRows
  <2>3. policy \in Policies /\ policy.take \in Nat /\ now \in Nat /\ lock[l].active \in Nat
    BY <2>1, PeriodsAssumption DEF TypeOK, LockRows
  <2>4. Ask(who).until >= lock[l].active + policy.take + Grace
    BY <2>2, <2>3, CountsAssumption DEF Ask
  <2> QED
    BY <2>2, <2>3, <2>4
<1>3. ASSUME NEW who \in Writers, NEW l \in Lines, SaveIteration(who, l)
      PROVE  AskedOfTheIdle'
  <2>1. lock[l] \in LockRows
    BY <1>3, LiveLockHasARow DEF SaveIteration, Holds
  <2>2. /\ lock'[l].taking = {}
        /\ \A k \in Lines \ {l} : lock'[k] = lock[k]
        /\ UNCHANGED now
    BY <1>3, <2>1 DEF TypeOK, SaveIteration, SavedRow, LockRows
  <2> QED
    BY <2>2
<1>4. ASSUME NEW who \in Writers, NEW l \in Lines, ReleaseLock(who, l)
      PROVE  AskedOfTheIdle'
  <2>1. /\ lock'[l] = NoLock
        /\ \A k \in Lines \ {l} : lock'[k] = lock[k]
        /\ UNCHANGED now
    BY <1>4 DEF TypeOK, ReleaseLock
  <2> QED
    BY <2>1, NoRowIsNotLive
<1>5. CASE MoveToSpace
  BY <1>5 DEF MoveToSpace, NoLock, TypeOK
<1>6. CASE Tick
  <2>1. \A l \in Lines : Live(l)' => Live(l)
    BY <1>6, LiveBeforeTheTick
  <2> QED
    BY <1>6, <2>1 DEF Tick
<1>7. CASE UNCHANGED <<lock, now>>
  BY <1>7
<1> QED
  BY <1>1, <1>2, <1>3, <1>4, <1>5, <1>6, <1>7
  DEF Next, CutVersion, RestoreVersion, CutReturned, BringLineBack, AcceptSuggestion,
      Diverge, SweepIterations, DeleteArtifact, UndeleteArtifact, SetEditingPolicy, vars

(* A live lock changes principal only over a holder idle through the take  *)
(* period of some policy and the whole grace.                              *)
THEOREM TakesOnlyFromTheIdle == Spec => TakenOnlyFromTheIdle
<1>1. Init => AskedOfTheIdle
  BY DEF Init, AskedOfTheIdle, Live, NoLock
<1>2. TypeOK /\ AskedOfTheIdle /\ [Next]_vars => AskedOfTheIdle'
  BY StepAsksTheIdle
<1>3. ASSUME TypeOK, AskedOfTheIdle, [Next]_vars,
             NEW l \in Lines, Live(l), Live(l)', lock'[l].holder # lock[l].holder
      PROVE  \E q \in Policies : now >= lock[l].active + q.take + Grace
  <2>1. lock[l] \in LockRows
    BY <1>3, LiveLockHasARow
  <2>2. PICK who \in Writers : TakeLock(who, l)
    <3>1. ASSUME NEW who \in Writers, NEW k \in Lines, ClaimLock(who, k)
          PROVE  FALSE
      BY <1>3, <2>1, <3>1 DEF ClaimLock, Row, TypeOK
    <3>2. ASSUME NEW who \in Writers, NEW k \in Lines, AskForLock(who, k)
          PROVE  FALSE
      BY <1>3, <2>1, <3>2 DEF AskForLock, TypeOK, LockRows
    <3>3. ASSUME NEW who \in Writers, NEW k \in Lines, SaveIteration(who, k)
          PROVE  FALSE
      BY <1>3, <2>1, <3>3 DEF SaveIteration, SavedRow, TypeOK, LockRows
    <3>4. ASSUME NEW who \in Writers, NEW k \in Lines, ReleaseLock(who, k)
          PROVE  FALSE
      <4>1. k = l => ~Live(l)'
        BY <1>3, <3>4, NoRowIsNotLive DEF ReleaseLock, TypeOK
      <4>2. k # l => lock'[l] = lock[l]
        BY <3>4, <1>3 DEF ReleaseLock, TypeOK
      <4> QED
        BY <1>3, <4>1, <4>2
    <3>5. ASSUME NEW who \in Writers, NEW k \in Lines, k # l, TakeLock(who, k)
          PROVE  FALSE
      BY <1>3, <3>5 DEF TakeLock, TypeOK
    <3>6. ~MoveToSpace
      BY <1>3 DEF MoveToSpace, NoLock, TypeOK, Live
    <3>7. lock' # lock
      BY <1>3
    <3> QED
      BY <1>3, <3>1, <3>2, <3>3, <3>4, <3>5, <3>6, <3>7
      DEF Next, CutVersion, RestoreVersion, CutReturned, BringLineBack, AcceptSuggestion,
          Diverge, SweepIterations, DeleteArtifact, UndeleteArtifact, SetEditingPolicy,
          Tick, vars
  <2>3. PICK a \in lock[l].taking : now >= a.until
    BY <2>2 DEF TakeLock, StandingAsks
  <2>4. PICK q \in Policies : a.until >= lock[l].active + q.take + Grace
    BY <1>3, <2>3 DEF AskedOfTheIdle
  <2>5. /\ a.until \in Nat /\ now \in Nat /\ q.take \in Nat /\ lock[l].active \in Nat
        /\ Grace \in Nat
    BY <1>3, <2>1, <2>3, PeriodsAssumption, CountsAssumption DEF TypeOK, LockRows, Asks
  <2> QED
    BY <2>3, <2>4, <2>5
<1>4. TypeOK /\ AskedOfTheIdle /\ [Next]_vars =>
        [\A l \in Lines :
           (Live(l) /\ Live(l)' /\ lock'[l].holder # lock[l].holder)
             => \E q \in Policies : now >= lock[l].active + q.take + Grace]_vars
  BY <1>3
<1> QED
  BY <1>1, <1>2, <1>4, TypeCorrect, PTL DEF Spec, TakenOnlyFromTheIdle

-----------------------------------------------------------------------------
(* What a step may do of a lock live before it and after: leave it with    *)
(* its principal, telling the same sessions while it stays with its own;   *)
(* or take it, telling the session it was with.                            *)
LEMMA LiveLockStaysOrIsTaken ==
  ASSUME TypeOK, [Next]_vars, NEW l \in Lines, Live(l), Live(l)'
  PROVE  \/ /\ lock'[l].holder = lock[l].holder
            /\ lock'[l].session = lock[l].session => lock'[l].takenFrom = lock[l].takenFrom
         \/ /\ lock'[l].holder # lock[l].holder
            /\ lock'[l].takenFrom = {lock[l].session}
<1> DEFINE Stays == /\ lock'[l].holder = lock[l].holder
                    /\ lock'[l].session = lock[l].session => lock'[l].takenFrom = lock[l].takenFrom
           Taken == lock'[l].holder # lock[l].holder /\ lock'[l].takenFrom = {lock[l].session}
<1>0. lock[l] \in LockRows
  BY LiveLockHasARow
<1>1. ASSUME NEW who \in Writers, NEW k \in Lines, ClaimLock(who, k)
      PROVE  Stays
  <2>1. CASE k = l
    BY <1>1, <2>1 DEF ClaimLock, Row, TypeOK
  <2>2. CASE k # l
    BY <1>1, <2>2 DEF ClaimLock, TypeOK
  <2> QED
    BY <2>1, <2>2
<1>2. ASSUME NEW who \in Writers, NEW k \in Lines, AskForLock(who, k)
      PROVE  Stays
  BY <1>0, <1>2 DEF AskForLock, TypeOK, LockRows
<1>3. ASSUME NEW who \in Writers, NEW k \in Lines, TakeLock(who, k)
      PROVE  Stays \/ Taken
  <2>1. CASE k = l
    BY <1>3, <2>1 DEF TakeLock, TakenRow, Row, TypeOK
  <2>2. CASE k # l
    BY <1>3, <2>2 DEF TakeLock, TypeOK
  <2> QED
    BY <2>1, <2>2
<1>4. ASSUME NEW who \in Writers, NEW k \in Lines, SaveIteration(who, k)
      PROVE  Stays
  BY <1>0, <1>4 DEF SaveIteration, SavedRow, TypeOK, LockRows
<1>5. ASSUME NEW who \in Writers, NEW k \in Lines, ReleaseLock(who, k)
      PROVE  Stays
  <2>1. k # l
    BY <1>5, NoRowIsNotLive DEF ReleaseLock, TypeOK
  <2> QED
    BY <1>5, <2>1 DEF ReleaseLock, TypeOK
<1>6. ~MoveToSpace
  BY DEF MoveToSpace, NoLock, TypeOK, Live
<1>7. CASE UNCHANGED lock
  BY <1>7
<1> QED
  BY <1>1, <1>2, <1>3, <1>4, <1>5, <1>6, <1>7
  DEF Next, CutVersion, RestoreVersion, CutReturned, BringLineBack, AcceptSuggestion,
      Diverge, SweepIterations, DeleteArtifact, UndeleteArtifact, SetEditingPolicy, Tick, vars

(* Whoever a live lock is taken from is refused as taken from, and is so   *)
(* for as long as the session that took it keeps it.                       *)
THEOREM TheTakenAreAlwaysTold == Spec => TheTakenAreTold
<1>1. ASSUME TypeOK, [Next]_vars, NEW l \in Lines, Live(l), Live(l)'
      PROVE  /\ \A who \in Writers :
                  (Holds(who, l) /\ lock'[l].holder # who.principal)
                    => Refusal(who, l)' = "lock.taken"
             /\ (lock'[l].holder = lock[l].holder /\ lock'[l].session = lock[l].session)
                  => lock'[l].takenFrom = lock[l].takenFrom
  BY <1>1, LiveLockStaysOrIsTaken DEF Holds, Refusal
<1>2. TypeOK /\ [Next]_vars =>
        [\A l \in Lines : (Live(l) /\ Live(l)') =>
           /\ \A who \in Writers :
                (Holds(who, l) /\ lock'[l].holder # who.principal)
                  => Refusal(who, l)' = "lock.taken"
           /\ (lock'[l].holder = lock[l].holder /\ lock'[l].session = lock[l].session)
                => lock'[l].takenFrom = lock[l].takenFrom]_vars
  BY <1>1
<1> QED
  BY <1>2, TypeCorrect, PTL DEF Spec, TheTakenAreTold

-----------------------------------------------------------------------------
(* The promise kept: what a cut says, what the sweep takes, and the        *)
(* refinement.                                                             *)

(* How the tables hang together: a line not begun is empty, and one that   *)
(* is has a version for its head, which is not its own until it has cut    *)
(* one; what was saved was saved of a line begun, from a version there is. *)
Shape ==
  /\ versions[Main] # <<>> /\ base[Main] = NoVersion
  /\ \A l \in Lines :
       /\ ~Begun(l) => versions[l] = <<>>
       /\ Begun(l) => Exists(HeadOf(l))
       /\ Begun(l) /\ l # Main => base[l].line # l
  /\ \A i \in iterations :
       /\ Begun(i.line) /\ Exists(i.openedFrom)
       /\ i.line = Main => i.openedFrom.line = Main

LEMMA MainIsALine == Main \in Lines
  BY CountsAssumption DEF Main, Lines

LEMMA VersionsAreVersions ==
  ASSUME TypeOK, NEW l \in Lines
  PROVE  /\ Len(versions[l]) \in Nat
         /\ \A n \in 1..Len(versions[l]) :
              versions[l][n] \in Versions /\ versions[l][n].at \in Nat
<1>1. versions[l] \in Seq(Versions)
  BY DEF TypeOK
<1>2. \A n \in 1..Len(versions[l]) : versions[l][n] \in Versions
  BY <1>1
<1> QED
  BY <1>1, <1>2 DEF Versions

(* A version recorded is the last of its line, and disturbs no other.      *)
LEMMA RecordAppends ==
  ASSUME TypeOK, NEW l \in Lines, NEW words, NEW p, NEW by, Record(l, words, p, by)
  PROVE  /\ \A k \in Lines \ {l} : versions'[k] = versions[k]
         /\ Len(versions[l]) \in Nat
         /\ Len(versions'[l]) = Len(versions[l]) + 1
         /\ 1..Len(versions'[l]) = 1..Len(versions[l]) \cup {Len(versions[l]) + 1}
         /\ \A n \in 1..Len(versions[l]) : versions'[l][n] = versions[l][n]
         /\ versions'[l][Len(versions[l]) + 1]
              = [words |-> words, author |-> p, cutBy |-> by, at |-> now]
         /\ versions'[l] # <<>>
         /\ Begun(l)
<1> DEFINE v == [words |-> words, author |-> p, cutBy |-> by, at |-> now]
<1>1. versions[l] \in Seq(Versions) /\ Len(versions[l]) \in Nat
  BY DEF TypeOK
<1>2. versions'[l] = Append(versions[l], v) /\ \A k \in Lines \ {l} : versions'[k] = versions[k]
  BY DEF TypeOK, Record
<1> HIDE DEF v
<1>3. /\ Len(Append(versions[l], v)) = Len(versions[l]) + 1
      /\ \A n \in 1..Len(versions[l]) : Append(versions[l], v)[n] = versions[l][n]
      /\ Append(versions[l], v)[Len(versions[l]) + 1] = v
      /\ Append(versions[l], v) # <<>>
  BY <1>1
<1>4. Begun(l)
  BY DEF Record, Open
<1>5. \A m \in Nat : 1..(m + 1) = 1..m \cup {m + 1}
  OBVIOUS
<1>6. 1..Len(versions'[l]) = 1..Len(versions[l]) \cup {Len(versions[l]) + 1}
  BY <1>1, <1>2, <1>3, <1>5
<1> QED
  BY <1>1, <1>2, <1>3, <1>4, <1>6 DEF v

(* No version is ever rewritten or lost.                                   *)
Grown ==
  \A k \in Lines : \A n \in 1..Len(versions[k]) :
    n \in 1..Len(versions'[k]) /\ versions'[k][n] = versions[k][n]

LEMMA RecordGrows ==
  ASSUME TypeOK, NEW l \in Lines, NEW words, NEW p, NEW by, Record(l, words, p, by)
  PROVE  Grown
<1> SUFFICES ASSUME NEW k \in Lines, NEW n \in 1..Len(versions[k])
             PROVE  n \in 1..Len(versions'[k]) /\ versions'[k][n] = versions[k][n]
  BY DEF Grown
<1>1. CASE k = l
  BY <1>1, RecordAppends
<1>2. CASE k # l
  BY <1>2, RecordAppends
<1> QED
  BY <1>1, <1>2

(* The head of a line after a version of l was recorded.                   *)
LEMMA HeadsAfterRecord ==
  ASSUME TypeOK, UNCHANGED base,
         NEW l \in Lines, NEW words, NEW p, NEW by, Record(l, words, p, by)
  PROVE  /\ HeadOf(l)' = [line |-> l, no |-> Len(versions[l]) + 1]
         /\ \A k \in Lines \ {l} : HeadOf(k)' = HeadOf(k)
         /\ \A k \in Lines : Begun(k)' = Begun(k)
<1>1. HeadOf(l)' = [line |-> l, no |-> Len(versions[l]) + 1]
  BY RecordAppends DEF HeadOf
<1>2. \A k \in Lines \ {l} : HeadOf(k)' = HeadOf(k)
  BY RecordAppends DEF HeadOf
<1> QED
  BY <1>1, <1>2 DEF Begun

LEMMA RecordKeepsShape ==
  ASSUME TypeOK, Shape, UNCHANGED <<base, iterations>>,
         NEW l \in Lines, NEW words, NEW p, NEW by, Record(l, words, p, by)
  PROVE  Shape'
<1>1. \A v \in VersionIds : Exists(v) => Exists(v)'
  BY RecordGrows DEF Grown, Exists, VersionIds
<1>2. \A k \in Lines \ {l} : Begun(k) => Exists(HeadOf(k))'
  BY <1>1, HeadIsAVersion, HeadsAfterRecord DEF Shape
<1>3. Exists(HeadOf(l))'
  <2>1. HeadOf(l)'.line = l /\ HeadOf(l)'.no = Len(versions[l]) + 1
    BY HeadsAfterRecord
  <2>2. Len(versions[l]) + 1 \in 1..Len(versions'[l])
    BY RecordAppends
  <2> QED
    BY <2>1, <2>2 DEF Exists
<1>4. \A i \in iterations : i.openedFrom \in VersionIds
  BY DEF TypeOK, Iterations
<1>5. versions'[Main] # <<>>
  BY MainIsALine, RecordAppends DEF Shape
<1>6. \A k \in Lines : ~Begun(k) => versions'[k] = <<>>
  BY RecordAppends DEF Shape
<1> QED
  BY <1>1, <1>2, <1>3, <1>4, <1>5, <1>6, HeadsAfterRecord DEF Shape, Begun

(* Every writer of versions records, or leaves them alone; what is cut by  *)
(* a session is its latest draft.                                          *)
DraftOfTheirs(l, words, p, by) ==
  \E who \in Writers : \E i \in LatestDrafts(who, l) :
    by = {who.session} /\ p = who.principal /\ words = i.words
RecordsOn(l) ==
  \E words \in Words, p \in Principals, by \in SUBSET Sessions :
    Record(l, words, p, by) /\ (by # {} => DraftOfTheirs(l, words, p, by))

LEMMA PromoteRecords ==
  ASSUME TypeOK, NEW l \in Lines, NEW who \in Writers, Promote(who, l)
  PROVE  RecordsOn(l)
<1>1. PICK i \in LatestDrafts(who, l) : Record(l, i.words, who.principal, {who.session})
  BY DEF Promote
<1>2. i.words \in Words /\ who.principal \in Principals /\ {who.session} \in SUBSET Sessions
  BY <1>1 DEF TypeOK, LatestDrafts, Drafts, IterationsOf, Iterations, Writers
<1>3. DraftOfTheirs(l, i.words, who.principal, {who.session})
  BY <1>1 DEF DraftOfTheirs
<1> QED
  BY <1>1, <1>2, <1>3 DEF RecordsOn

LEMMA RestoreRecords ==
  ASSUME TypeOK, NEW l \in Lines, NEW p \in Principals, RestoreVersion(p, l)
  PROVE  RecordsOn(l)
<1>1. PICK n \in 1..Len(versions[l]) : Record(l, versions[l][n].words, p, {})
  BY DEF RestoreVersion
<1>2. versions[l][n] \in Versions
  BY <1>1 DEF TypeOK
<1>3. versions[l][n].words \in Words /\ {} \in SUBSET Sessions
  BY <1>2 DEF Versions
<1> QED
  BY <1>1, <1>3 DEF RecordsOn

(* Every step but a save, a sweep and a line begun is one of these.        *)
StepsOfVersions ==
  /\ UNCHANGED <<base, iterations>> /\ now' \in {now, now + 1}
  /\ UNCHANGED versions \/ \E l \in Lines : RecordsOn(l)

LEMMA StepsAreOfVersions ==
  ASSUME TypeOK, [Next]_vars
  PROVE  \/ StepsOfVersions
         \/ \E who \in Writers, l \in Lines : SaveIteration(who, l)
         \/ SweepIterations
         \/ \E l, k \in Lines, n \in 1..MaxVersions, language \in BOOLEAN :
              Diverge(l, [line |-> k, no |-> n], language)
<1>1. ASSUME NEW who \in Writers, NEW l \in Lines,
             ClaimLock(who, l) \/ AskForLock(who, l) \/ TakeLock(who, l)
      PROVE  StepsOfVersions
  BY <1>1 DEF ClaimLock, AskForLock, TakeLock, StepsOfVersions, lineVars
<1>2. ASSUME NEW who \in Writers, NEW l \in Lines, CutVersion(who, l) \/ ReleaseLock(who, l)
      PROVE  StepsOfVersions
  BY <1>2, PromoteRecords
  DEF CutVersion, ReleaseLock, NothingToCut, StepsOfVersions, lineVars
<1>3. ASSUME NEW p \in Principals, NEW l \in Lines, RestoreVersion(p, l)
      PROVE  StepsOfVersions
  BY <1>3, RestoreRecords DEF RestoreVersion, StepsOfVersions, lineVars
<1>4. ASSUME NEW p \in Principals, NEW l \in Lines, CutReturned(p, l)
      PROVE  StepsOfVersions
  <2>1. {} \in SUBSET Sessions
    OBVIOUS
  <2> QED
    BY <1>4, <2>1 DEF CutReturned, StepsOfVersions, RecordsOn, lineVars
<1>5. ASSUME NEW p \in Principals, NEW l \in Lines, BringLineBack(p, l)
      PROVE  StepsOfVersions
  <2>1. {} \in SUBSET Sessions
    OBVIOUS
  <2> QED
    BY <1>5, <2>1, MainIsALine DEF BringLineBack, StepsOfVersions, RecordsOn
<1>6. ASSUME NEW p \in Principals, AcceptSuggestion(p)
      PROVE  StepsOfVersions
  <2>1. {} \in SUBSET Sessions
    OBVIOUS
  <2> QED
    BY <1>6, <2>1, MainIsALine DEF AcceptSuggestion, StepsOfVersions, RecordsOn, lineVars
<1>7. CASE MoveToSpace \/ DeleteArtifact \/ UndeleteArtifact \/ SetEditingPolicy \/ Tick
           \/ UNCHANGED vars
  BY <1>7
  DEF MoveToSpace, DeleteArtifact, UndeleteArtifact, SetEditingPolicy, Tick, vars,
      StepsOfVersions, lineVars
<1> QED
  BY <1>1, <1>2, <1>3, <1>4, <1>5, <1>6, <1>7 DEF Next

LEMMA StepKeepsShape ==
  ASSUME TypeOK, Shape, [Next]_vars
  PROVE  Shape'
<1>1. CASE StepsOfVersions
  <2>1. CASE UNCHANGED versions
    BY <1>1, <2>1 DEF StepsOfVersions, Shape, Begun, HeadOf, Exists
  <2>2. ASSUME NEW l \in Lines, RecordsOn(l)
        PROVE  Shape'
    BY <1>1, <2>2, RecordKeepsShape DEF StepsOfVersions, RecordsOn
  <2> QED
    BY <1>1, <2>1, <2>2 DEF StepsOfVersions
<1>2. ASSUME NEW who \in Writers, NEW l \in Lines, SaveIteration(who, l)
      PROVE  Shape'
  <2>1. /\ UNCHANGED <<base, versions>>
        /\ \A i \in iterations' : i \in iterations \/ (i.line = l /\ i.openedFrom = HeadOf(l))
    BY <1>2 DEF SaveIteration, lineVars
  <2>2. Begun(l) /\ Exists(HeadOf(l))
    BY <1>2 DEF SaveIteration, Open, Shape
  <2>3. l = Main => HeadOf(l).line = Main
    BY DEF HeadOf, Shape
  <2> QED
    BY <2>1, <2>2, <2>3 DEF Shape, Begun, HeadOf, Exists
<1>3. CASE SweepIterations
  BY <1>3 DEF SweepIterations, Shape, Begun, HeadOf, Exists, lineVars
<1>4. ASSUME NEW l \in Lines, NEW k \in Lines, NEW n \in 1..MaxVersions, NEW language \in BOOLEAN,
             Diverge(l, [line |-> k, no |-> n], language)
      PROVE  Shape'
  <2> DEFINE from == [line |-> k, no |-> n]
  <2>1. /\ ~Begun(l) /\ Exists(from)
        /\ UNCHANGED <<versions, iterations>>
        /\ base'[l] = from /\ \A m \in Lines \ {l} : base'[m] = base[m]
    BY <1>4 DEF Diverge, TypeOK
  <2>2. versions[l] = <<>> /\ l # Main
    BY <2>1 DEF Shape, Begun
  <2>3. k # l
    BY <2>1, <2>2 DEF Exists
  <2>4. n > 0
    BY CountsAssumption
  <2>5. from # NoVersion
    BY <2>4 DEF NoVersion
  <2>6. \A m \in Lines \ {l} : (Begun(m)' <=> Begun(m)) /\ HeadOf(m)' = HeadOf(m)
    BY <2>1 DEF Begun, HeadOf
  <2>7. Begun(l)' /\ HeadOf(l)' = from
    BY <2>1, <2>2, <2>5 DEF Begun, HeadOf
  <2>8. \A v : Exists(v)' = Exists(v)
    BY <2>1 DEF Exists
  <2>9. \A i \in iterations : i.line \in Lines /\ i.line # l
    BY <2>1 DEF TypeOK, Iterations, Shape
  <2> QED
    BY <2>1, <2>2, <2>3, <2>6, <2>7, <2>8, <2>9, MainIsALine DEF Shape
<1> QED
  BY <1>1, <1>2, <1>3, <1>4, StepsAreOfVersions

LEMMA InitHasShape == Init => Shape
<1> SUFFICES ASSUME Init PROVE Shape
  OBVIOUS
<1>1. PICK words \in Words, p \in Principals :
        versions = [l \in Lines |->
          IF l = Main THEN <<[words |-> words, author |-> p, cutBy |-> {}, at |-> 0]>> ELSE <<>>]
  BY DEF Init
<1>2. /\ Len(versions[Main]) = 1 /\ versions[Main] # <<>>
      /\ \A l \in Lines \ {Main} : versions[l] = <<>>
  BY <1>1, MainIsALine
<1>3. HeadOf(Main) = [line |-> Main, no |-> 1] /\ Exists(HeadOf(Main))
  BY <1>2 DEF HeadOf, Exists
<1> QED
  BY <1>2, <1>3, MainIsALine DEF Init, Shape, Begun

-----------------------------------------------------------------------------
(* The dates of a line's versions run on, and none is ahead of the clock.  *)
Dated ==
  \A l \in Lines : \A n \in 1..Len(versions[l]) :
    /\ versions[l][n].at <= now
    /\ \A m \in 1..n : versions[l][m].at <= versions[l][n].at

LEMMA RecordKeepsDates ==
  ASSUME TypeOK, Dated, UNCHANGED base, now' \in {now, now + 1},
         NEW l \in Lines, NEW words, NEW p, NEW by, Record(l, words, p, by)
  PROVE  Dated'
<1> SUFFICES ASSUME NEW k \in Lines, NEW n \in 1..Len(versions'[k])
             PROVE  /\ versions'[k][n].at <= now'
                    /\ \A m \in 1..n : versions'[k][m].at <= versions'[k][n].at
  BY DEF Dated
<1>1. now \in Nat /\ \A j \in Lines : \A m \in 1..Len(versions[j]) : versions[j][m].at \in Nat
  BY VersionsAreVersions DEF TypeOK
<1>2. ASSUME NEW m \in 1..Len(versions[k]) PROVE versions'[k][m] = versions[k][m]
  BY <1>2, RecordGrows DEF Grown
<1>3. Len(versions[k]) \in Nat /\ n \in Nat
  BY DEF TypeOK
<1>4. CASE n \in 1..Len(versions[k])
  <2>1. \A m \in 1..n : m \in 1..Len(versions[k])
    BY <1>3, <1>4
  <2>2. versions[k][n].at <= now'
    BY <1>1, <1>4 DEF Dated
  <2> QED
    BY <1>2, <1>4, <2>1, <2>2 DEF Dated
<1>5. CASE k = l /\ n = Len(versions[l]) + 1
  <2>1. versions'[k][n].at = now
    <3>1. versions'[l][Len(versions[l]) + 1]
            = [words |-> words, author |-> p, cutBy |-> by, at |-> now]
      BY RecordAppends
    <3> QED
      BY <1>5, <3>1
  <2>2. ASSUME NEW m \in 1..n PROVE versions'[k][m].at <= now
    <3>1. CASE m = n
      BY <1>1, <2>1, <3>1
    <3>2. CASE m # n
      <4>1. m \in 1..Len(versions[k])
        BY <1>3, <1>5, <3>2
      <4> QED
        BY <1>2, <4>1 DEF Dated
    <3> QED
      BY <3>1, <3>2
  <2> QED
    BY <1>1, <2>1, <2>2
<1>6. n \in 1..Len(versions[k]) \/ (k = l /\ n = Len(versions[l]) + 1)
  BY RecordAppends
<1> QED
  BY <1>4, <1>5, <1>6

LEMMA StepKeepsDates ==
  ASSUME TypeOK, Dated, [Next]_vars
  PROVE  Dated'
<1>1. CASE StepsOfVersions
  <2>1. CASE UNCHANGED versions
    <3>1. now \in Nat /\ \A l \in Lines : \A n \in 1..Len(versions[l]) : versions[l][n].at \in Nat
      BY VersionsAreVersions DEF TypeOK
    <3> QED
      BY <1>1, <2>1, <3>1 DEF StepsOfVersions, Dated
  <2>2. ASSUME NEW l \in Lines, RecordsOn(l)
        PROVE  Dated'
    BY <1>1, <2>2, RecordKeepsDates DEF StepsOfVersions, RecordsOn
  <2> QED
    BY <1>1, <2>1, <2>2 DEF StepsOfVersions
<1>2. CASE ~StepsOfVersions
  <2>1. UNCHANGED <<versions, now>>
    BY <1>2, StepsAreOfVersions DEF SaveIteration, SweepIterations, Diverge
  <2> QED
    BY <2>1 DEF Dated
<1> QED
  BY <1>1, <1>2

(* The sweep's window is counted from the next cut of the iteration's line *)
(* or, where that line diverged from one that is not the main line, from a *)
(* cut no earlier.                                                         *)
LEMMA PastIsOver ==
  ASSUME TypeOK, Shape, Dated, NEW i \in iterations, PastItsWindow(i)
  PROVE  WindowOver(i)
<1> DEFINE l == i.line
<1>1. /\ l \in Lines /\ i.openedFrom.no \in Nat /\ Len(versions[l]) \in Nat
      /\ now \in Nat /\ policy.keep \in Nat
      /\ \A m \in 1..Len(versions[l]) : versions[l][m].at \in Nat
  <2>1. l \in Lines /\ i.openedFrom.no \in Nat
    BY DEF TypeOK, Iterations, VersionIds
  <2> QED
    BY <2>1, VersionsAreVersions, PeriodsAssumption DEF TypeOK
<1>2. l = Main => i.openedFrom.line = Main
  BY DEF Shape
<1>3. PICK n \in LaterCuts(i) :
        (\A m \in LaterCuts(i) : n <= m) /\ versions[l][n].at + policy.keep <= now
  BY DEF PastItsWindow
<1>4. n \in 1..Len(versions[l])
  BY <1>3 DEF LaterCuts
<1>5. NextCutOf(i) \in 1..n
  <2>1. CASE i.openedFrom.line = i.line
    BY <1>1, <1>4, <2>1 DEF LaterCuts, NextCutOf
  <2>2. CASE i.openedFrom.line # i.line
    BY <1>1, <1>4, <2>2 DEF NextCutOf
  <2> QED
    BY <2>1, <2>2
<1>6. versions[l][NextCutOf(i)].at <= versions[l][n].at
  BY <1>1, <1>4, <1>5 DEF Dated
<1>7. NextCutOf(i) \in 1..Len(versions[l])
  BY <1>1, <1>4, <1>5
<1> QED
  BY <1>1, <1>3, <1>4, <1>6, <1>7 DEF WindowOver

LEMMA InitIsDated == Init => Dated
<1> SUFFICES ASSUME Init PROVE Dated
  OBVIOUS
<1>1. PICK words \in Words, p \in Principals :
        versions = [l \in Lines |->
          IF l = Main THEN <<[words |-> words, author |-> p, cutBy |-> {}, at |-> 0]>> ELSE <<>>]
  BY DEF Init
<1>2. \A l \in Lines : \A n \in 1..Len(versions[l]) : l = Main /\ n = 1 /\ versions[l][n].at = 0
  BY <1>1
<1> QED
  BY <1>2 DEF Init, Dated

(* The sweep takes no iteration whose window is not over: what no later    *)
(* version of its line followed is never taken.                            *)
THEOREM KeptUntilTheWindowIsOver == Spec => KeptThroughItsWindow
<1>1. Init => Shape /\ Dated
  BY InitHasShape, InitIsDated
<1>2. TypeOK /\ Shape /\ Dated /\ [Next]_vars => Shape' /\ Dated'
  BY StepKeepsShape, StepKeepsDates
<1>3. ASSUME TypeOK, Shape, Dated, [Next]_vars, NEW i \in iterations \ iterations'
      PROVE  WindowOver(i)
  <2>1. SweepIterations
    BY <1>3, StepsAreOfVersions DEF StepsOfVersions, SaveIteration, Diverge
  <2> QED
    BY <1>3, <2>1, PastIsOver DEF SweepIterations
<1>4. TypeOK /\ Shape /\ Dated /\ [Next]_vars =>
        [\A i \in iterations \ iterations' : WindowOver(i)]_vars
  BY <1>3
<1> QED
  BY <1>1, <1>2, <1>4, TypeCorrect, PTL DEF Spec, KeptThroughItsWindow

-----------------------------------------------------------------------------
(* What a cut says.                                                        *)

(* A session's sequence names one save.                                    *)
OneSave ==
  \A i, j \in iterations :
    i.principal = j.principal /\ i.session = j.session /\ i.sequence = j.sequence => i = j

SavesOf(p, s, l, from) ==
  {i \in iterations : i.principal = p /\ i.session = s /\ i.line = l /\ i.openedFrom = from}

Says(l, n, s) ==
  LET saved == SavesOf(versions[l][n].author, s, l, Before(l, n)) IN
  /\ \A i \in saved :
       (\A j \in saved : j.sequence <= i.sequence) => i.words = versions[l][n].words
  /\ saved = {} => \E q \in Policies : versions[l][n].at + q.keep <= now

LEMMA CutsSay ==
  CutSaysWhatWasSavedLast
    <=> \A l \in Lines : \A n \in 1..Len(versions[l]) : \A s \in versions[l][n].cutBy : Says(l, n, s)
  BY DEF CutSaysWhatWasSavedLast, Says, SavesOf

LEMMA StepKeepsOneSave ==
  ASSUME TypeOK, OneSave, [Next]_vars
  PROVE  OneSave'
<1>1. ASSUME NEW who \in Writers, NEW l \in Lines, SaveIteration(who, l)
      PROVE  OneSave'
  <2>1. PICK sequence \in 1..MaxSequence, words \in Words, made \in MadeNow(who.principal) :
          /\ \A i \in IterationsOf(who) : i.sequence < sequence
          /\ iterations' = iterations \cup
               {[principal |-> who.principal, session |-> who.session, line |-> l,
                 made |-> made, sequence |-> sequence, openedFrom |-> HeadOf(l), words |-> words]}
    BY <1>1 DEF SaveIteration
  <2>2. \A i \in iterations :
          i.principal = who.principal /\ i.session = who.session => i.sequence # sequence
    <3>1. \A i \in iterations : i.sequence \in Nat
      BY DEF TypeOK, Iterations
    <3> QED
      BY <2>1, <3>1, CountsAssumption DEF IterationsOf
  <2> QED
    BY <2>1, <2>2 DEF OneSave
<1>2. ASSUME iterations' \subseteq iterations
      PROVE  OneSave'
  BY <1>2 DEF OneSave
<1> QED
  BY <1>1, <1>2, StepsAreOfVersions DEF StepsOfVersions, SweepIterations, Diverge

(* A line's head is what no version of it was cut from yet.                *)
LEMMA HeadIsBeforeNone ==
  ASSUME TypeOK, Shape, NEW l \in Lines, NEW n \in 1..Len(versions[l])
  PROVE  Before(l, n) # HeadOf(l)
<1>1. Len(versions[l]) \in Nat /\ versions[l] # <<>>
  BY VersionsAreVersions
<1>2. HeadOf(l) = [line |-> l, no |-> Len(versions[l])] /\ Begun(l)
  BY <1>1 DEF HeadOf, Shape
<1>3. CASE n = 1
  <2>1. base[l].line # l \/ base[l].no = 0
    BY <1>2 DEF Shape, NoVersion
  <2> QED
    BY <1>1, <1>2, <1>3, <2>1 DEF Before
<1>4. CASE n # 1
  BY <1>1, <1>2, <1>4 DEF Before
<1> QED
  BY <1>3, <1>4

(* The cut that follows an iteration is the one made from what it was      *)
(* opened from.                                                            *)
LEMMA NextIsTheCutFromIt ==
  ASSUME TypeOK, Shape, NEW l \in Lines, NEW n \in 1..Len(versions[l]),
         NEW i, i.line = l, i.openedFrom = Before(l, n)
  PROVE  NextCutOf(i) = n
<1>1. n \in Nat /\ versions[l] # <<>> /\ Begun(l)
  BY VersionsAreVersions DEF Shape
<1>2. CASE n = 1
  <2>1. base[l].line # l \/ base[l].no = 0
    BY <1>1 DEF Shape, NoVersion
  <2>2. i.openedFrom = base[l]
    BY <1>2 DEF Before
  <2> QED
    BY <1>2, <2>1, <2>2 DEF NextCutOf
<1>3. CASE n # 1
  BY <1>1, <1>3 DEF NextCutOf, Before
<1> QED
  BY <1>2, <1>3

LEMMA CutFromTheHead ==
  ASSUME TypeOK, NEW l \in Lines
  PROVE  Before(l, Len(versions[l]) + 1) = HeadOf(l)
<1>1. Len(versions[l]) \in Nat /\ (versions[l] = <<>> <=> Len(versions[l]) = 0)
  BY DEF TypeOK
<1> QED
  BY <1>1 DEF Before, HeadOf

LEMMA SaysStill ==
  ASSUME TypeOK, UNCHANGED <<base, iterations>>, now' \in {now, now + 1},
         NEW l \in Lines, NEW n \in 1..Len(versions[l]), NEW s, Says(l, n, s),
         versions'[l][n] = versions[l][n]
  PROVE  Says(l, n, s)'
<1>1. now \in Nat /\ versions[l][n].at \in Nat /\ \A q \in Policies : q.keep \in Nat
  BY VersionsAreVersions, PeriodsAssumption DEF TypeOK
<1>2. SavesOf(versions[l][n].author, s, l, Before(l, n))'
        = SavesOf(versions[l][n].author, s, l, Before(l, n))
  BY DEF SavesOf, Before
<1>3. \A q \in Policies : versions[l][n].at + q.keep <= now => versions[l][n].at + q.keep <= now'
  BY <1>1
<1> QED
  BY <1>2, <1>3 DEF Says

LEMMA RecordSays ==
  ASSUME TypeOK, OneSave, UNCHANGED <<base, iterations>>,
         NEW l \in Lines, NEW words, NEW p, NEW by,
         Record(l, words, p, by), DraftOfTheirs(l, words, p, by), NEW s \in by,
         NEW n, n = Len(versions[l]) + 1
  PROVE  Says(l, n, s)'
<1>0. PICK who \in Writers : \E i \in LatestDrafts(who, l) :
        by = {who.session} /\ p = who.principal /\ words = i.words
  BY DEF DraftOfTheirs
<1>1. PICK i \in LatestDrafts(who, l) :
        by = {who.session} /\ p = who.principal /\ words = i.words
  BY <1>0
<1>2. versions'[l][n] = [words |-> words, author |-> p, cutBy |-> by, at |-> now]
  BY RecordAppends
<1>3. Before(l, n)' = HeadOf(l)
  <2>1. Before(l, n)' = Before(l, n)
    BY DEF Before
  <2> QED
    BY <2>1, CutFromTheHead
<1>4. SavesOf(versions[l][n].author, s, l, Before(l, n))' = Drafts(who, l)
  BY <1>1, <1>2, <1>3 DEF SavesOf, Drafts, IterationsOf
<1>5. i \in Drafts(who, l) /\ \A j \in Drafts(who, l) : j.sequence <= i.sequence
  BY <1>1 DEF LatestDrafts
<1>6. ASSUME NEW j \in Drafts(who, l), \A k \in Drafts(who, l) : k.sequence <= j.sequence
      PROVE  j.words = versions'[l][n].words
  <2>1. j \in iterations /\ i \in iterations /\ j.sequence \in Nat /\ i.sequence \in Nat
    BY <1>5, <1>6 DEF Drafts, IterationsOf, TypeOK, Iterations
  <2>2. j.sequence = i.sequence
    BY <1>5, <1>6, <2>1
  <2>3. j = i
    BY <1>5, <2>1, <2>2 DEF OneSave, Drafts, IterationsOf
  <2> QED
    BY <1>1, <1>2, <2>3
<1> QED
  BY <1>4, <1>5, <1>6 DEF Says

LEMMA StepKeepsSaying ==
  ASSUME TypeOK, Shape, Dated, OneSave, CutSaysWhatWasSavedLast, [Next]_vars
  PROVE  CutSaysWhatWasSavedLast'
<1> DEFINE AllSay ==
      \A l \in Lines : \A n \in 1..Len(versions[l]) : \A s \in versions[l][n].cutBy : Says(l, n, s)
<1>0. AllSay /\ (AllSay' => CutSaysWhatWasSavedLast')
  BY CutsSay DEF CutSaysWhatWasSavedLast, Says, SavesOf
<1>1. CASE StepsOfVersions
  <2>0. UNCHANGED <<base, iterations>> /\ now' \in {now, now + 1}
    BY <1>1 DEF StepsOfVersions
  <2>1. CASE UNCHANGED versions
    BY <1>0, <2>0, <2>1, SaysStill
  <2>2. ASSUME NEW l \in Lines, RecordsOn(l)
        PROVE  AllSay'
    <3>1. PICK words \in Words, p \in Principals, by \in SUBSET Sessions :
            Record(l, words, p, by) /\ (by # {} => DraftOfTheirs(l, words, p, by))
      BY <2>2 DEF RecordsOn
    <3> SUFFICES ASSUME NEW k \in Lines, NEW n \in 1..Len(versions'[k]),
                        NEW s \in versions'[k][n].cutBy
                 PROVE  Says(k, n, s)'
      OBVIOUS
    <3>2. CASE n \in 1..Len(versions[k])
      <4>1. versions'[k][n] = versions[k][n]
        BY <3>1, <3>2, RecordGrows DEF Grown
      <4> QED
        BY <1>0, <2>0, <3>2, <4>1, SaysStill
    <3>3. CASE k = l /\ n = Len(versions[l]) + 1
      <4>1. versions'[k][n] = [words |-> words, author |-> p, cutBy |-> by, at |-> now]
        BY <3>1, <3>3, RecordAppends
      <4>2. s \in by
        BY <4>1
      <4> QED
        BY <2>0, <3>1, <3>3, <4>2, RecordSays
    <3>4. n \in 1..Len(versions[k]) \/ (k = l /\ n = Len(versions[l]) + 1)
      <4>1. CASE k = l
        <5>1. 1..Len(versions'[l]) = 1..Len(versions[l]) \cup {Len(versions[l]) + 1}
          BY <3>1, RecordAppends
        <5> QED
          BY <4>1, <5>1
      <4>2. CASE k # l
        BY <3>1, <4>2, RecordAppends
      <4> QED
        BY <4>1, <4>2
    <3> QED
      BY <3>2, <3>3, <3>4
  <2> QED
    BY <1>0, <1>1, <2>1, <2>2 DEF StepsOfVersions
<1>2. ASSUME NEW who \in Writers, NEW k \in Lines, SaveIteration(who, k)
      PROVE  AllSay'
  <2>1. /\ UNCHANGED <<base, versions, now>>
        /\ iterations \subseteq iterations'
        /\ \A i \in iterations' : i \in iterations \/ (i.line = k /\ i.openedFrom = HeadOf(k))
    BY <1>2 DEF SaveIteration, lineVars
  <2>2. ASSUME NEW l \in Lines, NEW n \in 1..Len(versions[l]), NEW s \in versions[l][n].cutBy
        PROVE  Says(l, n, s)'
    <3>1. Before(l, n)' = Before(l, n)
      BY <2>1 DEF Before
    <3>2. SavesOf(versions[l][n].author, s, l, Before(l, n))'
            = SavesOf(versions[l][n].author, s, l, Before(l, n))
      BY <2>1, <3>1, HeadIsBeforeNone DEF SavesOf
    <3> QED
      BY <1>0, <2>1, <3>2 DEF Says
  <2> QED
    BY <2>1, <2>2
<1>3. ASSUME SweepIterations
      PROVE  AllSay'
  <2>1. /\ UNCHANGED <<base, versions, now>>
        /\ iterations' = {i \in iterations : ~PastItsWindow(i)}
    BY <1>3 DEF SweepIterations, lineVars
  <2>2. ASSUME NEW l \in Lines, NEW n \in 1..Len(versions[l]), NEW s \in versions[l][n].cutBy
        PROVE  Says(l, n, s)'
    <3> DEFINE saved == SavesOf(versions[l][n].author, s, l, Before(l, n))
    <3>1. saved' = {i \in saved : ~PastItsWindow(i)}
      BY <2>1 DEF SavesOf, Before
    <3>2. ASSUME NEW i \in saved, NEW j \in saved, PastItsWindow(i)
          PROVE  PastItsWindow(j)
      <4>1. i.line = j.line /\ i.openedFrom = j.openedFrom
        BY DEF SavesOf
      <4>2. LaterCuts(i) = LaterCuts(j)
        BY <4>1 DEF LaterCuts
      <4> QED
        BY <3>2, <4>1, <4>2 DEF PastItsWindow
    <3>3. CASE saved' = saved
      BY <1>0, <2>1, <3>3 DEF Says
    <3>4. CASE saved' # saved
      <4>1. PICK i \in saved : PastItsWindow(i)
        BY <3>1, <3>4
      <4>2. saved' = {}
        BY <3>1, <3>2, <4>1
      <4>3. i \in iterations /\ i.line = l /\ i.openedFrom = Before(l, n)
        BY <4>1 DEF SavesOf
      <4>4. WindowOver(i) /\ NextCutOf(i) = n
        BY <4>1, <4>3, PastIsOver, NextIsTheCutFromIt
      <4>5. versions[l][n].at + policy.keep <= now /\ policy \in Policies
        BY <4>3, <4>4 DEF WindowOver, TypeOK
      <4> QED
        BY <2>1, <4>2, <4>5 DEF Says
    <3> QED
      BY <3>3, <3>4
  <2> QED
    BY <2>1, <2>2
<1>4. ASSUME NEW k \in Lines, NEW from, NEW language, Diverge(k, from, language)
      PROVE  AllSay'
  <2>1. /\ UNCHANGED <<iterations, versions, now>> /\ ~Begun(k)
        /\ \A l \in Lines \ {k} : base'[l] = base[l]
    BY <1>4 DEF Diverge, TypeOK
  <2>2. versions[k] = <<>>
    BY <2>1 DEF Shape
  <2>3. ASSUME NEW l \in Lines, NEW n \in 1..Len(versions[l]), NEW s \in versions[l][n].cutBy
        PROVE  Says(l, n, s)'
    <3>1. l # k
      BY <2>2
    <3>2. Before(l, n)' = Before(l, n)
      BY <2>1, <3>1 DEF Before
    <3> QED
      BY <1>0, <2>1, <3>2 DEF Says, SavesOf
  <2> QED
    BY <2>1, <2>3
<1> QED
  BY <1>0, <1>1, <1>2, <1>3, <1>4, StepsAreOfVersions

(* What a session cuts is what it saved last, on that line, from the       *)
(* version before, however saves, cuts, takes and sweeps interleave.       *)
THEOREM CutsSayWhatWasSavedLast == Spec => []CutSaysWhatWasSavedLast
<1>1. Init => Shape /\ Dated /\ OneSave /\ CutSaysWhatWasSavedLast
  <2> SUFFICES ASSUME Init PROVE CutSaysWhatWasSavedLast
    BY InitHasShape, InitIsDated DEF Init, OneSave
  <2>1. \A l \in Lines : \A n \in 1..Len(versions[l]) : versions[l][n].cutBy = {}
    BY DEF Init
  <2> QED
    BY <2>1 DEF CutSaysWhatWasSavedLast
<1>2. TypeOK /\ Shape /\ Dated /\ OneSave /\ CutSaysWhatWasSavedLast /\ [Next]_vars
        => Shape' /\ Dated' /\ OneSave' /\ CutSaysWhatWasSavedLast'
  BY StepKeepsShape, StepKeepsDates, StepKeepsOneSave, StepKeepsSaying
<1> QED
  BY <1>1, <1>2, TypeCorrect, PTL DEF Spec

-----------------------------------------------------------------------------
(* What is offered after a cut.                                            *)

(* A principal's saves are told apart by when they were made, and a        *)
(* session numbers its own in that order.                                  *)
InOrder ==
  \A i, j \in iterations : i.principal = j.principal =>
    /\ i.made = j.made => i = j
    /\ (i.session = j.session /\ j.made <= i.made) => j.sequence <= i.sequence

LEMMA StepKeepsTheOrder ==
  ASSUME TypeOK, InOrder, [Next]_vars
  PROVE  InOrder'
<1>1. ASSUME NEW who \in Writers, NEW l \in Lines, SaveIteration(who, l)
      PROVE  InOrder'
  <2>1. PICK sequence \in 1..MaxSequence, words \in Words, made \in MadeNow(who.principal) :
          /\ \A i \in IterationsOf(who) : i.sequence < sequence
          /\ iterations' = iterations \cup
               {[principal |-> who.principal, session |-> who.session, line |-> l,
                 made |-> made, sequence |-> sequence, openedFrom |-> HeadOf(l), words |-> words]}
    BY <1>1 DEF SaveIteration
  <2> DEFINE new == [principal |-> who.principal, session |-> who.session, line |-> l,
                     made |-> made, sequence |-> sequence, openedFrom |-> HeadOf(l),
                     words |-> words]
  <2>2. /\ sequence \in Nat /\ made \in Nat
        /\ \A i \in iterations : i.principal = who.principal => i.made < made
    BY MadeAfterTheRest, CountsAssumption DEF Writers
  <2>3. \A i \in iterations : i.made \in Nat /\ i.sequence \in Nat
    BY DEF TypeOK, Iterations
  <2>4. \A i \in iterations :
          i.principal = who.principal /\ i.session = who.session => i.sequence < sequence
    BY <2>1 DEF IterationsOf
  <2>5. /\ new.principal = who.principal /\ new.session = who.session
        /\ new.made = made /\ new.sequence = sequence /\ iterations' = iterations \cup {new}
    BY <2>1
  <2> HIDE DEF new
  <2> QED
    BY <2>2, <2>3, <2>4, <2>5 DEF InOrder
<1>2. ASSUME iterations' \subseteq iterations
      PROVE  InOrder'
  BY <1>2 DEF InOrder
<1> QED
  BY <1>1, <1>2, StepsAreOfVersions DEF StepsOfVersions, SweepIterations, Diverge

LEMMA CutOffersNothing ==
  ASSUME TypeOK, InOrder, CutSaysWhatWasSavedLast,
         NEW p \in Principals, NEW l \in Lines, NEW i \in Newest(p, l),
         NEW n \in 2..Len(versions[l]), i.session \in versions[l][n].cutBy,
         versions[l][n].author = p, i.openedFrom = Before(l, n)
  PROVE  UnsavedWork(p, l) = {}
<1> DEFINE saved == SavesOf(p, i.session, l, i.openedFrom)
<1>1. /\ i \in iterations /\ i.principal = p /\ i.line = l /\ ~PastItsWindow(i)
      /\ \A j \in Retained(p, l) : j.made <= i.made
  BY DEF Newest, Retained
<1>2. \A j \in saved : j \in Retained(p, l)
  <2>1. \A j \in saved : LaterCuts(j) = LaterCuts(i) /\ j.line = i.line
    BY <1>1 DEF SavesOf, LaterCuts
  <2>2. \A j \in saved : ~PastItsWindow(j)
    BY <1>1, <2>1 DEF PastItsWindow
  <2> QED
    BY <2>2 DEF SavesOf, Retained
<1>3. i.words = versions[l][n].words
  <2>1. n \in 1..Len(versions[l])
    BY VersionsAreVersions
  <2>2. i \in saved /\ \A j \in saved : j.sequence <= i.sequence
    BY <1>1, <1>2 DEF SavesOf, InOrder
  <2>3. Says(l, n, i.session)
    BY <2>1, CutsSay
  <2> QED
    BY <2>2, <2>3 DEF Says
<1>4. l \in Nat /\ AtLeast([line |-> l, no |-> n], i.openedFrom) /\ n \in 1..Len(versions[l])
  <2>1. n \in Nat /\ n # 1 /\ n \in 1..Len(versions[l])
    BY VersionsAreVersions
  <2> QED
    BY <2>1 DEF AtLeast, Before, Lines
<1>5. ASSUME NEW j \in UnsavedWork(p, l)
      PROVE  FALSE
  <2>1. /\ j \in iterations /\ j.principal = p
        /\ \A k \in Retained(p, l) : k.made <= j.made
    BY DEF UnsavedWork, Newest, Retained
  <2>2. i \in Retained(p, l) /\ j \in Retained(p, l)
    BY DEF UnsavedWork, Newest
  <2>3. i.made = j.made
    <3>1. i.made \in Nat /\ j.made \in Nat
      BY <1>1, <2>1 DEF TypeOK, Iterations
    <3> QED
      BY <1>1, <2>1, <2>2, <3>1
  <2>4. j = i
    BY <1>1, <2>1, <2>3 DEF InOrder
  <2> QED
    BY <1>3, <1>4, <2>4 DEF UnsavedWork
<1> QED
  BY <1>5

(* An author's own cut offers them nothing to recover, but a line's first: *)
(* however many sessions, lines, cuts and sweeps came between, what they   *)
(* saved last is what the version says (recovery.ts:161-163).              *)
THEOREM LaterCutsOfferNothing == Spec => []LaterCutOffersNothing
<1>1. TypeOK /\ InOrder /\ CutSaysWhatWasSavedLast => LaterCutOffersNothing
  BY CutOffersNothing DEF LaterCutOffersNothing
<1>2. Init => InOrder
  BY DEF Init, InOrder
<1>3. TypeOK /\ InOrder /\ [Next]_vars => InOrder'
  BY StepKeepsTheOrder
<1> QED
  BY <1>1, <1>2, <1>3, TypeCorrect, CutsSayWhatWasSavedLast, PTL DEF Spec

-----------------------------------------------------------------------------
(* The promise.  What it reads of a line is its holder, read from the lock *)
(* and the clock, and three things read from the versions and iterations.  *)
LEMMA ReadAlike ==
  ASSUME UNCHANGED <<versions, base, iterations>>
  PROVE  \A l \in Lines :
           TextOf(l)' = TextOf(l) /\ AuthorOf(l)' = AuthorOf(l) /\ DraftOf(l)' = DraftOf(l)
  BY DEF TextOf, AuthorOf, DraftOf, LatestDrafts, Drafts, IterationsOf, HeadOf, WordsAt, Begun

LEMMA HeldAlike ==
  ASSUME UNCHANGED <<lock, now>>
  PROVE  \A l \in Lines : HolderOf(l)' = HolderOf(l)
  BY DEF HolderOf, Live

(* The row a claim or a take writes is its session's.                      *)
LEMMA RowHolds ==
  ASSUME TypeOK, NEW who \in Writers, NEW l \in Lines, NEW from,
         lock' = [lock EXCEPT ![l] = Row(who, from)], UNCHANGED now
  PROVE  /\ HolderOf(l)' = who
         /\ \A k \in Lines \ {l} : HolderOf(k)' = HolderOf(k)
<1>1. now \in Nat /\ policy.release \in Nat /\ policy.release > 0
  BY PeriodsAssumption DEF TypeOK
<1>2. /\ lock'[l] = Row(who, from)
      /\ \A k \in Lines \ {l} : lock'[k] = lock[k]
  BY DEF TypeOK
<1>3. lock'[l].expires > now' /\ lock'[l].holder = who.principal /\ lock'[l].session = who.session
  BY <1>1, <1>2 DEF Row
<1>4. who = [principal |-> who.principal, session |-> who.session]
  BY DEF Writers
<1> QED
  BY <1>2, <1>3, <1>4 DEF HolderOf, Live

(* A line with no row is nobody's.                                         *)
LEMMA NoRowIsNobodys ==
  ASSUME TypeOK, UNCHANGED now, NEW l \in Lines, lock'[l] = NoLock
  PROVE  HolderOf(l)' = Nobody
  BY NoRowIsNotLive DEF HolderOf

(* A version recorded is its author's text, and leaves no draft.           *)
LEMMA RecordIsSaid ==
  ASSUME TypeOK, Shape, UNCHANGED <<base, iterations>>,
         NEW l \in Lines, NEW words, NEW p, NEW by, Record(l, words, p, by)
  PROVE  /\ TextOf(l)' = words /\ AuthorOf(l)' = p /\ DraftOf(l)' = [w \in Writers |-> {}]
         /\ \A k \in Lines \ {l} :
              TextOf(k)' = TextOf(k) /\ AuthorOf(k)' = AuthorOf(k) /\ DraftOf(k)' = DraftOf(k)
<1>1. /\ Begun(l)' /\ HeadOf(l)' = [line |-> l, no |-> Len(versions[l]) + 1]
      /\ \A k \in Lines \ {l} : HeadOf(k)' = HeadOf(k) /\ Begun(k)' = Begun(k)
  BY HeadsAfterRecord, RecordAppends
<1>2. versions'[l][Len(versions[l]) + 1] = [words |-> words, author |-> p, cutBy |-> by, at |-> now]
  BY RecordAppends
<1>3. TextOf(l)' = words /\ AuthorOf(l)' = p
  BY <1>1, <1>2 DEF TextOf, AuthorOf, WordsAt
<1>4. DraftOf(l)' = [w \in Writers |-> {}]
  <2>1. Len(versions[l]) \in Nat
    BY VersionsAreVersions
  <2>2. \A i \in iterations : i.openedFrom # HeadOf(l)'
    <3>1. ~Exists(HeadOf(l)')
      BY <1>1, <2>1 DEF Exists
    <3> QED
      BY <3>1 DEF Shape
  <2> QED
    BY <2>2 DEF DraftOf, LatestDrafts, Drafts, IterationsOf
<1>5. ASSUME NEW k \in Lines \ {l}
      PROVE  TextOf(k)' = TextOf(k) /\ AuthorOf(k)' = AuthorOf(k) /\ DraftOf(k)' = DraftOf(k)
  <2>1. DraftOf(k)' = DraftOf(k)
    BY <1>1 DEF DraftOf, LatestDrafts, Drafts, IterationsOf
  <2>2. ASSUME NEW v \in VersionIds, Exists(v)
        PROVE  versions'[v.line][v.no] = versions[v.line][v.no]
    BY <2>2, RecordGrows DEF Grown, Exists, VersionIds
  <2>3. versions'[Main][1] = versions[Main][1]
    <3>1. 1 \in 1..Len(versions[Main])
      <4>1. versions[Main] \in Seq(Versions) /\ versions[Main] # <<>>
        BY MainIsALine DEF Shape, TypeOK
      <4> QED
        BY <4>1
    <3> QED
      BY <3>1, MainIsALine, RecordGrows DEF Grown
  <2>4. CASE Begun(k)
    <3>1. HeadOf(k) \in VersionIds /\ Exists(HeadOf(k))
      BY <2>4, HeadIsAVersion DEF Shape
    <3> QED
      BY <1>1, <2>1, <2>2, <2>4, <3>1 DEF TextOf, AuthorOf, WordsAt
  <2>5. CASE ~Begun(k)
    BY <1>1, <2>1, <2>3, <2>5 DEF TextOf, AuthorOf
  <2> QED
    BY <2>4, <2>5
<1> QED
  BY <1>3, <1>4, <1>5

(* What is read of a line begun is a text.                                 *)
LEMMA BegunSaysSomething ==
  ASSUME TypeOK, Shape, NEW l \in Lines
  PROVE  /\ Begun(l) => TextOf(l) \in Words /\ TextOf(l) # NoText
         /\ ~Begun(l) => TextOf(l) = NoText
         /\ AuthorOf(l) \in Principals
         /\ Live(l) => HolderOf(l) \in Writers /\ HolderOf(l) # Nobody
         /\ ~Live(l) => HolderOf(l) = Nobody
<1>1. ASSUME NEW v \in VersionIds, Exists(v)
      PROVE  versions[v.line][v.no].words \in Words /\ versions[v.line][v.no].author \in Principals
  <2>1. v.line \in Lines
    BY DEF VersionIds
  <2>2. versions[v.line][v.no] \in Versions
    BY <1>1, <2>1, VersionsAreVersions DEF Exists
  <2> QED
    BY <2>2 DEF Versions
<1>2. [line |-> Main, no |-> 1] \in VersionIds /\ Exists([line |-> Main, no |-> 1])
  <2>1. versions[Main] \in Seq(Versions) /\ versions[Main] # <<>>
    BY MainIsALine DEF Shape, TypeOK
  <2> QED
    BY <2>1, MainIsALine DEF Exists, VersionIds
<1>3. Begun(l) => HeadOf(l) \in VersionIds /\ Exists(HeadOf(l))
  BY HeadIsAVersion DEF Shape
<1>4. Begun(l) => TextOf(l) \in Words /\ AuthorOf(l) \in Principals
  BY <1>1, <1>3 DEF TextOf, AuthorOf, WordsAt
<1>5. ~Begun(l) => TextOf(l) = NoText /\ AuthorOf(l) \in Principals
  BY <1>1, <1>2 DEF TextOf, AuthorOf
<1>6. Live(l) => HolderOf(l) \in Writers
  BY LiveLockHasARow DEF HolderOf, LockRows, Writers
<1> QED
  BY <1>4, <1>5, <1>6, NoneAssumption DEF HolderOf

(* Claims, takes.                                                          *)
LEMMA ClaimIsHold ==
  ASSUME TypeOK, Shape, NEW who \in Writers, NEW l \in Lines, ClaimLock(who, l) \/ TakeLock(who, l)
  PROVE  Promise!Hold(l, who)
<1>1. /\ Begun(l) /\ UNCHANGED <<now, versions, base, iterations>>
      /\ \E from : lock' = [lock EXCEPT ![l] = Row(who, from)]
  BY DEF ClaimLock, TakeLock, TakenRow, Open, lineVars
<1>2. HolderOf(l)' = who /\ \A k \in Lines \ {l} : HolderOf(k)' = HolderOf(k)
  BY <1>1, RowHolds
<1>3. \A k \in Lines :
        TextOf(k)' = TextOf(k) /\ AuthorOf(k)' = AuthorOf(k) /\ DraftOf(k)' = DraftOf(k)
  BY <1>1, ReadAlike
<1>4. TextOf(l) # NoText
  BY <1>1, BegunSaysSomething
<1> QED
  BY <1>2, <1>3, <1>4 DEF Promise!Hold

(* Lapses, moves and releases with nothing to cut.                         *)
LEMMA LapseIsFree ==
  ASSUME UNCHANGED <<versions, base, iterations>>,
         \A l \in Lines : HolderOf(l)' \in {HolderOf(l), Nobody}
  PROVE  \E freed \in SUBSET Lines : Promise!Free(freed)
<1> DEFINE freed == {l \in Lines : HolderOf(l)' = Nobody}
<1>1. \A k \in Lines :
        TextOf(k)' = TextOf(k) /\ AuthorOf(k)' = AuthorOf(k) /\ DraftOf(k)' = DraftOf(k)
  BY ReadAlike
<1>2. \A l \in Lines : HolderOf(l)' = IF l \in freed THEN Nobody ELSE HolderOf(l)
  OBVIOUS
<1>3. Promise!Free(freed)
  BY <1>1, <1>2 DEF Promise!Free
<1> QED
  BY <1>3

(* A save is the holder's write.                                           *)
LEMMA SaveIsWrite ==
  ASSUME TypeOK, Shape, NEW who \in Writers, NEW l \in Lines, SaveIteration(who, l)
  PROVE  \E t \in Words : Promise!Write(l, t)
<1>1. PICK sequence \in 1..MaxSequence, words \in Words, made \in MadeNow(who.principal) :
        /\ Holds(who, l)
        /\ \A i \in IterationsOf(who) : i.sequence < sequence
        /\ iterations' = iterations \cup
             {[principal |-> who.principal, session |-> who.session, line |-> l, made |-> made,
               sequence |-> sequence, openedFrom |-> HeadOf(l), words |-> words]}
        /\ lock' = [lock EXCEPT ![l] = SavedRow(l)]
        /\ UNCHANGED <<now, policy, versions, lineVars, deleted>>
  BY DEF SaveIteration
<1> DEFINE new == [principal |-> who.principal, session |-> who.session, line |-> l,
                   made |-> made, sequence |-> sequence, openedFrom |-> HeadOf(l), words |-> words]
<1>2. HolderOf(l) = who /\ who # Nobody
  BY <1>1, NoneAssumption DEF Holds, HolderOf, Writers
<1>3. HolderOf(l)' = who /\ \A k \in Lines \ {l} : HolderOf(k)' = HolderOf(k)
  <2>1. lock[l] \in LockRows /\ now \in Nat /\ policy.release \in Nat /\ policy.release > 0
    BY <1>1, LiveLockHasARow, PeriodsAssumption DEF Holds, TypeOK
  <2>2. /\ lock'[l] = SavedRow(l) /\ \A k \in Lines \ {l} : lock'[k] = lock[k]
    BY <1>1 DEF TypeOK
  <2>3. /\ lock'[l].expires > now' /\ lock'[l].holder = lock[l].holder
        /\ lock'[l].session = lock[l].session
    <3>1. /\ SavedRow(l).expires = now + policy.release /\ SavedRow(l).holder = lock[l].holder
          /\ SavedRow(l).session = lock[l].session
      BY <2>1 DEF SavedRow, LockRows
    <3>2. now' = now /\ now + policy.release > now
      BY <1>1, <2>1
    <3> QED
      BY <2>2, <3>1, <3>2
  <2> QED
    BY <1>1, <1>2, <2>2, <2>3 DEF HolderOf, Live, Holds
<1>4. \A k \in Lines : HeadOf(k)' = HeadOf(k) /\ Begun(k)' = Begun(k)
  BY <1>1 DEF HeadOf, Begun, lineVars
<1>5. \A k \in Lines : TextOf(k)' = TextOf(k) /\ AuthorOf(k)' = AuthorOf(k)
  BY <1>1, <1>4 DEF TextOf, AuthorOf, WordsAt
<1>6. \A k \in Lines, w \in Writers :
        Drafts(w, k)' = IF k = l /\ w = who THEN Drafts(w, k) \cup {new} ELSE Drafts(w, k)
  BY <1>1, <1>4 DEF Drafts, IterationsOf, Writers
<1>7. LatestDrafts(who, l)' = {new}
  <2>1. \A i \in Drafts(who, l) : i.sequence \in Nat /\ i.sequence < new.sequence
    BY <1>1 DEF Drafts, IterationsOf, TypeOK, Iterations
  <2>2. new.sequence \in Nat
    BY CountsAssumption
  <2>3. Drafts(who, l)' = Drafts(who, l) \cup {new}
    BY <1>6
  <2> HIDE DEF new
  <2> QED
    BY <2>1, <2>2, <2>3 DEF LatestDrafts
<1>8. \A k \in Lines, w \in Writers :
        k # l \/ w # who => LatestDrafts(w, k)' = LatestDrafts(w, k)
  BY <1>6 DEF LatestDrafts
<1>9. DraftOf(l)' = [DraftOf(l) EXCEPT ![who] = {words}]
  <2>1. {i.words : i \in LatestDrafts(who, l)'} = {words}
    BY <1>7
  <2>2. \A w \in Writers : {i.words : i \in LatestDrafts(w, l)'}
          = IF w = who THEN {words} ELSE {i.words : i \in LatestDrafts(w, l)}
    BY <1>8, <2>1
  <2> HIDE DEF new
  <2> QED
    BY <2>2 DEF DraftOf
<1>10. \A k \in Lines \ {l} : DraftOf(k)' = DraftOf(k)
  BY <1>8 DEF DraftOf
<1>11. Promise!Write(l, words)
  BY <1>2, <1>3, <1>5, <1>9, <1>10 DEF Promise!Write
<1> QED
  BY <1>11

(* A cut is the holder's draft made the text, whether or not they leave.   *)
LEMMA CutIsPublish ==
  ASSUME TypeOK, Shape, UNCHANGED <<base, iterations>>,
         NEW who \in Writers, NEW l \in Lines, Promote(who, l),
         \A k \in Lines \ {l} : HolderOf(k)' = HolderOf(k),
         HolderOf(l)' \in {HolderOf(l), Nobody}
  PROVE  Promise!Publish(l)
<1>1. PICK i \in LatestDrafts(who, l) : Record(l, i.words, who.principal, {who.session})
  BY DEF Promote
<1>2. HolderOf(l) = who /\ who # Nobody
  BY NoneAssumption DEF Promote, Holds, HolderOf, Writers
<1>3. i.words \in DraftOf(l)[who]
  BY DEF DraftOf
<1>4. /\ TextOf(l)' = i.words /\ AuthorOf(l)' = who.principal /\ DraftOf(l)' = [w \in Writers |-> {}]
      /\ \A k \in Lines \ {l} :
           TextOf(k)' = TextOf(k) /\ AuthorOf(k)' = AuthorOf(k) /\ DraftOf(k)' = DraftOf(k)
  BY <1>1, RecordIsSaid
<1>5. Promise!Say(l, i.words, who.principal)
  BY <1>4 DEF Promise!Say, Promise!NoDrafts, Promise!Writers, Writers
<1>6. [k \in Lines |-> HolderOf(k)]' \in
        {[k \in Lines |-> HolderOf(k)], [[k \in Lines |-> HolderOf(k)] EXCEPT ![l] = Nobody]}
  OBVIOUS
<1> QED
  BY <1>2, <1>3, <1>5, <1>6 DEF Promise!Publish

(* Any other version recorded replaces a text nobody holds, or that its    *)
(* author holds with nothing to lose.                                      *)
LEMMA RecordIsReplace ==
  ASSUME TypeOK, Shape, UNCHANGED <<base, iterations, lock, now>>,
         NEW l \in Lines, NEW words, NEW p, NEW by, Record(l, words, p, by),
         Live(l) => /\ lock[l].holder = p
                    /\ Drafts([principal |-> p, session |-> lock[l].session], l) = {}
  PROVE  Promise!Replace(l, words, p)
<1>1. \A k \in Lines : HolderOf(k)' = HolderOf(k)
  BY HeldAlike
<1>2. /\ TextOf(l)' = words /\ AuthorOf(l)' = p /\ DraftOf(l)' = [w \in Writers |-> {}]
      /\ \A k \in Lines \ {l} :
           TextOf(k)' = TextOf(k) /\ AuthorOf(k)' = AuthorOf(k) /\ DraftOf(k)' = DraftOf(k)
  BY RecordIsSaid
<1>3. Promise!Say(l, words, p)
  BY <1>2 DEF Promise!Say, Promise!NoDrafts, Promise!Writers, Writers
<1>4. TextOf(l) # NoText
  BY BegunSaysSomething, RecordAppends
<1>5. HolderOf(l) # Nobody => HolderOf(l).principal = p /\ DraftOf(l)[HolderOf(l)] = {}
  <2>1. SUFFICES ASSUME HolderOf(l) # Nobody
                 PROVE  HolderOf(l).principal = p /\ DraftOf(l)[HolderOf(l)] = {}
    OBVIOUS
  <2>2. Live(l) /\ HolderOf(l) \in Writers
    BY <2>1, BegunSaysSomething
  <2>3. HolderOf(l) = [principal |-> p, session |-> lock[l].session]
    BY <2>2 DEF HolderOf
  <2>4. LatestDrafts(HolderOf(l), l) = {}
    BY <2>2, <2>3 DEF LatestDrafts
  <2> QED
    BY <2>2, <2>3, <2>4 DEF DraftOf
<1> QED
  BY <1>1, <1>3, <1>4, <1>5 DEF Promise!Replace

(* A line diverged is begun with what it diverged from.                    *)
LEMMA DivergeIsBegin ==
  ASSUME TypeOK, Shape, Shape', TypeOK', NEW l \in Lines, NEW from, NEW language,
         from # NoVersion, Diverge(l, from, language)
  PROVE  Promise!Begin(l)
<1>1. /\ ~Begun(l) /\ UNCHANGED <<now, lock, iterations, versions>>
      /\ base'[l] = from /\ \A k \in Lines \ {l} : base'[k] = base[k]
  BY DEF Diverge, TypeOK
<1>2. Begun(l)' /\ \A k \in Lines \ {l} : HeadOf(k)' = HeadOf(k) /\ Begun(k)' = Begun(k)
  BY <1>1 DEF Begun, HeadOf
<1>3. \A i \in iterations : i.line # l
  BY <1>1 DEF Shape
<1>4. \A k \in Lines : HolderOf(k)' = HolderOf(k)
  BY <1>1, HeldAlike
<1>5. \A k \in Lines : DraftOf(k)' = DraftOf(k)
  <2>1. \A k \in Lines, w \in Writers : Drafts(w, k)' = Drafts(w, k)
    BY <1>1, <1>2, <1>3 DEF Drafts, IterationsOf
  <2> QED
    BY <2>1 DEF DraftOf, LatestDrafts
<1>6. \A k \in Lines \ {l} : TextOf(k)' = TextOf(k) /\ AuthorOf(k)' = AuthorOf(k)
  BY <1>1, <1>2 DEF TextOf, AuthorOf, WordsAt
<1>7. TextOf(l) = NoText /\ TextOf(l)' \in Words /\ AuthorOf(l)' \in Principals
  <2>1. TextOf(l) = NoText
    BY <1>1, BegunSaysSomething
  <2>2. LET h == HeadOf(l)' IN
        /\ h \in VersionIds /\ h.no \in 1..Len(versions'[h.line])
        /\ TextOf(l)' = versions'[h.line][h.no].words
        /\ AuthorOf(l)' = versions'[h.line][h.no].author
    BY <1>2 DEF Shape, TextOf, AuthorOf, WordsAt, Exists, HeadOf, TypeOK, VersionIds
  <2>3. \A k \in Lines : \A n \in 1..Len(versions'[k]) : versions'[k][n] \in Versions
    BY <1>1, VersionsAreVersions
  <2> QED
    BY <2>1, <2>2, <2>3 DEF Versions, VersionIds
<1> QED
  BY <1>4, <1>5, <1>6, <1>7 DEF Promise!Begin

(* The sweep takes no draft.                                               *)
LEMMA SweepIsNothing ==
  ASSUME TypeOK, Shape, SweepIterations
  PROVE  UNCHANGED Promise!vars
<1>1. /\ UNCHANGED <<now, lock, versions, base>>
      /\ iterations' = {i \in iterations : ~PastItsWindow(i)}
  BY DEF SweepIterations, lineVars
<1>2. ASSUME NEW l \in Lines, NEW i \in iterations, i.line = l, i.openedFrom = HeadOf(l)
      PROVE  ~PastItsWindow(i)
  <2>1. SUFFICES LaterCuts(i) = {}
    BY DEF PastItsWindow
  <2>2. CASE versions[l] = <<>>
    <3>1. 1..Len(versions[l]) = {}
      BY <2>2
    <3> QED
      BY <1>2, <3>1 DEF LaterCuts
  <2>3. CASE versions[l] # <<>>
    <3>1. i.openedFrom.line = l /\ i.openedFrom.no = Len(versions[l])
      BY <1>2, <2>3 DEF HeadOf
    <3>2. Len(versions[l]) \in Nat
      BY VersionsAreVersions
    <3> QED
      BY <1>2, <3>1, <3>2 DEF LaterCuts
  <2> QED
    BY <2>2, <2>3
<1>3. \A l \in Lines : HeadOf(l)' = HeadOf(l) /\ Begun(l)' = Begun(l)
  BY <1>1 DEF HeadOf, Begun
<1>4. \A l \in Lines, w \in Writers : Drafts(w, l)' = Drafts(w, l)
  BY <1>1, <1>2, <1>3 DEF Drafts, IterationsOf
<1>5. \A l \in Lines : DraftOf(l)' = DraftOf(l) /\ TextOf(l)' = TextOf(l) /\ AuthorOf(l)' = AuthorOf(l)
  BY <1>1, <1>3, <1>4 DEF DraftOf, LatestDrafts, TextOf, AuthorOf, WordsAt
<1>6. \A l \in Lines : HolderOf(l)' = HolderOf(l)
  BY <1>1, HeldAlike
<1> QED
  BY <1>5, <1>6 DEF Promise!vars

LEMMA StepKeepsThePromise ==
  ASSUME TypeOK, Shape, TypeOK', Shape', [Next]_vars
  PROVE  [Promise!Next]_Promise!vars
<1> DEFINE Kept == Promise!Next \/ UNCHANGED Promise!vars
<1>1. ASSUME NEW who \in Writers, NEW l \in Lines, ClaimLock(who, l) \/ TakeLock(who, l)
      PROVE  Kept
  BY <1>1, ClaimIsHold DEF Promise!Next, Promise!Writers, Writers
<1>2. ASSUME NEW who \in Writers, NEW l \in Lines, AskForLock(who, l)
      PROVE  Kept
  <2>1. /\ Live(l) /\ UNCHANGED <<now, versions, base, iterations>>
        /\ lock' = [lock EXCEPT ![l] = [lock[l] EXCEPT !.taking = {Ask(who)}]]
    BY <1>2 DEF AskForLock, lineVars
  <2>2. \A k \in Lines : HolderOf(k)' = HolderOf(k)
    <3>1. lock[l] \in LockRows
      BY <2>1, LiveLockHasARow
    <3>2. \A k \in Lines : /\ lock'[k].expires = lock[k].expires
                           /\ lock'[k].holder = lock[k].holder
                           /\ lock'[k].session = lock[k].session
      BY <2>1, <3>1 DEF TypeOK, LockRows
    <3> QED
      BY <2>1, <3>2 DEF HolderOf, Live
  <2> QED
    BY <2>1, <2>2, ReadAlike DEF Promise!vars
<1>3. ASSUME NEW who \in Writers, NEW l \in Lines, SaveIteration(who, l)
      PROVE  Kept
  BY <1>3, SaveIsWrite DEF Promise!Next
<1>4. ASSUME NEW who \in Writers, NEW l \in Lines, CutVersion(who, l)
      PROVE  Kept
  <2>1. Promote(who, l) /\ UNCHANGED <<base, iterations, lock, now>>
    BY <1>4 DEF CutVersion, lineVars
  <2>2. Promise!Publish(l)
    BY <2>1, HeldAlike, CutIsPublish
  <2> QED
    BY <2>2 DEF Promise!Next
<1>5. ASSUME NEW who \in Writers, NEW l \in Lines, ReleaseLock(who, l)
      PROVE  Kept
  <2>1. /\ Promote(who, l) \/ UNCHANGED versions
        /\ UNCHANGED <<base, iterations, now>>
        /\ lock'[l] = NoLock /\ \A k \in Lines \ {l} : lock'[k] = lock[k]
    BY <1>5 DEF ReleaseLock, NothingToCut, lineVars, TypeOK
  <2>2. HolderOf(l)' = Nobody /\ \A k \in Lines \ {l} : HolderOf(k)' = HolderOf(k)
    BY <2>1, NoRowIsNobodys DEF HolderOf, Live
  <2>3. CASE Promote(who, l)
    <3>1. Promise!Publish(l)
      BY <2>1, <2>2, <2>3, CutIsPublish
    <3> QED
      BY <3>1 DEF Promise!Next
  <2>4. CASE UNCHANGED versions
    <3>1. \E freed \in SUBSET Lines : Promise!Free(freed)
      BY <2>1, <2>2, <2>4, LapseIsFree
    <3> QED
      BY <3>1 DEF Promise!Next
  <2> QED
    BY <2>1, <2>3, <2>4
<1>6. ASSUME NEW l \in Lines, NEW words \in Words, NEW p \in Principals, NEW by,
             Record(l, words, p, by), UNCHANGED <<base, iterations, lock, now>>,
             Live(l) => /\ lock[l].holder = p
                        /\ Drafts([principal |-> p, session |-> lock[l].session], l) = {}
      PROVE  Kept
  BY <1>6, RecordIsReplace DEF Promise!Next
<1>7. ASSUME NEW p \in Principals, NEW l \in Lines, RestoreVersion(p, l)
      PROVE  Kept
  <2>1. PICK n \in 1..Len(versions[l]) : Record(l, versions[l][n].words, p, {})
    BY <1>7 DEF RestoreVersion
  <2>2. versions[l][n].words \in Words
    BY VersionsAreVersions DEF Versions
  <2> QED
    BY <1>6, <1>7, <2>1, <2>2 DEF RestoreVersion, lineVars
<1>8. ASSUME NEW p \in Principals, NEW l \in Lines, CutReturned(p, l)
      PROVE  Kept
  BY <1>6, <1>8 DEF CutReturned, MayReturn, lineVars
<1>9. ASSUME UNCHANGED <<versions, base, iterations, lock, now>>
      PROVE  Kept
  BY <1>9, ReadAlike, HeldAlike DEF Promise!vars
<1>10. ASSUME NEW p \in Principals, NEW l \in Lines, BringLineBack(p, l)
       PROVE  Kept
  BY <1>6, <1>9, <1>10, MainIsALine DEF BringLineBack
<1>11. ASSUME NEW p \in Principals, AcceptSuggestion(p)
       PROVE  Kept
  BY <1>6, <1>11, MainIsALine DEF AcceptSuggestion, MayAccept, lineVars
<1>12. ASSUME NEW l \in Lines, NEW k \in Lines, NEW n \in 1..MaxVersions,
              NEW language \in BOOLEAN, Diverge(l, [line |-> k, no |-> n], language)
       PROVE  Kept
  <2>1. [line |-> k, no |-> n] # NoVersion
    BY CountsAssumption DEF NoVersion
  <2>2. Promise!Begin(l)
    BY <1>12, <2>1, DivergeIsBegin
  <2> QED
    BY <2>2 DEF Promise!Next
<1>13. ASSUME MoveToSpace \/ Tick
       PROVE  Kept
  <2>1. UNCHANGED <<versions, base, iterations>>
    BY <1>13 DEF MoveToSpace, Tick, lineVars
  <2>2. \A l \in Lines : HolderOf(l)' \in {HolderOf(l), Nobody}
    <3>1. CASE MoveToSpace
      BY <3>1, NoRowIsNobodys DEF MoveToSpace
    <3>2. CASE Tick
      BY <3>2, LiveBeforeTheTick DEF Tick, HolderOf
    <3> QED
      BY <1>13, <3>1, <3>2
  <2>3. \E freed \in SUBSET Lines : Promise!Free(freed)
    BY <2>1, <2>2, LapseIsFree
  <2> QED
    BY <2>3 DEF Promise!Next
<1>14. CASE SweepIterations
  BY <1>14, SweepIsNothing
<1>15. CASE DeleteArtifact \/ UndeleteArtifact \/ SetEditingPolicy \/ UNCHANGED vars
  BY <1>9, <1>15 DEF DeleteArtifact, UndeleteArtifact, SetEditingPolicy, vars, lineVars
<1> QED
  BY <1>1, <1>2, <1>3, <1>4, <1>5, <1>7, <1>8, <1>10, <1>11, <1>12, <1>13, <1>14, <1>15 DEF Next

LEMMA InitPromises ==
  ASSUME Init, TypeOK, Shape
  PROVE  Promise!Init
<1>1. \A l \in Lines : HolderOf(l) = Nobody
  BY DEF Init, HolderOf, Live, NoLock
<1>2. \A l \in Lines : TextOf(l) \in Words \cup {NoText} /\ AuthorOf(l) \in Principals
  BY BegunSaysSomething
<1>3. \A l \in Lines : DraftOf(l) = [w \in Writers |-> {}]
  BY DEF Init, DraftOf, LatestDrafts, Drafts, IterationsOf
<1> QED
  BY <1>1, <1>2, <1>3 DEF Promise!Init, Promise!NoDrafts, Promise!Writers, Writers

(* The tables keep what editing promises: every step of theirs, of any     *)
(* requests in any order, is a step of one writer at a time, or none.      *)
THEOREM ThePromiseIsKept == Spec => KeepsThePromise
<1>1. Init /\ TypeOK => Shape /\ Promise!Init
  BY InitHasShape, InitPromises
<1>2. TypeOK /\ Shape /\ [Next]_vars => Shape'
  BY StepKeepsShape
<1>3. TypeOK /\ Shape /\ TypeOK' /\ Shape' /\ [Next]_vars => [Promise!Next]_Promise!vars
  BY StepKeepsThePromise
<1> QED
  BY <1>1, <1>2, <1>3, TypeCorrect, PTL DEF Spec, KeepsThePromise, Promise!Spec
=============================================================================
