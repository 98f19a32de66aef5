----------------------------- MODULE KeyedProofs ------------------------------
(***************************************************************************)
(* What an idempotency key keeps for any number of requests and any acts.  *)
(***************************************************************************)
EXTENDS Keyed, TLAPS

(* Why one is enough: nothing is kept while its reader holds the lock.     *)
ReadHolds == holder # Nothing => record = Nothing
IInv == TypeOK /\ DoneOnceADay /\ ReadHolds

(* A request's own step, which sets its own call and perhaps the lock.     *)
LEMMA CallChanged ==
  ASSUME TypeOK, NEW s \in Sends, NEW state \in {"answered", "refused", "after", "deciding", "making"},
         Gets(s, state)
  PROVE  /\ call' \in [Sends -> Calls]
         /\ call'[s].at = state /\ call'[s].act = call[s].act
         /\ \A q \in Sends \ {s} : call'[q] = call[q]
<1>1. call \in [Sends -> Calls] /\ call[s] \in Calls
  BY DEF TypeOK
<1>2. [call[s] EXCEPT !.at = state] \in Calls /\ [call[s] EXCEPT !.at = state].at = state
      /\ [call[s] EXCEPT !.at = state].act = call[s].act
  BY <1>1 DEF Calls
<1>3. call' = [call EXCEPT ![s] = [call[s] EXCEPT !.at = state]]
  BY <1>1 DEF Gets
<1> QED
  BY <1>1, <1>2, <1>3

LEMMA RecallKeepsIt ==
  ASSUME IInv, NEW s \in Sends, NEW working \in {"deciding", "making"},
         call[s].at \in {"sent", "after"}, Recall(s, working)
  PROVE  IInv'
<1> USE KeyedAssumption
<1>1. holder = Nothing /\ record' = record /\ worked' = worked
  BY DEF Recall, MayRecall
<1>2. CASE record = Nothing /\ Gets(s, working) /\ holder' = s
  BY <1>1, <1>2, CallChanged DEF IInv, TypeOK, DoneOnceADay, ReadHolds
<1>3. CASE /\ record # Nothing /\ UNCHANGED holder
           /\ Gets(s, IF record = call[s].act THEN "answered" ELSE "refused")
  <2>1. PICK state \in {"answered", "refused"} : Gets(s, state)
    BY <1>3
  <2> QED
    BY <1>1, <1>3, <2>1, CallChanged DEF IInv, TypeOK, DoneOnceADay, ReadHolds
<1> QED
  BY <1>2, <1>3 DEF Recall

LEMMA StepKeepsIt ==
  ASSUME IInv, [Next]_vars
  PROVE  IInv'
<1> USE KeyedAssumption
<1>1. ASSUME NEW s \in Sends, NEW act \in Acts, Send(s, act)
      PROVE  IInv'
  <2>1. [at |-> "sent", act |-> act] \in Calls
    BY DEF Calls
  <2> QED
    BY <1>1, <2>1 DEF IInv, TypeOK, DoneOnceADay, ReadHolds, Send
<1>2. ASSUME NEW s \in Sends, Decide(s) \/ Make(s)
      PROVE  IInv'
  BY <1>2, RecallKeepsIt DEF Decide, Make
<1>3. ASSUME NEW s \in Sends, Defer(s)
      PROVE  IInv'
  BY <1>3, CallChanged DEF IInv, TypeOK, DoneOnceADay, ReadHolds, Defer, Letting
<1>4. ASSUME NEW s \in Sends, Keep(s)
      PROVE  IInv'
  <2>1. call[s].at \in {"deciding", "making"} /\ call[s] \in Calls
    BY <1>4 DEF Keep, IInv, TypeOK
  <2>2. holder = s /\ record = Nothing /\ worked = 0
    BY <2>1 DEF IInv, TypeOK, DoneOnceADay, ReadHolds
  <2>3. call[s].act \in Acts
    BY <2>1 DEF IInv, TypeOK, Calls
  <2> QED
    BY <1>4, <2>1, <2>2, <2>3, CallChanged
    DEF IInv, TypeOK, DoneOnceADay, ReadHolds, Keep, Letting
<1>5. ASSUME NEW s \in Sends, Refuse(s)
      PROVE  IInv'
  <2>1. Gets(s, "refused") /\ record' = record /\ worked' = worked
    BY <1>5 DEF Refuse
  <2>2. holder' = IF holder = s THEN Nothing ELSE holder
    BY <1>5 DEF Refuse, Letting
  <2>3. /\ call' \in [Sends -> Calls]
        /\ call'[s].at = "refused" /\ call'[s].act = call[s].act
        /\ \A q \in Sends \ {s} : call'[q] = call[q]
    BY <2>1, CallChanged DEF IInv
  <2>4. call[s].at \in {"deciding", "after", "making"}
    BY <1>5 DEF Refuse
  <2>5. /\ holder' \in Sends \cup {Nothing}
        /\ holder' # s
        /\ \A q \in Sends \ {s} : holder = q <=> holder' = q
    BY <2>2 DEF IInv, TypeOK
  <2> QED
    BY <2>1, <2>2, <2>3, <2>4, <2>5 DEF IInv, TypeOK, DoneOnceADay, ReadHolds
<1>6. CASE DayEnds
  BY <1>6 DEF IInv, TypeOK, DoneOnceADay, ReadHolds, DayEnds
<1>7. CASE UNCHANGED vars
  BY <1>7 DEF IInv, TypeOK, DoneOnceADay, ReadHolds, vars
<1> QED
  BY <1>1, <1>2, <1>3, <1>4, <1>5, <1>6, <1>7 DEF Next, Answers

(* However many requests come with a key at once, and whenever its record  *)
(* lapses, its lock is held by just the one whose transaction read it.     *)
THEOREM TypeCorrect == Spec => []TypeOK
<1>1. Init => IInv
  BY KeyedAssumption DEF Init, IInv, TypeOK, DoneOnceADay, ReadHolds, Calls
<1>2. IInv /\ [Next]_vars => IInv'
  BY StepKeepsIt
<1> QED
  BY <1>1, <1>2, PTL DEF Spec, IInv

(* However many requests come with a key at once, in whatever order their  *)
(* transactions begin, commit, defer and roll back, its work is done once  *)
(* in its record's day.                                                    *)
THEOREM WorkedOnceADay == Spec => []DoneOnceADay
<1>1. Init => IInv
  BY KeyedAssumption DEF Init, IInv, TypeOK, DoneOnceADay, ReadHolds, Calls
<1>2. IInv /\ [Next]_vars => IInv'
  BY StepKeepsIt
<1> QED
  BY <1>1, <1>2, PTL DEF Spec, IInv
=============================================================================
