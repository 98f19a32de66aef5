---------------------------- MODULE WebhooksProofs ----------------------------
(***************************************************************************)
(* What a webhook's deliveries keep for any workers, deliveries and days.  *)
(***************************************************************************)
EXTENDS Webhooks, TLAPS

Rows == {row \in Deliveries : row.heldBy # {} => row.state = "pending"}

(* Inductive with the bound on what is queued, which puts every delivery   *)
(* within each pass.                                                       *)
Bounded == Len(deliveries) <= MaxDeliveries
TypeInv == TypeOK /\ Bounded

LEMMA RowIsARow ==
  ASSUME TypeOK, NEW d \in DOMAIN deliveries
  PROVE  deliveries[d] \in Rows
BY DEF TypeOK, Rows, Pending

LEMMA InEachPass ==
  ASSUME TypeInv, NEW d \in DOMAIN deliveries
  PROVE  d \in 1..MaxDeliveries
BY WebhooksAssumption DEF TypeInv, TypeOK, Bounded, WebhooksAssumption

(* Rows put where rows stood.                                              *)
LEMMA StillRows ==
  ASSUME TypeInv, deliveries' \in [DOMAIN deliveries -> Rows]
  PROVE  /\ deliveries' \in Seq(Deliveries) /\ DOMAIN deliveries' = DOMAIN deliveries
         /\ \A d \in DOMAIN deliveries' : deliveries'[d].heldBy # {} => Pending(d)'
         /\ Bounded'
<1>1. deliveries \in Seq(Deliveries) /\ Len(deliveries) \in Nat /\ Bounded
  BY DEF TypeInv, TypeOK
<1>2. deliveries' \in [1..Len(deliveries) -> Rows]
  BY <1>1
<1>3. deliveries' \in [1..Len(deliveries) -> Deliveries]
  BY <1>2 DEF Rows
<1>4. deliveries' \in Seq(Deliveries) /\ Len(deliveries') = Len(deliveries)
  BY <1>1, <1>3
<1>5. \A d \in DOMAIN deliveries' : deliveries'[d].heldBy # {} => Pending(d)'
  BY <1>2 DEF Rows, Pending
<1> QED
  BY <1>1, <1>2, <1>4, <1>5 DEF Bounded

LEMMA RowChanged ==
  ASSUME TypeInv, NEW d \in DOMAIN deliveries, NEW row \in Rows,
         deliveries' = [deliveries EXCEPT ![d] = row]
  PROVE  deliveries' \in [DOMAIN deliveries -> Rows]
<1>1. deliveries \in [DOMAIN deliveries -> Rows]
  <2>1. deliveries \in [1..Len(deliveries) -> Deliveries]
    BY DEF TypeInv, TypeOK
  <2>2. \A e \in DOMAIN deliveries : deliveries[e] \in Rows
    BY RowIsARow DEF TypeInv
  <2> QED
    BY <2>1, <2>2
<1> QED
  BY <1>1

(* What Ended leaves of a row.                                             *)
LEMMA EndedIsARow ==
  ASSUME NEW row \in Deliveries,
         NEW state \in {"pending", "delivered", "given_up", "dropped", "deleted"}
  PROVE  /\ Ended(row, state) \in Rows /\ Ended(row, state).state = state
         /\ Ended(row, state).heldBy = {}
         /\ [Ended(row, state) EXCEPT !.due = FALSE] \in Rows
         /\ \A S, T \in Moments :
              /\ [Ended(row, state) EXCEPT !.lastAttempt = S] \in Rows
              /\ [Ended(row, state) EXCEPT !.firstAttempt = S, !.lastAttempt = T] \in Rows
<1>1. /\ Ended(row, state) \in Deliveries /\ Ended(row, state).state = state
      /\ Ended(row, state).heldBy = {}
  BY DEF Ended, Deliveries
<1> QED
  BY <1>1 DEF Deliveries, Rows

LEMMA RowsWithout ==
  ASSUME TypeInv, NEW S, deliveries' = Without(S)
  PROVE  deliveries' \in [DOMAIN deliveries -> Rows]
<1>1. Gone \in Rows
  BY DEF Gone, Rows, Deliveries, Moments
<1>2. \A d \in DOMAIN deliveries : deliveries[d] \in Rows
  BY RowIsARow DEF TypeInv
<1> QED
  BY <1>1, <1>2 DEF Without

LEMMA RowsClaimed ==
  ASSUME TypeInv, NEW w \in Workers, ClaimDeliveries(w)
  PROVE  deliveries' \in [DOMAIN deliveries -> Rows]
<1>1. ASSUME NEW d \in DOMAIN deliveries, Due(d)
      PROVE  [deliveries[d] EXCEPT !.heldBy = {w}, !.lapsed = FALSE] \in Rows
  <2>1. deliveries[d] \in Deliveries /\ deliveries[d].state = "pending"
    BY <1>1, RowIsARow DEF TypeInv, Rows, Due, Pending
  <2> QED
    BY <2>1 DEF Deliveries, Rows
<1>2. \A d \in DOMAIN deliveries : deliveries[d] \in Rows
  BY RowIsARow DEF TypeInv
<1> QED
  BY <1>1, <1>2 DEF ClaimDeliveries

(* A moment grown older is one, and a row grown older the same but for its *)
(* moments.                                                                *)
LEMMA OlderIsAMoment ==
  ASSUME NEW moment \in Moments, NEW most \in Nat
  PROVE  Older(moment, most) \in Moments
BY DEF Older, Moments

OnlyAged(d) ==
  /\ deliveries'[d].state = deliveries[d].state
  /\ deliveries'[d].heldBy = deliveries[d].heldBy
  /\ deliveries'[d].lapsed = deliveries[d].lapsed

LEMMA RowsAged ==
  ASSUME TypeInv, Tick
  PROVE  /\ deliveries' \in [DOMAIN deliveries -> Rows]
         /\ \A d \in DOMAIN deliveries : OnlyAged(d)
         /\ subscription' \in Subscriptions
<1>0. Day \in Nat /\ Day + 1 \in Nat /\ FailingFor \in Nat
  BY WebhooksAssumption DEF WebhooksAssumption
<1>1. ASSUME NEW row \in Rows, NEW first \in Moments, NEW last \in Moments
      PROVE  LET aged == [row EXCEPT !.firstAttempt = first, !.lastAttempt = last] IN
             /\ aged \in Rows /\ aged.state = row.state /\ aged.heldBy = row.heldBy
             /\ aged.lapsed = row.lapsed
  BY DEF Rows, Deliveries
<1>2. ASSUME NEW d \in DOMAIN deliveries
      PROVE  deliveries'[d] \in Rows /\ OnlyAged(d)
  <2> DEFINE row == deliveries[d]
             first == Older(row.firstAttempt, Day)
             last == Older(row.lastAttempt, Day + 1)
  <2>1. deliveries[d] \in Rows
    BY RowIsARow DEF TypeInv
  <2>2. first \in Moments /\ last \in Moments
    BY <1>0, <2>1, OlderIsAMoment DEF Rows, Deliveries
  <2>3. deliveries'[d] = [row EXCEPT !.firstAttempt = first, !.lastAttempt = last]
    BY <2>1 DEF Tick, Rows, Deliveries
  <2> HIDE DEF first, last
  <2>4. LET aged == [row EXCEPT !.firstAttempt = first, !.lastAttempt = last] IN
        /\ aged \in Rows /\ aged.state = row.state /\ aged.heldBy = row.heldBy
        /\ aged.lapsed = row.lapsed
    BY <1>1, <2>1, <2>2
  <2> QED
    BY <2>3, <2>4 DEF OnlyAged
<1>3. subscription' \in Subscriptions
  <2>1. subscription \in Subscriptions
    BY DEF TypeInv, TypeOK
  <2>2. /\ Older(subscription.failingSince, FailingFor) \in Moments
        /\ Older(subscription.lastSuccess, FailingFor) \in Moments
    BY <1>0, <2>1, OlderIsAMoment DEF Subscriptions
  <2>3. subscription' = [subscription EXCEPT
          !.failingSince = Older(subscription.failingSince, FailingFor),
          !.lastSuccess = Older(subscription.lastSuccess, FailingFor)]
    BY <2>1 DEF Tick, Subscriptions
  <2> QED
    BY <2>1, <2>2, <2>3 DEF Subscriptions
<1>4. deliveries' = [d \in DOMAIN deliveries |-> deliveries'[d]]
  BY DEF Tick
<1> QED
  BY <1>2, <1>3, <1>4

(* The row an attempt leaves.                                              *)
LEMMA AttemptedIsARow ==
  ASSUME TypeInv, NEW d \in DOMAIN deliveries,
         NEW state \in {"pending", "delivered", "given_up"}
  PROVE  Attempted(d, state) \in Rows
<1>1. deliveries[d] \in Deliveries
  BY RowIsARow DEF TypeInv, Rows
<1>2. Ended(deliveries[d], state).firstAttempt = deliveries[d].firstAttempt
  BY <1>1 DEF Ended, Deliveries
<1>3. Coalesce(deliveries[d].firstAttempt) \in Moments /\ Now \in Moments
  BY <1>1 DEF Coalesce, Now, Moments, Deliveries
<1>4. Attempted(d, state) =
        [Ended(deliveries[d], state) EXCEPT !.due = FALSE,
           !.firstAttempt = Coalesce(deliveries[d].firstAttempt), !.lastAttempt = Now]
  BY <1>1, <1>2 DEF Attempted, Ended, Deliveries
<1>5. /\ Ended(deliveries[d], state) \in Deliveries
      /\ Ended(deliveries[d], state).heldBy = {}
  BY <1>1, EndedIsARow DEF Rows
<1> QED
  BY <1>3, <1>4, <1>5 DEF Deliveries, Rows

LEMMA CountedFrom ==
  ASSUME TypeOK
  PROVE  FailingSince \in Moments /\ Now \in Moments
BY DEF TypeOK, FailingSince, Coalesce, Now, Moments, Subscriptions

LEMMA RowsRecorded ==
  ASSUME TypeInv, NEW w \in Workers, NEW d \in DOMAIN deliveries, RecordAttempt(w, d)
  PROVE  /\ deliveries' \in [DOMAIN deliveries -> Rows]
         /\ subscription' \in Subscriptions
<1>1. /\ deliveries[d] \in Deliveries /\ subscription \in Subscriptions
      /\ Now \in Moments /\ {} \in Moments /\ FailingSince \in Moments
  BY RowIsARow, CountedFrom DEF TypeInv, TypeOK, Rows, Moments
<1>2. CASE Answered(d)
  <2>1. deliveries' \in [DOMAIN deliveries -> Rows]
    BY <1>2, AttemptedIsARow, RowChanged DEF Answered
  <2>2. subscription' \in Subscriptions
    BY <1>1, <1>2 DEF Answered, Succeeded, Subscriptions
  <2> QED
    BY <2>1, <2>2
<1>3. CASE Busy(d)
  <2>1. /\ [Ended(deliveries[d], "pending") EXCEPT !.due = FALSE] \in Rows
        /\ deliveries' = [deliveries EXCEPT ![d] =
             [Ended(deliveries[d], "pending") EXCEPT !.due = FALSE]]
    BY <1>1, <1>3, EndedIsARow DEF Busy, TypeInv, TypeOK
  <2> QED
    BY <1>1, <1>3, <2>1, RowChanged DEF Busy
<1>4. CASE Unreadable(d)
  <2>1. /\ [Ended(deliveries[d], "dropped") EXCEPT !.lastAttempt = Now] \in Rows
        /\ deliveries' = [deliveries EXCEPT ![d] =
             [Ended(deliveries[d], "dropped") EXCEPT !.lastAttempt = Now]]
    BY <1>1, <1>4, EndedIsARow DEF Unreadable, TypeInv, TypeOK
  <2> QED
    BY <1>1, <1>4, <2>1, RowChanged DEF Unreadable
<1>5. CASE Failed(d)
  <2> DEFINE tried == \E age \in Coalesce(deliveries[d].firstAttempt) : age >= Day
             row == Attempted(d, IF tried THEN "given_up" ELSE "pending")
             rows == [deliveries EXCEPT ![d] = row]
  <2>1. row \in Rows
    BY AttemptedIsARow
  <2>2. rows \in [DOMAIN deliveries -> Rows]
    <3>1. deliveries \in [DOMAIN deliveries -> Rows]
      BY <1>1, RowIsARow DEF TypeInv, TypeOK
    <3> HIDE DEF row
    <3> QED
      BY <2>1, <3>1
  <2>3. deliveries' = IF Disabling
          THEN [e \in DOMAIN rows |->
                  IF rows[e].state = "pending" THEN Ended(rows[e], "given_up") ELSE rows[e]]
          ELSE rows
    BY <1>5 DEF Failed
  <2>4. subscription' \in Subscriptions
    BY <1>1, <1>5 DEF Failed, Subscriptions
  <2> HIDE DEF rows
  <2>5. \A e \in DOMAIN rows : rows[e] \in Rows /\ Ended(rows[e], "given_up") \in Rows
    BY <2>2, EndedIsARow DEF Rows
  <2> QED
    BY <2>2, <2>3, <2>4, <2>5
<1>6. CASE UNCHANGED <<subscription, deliveries>>
  <2>1. deliveries \in [DOMAIN deliveries -> Rows]
    BY RowIsARow DEF TypeInv, TypeOK
  <2> QED
    BY <1>1, <1>6, <2>1
<1> QED
  BY <1>2, <1>3, <1>4, <1>5, <1>6 DEF RecordAttempt

(* Every step keeps what the columns may hold, what waits alone leased,    *)
(* and no more queued than the bound.                                      *)
LEMMA StepKeepsTheType ==
  ASSUME TypeInv, [Next]_vars
  PROVE  TypeInv'
<1>0. /\ troubles \in Nat /\ subscription \in Subscriptions
      /\ deliveries \in Seq(Deliveries)
      /\ pass \in [Workers -> [1..MaxDeliveries -> Outcomes \cup {"none", "claimed"}]]
  BY DEF TypeInv, TypeOK
<1> DEFINE Rest == /\ troubles' \in Nat /\ subscription' \in Subscriptions
                   /\ pass' \in [Workers -> [1..MaxDeliveries ->
                                               Outcomes \cup {"none", "claimed"}]]
<1>a. ASSUME Rest, deliveries' \in [DOMAIN deliveries -> Rows]
      PROVE  TypeInv'
  BY <1>a, StillRows DEF TypeInv, TypeOK
<1>b. ASSUME Rest, UNCHANGED deliveries
      PROVE  TypeInv'
  BY <1>b DEF TypeInv, TypeOK, Bounded, Pending
<1>1. CASE QueueDelivery
  <2> DEFINE row == [state |-> "pending", due |-> TRUE, heldBy |-> {}, lapsed |-> FALSE,
                     firstAttempt |-> {}, lastAttempt |-> {}]
  <2>1. row \in Deliveries /\ row.heldBy = {}
    BY <1>0 DEF Deliveries, Moments
  <2>2. deliveries' = Append(deliveries, row) /\ Len(deliveries) < MaxDeliveries
    BY <1>1 DEF QueueDelivery
  <2> HIDE DEF row
  <2>3. /\ deliveries' \in Seq(Deliveries) /\ Len(deliveries') = Len(deliveries) + 1
        /\ DOMAIN deliveries' = DOMAIN deliveries \cup {Len(deliveries) + 1}
        /\ \A d \in DOMAIN deliveries : deliveries'[d] = deliveries[d]
        /\ deliveries'[Len(deliveries) + 1] = row
    BY <1>0, <2>1, <2>2
  <2>4. \A d \in DOMAIN deliveries' : deliveries'[d].heldBy # {} => Pending(d)'
    BY <2>1, <2>3 DEF TypeInv, TypeOK, Pending
  <2>5. Bounded'
    BY <1>0, <2>2, <2>3, WebhooksAssumption DEF Bounded, WebhooksAssumption
  <2> QED
    BY <1>0, <1>1, <2>3, <2>4, <2>5 DEF QueueDelivery, TypeInv, TypeOK
<1>2. CASE ChangeWebhookSubscription
  <2>1. Rest
    BY <1>0, <1>2 DEF ChangeWebhookSubscription, Subscriptions, Moments
  <2> HIDE DEF Rest
  <2> QED
    BY <1>2, <1>a, <2>1, RowsWithout DEF ChangeWebhookSubscription
<1>3. CASE DisableIdentity
  BY <1>0, <1>3, <1>b DEF DisableIdentity, Subscriptions
<1>4. CASE SweepWebhookDeliveries
  BY <1>0, <1>4, <1>a, RowsWithout DEF SweepWebhookDeliveries
<1>5. CASE Tick
  <2>1. Rest
    BY <1>0, <1>5, RowsAged DEF Tick
  <2> HIDE DEF Rest
  <2> QED
    BY <1>5, <1>a, <2>1, RowsAged
<1>6. ASSUME NEW w \in Workers, ClaimDeliveries(w)
      PROVE  TypeInv'
  <2>1. Rest
    BY <1>0, <1>6 DEF ClaimDeliveries
  <2> HIDE DEF Rest
  <2> QED
    BY <1>6, <1>a, <2>1, RowsClaimed
<1>7. ASSUME NEW w \in Workers, Stop(w)
      PROVE  TypeInv'
  BY <1>0, <1>7, <1>b DEF Stop, Trouble, NoPass
<1>8. ASSUME NEW w \in Workers, NEW d \in DOMAIN deliveries, Deliver(w, d) \/ AttemptThrows(w, d)
      PROVE  TypeInv'
  <2>1. PICK outcome \in Outcomes \cup {"none", "claimed"} :
          pass' = [pass EXCEPT ![w][d] = outcome]
    BY <1>8 DEF Deliver, AttemptThrows
  <2>2. /\ UNCHANGED <<subscription, deliveries>> /\ troubles' \in Nat
    BY <1>0, <1>8 DEF Deliver, AttemptThrows, Trouble
  <2>3. Rest
    BY <1>0, <2>1, <2>2
  <2> HIDE DEF Rest
  <2> QED
    BY <1>b, <2>2, <2>3
<1>9. ASSUME NEW w \in Workers, NEW d \in DOMAIN deliveries, RecordAttempt(w, d)
      PROVE  TypeInv'
  <2>1. Rest
    BY <1>0, <1>9, RowsRecorded DEF RecordAttempt
  <2> HIDE DEF Rest
  <2> QED
    BY <1>9, <1>a, <2>1, RowsRecorded
<1>10. ASSUME NEW d \in DOMAIN deliveries, LeaseLapses(d) \/ FallsDue(d)
      PROVE  TypeInv'
  <2>1. /\ [deliveries[d] EXCEPT !.lapsed = TRUE] \in Rows
        /\ [deliveries[d] EXCEPT !.due = TRUE] \in Rows
    BY RowIsARow DEF TypeInv, Rows, Deliveries
  <2>2. \/ deliveries' = [deliveries EXCEPT ![d] = [deliveries[d] EXCEPT !.lapsed = TRUE]]
        \/ deliveries' = [deliveries EXCEPT ![d] = [deliveries[d] EXCEPT !.due = TRUE]]
    BY <1>0, <1>10 DEF LeaseLapses, FallsDue
  <2>3. Rest
    BY <1>0, <1>10 DEF LeaseLapses, FallsDue, Trouble
  <2> HIDE DEF Rest
  <2> QED
    BY <1>a, <2>1, <2>2, <2>3, RowChanged
<1>11. CASE UNCHANGED vars
  BY <1>0, <1>11, <1>b DEF vars
<1> QED
  BY <1>1, <1>2, <1>3, <1>4, <1>5, <1>6, <1>7, <1>8, <1>9, <1>10, <1>11 DEF Next

LEMMA TypeInductive == Spec => []TypeInv
<1>1. Init => TypeInv
  BY WebhooksAssumption
  DEF WebhooksAssumption, Init, TypeInv, TypeOK, Bounded, Subscriptions, Moments, NoPass
<1>2. TypeInv /\ [Next]_vars => TypeInv'
  BY StepKeepsTheType
<1> QED
  BY <1>1, <1>2, PTL DEF Spec

(* The tables hold what their columns may, and only what waits is leased,  *)
(* whatever is queued, sent, recorded, changed, swept and lost.            *)
THEOREM WebhooksTypeCorrect == Spec => []TypeOK
<1>1. TypeInv => TypeOK
  BY DEF TypeInv
<1> QED
  BY <1>1, TypeInductive, PTL

-----------------------------------------------------------------------------
(* What FencedByTheLease says of one step, one worker and one delivery.    *)
Fenced(w, d) ==
  (deliveries[d].heldBy = {w} /\ ~deliveries[d].lapsed /\ pass[w][d] # "none")
    => \/ deliveries'[d].heldBy = {w}
       \/ deliveries'[d].state \in {"given_up", "deleted"}
       \/ pass'[w][d] = "none"

LEMMA StepIsFenced ==
  ASSUME TypeInv, [Next]_vars, NEW w \in Workers, NEW d \in DOMAIN deliveries
  PROVE  Fenced(w, d)
<1> SUFFICES ASSUME deliveries[d].heldBy = {w}, ~deliveries[d].lapsed, pass[w][d] # "none"
             PROVE  \/ deliveries'[d].heldBy = {w}
                    \/ deliveries'[d].state \in {"given_up", "deleted"}
                    \/ pass'[w][d] = "none"
  BY DEF Fenced
<1>0. /\ deliveries \in Seq(Deliveries) /\ deliveries[d] \in Deliveries
      /\ pass \in [Workers -> [1..MaxDeliveries -> Outcomes \cup {"none", "claimed"}]]
      /\ d \in 1..MaxDeliveries
  BY RowIsARow, InEachPass DEF TypeInv, TypeOK, Rows
<1>a. ASSUME deliveries'[d] = deliveries[d]
      PROVE  deliveries'[d].heldBy = {w}
  BY <1>a
<1>1. CASE QueueDelivery
  BY <1>0, <1>1, <1>a DEF QueueDelivery
<1>2. CASE ChangeWebhookSubscription \/ SweepWebhookDeliveries
  <2>1. PICK S : deliveries' = Without(S)
    BY <1>2 DEF ChangeWebhookSubscription, SweepWebhookDeliveries
  <2>2. CASE d \in S
    BY <2>1, <2>2 DEF Without, Gone
  <2>3. CASE d \notin S
    BY <1>a, <2>1, <2>3 DEF Without
  <2> QED
    BY <2>2, <2>3
<1>3. CASE DisableIdentity \/ Tick \/ UNCHANGED vars
  BY <1>3, RowsAged DEF DisableIdentity, OnlyAged, vars
<1>4. ASSUME NEW v \in Workers, ClaimDeliveries(v)
      PROVE  deliveries'[d].heldBy = {w}
  <2>1. ~Due(d)
    BY DEF Due
  <2> QED
    BY <1>4, <2>1 DEF ClaimDeliveries
<1>5. ASSUME NEW v \in Workers, Stop(v)
      PROVE  deliveries'[d].heldBy = {w}
  BY <1>5 DEF Stop
<1>6. ASSUME NEW e \in DOMAIN deliveries, LeaseLapses(e) \/ FallsDue(e)
      PROVE  deliveries'[d].heldBy = {w}
  <2>1. \/ deliveries' = [deliveries EXCEPT ![e] = [deliveries[e] EXCEPT !.lapsed = TRUE]]
        \/ deliveries' = [deliveries EXCEPT ![e] = [deliveries[e] EXCEPT !.due = TRUE]]
    BY <1>0, <1>6 DEF LeaseLapses, FallsDue
  <2>2. /\ [deliveries[d] EXCEPT !.lapsed = TRUE].heldBy = {w}
        /\ [deliveries[d] EXCEPT !.due = TRUE].heldBy = {w}
    BY <1>0 DEF Deliveries
  <2>3. CASE e = d
    BY <1>0, <2>1, <2>2, <2>3
  <2>4. CASE e # d
    BY <1>0, <1>a, <2>1, <2>4
  <2> QED
    BY <2>3, <2>4
<1>7. ASSUME NEW v \in Workers, NEW e \in DOMAIN deliveries, Deliver(v, e) \/ AttemptThrows(v, e)
      PROVE  deliveries'[d].heldBy = {w}
  BY <1>7 DEF Deliver, AttemptThrows
<1>8. ASSUME NEW v \in Workers, NEW e \in DOMAIN deliveries, RecordAttempt(v, e)
      PROVE  \/ deliveries'[d].heldBy = {w}
             \/ deliveries'[d].state \in {"given_up", "deleted"}
             \/ pass'[w][d] = "none"
  <2>1. CASE ~UnderItsLease(v, e)
    BY <1>8, <2>1 DEF RecordAttempt
  <2>2. CASE UnderItsLease(v, e) /\ e = d
    <3>1. v = w
      BY <2>2 DEF UnderItsLease
    <3> QED
      BY <1>0, <1>8, <2>2, <3>1 DEF RecordAttempt
  <2>3. CASE e # d /\ ~Failed(e)
    <3>1. deliveries'[d] = deliveries[d]
      <4>1. CASE Answered(e)
        BY <1>0, <2>3, <4>1 DEF Answered
      <4>2. CASE Busy(e)
        BY <1>0, <2>3, <4>2 DEF Busy
      <4>3. CASE Unreadable(e)
        BY <1>0, <2>3, <4>3 DEF Unreadable
      <4> QED
        BY <1>8, <2>3, <4>1, <4>2, <4>3 DEF RecordAttempt
    <3> QED
      BY <1>a, <3>1
  <2>4. CASE e # d /\ Failed(e)
    <3>1. \/ deliveries'[d] = deliveries[d]
          \/ deliveries'[d] = Ended(deliveries[d], "given_up")
      BY <1>0, <2>4 DEF Failed
    <3> QED
      BY <1>0, <1>a, <3>1, EndedIsARow
  <2> QED
    BY <2>1, <2>2, <2>3, <2>4
<1> QED
  BY <1>1, <1>2, <1>3, <1>4, <1>5, <1>6, <1>7, <1>8 DEF Next

(* However many workers there are, and however long their passes outlast   *)
(* their leases: while one's lease is not past, what it holds is its own   *)
(* to record, or ended for everyone.                                       *)
THEOREM AttemptsAreFenced == Spec => FencedByTheLease
<1>1. TypeInv /\ [Next]_vars
        => [\A w \in Workers : \A d \in DOMAIN deliveries :
              (deliveries[d].heldBy = {w} /\ ~deliveries[d].lapsed /\ pass[w][d] # "none")
                => \/ deliveries'[d].heldBy = {w}
                   \/ deliveries'[d].state \in {"given_up", "deleted"}
                   \/ pass'[w][d] = "none"]_vars
  BY StepIsFenced DEF Fenced
<1> QED
  BY <1>1, TypeInductive, PTL DEF Spec, FencedByTheLease

-----------------------------------------------------------------------------
(* What makes the count one of failing days: it is begun after the last    *)
(* success.                                                                *)
CountedAfterSuccess ==
  \A t \in subscription.lastSuccess : \A u \in subscription.failingSince : u <= t

(* A failure keeps the last success, and counts from now or from where the *)
(* count began.                                                            *)
LEMMA FailureCounts ==
  ASSUME TypeInv, CountedAfterSuccess, NEW d \in DOMAIN deliveries, Failed(d)
  PROVE  /\ CountedAfterSuccess' /\ subscription'.lastSuccess = subscription.lastSuccess
         /\ \A u \in FailingSince : u = 0 \/ u \in subscription.failingSince
<1>1. subscription \in Subscriptions
  BY DEF TypeInv, TypeOK
<1>2. \A u \in FailingSince : u = 0 \/ u \in subscription.failingSince
  BY DEF FailingSince, Coalesce, Now
<1>3. /\ subscription'.failingSince = FailingSince
      /\ subscription'.lastSuccess = subscription.lastSuccess
  BY <1>1 DEF Failed, Subscriptions
<1>4. \A t \in subscription.lastSuccess \cup subscription.failingSince : t \in Nat
  BY <1>1 DEF Subscriptions, Moments
<1> QED
  BY <1>1, <1>2, <1>3, <1>4 DEF CountedAfterSuccess

LEMMA StepKeepsTheCount ==
  ASSUME TypeInv, CountedAfterSuccess, [Next]_vars
  PROVE  CountedAfterSuccess'
<1>0. subscription \in Subscriptions
  BY DEF TypeInv, TypeOK
<1>a. ASSUME subscription'.lastSuccess = subscription.lastSuccess,
             subscription'.failingSince \in {{}, subscription.failingSince}
      PROVE  CountedAfterSuccess'
  BY <1>a DEF CountedAfterSuccess
<1>1. CASE ChangeWebhookSubscription \/ DisableIdentity
  BY <1>0, <1>1, <1>a DEF ChangeWebhookSubscription, DisableIdentity, Subscriptions
<1>2. CASE Tick
  <2>1. \A t \in subscription.lastSuccess \cup subscription.failingSince : t \in Nat
    BY <1>0 DEF Subscriptions, Moments
  <2>2. /\ subscription'.failingSince = Older(subscription.failingSince, FailingFor)
        /\ subscription'.lastSuccess = Older(subscription.lastSuccess, FailingFor)
    BY <1>0, <1>2 DEF Tick, Subscriptions
  <2> QED
    BY <2>1, <2>2, WebhooksAssumption DEF Older, CountedAfterSuccess, WebhooksAssumption
<1>3. ASSUME NEW w \in Workers, NEW d \in DOMAIN deliveries, RecordAttempt(w, d)
      PROVE  CountedAfterSuccess'
  <2>1. CASE Failed(d)
    BY <1>3, <2>1, FailureCounts DEF RecordAttempt
  <2>2. CASE Answered(d)
    <3>1. subscription'.failingSince = {}
      BY <1>0, <1>3, <2>2 DEF Answered, Succeeded, RecordAttempt, Subscriptions
    <3> QED
      BY <1>0, <3>1 DEF CountedAfterSuccess
  <2>3. CASE UNCHANGED subscription
    BY <1>3, <1>a, <2>3 DEF RecordAttempt
  <2> QED
    BY <1>3, <2>1, <2>2, <2>3 DEF RecordAttempt, Busy, Unreadable
<1>4. ASSUME UNCHANGED subscription
      PROVE  CountedAfterSuccess'
  BY <1>4, <1>a
<1>5. ASSUME NEW w \in Workers, ClaimDeliveries(w) \/ Stop(w)
      PROVE  UNCHANGED subscription
  BY <1>5 DEF ClaimDeliveries, Stop
<1>6. ASSUME NEW d \in DOMAIN deliveries, LeaseLapses(d) \/ FallsDue(d)
      PROVE  UNCHANGED subscription
  BY <1>6 DEF LeaseLapses, FallsDue
<1>7. ASSUME NEW w \in Workers, NEW d \in DOMAIN deliveries, Deliver(w, d) \/ AttemptThrows(w, d)
      PROVE  UNCHANGED subscription
  BY <1>7 DEF Deliver, AttemptThrows
<1>8. CASE QueueDelivery \/ SweepWebhookDeliveries \/ UNCHANGED vars
  BY <1>4, <1>8 DEF QueueDelivery, SweepWebhookDeliveries, vars
<1> QED
  BY <1>1, <1>2, <1>3, <1>4, <1>5, <1>6, <1>7, <1>8 DEF Next

(* Nothing but a failure disables an endpoint for failing, and none that   *)
(* succeeded within the count's time.                                      *)
LEMMA StepDisablesForFailing ==
  ASSUME TypeInv, CountedAfterSuccess, [Next]_vars,
         subscription.disabled = "no", subscription'.disabled = "failing"
  PROVE  \A age \in subscription'.lastSuccess : age >= FailingFor
<1>0. /\ subscription \in Subscriptions
      /\ FailingFor \in Nat /\ FailingFor > 0
  BY WebhooksAssumption DEF TypeInv, TypeOK, WebhooksAssumption
<1>1. PICK w \in Workers, d \in DOMAIN deliveries : RecordAttempt(w, d)
  BY <1>0
  DEF Next, vars, Subscriptions, QueueDelivery, ChangeWebhookSubscription, DisableIdentity,
      SweepWebhookDeliveries, Tick, ClaimDeliveries, Stop, LeaseLapses, FallsDue, Deliver,
      AttemptThrows
<1>2. Failed(d)
  BY <1>0, <1>1
  DEF RecordAttempt, Answered, Succeeded, Busy, Unreadable, Subscriptions
<1>3. Disabling
  BY <1>0, <1>2 DEF Failed, Subscriptions
<1>4. PICK u \in FailingSince : u >= FailingFor
  BY <1>3 DEF Disabling
<1>5. u \in subscription.failingSince
  BY <1>0, <1>2, <1>4, FailureCounts
<1>6. \A t \in subscription.lastSuccess : t \in Nat /\ u \in Nat /\ u <= t
  BY <1>0, <1>5 DEF CountedAfterSuccess, Subscriptions, Moments
<1>7. subscription'.lastSuccess = subscription.lastSuccess
  BY <1>2, FailureCounts
<1> QED
  BY <1>0, <1>4, <1>6, <1>7

(* Whatever days the code is given, and whichever deliveries came, were    *)
(* swept and were recorded late: an endpoint disabled for failing had      *)
(* nothing delivered in all the time it is disabled for.                   *)
THEOREM DisablingIsForFailing == Spec => DisabledOnlyForFailing
<1>1. Init => CountedAfterSuccess
  BY DEF Init, CountedAfterSuccess
<1>2. TypeInv /\ CountedAfterSuccess /\ [Next]_vars => CountedAfterSuccess'
  BY StepKeepsTheCount
<1>3. TypeInv /\ CountedAfterSuccess /\ [Next]_vars
        => [(subscription.disabled = "no" /\ subscription'.disabled = "failing")
              => \A age \in subscription'.lastSuccess : age >= FailingFor]_vars
  BY StepDisablesForFailing
<1> QED
  BY <1>1, <1>2, <1>3, TypeInductive, PTL DEF Spec, DisabledOnlyForFailing
-----------------------------------------------------------------------------
(* What an attempt's record makes of any delivery.                         *)
LEMMA RecordedRow ==
  ASSUME TypeInv, NEW v \in Workers, NEW e \in DOMAIN deliveries, RecordAttempt(v, e),
         NEW d \in DOMAIN deliveries
  PROVE  /\ d \in DOMAIN deliveries'
         /\ deliveries'[d] = deliveries[d] \/ (Pending(d) /\ ~deliveries'[d].lapsed)
<1>0. /\ deliveries \in Seq(Deliveries) /\ DOMAIN deliveries' = DOMAIN deliveries
      /\ \A x \in DOMAIN deliveries : deliveries[x] \in Deliveries
  BY RowIsARow, RowsRecorded DEF TypeInv, TypeOK, Rows
<1>1. CASE ~UnderItsLease(v, e)
  BY <1>0, <1>1 DEF RecordAttempt
<1>2. ASSUME NEW state \in {"pending", "delivered", "given_up", "dropped"}
      PROVE  /\ ~Ended(deliveries[e], state).lapsed /\ ~Attempted(e, state).lapsed
             /\ ~[Ended(deliveries[e], state) EXCEPT !.due = FALSE].lapsed
             /\ ~[Ended(deliveries[e], state) EXCEPT !.lastAttempt = Now].lapsed
  BY <1>0 DEF Ended, Attempted, Deliveries
<1>3. CASE UnderItsLease(v, e) /\ ~Failed(e)
  <2>1. PICK row : deliveries' = [deliveries EXCEPT ![e] = row] /\ ~row.lapsed
    BY <1>0, <1>2, <1>3, <1>2 DEF RecordAttempt, Answered, Busy, Unreadable
  <2> QED
    BY <1>0, <1>3, <2>1 DEF UnderItsLease
<1>4. CASE UnderItsLease(v, e) /\ Failed(e)
  <2>1. PICK row \in Deliveries :
                   /\ ~row.lapsed
                   /\ \/ deliveries' = [deliveries EXCEPT ![e] = row]
                      \/ deliveries' =
                           [x \in DOMAIN deliveries |->
                              LET was == [deliveries EXCEPT ![e] = row][x] IN
                              IF was.state = "pending" THEN Ended(was, "given_up") ELSE was]
    BY <1>0, <1>2, <1>4, AttemptedIsARow DEF Failed, Rows
  <2>2. CASE d = e
    <3>1. ~deliveries'[d].lapsed
      BY <1>0, <2>1, <2>2 DEF Ended, Deliveries
    <3> QED
      BY <1>0, <1>4, <2>2, <3>1 DEF UnderItsLease
  <2>3. CASE d # e
    <3>1. deliveries'[d] = deliveries[d]
          \/ (deliveries[d].state = "pending" /\ deliveries'[d] = Ended(deliveries[d], "given_up"))
      BY <1>0, <2>1, <2>3
    <3> QED
      BY <1>0, <3>1 DEF Ended, Deliveries, Pending
  <2> QED
    BY <2>2, <2>3
<1> QED
  BY <1>1, <1>3, <1>4

(* What a step may make of a delivery.                                     *)
LEMMA OfARow ==
  ASSUME TypeInv, [Next]_vars, NEW d \in DOMAIN deliveries
  PROVE  /\ d \in DOMAIN deliveries'
         /\ \/ deliveries'[d] = deliveries[d]
            \/ deliveries'[d] = Gone
            \/ deliveries'[d] = [deliveries[d] EXCEPT !.due = TRUE]
            \/ OnlyAged(d) \/ LeaseLapses(d)
            \/ Pending(d) /\ ~deliveries'[d].lapsed
<1>0. /\ deliveries \in Seq(Deliveries) /\ deliveries[d] \in Deliveries
      /\ \A e \in DOMAIN deliveries : deliveries[e] \in Deliveries
  BY RowIsARow DEF TypeInv, TypeOK, Rows
<1>1. CASE QueueDelivery
  BY <1>0, <1>1 DEF QueueDelivery
<1>2. CASE ChangeWebhookSubscription \/ SweepWebhookDeliveries
  <2>1. PICK S : deliveries' = Without(S)
    BY <1>2 DEF ChangeWebhookSubscription, SweepWebhookDeliveries
  <2> QED
    BY <2>1 DEF Without
<1>3. CASE DisableIdentity \/ Tick \/ UNCHANGED vars
  <2>1. CASE Tick
    BY <2>1, RowsAged
  <2> QED
    BY <1>3, <2>1 DEF DisableIdentity, vars
<1>4. ASSUME NEW v \in Workers, ClaimDeliveries(v)
      PROVE  /\ d \in DOMAIN deliveries'
             /\ deliveries'[d] = deliveries[d] \/ (Pending(d) /\ ~deliveries'[d].lapsed)
  <2>1. [deliveries[d] EXCEPT !.heldBy = {v}, !.lapsed = FALSE].lapsed = FALSE
    BY <1>0 DEF Deliveries
  <2> QED
    BY <1>4, <2>1 DEF ClaimDeliveries, Due
<1>5. ASSUME NEW v \in Workers, Stop(v)
      PROVE  deliveries' = deliveries
  BY <1>5 DEF Stop
<1>6. ASSUME NEW e \in DOMAIN deliveries, LeaseLapses(e) \/ FallsDue(e)
      PROVE  /\ d \in DOMAIN deliveries'
             /\ \/ deliveries'[d] = deliveries[d] \/ LeaseLapses(d)
                \/ deliveries'[d] = [deliveries[d] EXCEPT !.due = TRUE]
  BY <1>0, <1>6 DEF LeaseLapses, FallsDue
<1>7. ASSUME NEW v \in Workers, NEW e \in DOMAIN deliveries, Deliver(v, e) \/ AttemptThrows(v, e)
      PROVE  deliveries' = deliveries
  BY <1>7 DEF Deliver, AttemptThrows
<1>8. ASSUME NEW v \in Workers, NEW e \in DOMAIN deliveries, RecordAttempt(v, e)
      PROVE  /\ d \in DOMAIN deliveries'
             /\ deliveries'[d] = deliveries[d] \/ (Pending(d) /\ ~deliveries'[d].lapsed)
  BY <1>0, <1>8, RecordedRow
<1> QED
  BY <1>1, <1>2, <1>3, <1>4, <1>5, <1>6, <1>7, <1>8 DEF Next

(* What a worker whose passes keep to their leases has under way is under  *)
(* its lease, or was ended for everyone.                                   *)
KeptToItsLease ==
  \A w \in Workers : \A d \in 1..MaxDeliveries : pass[w][d] # "none" =>
    /\ d \in DOMAIN deliveries
    /\ \/ w \in Stallers
       \/ deliveries[d].heldBy = {w} /\ ~deliveries[d].lapsed
       \/ deliveries[d].state \in {"given_up", "deleted"}

(* A pass is begun by a claim alone.                                       *)
LEMMA PassBegun ==
  ASSUME TypeInv, [Next]_vars, NEW w \in Workers, NEW d \in 1..MaxDeliveries,
         pass[w][d] = "none", pass'[w][d] # "none"
  PROVE  d \in DOMAIN deliveries' /\ deliveries'[d].heldBy = {w} /\ ~deliveries'[d].lapsed
<1>0. /\ pass \in [Workers -> [1..MaxDeliveries -> Outcomes \cup {"none", "claimed"}]]
      /\ \A e \in DOMAIN deliveries : deliveries[e] \in Deliveries /\ e \in 1..MaxDeliveries
  BY RowIsARow, InEachPass DEF TypeInv, TypeOK, Rows
<1>1. ASSUME NEW v \in Workers, ClaimDeliveries(v)
      PROVE  d \in DOMAIN deliveries' /\ deliveries'[d].heldBy = {w} /\ ~deliveries'[d].lapsed
  <2>1. w = v /\ d \in DOMAIN deliveries /\ Due(d)
    BY <1>0, <1>1 DEF ClaimDeliveries
  <2>2. deliveries'[d] = [deliveries[d] EXCEPT !.heldBy = {w}, !.lapsed = FALSE]
        /\ d \in DOMAIN deliveries'
    BY <1>1, <2>1 DEF ClaimDeliveries
  <2> QED
    BY <1>0, <2>1, <2>2 DEF Deliveries
<1>2. ASSUME NEW v \in Workers, Stop(v)
      PROVE  FALSE
  BY <1>0, <1>2 DEF Stop, NoPass
<1>3. ASSUME NEW v \in Workers, NEW e \in DOMAIN deliveries, Deliver(v, e) \/ AttemptThrows(v, e)
      PROVE  FALSE
  <2>1. e \in 1..MaxDeliveries
    BY <1>0
  <2>2. CASE Deliver(v, e)
    <3>1. PICK outcome : pass' = [pass EXCEPT ![v][e] = outcome] /\ pass[v][e] = "claimed"
      BY <2>2 DEF Deliver
    <3> QED
      BY <1>0, <2>1, <3>1
  <2>3. CASE AttemptThrows(v, e)
    <3>1. pass' = [pass EXCEPT ![v][e] = "none"]
      BY <2>3 DEF AttemptThrows
    <3> QED
      BY <1>0, <2>1, <3>1
  <2> QED
    BY <1>3, <2>2, <2>3
<1>4. ASSUME NEW v \in Workers, NEW e \in DOMAIN deliveries, RecordAttempt(v, e)
      PROVE  FALSE
  BY <1>0, <1>4 DEF RecordAttempt
<1>5. ASSUME UNCHANGED pass
      PROVE  FALSE
  BY <1>5
<1>6. ASSUME NEW e \in DOMAIN deliveries, LeaseLapses(e) \/ FallsDue(e)
      PROVE  UNCHANGED pass
  BY <1>6 DEF LeaseLapses, FallsDue
<1> QED
  BY <1>1, <1>2, <1>3, <1>4, <1>5, <1>6
  DEF Next, vars, QueueDelivery, ChangeWebhookSubscription, DisableIdentity,
      SweepWebhookDeliveries, Tick

LEMMA StepKeepsToTheLease ==
  ASSUME TypeInv, KeptToItsLease, [Next]_vars
  PROVE  KeptToItsLease'
<1> SUFFICES ASSUME NEW w \in Workers, NEW d \in 1..MaxDeliveries, pass'[w][d] # "none"
             PROVE  /\ d \in DOMAIN deliveries'
                    /\ \/ w \in Stallers
                       \/ deliveries'[d].heldBy = {w} /\ ~deliveries'[d].lapsed
                       \/ deliveries'[d].state \in {"given_up", "deleted"}
  BY DEF KeptToItsLease
<1>1. CASE pass[w][d] = "none"
  BY <1>1, PassBegun
<1>2. CASE pass[w][d] # "none"
  <2>1. /\ d \in DOMAIN deliveries /\ d \in DOMAIN deliveries'
        /\ deliveries[d] \in Deliveries
    BY <1>2, OfARow, RowIsARow DEF KeptToItsLease, TypeInv, Rows
  <2>a. \/ deliveries'[d] = deliveries[d]
        \/ deliveries'[d] = Gone
        \/ deliveries'[d] = [deliveries[d] EXCEPT !.due = TRUE]
        \/ OnlyAged(d) \/ LeaseLapses(d)
        \/ Pending(d) /\ ~deliveries'[d].lapsed
    BY <2>1, OfARow
  <2>2. CASE w \in Stallers
    BY <2>1, <2>2
  <2>3. CASE w \notin Stallers /\ deliveries[d].heldBy = {w} /\ ~deliveries[d].lapsed
    <3>1. deliveries'[d].heldBy = {w} \/ deliveries'[d].state \in {"given_up", "deleted"}
      BY <1>2, <2>1, <2>3, StepIsFenced DEF Fenced
    <3>2. ~LeaseLapses(d)
      BY <1>2, <2>3 DEF LeaseLapses
    <3>3. ~deliveries'[d].lapsed
      BY <2>1, <2>a, <2>3, <3>2 DEF Deliveries, Gone, OnlyAged
    <3> QED
      BY <2>1, <3>1, <3>3
  <2>4. CASE deliveries[d].state \in {"given_up", "deleted"}
    <3>1. ~Pending(d) /\ ~LeaseLapses(d)
      BY <2>1, <2>4 DEF Pending, LeaseLapses, TypeInv, TypeOK
    <3>2. deliveries'[d].state \in {"given_up", "deleted"}
      BY <2>1, <2>a, <2>4, <3>1 DEF Deliveries, Gone, OnlyAged
    <3> QED
      BY <2>1, <3>2
  <2> QED
    BY <1>2, <2>1, <2>2, <2>3, <2>4 DEF KeptToItsLease
<1> QED
  BY <1>1, <1>2

(* Whoever else outlasts a lease, answers late or stops: a worker whose    *)
(* passes keep to theirs never sends what is delivered.                    *)
THEOREM DoneIsDone == Spec => []DoneIsNotSentAgain
<1>1. Init => KeptToItsLease
  BY DEF Init, KeptToItsLease, NoPass
<1>2. TypeInv /\ KeptToItsLease /\ [Next]_vars => KeptToItsLease'
  BY StepKeepsToTheLease
<1>3. TypeInv /\ KeptToItsLease => DoneIsNotSentAgain
  <2> SUFFICES ASSUME TypeInv, KeptToItsLease, NEW w \in Workers \ Stallers,
                      NEW d \in DOMAIN deliveries, deliveries[d].state = "delivered",
                      pass[w][d] = "claimed"
               PROVE  FALSE
    BY DEF DoneIsNotSentAgain
  <2>1. deliveries[d].heldBy = {w}
    BY InEachPass DEF KeptToItsLease
  <2> QED
    BY <2>1 DEF TypeInv, TypeOK, Pending
<1> QED
  BY <1>1, <1>2, <1>3, TypeInductive, PTL DEF Spec
=============================================================================
