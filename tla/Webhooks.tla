------------------------------- MODULE Webhooks -------------------------------
(***************************************************************************)
(* The deliveries of one webhook subscription (packages/db/src/webhooks.ts *)
(* and apps/worker/src/webhooks.ts): queued with the act they tell of,     *)
(* claimed under a lease by the worker's delivery loop, sent outside any   *)
(* transaction, and each attempt recorded after, under the same lease.     *)
(*                                                                         *)
(* A lease is known here by the worker that claimed under it: a worker's   *)
(* passes never overlap, so none holds two claims of one delivery.  Time   *)
(* is counted for what is a day and more, without end: a moment is kept as *)
(* how long ago it was, told no further than anything asks of it.  A lease *)
(* and a retry's backoff, an hour at most, end at some moment, and so do   *)
(* the thirty days a row is kept.                                          *)
(***************************************************************************)
EXTENDS Naturals, Sequences

CONSTANTS
  Workers,         \* the worker processes, each with a delivery loop
  Day,             \* how long a delivery is tried, and what makes an endpoint quiet
  FailingFor,      \* how long an endpoint fails before it is disabled
  Stallers,        \* the workers whose passes may outlast their leases
  MaxDeliveries,   \* bound: the deliveries ever queued
  MaxTroubles      \* bound: the stops, errors and outlasted leases there may be

ASSUME WebhooksAssumption ==
  /\ Day \in Nat /\ FailingFor \in Nat /\ Day < FailingFor
  /\ Stallers \subseteq Workers /\ MaxDeliveries \in Nat /\ MaxTroubles \in Nat

VARIABLES
  subscription,   \* webhook_subscription
  deliveries,     \* webhook_delivery in the order queued, and each one's last attempt
  pass,           \* what each worker's pass holds, and what came of sending it
  troubles        \* how many there have been

vars == <<subscription, deliveries, pass, troubles>>

-----------------------------------------------------------------------------
(* A moment is its age in a set, or none where it is null.                 *)

Moments == SUBSET Nat
Subscriptions == [disabled : {"no", "failing", "identity_disabled"},
                  failingSince : Moments, lastSuccess : Moments]
Deliveries == [state : {"pending", "delivered", "given_up", "dropped", "deleted"},
               due : BOOLEAN, heldBy : SUBSET Workers, lapsed : BOOLEAN,
               firstAttempt : Moments, lastAttempt : Moments]

Now == {0}
Coalesce(moment) == IF moment = {} THEN Now ELSE moment
Older(moment, most) == {IF age < most THEN age + 1 ELSE age : age \in moment}

Pending(d) == deliveries[d].state = "pending"

(* A row's end, or its return to waiting: nobody's from then on.  A bug to *)
(* catch: one ended still held.                                            *)
EndedStillHeld(row, state) == [row EXCEPT !.state = state, !.lapsed = FALSE]
Ended(row, state) == [row EXCEPT !.state = state, !.heldBy = {}, !.lapsed = FALSE]

(* Deleted, their attempts with them: nothing is left of a row.            *)
Gone == [state |-> "deleted", due |-> FALSE, heldBy |-> {}, lapsed |-> FALSE,
         firstAttempt |-> {}, lastAttempt |-> {}]
Without(S) == [d \in DOMAIN deliveries |-> IF d \in S THEN Gone ELSE deliveries[d]]

-----------------------------------------------------------------------------
(* Queued by a trigger on the act's own row, while the subscription is on. *)
QueueDelivery ==
  /\ subscription.disabled = "no"
  /\ Len(deliveries) < MaxDeliveries
  /\ deliveries' = Append(deliveries,
       [state |-> "pending", due |-> TRUE, heldBy |-> {}, lapsed |-> FALSE,
        firstAttempt |-> {}, lastAttempt |-> {}])
  /\ UNCHANGED <<subscription, pass, troubles>>

(* A bug to catch: a lease that keeps nobody out.                          *)
DueUnderLease(d) == Pending(d) /\ deliveries[d].due /\ subscription.disabled = "no"
Due(d) ==
  /\ Pending(d) /\ deliveries[d].due /\ subscription.disabled = "no"
  /\ deliveries[d].heldBy = {} \/ deliveries[d].lapsed

(* A pass, once the last is over, takes what is due (its limit is never    *)
(* reached by so few).                                                     *)
NoPass == [d \in 1..MaxDeliveries |-> "none"]
ClaimDeliveries(w) ==
  /\ pass[w] = NoPass
  /\ \E d \in DOMAIN deliveries : Due(d)
  /\ deliveries' = [d \in DOMAIN deliveries |->
       IF Due(d) THEN [deliveries[d] EXCEPT !.heldBy = {w}, !.lapsed = FALSE] ELSE deliveries[d]]
  /\ pass' = [pass EXCEPT ![w] = [d \in 1..MaxDeliveries |->
       IF d \in DOMAIN deliveries /\ Due(d) THEN "claimed" ELSE "none"]]
  /\ UNCHANGED <<subscription, troubles>>

(* Asked whether its identity may read what it tells of, then sent through *)
(* the connector; nothing of the row is read again.                        *)
Outcomes == {"answered", "failed", "busy", "unreadable"}
Deliver(w, d) ==
  /\ pass[w][d] = "claimed"
  /\ \E outcome \in Outcomes : pass' = [pass EXCEPT ![w][d] = outcome]
  /\ UNCHANGED <<subscription, deliveries, troubles>>

Trouble == troubles < MaxTroubles /\ troubles' = troubles + 1

(* An error in sending or in recording is logged, and the next one tried;  *)
(* a worker that stops loses them all.                                     *)
AttemptThrows(w, d) ==
  /\ pass[w][d] # "none" /\ Trouble
  /\ pass' = [pass EXCEPT ![w][d] = "none"]
  /\ UNCHANGED <<subscription, deliveries>>

Stop(w) ==
  /\ pass[w] # NoPass /\ Trouble
  /\ pass' = [pass EXCEPT ![w] = NoPass]
  /\ UNCHANGED <<subscription, deliveries>>

-----------------------------------------------------------------------------
(* recordAttempt.                                                          *)

(* A bug to catch: an answer taken from whoever brings it.                 *)
UnderAnyLease(w, d) == Pending(d)
UnderItsLease(w, d) == Pending(d) /\ deliveries[d].heldBy = {w}

Busy(d) ==
  /\ deliveries' = [deliveries EXCEPT ![d] = [Ended(@, "pending") EXCEPT !.due = FALSE]]
  /\ UNCHANGED subscription

Unreadable(d) ==
  /\ deliveries' = [deliveries EXCEPT ![d] =
       [Ended(@, "dropped") EXCEPT !.lastAttempt = Now]]
  /\ UNCHANGED subscription

(* A bug to catch: the first attempt's moment never kept, so each is one.  *)
AttemptedUnmarked(d, state) ==
  [Ended(deliveries[d], state) EXCEPT !.due = FALSE, !.lastAttempt = Now]
Attempted(d, state) ==
  [Ended(deliveries[d], state) EXCEPT !.due = FALSE,
     !.firstAttempt = Coalesce(@), !.lastAttempt = Now]

(* A bug to catch: a success that leaves the count of failing days.        *)
SucceededStillFailing == [subscription EXCEPT !.lastSuccess = Now]
Succeeded == [subscription EXCEPT !.lastSuccess = Now, !.failingSince = {}]

Answered(d) ==
  /\ deliveries' = [deliveries EXCEPT ![d] = Attempted(d, "delivered")]
  /\ subscription' = Succeeded

(* The attempts before this one that are still kept: a day since the last  *)
(* of them, and the count of failing days starts again.                    *)
Before == UNION {deliveries[d].lastAttempt : d \in DOMAIN deliveries}
Quiet == Before # {} /\ \A age \in Before : age > Day
FailingSince == IF Quiet THEN Now ELSE Coalesce(subscription.failingSince)
Disabling == subscription.disabled = "no" /\ \E age \in FailingSince : age >= FailingFor

Failed(d) ==
  LET tried == \E age \in Coalesce(deliveries[d].firstAttempt) : age >= Day
      row == Attempted(d, IF tried THEN "given_up" ELSE "pending")
      rows == [deliveries EXCEPT ![d] = row]
  IN
  /\ deliveries' = IF Disabling
       THEN [e \in DOMAIN rows |->
               IF rows[e].state = "pending" THEN Ended(rows[e], "given_up") ELSE rows[e]]
       ELSE rows
  /\ subscription' = [subscription EXCEPT !.failingSince = FailingSince,
       !.disabled = IF Disabling THEN "failing" ELSE @]

RecordAttempt(w, d) ==
  /\ pass[w][d] \in Outcomes
  /\ pass' = [pass EXCEPT ![w][d] = "none"]
  /\ \/ /\ UnderItsLease(w, d)
        /\ \/ pass[w][d] = "answered" /\ Answered(d)
           \/ pass[w][d] = "failed" /\ Failed(d)
           \/ pass[w][d] = "busy" /\ Busy(d)
           \/ pass[w][d] = "unreadable" /\ Unreadable(d)
     \/ ~UnderItsLease(w, d) /\ UNCHANGED <<subscription, deliveries>>
  /\ UNCHANGED troubles

-----------------------------------------------------------------------------
(* The subscription, its sweep, and time.                                  *)

(* A change: what waits of a type no longer wanted is deleted, and a       *)
(* subscription that was off may be on again, its count started afresh.    *)
ChangeWebhookSubscription ==
  /\ \E unwanted \in SUBSET {d \in DOMAIN deliveries : Pending(d)} :
       deliveries' = Without(unwanted)
  /\ \E enable \in BOOLEAN :
       subscription' = IF enable /\ subscription.disabled # "no"
         THEN [subscription EXCEPT !.disabled = "no", !.failingSince = {}]
         ELSE subscription
  /\ UNCHANGED <<pass, troubles>>

DisableIdentity ==
  /\ subscription.disabled = "no"
  /\ subscription' = [subscription EXCEPT !.disabled = "identity_disabled"]
  /\ UNCHANGED <<deliveries, pass, troubles>>

(* Those created thirty days ago or more: the first queued, however many   *)
(* that is, for nothing asks when a row was created but this.              *)
SweepWebhookDeliveries ==
  /\ \E last \in DOMAIN deliveries : deliveries' = Without(1..last)
  /\ UNCHANGED <<subscription, pass, troubles>>

(* A lease is past once nobody's pass is under it, or where a pass is      *)
(* outlasted it: a trouble, for a pass takes a fraction of its lease.      *)
LeaseLapses(d) ==
  /\ ~deliveries[d].lapsed
  /\ \E w \in deliveries[d].heldBy :
       \/ pass[w][d] = "none" /\ UNCHANGED troubles
       \/ pass[w][d] # "none" /\ w \in Stallers /\ Trouble
  /\ deliveries' = [deliveries EXCEPT ![d].lapsed = TRUE]
  /\ UNCHANGED <<subscription, pass>>

FallsDue(d) ==
  /\ Pending(d) /\ ~deliveries[d].due
  /\ deliveries' = [deliveries EXCEPT ![d].due = TRUE]
  /\ UNCHANGED <<subscription, pass, troubles>>

(* Each moment as far back as what it is compared with tells.              *)
Tick ==
  /\ subscription' = [subscription EXCEPT !.failingSince = Older(@, FailingFor),
                                          !.lastSuccess = Older(@, FailingFor)]
  /\ deliveries' = [d \in DOMAIN deliveries |->
       [deliveries[d] EXCEPT !.firstAttempt = Older(@, Day),
          !.lastAttempt = Older(@, Day + 1)]]
  /\ UNCHANGED <<pass, troubles>>

-----------------------------------------------------------------------------
Init ==
  /\ subscription = [disabled |-> "no", failingSince |-> {}, lastSuccess |-> {}]
  /\ deliveries = <<>>
  /\ pass = [w \in Workers |-> NoPass]
  /\ troubles = 0

Next ==
  \/ QueueDelivery \/ ChangeWebhookSubscription \/ DisableIdentity
  \/ SweepWebhookDeliveries \/ Tick
  \/ \E w \in Workers : ClaimDeliveries(w) \/ Stop(w)
  \/ \E d \in DOMAIN deliveries :
       \/ LeaseLapses(d) \/ FallsDue(d)
       \/ \E w \in Workers : Deliver(w, d) \/ RecordAttempt(w, d) \/ AttemptThrows(w, d)

Spec == Init /\ [][Next]_vars

(* The loops go on, and so does time; a lease nobody's pass is under       *)
(* lapses, and a backoff ends.  Nothing is assumed of the endpoint, nor of *)
(* the sweep.                                                              *)
LapsesUnattended(d) ==
  /\ \A w \in deliveries[d].heldBy : pass[w][d] = "none"
  /\ LeaseLapses(d)

FairSpec ==
  /\ Spec /\ WF_vars(Tick)
  /\ \A w \in Workers : WF_vars(ClaimDeliveries(w))
  /\ \A d \in 1..MaxDeliveries :
       /\ WF_vars(d \in DOMAIN deliveries /\ (LapsesUnattended(d) \/ FallsDue(d)))
       /\ \A w \in Workers :
            WF_vars(d \in DOMAIN deliveries /\ (Deliver(w, d) \/ RecordAttempt(w, d)))

-----------------------------------------------------------------------------
(* Properties.                                                             *)

(* The tables hold what their columns may, and only what waits is leased.  *)
TypeOK ==
  /\ subscription \in Subscriptions
  /\ deliveries \in Seq(Deliveries)
  /\ \A d \in DOMAIN deliveries : deliveries[d].heldBy # {} => Pending(d)
  /\ pass \in [Workers -> [1..MaxDeliveries -> Outcomes \cup {"none", "claimed"}]]
  /\ troubles \in Nat

(* "An attempt is recorded only under it" (webhooks.ts:286).  While a pass *)
(* holds a delivery under a lease not past, nobody else's late answer      *)
(* frees it, delays it or takes it: it is held until that pass records or  *)
(* leaves it, or it is ended for everyone - given up with its              *)
(* subscription's disabling, or deleted.                                   *)
FencedByTheLease ==
  [][\A w \in Workers : \A d \in DOMAIN deliveries :
       (deliveries[d].heldBy = {w} /\ ~deliveries[d].lapsed /\ pass[w][d] # "none")
         => \/ deliveries'[d].heldBy = {w}
            \/ deliveries'[d].state \in {"given_up", "deleted"}
            \/ pass'[w][d] = "none"]_vars

(* "A delivery done is never sent again" (webhooks.md, "Failing, and on    *)
(* again") by a worker whose passes keep to their leases, though others'   *)
(* outlast theirs and answer late, workers stop, and answers and records   *)
(* are lost.                                                               *)
DoneIsNotSentAgain ==
  \A w \in Workers \ Stallers : \A d \in DOMAIN deliveries :
    deliveries[d].state = "delivered" => pass[w][d] # "claimed"

(* API-028.  An endpoint is disabled for failing only where nothing was    *)
(* delivered to it in all that time, whichever deliveries came and went    *)
(* and however late their attempts were recorded.                          *)
DisabledOnlyForFailing ==
  [][(subscription.disabled = "no" /\ subscription'.disabled = "failing")
       => \A age \in subscription'.lastSuccess : age >= FailingFor]_vars

(* API-028, the other side: a delivery of a subscription that stays on is  *)
(* delivered in the end, or given up a day after it was first tried,       *)
(* dropped or deleted - though its endpoint never answers, and whoever     *)
(* stopped or was late with it claimed, sent or unrecorded (webhooks.ts:   *)
(* 397-410).  It is of one the connector does not for ever turn away full, *)
(* which is no attempt: such a one waits for the sweep.                    *)
EveryDeliveryEnds ==
  \A d \in 1..MaxDeliveries :
    <>[](\A w \in Workers : pass[w][d] # "busy")
      => ((d \in DOMAIN deliveries /\ Pending(d))
            ~> (d \in DOMAIN deliveries /\ ~Pending(d)) \/ subscription.disabled # "no")
=============================================================================
