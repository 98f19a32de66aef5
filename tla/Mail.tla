---------------------------------- MODULE Mail ----------------------------------
(***************************************************************************)
(* An environment's mail (packages/db/src/mail.ts, apps/worker/src/mail.ts *)
(* and the triggers that queue it): claimed under a lease by the worker's  *)
(* mail loop, sent one after another outside any transaction through one   *)
(* of two relays, and each attempt recorded after, under the same lease.   *)
(*                                                                         *)
(* A lease is known here by the worker that claimed under it: a worker's   *)
(* passes never overlap, so none holds two claims of one mail.  A lease, a *)
(* wait or an age ends at some moment.                                     *)
(***************************************************************************)
EXTENDS Naturals

CONSTANTS
  Workers,      \* the worker processes, each with a mail loop
  Stallers,     \* the workers whose passes may outlast their leases
  Mails,        \* the mails there may ever be
  Settings,     \* what an administrator may set: [relay, enabled]
  Asked,        \* bound: the purposes queued beside a closing's notices
  MaxTroubles   \* bound: the stops and the errors there may be

ASSUME MailAssumption ==
  /\ Stallers \subseteq Workers
  /\ Settings \subseteq [relay : {"platform", "own"}, enabled : BOOLEAN]
  /\ Asked \subseteq {"test", "notification", "invitation"}
  /\ MaxTroubles \in Nat

VARIABLES
  closing,    \* whether the tenant is in its grace rather than active
  channel,    \* mail_channel, its relay "none" where there is no row
  mails,      \* email_delivery
  pass,       \* what each worker's pass holds, and what came of what it sends
  troubles    \* how many there have been

vars == <<closing, channel, mails, pass, troubles>>

-----------------------------------------------------------------------------
(* What the tables and a pass hold.                                        *)

Notices  == {"closing", "cancelled"}
Purposes == {"test", "notification", "invitation"} \cup Notices

Channels == [relay : {"none", "platform", "own"}, enabled : BOOLEAN, failing : BOOLEAN]

(* `tried` is attempts > 0; `age` whether its age, counted from its first  *)
(* claim (a closing's from its grace), is past.                            *)
Rows == [state : {"none", "pending", "sent", "given_up", "dropped", "deleted"},
         purpose : Purposes, due : BOOLEAN, tried : BOOLEAN,
         age : {"uncounted", "counting", "past"},
         heldBy : SUBSET Workers, lapsed : BOOLEAN]
NoRow == [state |-> "none", purpose |-> "test", due |-> FALSE, tried |-> FALSE,
          age |-> "uncounted", heldBy |-> {}, lapsed |-> FALSE]

(* A pass: which list its tenant was read in, what it has still to send,   *)
(* what it is sending, and the purposes it claimed by the own relay.       *)
Answers == {"sent", "refused", "unoffered", "no_hostname", "wait", "relay_failed"}
Passes == [at : {"idle", "live", "closing", "sending", "returning"}, rest : SUBSET Mails,
           mail : SUBSET Mails, answer : Answers \cup {"none"}, own : SUBSET Purposes]
Idle == [at |-> "idle", rest |-> {}, mail |-> {}, answer |-> "none", own |-> {}]

Pending(d) == mails[d].state = "pending"
Carries(w, d) == d \in pass[w].rest \cup pass[w].mail

(* A row's end, of which only what it was for is told again, and its       *)
(* return to waiting: nobody's from then on.  A bug to catch: one ended    *)
(* still held.                                                             *)
EndedStillHeld(row, state) == [row EXCEPT !.state = state]
Ended(row, state) == [NoRow EXCEPT !.state = state, !.purpose = row.purpose]
Freed(row) == [row EXCEPT !.heldBy = {}, !.lapsed = FALSE, !.due = FALSE]

-----------------------------------------------------------------------------
(* Whose relay a purpose leaves by: a closing's notice always by the       *)
(* operator's, an invitation too while the environment's mail is off.      *)
ByOwnRelay(purpose) ==
  /\ channel.relay = "own"
  /\ \/ purpose \in {"test", "notification"}
     \/ purpose = "invitation" /\ channel.enabled
SameRelay(purpose) == {p \in Purposes : ByOwnRelay(p) = ByOwnRelay(purpose)}

(* What a relay that failed holds back: all that leaves by it, until what  *)
(* failed is due again.                                                    *)
HeldBack(failing) == UNION {SameRelay(mails[d].purpose) : d \in failing}

-----------------------------------------------------------------------------
(* Queued: a test by its route, the rest by triggers on what they tell of, *)
(* a notification only while the channel is on and held for five minutes.  *)
Queued(purpose) ==
  [NoRow EXCEPT !.state = "pending", !.purpose = purpose, !.due = purpose # "notification",
     !.age = IF purpose = "closing" THEN "counting" ELSE "uncounted"]

QueueMail(d) ==
  /\ mails[d].state = "none"
  /\ \E purpose \in Asked :
       /\ purpose = "notification" => channel.enabled
       /\ mails' = [mails EXCEPT ![d] = Queued(purpose)]
  /\ UNCHANGED <<closing, channel, pass, troubles>>

(* Closing is told as it starts, and again seven days before its end.      *)
TellClosing(d) ==
  /\ mails[d].state = "none"
  /\ closing' = TRUE
  /\ mails' = [mails EXCEPT ![d] = Queued("closing")]
  /\ UNCHANGED <<channel, pass, troubles>>

(* Cancelled: what waits to say it is closing is dropped, whoever holds it. *)
CancelClosing(d) ==
  /\ closing /\ mails[d].state = "none"
  /\ closing' = FALSE
  /\ mails' = [e \in Mails |->
       IF e = d THEN Queued("cancelled")
       ELSE IF Pending(e) /\ mails[e].purpose = "closing" THEN Ended(mails[e], "dropped")
       ELSE mails[e]]
  /\ UNCHANGED <<channel, pass, troubles>>

(* Deleted with whom or what it names, or by the sweep of thirty days.     *)
Deletes(d) ==
  /\ mails[d].state \notin {"none", "deleted"}
  /\ mails' = [mails EXCEPT ![d] = [NoRow EXCEPT !.state = "deleted"]]
  /\ UNCHANGED <<closing, channel, pass, troubles>>

SetMailChannel ==
  /\ \E s \in Settings :
       channel' = [channel EXCEPT !.relay = s.relay, !.enabled = s.enabled]
  /\ UNCHANGED <<closing, mails, pass, troubles>>

-----------------------------------------------------------------------------
(* A worker's pass: the tenants are listed by their states first.          *)
ListTenant(w) ==
  /\ pass[w].at = "idle"
  /\ pass' = [pass EXCEPT ![w].at = IF closing THEN "closing" ELSE "live"]
  /\ UNCHANGED <<closing, channel, mails, troubles>>

(* What no lease keeps anyone from.  A bug to catch: what another holds    *)
(* while it is sent given up for its age.                                  *)
Free(d) == mails[d].heldBy = {} \/ mails[d].lapsed
GivenUpWhoeverHolds == {d \in Mails : Pending(d) /\ mails[d].age = "past"}
GivenUp == {d \in Mails : Pending(d) /\ Free(d) /\ mails[d].age = "past"}

(* What failed and is not due again.                                       *)
Failing == {d \in Mails \ GivenUp : Pending(d) /\ mails[d].tried /\ ~mails[d].due}

Claimable(w) ==
  LET asked == IF pass[w].at = "closing" THEN Notices ELSE Purposes IN
  {d \in Mails \ GivenUp :
     /\ Pending(d) /\ Free(d) /\ mails[d].due
     /\ mails[d].purpose \in asked \ HeldBack(Failing)}

(* Its age is counted from its first claim, so that one never recorded, or *)
(* told to wait for ever, ages too.  A bug to catch: not counted from it.  *)
ClaimedUncounted(w, d) == [mails[d] EXCEPT !.heldBy = {w}, !.lapsed = FALSE]
Claimed(w, d) ==
  [mails[d] EXCEPT !.heldBy = {w}, !.lapsed = FALSE,
     !.age = IF @ = "uncounted" THEN "counting" ELSE @]

(* Those past their age given up, those due claimed, and of these those    *)
(* whom they are to may no longer be mailed dropped: whose reasons are not *)
(* modelled, but a notification's with the channel off.                    *)
ClaimMail(w) ==
  /\ pass[w].at \in {"live", "closing"}
  /\ \E unsendable \in SUBSET Claimable(w) :
       /\ \A d \in Claimable(w) :
            (mails[d].purpose = "notification" /\ ~channel.enabled) => d \in unsendable
       /\ mails' = [d \in Mails |->
            IF d \in GivenUp THEN Ended(mails[d], "given_up")
            ELSE IF d \in unsendable THEN Ended(Claimed(w, d), "dropped")
            ELSE IF d \in Claimable(w) THEN Claimed(w, d)
            ELSE mails[d]]
       /\ pass' = [pass EXCEPT ![w] =
            IF Claimable(w) = unsendable THEN Idle
            ELSE [Idle EXCEPT !.at = "sending", !.rest = Claimable(w) \ unsendable,
                    !.own = {p \in Purposes : ByOwnRelay(p)}]]
  /\ UNCHANGED <<closing, channel, troubles>>

(* Sent by the relay it was claimed by, and how that ends; nothing of the  *)
(* row is read again.  A link needs a hostname; only the operator may      *)
(* offer no relay.                                                         *)
LeavesByOwn(w, d) == mails[d].purpose \in pass[w].own
Deliver(w, d) ==
  /\ pass[w].at = "sending" /\ pass[w].mail = {} /\ d \in pass[w].rest
  /\ \E answer \in Answers :
       /\ answer = "no_hostname" => mails[d].purpose \in {"notification", "invitation"}
       /\ answer = "unoffered" => ~LeavesByOwn(w, d)
       /\ pass' = [pass EXCEPT ![w].rest = @ \ {d}, ![w].mail = {d}, ![w].answer = answer]
  /\ UNCHANGED <<closing, channel, mails, troubles>>

-----------------------------------------------------------------------------
(* recordMailAttempt, and dropMail for what has no link to give.           *)

UnderItsLease(w, d) == Pending(d) /\ mails[d].heldBy = {w}

(* Whether what is recorded stands for the relay the channel names.  A bug *)
(* to catch: every purpose taken to.                                       *)
EveryPurposeStands(d) == channel.relay # "none"
StandsForTheChannel(d) ==
  /\ channel.relay # "none"
  /\ channel.relay = "own" => ByOwnRelay(mails[d].purpose)

Mark(d, failing) ==
  channel' = IF StandsForTheChannel(d) THEN [channel EXCEPT !.failing = failing] ELSE channel

EndsAs(answer) ==
  CASE answer = "sent" -> "sent" [] answer = "refused" -> "given_up" [] OTHER -> "dropped"

(* One that ends, which clears the channel's failing where it was sent.    *)
RecordEnd(w, d) ==
  /\ pass[w].answer \in {"sent", "refused", "unoffered", "no_hostname"}
  /\ mails' = [mails EXCEPT ![d] = Ended(@, EndsAs(pass[w].answer))]
  /\ IF pass[w].answer = "sent" THEN Mark(d, FALSE) ELSE UNCHANGED channel

(* The connector full, or the operator's hour spent: no attempt.           *)
RecordWait(w, d) ==
  /\ pass[w].answer = "wait"
  /\ mails' = [mails EXCEPT ![d] = Freed(@)]
  /\ UNCHANGED channel

(* The relay's own failure: the rest by the same relay wait as long.       *)
RecordFailure(w, d) ==
  /\ pass[w].answer = "relay_failed"
  /\ mails' = [e \in Mails |->
       IF e = d THEN [Freed(mails[d]) EXCEPT !.tried = TRUE]
       ELSE IF Pending(e) /\ mails[e].purpose \in SameRelay(mails[d].purpose)
         THEN [mails[e] EXCEPT !.due = FALSE]
       ELSE mails[e]]
  /\ Mark(d, TRUE)

(* A pass ends at its relay's first failure, or a wait: the rest's lease   *)
(* is then given back.                                                     *)
Left(w, stopping) ==
  IF pass[w].rest = {} THEN Idle
  ELSE [pass[w] EXCEPT !.at = IF pass[w].answer \in stopping THEN "returning" ELSE "sending",
          !.mail = {}, !.answer = "none"]
Onward(w, stopping) == pass' = [pass EXCEPT ![w] = Left(w, stopping)]

Record(w, d) ==
  /\ pass[w].mail = {d}
  /\ \/ /\ UnderItsLease(w, d)
        /\ RecordEnd(w, d) \/ RecordWait(w, d) \/ RecordFailure(w, d)
        /\ Onward(w, {"wait", "relay_failed"})
     \/ /\ ~UnderItsLease(w, d) /\ UNCHANGED <<channel, mails>>
        /\ Onward(w, {"wait"})
  /\ UNCHANGED <<closing, troubles>>

Returned(w) == {d \in pass[w].rest : UnderItsLease(w, d)}
ReturnRest(w) ==
  /\ pass[w].at = "returning"
  /\ mails' = [d \in Mails |->
       IF d \in Returned(w) THEN Freed(mails[d]) ELSE mails[d]]
  /\ pass' = [pass EXCEPT ![w] = Idle]
  /\ UNCHANGED <<closing, channel, troubles>>

(* An error in sending or recording ends the pass, and a stop the worker:  *)
(* the leases run out.                                                     *)
PassEnds(w) ==
  /\ pass[w].at # "idle"
  /\ troubles < MaxTroubles /\ troubles' = troubles + 1
  /\ pass' = [pass EXCEPT ![w] = Idle]
  /\ UNCHANGED <<closing, channel, mails>>

-----------------------------------------------------------------------------
(* Time.                                                                   *)

LeaseLapses(d) ==
  /\ Pending(d) /\ ~mails[d].lapsed
  /\ \E w \in mails[d].heldBy : w \in Stallers \/ ~Carries(w, d)
  /\ mails' = [mails EXCEPT ![d].lapsed = TRUE]
  /\ UNCHANGED <<closing, channel, pass, troubles>>

FallsDue(d) ==
  /\ Pending(d) /\ ~mails[d].due
  /\ mails' = [mails EXCEPT ![d].due = TRUE]
  /\ UNCHANGED <<closing, channel, pass, troubles>>

Ages(d) ==
  /\ Pending(d) /\ mails[d].age = "counting"
  /\ mails' = [mails EXCEPT ![d].age = "past"]
  /\ UNCHANGED <<closing, channel, pass, troubles>>

-----------------------------------------------------------------------------
Init ==
  /\ closing = FALSE
  /\ channel = [relay |-> "none", enabled |-> FALSE, failing |-> FALSE]
  /\ mails = [d \in Mails |-> NoRow]
  /\ pass = [w \in Workers |-> Idle]
  /\ troubles = 0

Works(w) ==
  \/ ListTenant(w) \/ ClaimMail(w) \/ ReturnRest(w)
  \/ \E d \in Mails : Deliver(w, d) \/ Record(w, d)

Next ==
  \/ SetMailChannel
  \/ \E d \in Mails :
       \/ QueueMail(d) \/ TellClosing(d) \/ CancelClosing(d) \/ Deletes(d)
       \/ LeaseLapses(d) \/ FallsDue(d) \/ Ages(d)
  \/ \E w \in Workers : Works(w) \/ PassEnds(w)

Spec == Init /\ [][Next]_vars

(* The loops go on, and time: a lease nobody's pass is under lapses, a     *)
(* wait ends, an age counted is past.  Of the relays nothing is assumed.   *)
LapsesUnattended(d) ==
  /\ \A w \in mails[d].heldBy : ~Carries(w, d)
  /\ LeaseLapses(d)

FairSpec ==
  /\ Spec
  /\ \A w \in Workers : WF_vars(Works(w))
  /\ \A d \in Mails :
       WF_vars(LapsesUnattended(d)) /\ WF_vars(FallsDue(d)) /\ WF_vars(Ages(d))

-----------------------------------------------------------------------------
(* Properties.                                                             *)

(* The tables hold what their columns may, and only what waits is leased.  *)
TypeOK ==
  /\ closing \in BOOLEAN
  /\ channel \in Channels
  /\ mails \in [Mails -> Rows]
  /\ \A d \in Mails : mails[d].heldBy # {} => Pending(d)
  /\ pass \in [Workers -> Passes]
  /\ troubles \in Nat

(* "Never one another worker holds while it is sent: its send would go     *)
(* unrecorded" (mail.ts:377).  While a pass carries a mail under a lease   *)
(* not past, nobody's late answer, returned rest, failed relay or giving   *)
(* up takes it or frees it: only its deletion does, or the cancelling of   *)
(* the closing it tells of.                                                *)
HeldWhileItIsSent ==
  [][\A w \in Workers : \A d \in Mails :
       (mails[d].heldBy = {w} /\ ~mails[d].lapsed /\ Carries(w, d))
         => \/ mails'[d].heldBy = {w}
            \/ mails'[d].state = "deleted"
            \/ closing /\ ~closing' /\ mails[d].purpose = "closing"
            \/ ~Carries(w, d)']_vars

(* "Nor does one relay's failing or succeeding stand for the other's"      *)
(* (mail.ts:226): the channel is marked failing, or cleared, by a mail     *)
(* that left by the relay it names, whatever leaves by which and whatever  *)
(* comes late or is lost.  Only where the relays are still those the pass  *)
(* claimed by: the code asks the channel as it is when it records.         *)
EachRelayForItself ==
  [][channel'.failing # channel.failing
       => \E w \in Workers :
            /\ pass[w].mail # pass'[w].mail
            /\ pass[w].own = {p \in Purposes : ByOwnRelay(p)}
                 => \A d \in pass[w].mail : LeavesByOwn(w, d) = (channel.relay = "own")]_vars

(* A mail ends - sent, given up, dropped or deleted - behind relays that   *)
(* may fail for ever, connectors that stay full and workers that stop with *)
(* it claimed: what fails holds back the rest no longer than its own age.  *)
(* A closing environment sends only its notices.                           *)
EveryMailEnds ==
  \A d \in Mails : Pending(d) ~> (~Pending(d) \/ (closing /\ mails[d].purpose \notin Notices))
=============================================================================
