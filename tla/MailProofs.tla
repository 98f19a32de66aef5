------------------------------ MODULE MailProofs ------------------------------
(***************************************************************************)
(* What an environment's mail keeps for any workers, whether or not their  *)
(* passes outlast their leases, any mails, settings and troubles.          *)
(***************************************************************************)
EXTENDS Mail, TLAPS

(* A row as the table may hold it.                                         *)
Kept == {row \in Rows : row.heldBy # {} => row.state = "pending"}

LEMMA RowsAreKept ==
  ASSUME TypeOK
  PROVE  mails \in [Mails -> Kept]
BY DEF TypeOK, Kept, Pending

LEMMA KeptAreRows ==
  ASSUME mails' \in [Mails -> Kept]
  PROVE  /\ mails' \in [Mails -> Rows]
         /\ \A d \in Mails : mails'[d].heldBy # {} => Pending(d)'
<1>1. \A d \in Mails : mails'[d] \in Rows /\ (mails'[d].heldBy # {} => mails'[d].state = "pending")
  BY DEF Kept
<1>2. mails' \in [Mails -> Rows]
  BY <1>1
<1> QED
  BY <1>1, <1>2 DEF Pending

(* What the steps leave of a row.                                          *)
LEMMA RowsLeft ==
  ASSUME NEW row \in Kept
  PROVE  /\ Freed(row) \in Kept
         /\ \A state \in {"none", "pending", "sent", "given_up", "dropped", "deleted"} :
              Ended(row, state) \in Kept
         /\ \A age \in {"uncounted", "counting", "past"} : [row EXCEPT !.age = age] \in Kept
         /\ \A b \in BOOLEAN : /\ [row EXCEPT !.due = b] \in Kept
                               /\ [row EXCEPT !.lapsed = b] \in Kept
                               /\ [row EXCEPT !.tried = b] \in Kept
BY DEF Kept, Rows, Freed, Ended, NoRow, Purposes, Notices

LEMMA QueuedIsKept ==
  ASSUME NEW purpose \in Purposes
  PROVE  Queued(purpose) \in Kept
BY DEF Kept, Rows, Queued, NoRow, Purposes, Notices

LEMMA ClaimedIsKept ==
  ASSUME TypeOK, NEW w \in Workers, NEW d \in Mails, Pending(d)
  PROVE  Claimed(w, d) \in Kept
<1>1. mails[d] \in Rows /\ mails[d].state = "pending"
  BY DEF TypeOK, Pending
<1> QED
  BY <1>1 DEF Claimed, Kept, Rows

LEMMA MarkedIsAChannel ==
  ASSUME TypeOK, NEW d, NEW failing \in BOOLEAN, Mark(d, failing)
  PROVE  channel' \in Channels
BY DEF TypeOK, Mark, Channels

LEMMA IdleIsAPass == Idle \in Passes
BY DEF Idle, Passes

(* A pass left: either over, or with nothing being sent.                   *)
LEMMA LeftIsAPass ==
  ASSUME TypeOK, NEW w \in Workers, NEW stopping
  PROVE  /\ Left(w, stopping) \in Passes /\ Left(w, stopping).mail = {}
         /\ Left(w, stopping).rest \subseteq pass[w].rest
<1>1. pass[w] \in Passes
  BY DEF TypeOK
<1>2. CASE pass[w].rest = {}
  BY <1>2, IdleIsAPass DEF Left, Idle
<1>3. CASE pass[w].rest # {}
  BY <1>1, <1>3 DEF Left, Passes
<1> QED
  BY <1>2, <1>3

LEMMA RecordedIsKept ==
  ASSUME TypeOK, NEW w \in Workers, NEW d \in Mails,
         RecordEnd(w, d) \/ RecordWait(w, d) \/ RecordFailure(w, d)
  PROVE  mails' \in [Mails -> Kept] /\ channel' \in Channels
<1>1. mails \in [Mails -> Kept] /\ channel \in Channels
  BY RowsAreKept DEF TypeOK
<1>2. CASE RecordEnd(w, d)
  <2>1. Ended(mails[d], EndsAs(pass[w].answer)) \in Kept
    <3>1. EndsAs(pass[w].answer) \in {"sent", "given_up", "dropped"}
      BY DEF EndsAs
    <3> QED
      BY <1>1, <3>1, RowsLeft
  <2>2. mails' = [mails EXCEPT ![d] = Ended(mails[d], EndsAs(pass[w].answer))]
    BY <1>1, <1>2 DEF RecordEnd
  <2> QED
    BY <1>1, <1>2, <2>1, <2>2, MarkedIsAChannel DEF RecordEnd
<1>3. CASE RecordWait(w, d)
  <2>1. Freed(mails[d]) \in Kept /\ mails' = [mails EXCEPT ![d] = Freed(mails[d])]
    BY <1>1, <1>3, RowsLeft DEF RecordWait
  <2> QED
    BY <1>1, <1>3, <2>1 DEF RecordWait
<1>4. CASE RecordFailure(w, d)
  <2>1. \A e \in Mails : /\ [Freed(mails[e]) EXCEPT !.tried = TRUE] \in Kept
                         /\ [mails[e] EXCEPT !.due = FALSE] \in Kept
                         /\ mails[e] \in Kept
    BY <1>1, RowsLeft
  <2> QED
    BY <1>4, <2>1, MarkedIsAChannel DEF RecordFailure
<1> QED
  BY <1>2, <1>3, <1>4

LEMMA StepKeepsTheType ==
  ASSUME TypeOK, [Next]_vars
  PROVE  TypeOK'
<1>0. /\ closing \in BOOLEAN /\ channel \in Channels /\ troubles \in Nat
      /\ mails \in [Mails -> Kept] /\ pass \in [Workers -> Passes]
  BY RowsAreKept DEF TypeOK
<1>a. ASSUME closing' \in BOOLEAN, channel' \in Channels, troubles' \in Nat,
             mails' \in [Mails -> Kept], pass' \in [Workers -> Passes]
      PROVE  TypeOK'
  BY <1>a, KeptAreRows DEF TypeOK
<1>1. CASE SetMailChannel
  <2>1. channel' \in Channels
    BY <1>0, <1>1, MailAssumption DEF SetMailChannel, Channels, MailAssumption
  <2> QED
    BY <1>0, <1>1, <1>a, <2>1 DEF SetMailChannel
<1>2. ASSUME NEW d \in Mails, QueueMail(d) \/ TellClosing(d)
      PROVE  TypeOK'
  <2>1. PICK purpose \in Purposes : mails' = [mails EXCEPT ![d] = Queued(purpose)]
    BY <1>2, MailAssumption DEF QueueMail, TellClosing, Purposes, Notices, MailAssumption
  <2>2. mails' \in [Mails -> Kept]
    BY <1>0, <2>1, QueuedIsKept
  <2> QED
    BY <1>0, <1>2, <1>a, <2>2 DEF QueueMail, TellClosing
<1>3. ASSUME NEW d \in Mails, CancelClosing(d)
      PROVE  TypeOK'
  <2>1. Queued("cancelled") \in Kept
    BY QueuedIsKept DEF Purposes, Notices
  <2>2. \A e \in Mails : Ended(mails[e], "dropped") \in Kept /\ mails[e] \in Kept
    BY <1>0, RowsLeft
  <2>3. mails' \in [Mails -> Kept]
    BY <1>3, <2>1, <2>2 DEF CancelClosing
  <2> QED
    BY <1>0, <1>3, <1>a, <2>3 DEF CancelClosing
<1>4. ASSUME NEW d \in Mails, Deletes(d)
      PROVE  TypeOK'
  <2>1. [NoRow EXCEPT !.state = "deleted"] \in Kept
    BY DEF NoRow, Kept, Rows, Purposes
  <2> QED
    BY <1>0, <1>4, <1>a, <2>1 DEF Deletes
<1>5. ASSUME NEW d \in Mails, LeaseLapses(d) \/ FallsDue(d) \/ Ages(d)
      PROVE  TypeOK'
  <2>1. PICK row \in Kept : mails' = [mails EXCEPT ![d] = row]
    <3>1. /\ [mails[d] EXCEPT !.lapsed = TRUE] \in Kept /\ [mails[d] EXCEPT !.due = TRUE] \in Kept
          /\ [mails[d] EXCEPT !.age = "past"] \in Kept
      BY <1>0, RowsLeft
    <3>2. \/ mails' = [mails EXCEPT ![d] = [mails[d] EXCEPT !.lapsed = TRUE]]
          \/ mails' = [mails EXCEPT ![d] = [mails[d] EXCEPT !.due = TRUE]]
          \/ mails' = [mails EXCEPT ![d] = [mails[d] EXCEPT !.age = "past"]]
      BY <1>0, <1>5 DEF LeaseLapses, FallsDue, Ages
    <3> QED
      BY <3>1, <3>2
  <2>2. mails' \in [Mails -> Kept]
    BY <1>0, <2>1
  <2> QED
    BY <1>0, <1>5, <1>a, <2>2 DEF LeaseLapses, FallsDue, Ages
<1>6. ASSUME NEW w \in Workers, ListTenant(w)
      PROVE  TypeOK'
  <2>1. [pass[w] EXCEPT !.at = IF closing THEN "closing" ELSE "live"] \in Passes
    BY <1>0 DEF Passes
  <2>2. pass' = [pass EXCEPT ![w] = [pass[w] EXCEPT !.at = IF closing THEN "closing" ELSE "live"]]
    BY <1>0, <1>6 DEF ListTenant
  <2>3. pass' \in [Workers -> Passes]
    BY <1>0, <2>1, <2>2
  <2> QED
    BY <1>0, <1>6, <1>a, <2>3 DEF ListTenant
<1>7. ASSUME NEW w \in Workers, ClaimMail(w)
      PROVE  TypeOK'
  <2>1. PICK unsendable \in SUBSET Claimable(w) :
          /\ mails' = [d \in Mails |->
               IF d \in GivenUp THEN Ended(mails[d], "given_up")
               ELSE IF d \in unsendable THEN Ended(Claimed(w, d), "dropped")
               ELSE IF d \in Claimable(w) THEN Claimed(w, d)
               ELSE mails[d]]
          /\ pass' = [pass EXCEPT ![w] =
               IF Claimable(w) = unsendable THEN Idle
               ELSE [Idle EXCEPT !.at = "sending", !.rest = Claimable(w) \ unsendable,
                       !.own = {p \in Purposes : ByOwnRelay(p)}]]
    BY <1>7 DEF ClaimMail
  <2>2. Claimable(w) \subseteq Mails /\ \A d \in Claimable(w) : Pending(d)
    BY DEF Claimable
  <2>3. ASSUME NEW d \in Mails
        PROVE  /\ mails[d] \in Kept /\ Ended(mails[d], "given_up") \in Kept
               /\ d \in Claimable(w) =>
                    Claimed(w, d) \in Kept /\ Ended(Claimed(w, d), "dropped") \in Kept
    BY <1>0, <2>2, RowsLeft, ClaimedIsKept
  <2>4. mails' \in [Mails -> Kept]
    BY <2>1, <2>3
  <2>5. [Idle EXCEPT !.at = "sending", !.rest = Claimable(w) \ unsendable,
           !.own = {p \in Purposes : ByOwnRelay(p)}] \in Passes
    BY <2>2 DEF Idle, Passes
  <2>6. pass' \in [Workers -> Passes]
    BY <1>0, <2>1, <2>5, IdleIsAPass
  <2> QED
    BY <1>0, <1>7, <1>a, <2>4, <2>6 DEF ClaimMail
<1>8. ASSUME NEW w \in Workers, NEW d \in Mails, Deliver(w, d)
      PROVE  TypeOK'
  <2>1. PICK answer \in Answers :
          pass' = [pass EXCEPT ![w] = [pass[w] EXCEPT !.rest = @ \ {d}, !.mail = {d}, !.answer = answer]]
    BY <1>0, <1>8 DEF Deliver
  <2>2. [pass[w] EXCEPT !.rest = @ \ {d}, !.mail = {d}, !.answer = answer] \in Passes
    BY <1>0 DEF Passes
  <2>3. pass' \in [Workers -> Passes]
    BY <1>0, <2>1, <2>2
  <2> QED
    BY <1>0, <1>8, <1>a, <2>3 DEF Deliver
<1>9. ASSUME NEW w \in Workers, NEW d \in Mails, Record(w, d)
      PROVE  TypeOK'
  <2>1. pass' \in [Workers -> Passes]
    <3>1. PICK stopping : Onward(w, stopping)
      BY <1>9 DEF Record
    <3> QED
      BY <1>0, <3>1, LeftIsAPass DEF Onward
  <2>2. mails' \in [Mails -> Kept] /\ channel' \in Channels
    BY <1>0, <1>9, RecordedIsKept DEF Record
  <2> QED
    BY <1>0, <1>9, <1>a, <2>1, <2>2 DEF Record
<1>10. ASSUME NEW w \in Workers, ReturnRest(w) \/ PassEnds(w)
       PROVE  TypeOK'
  <2>1. pass' \in [Workers -> Passes] /\ troubles' \in Nat
    BY <1>0, <1>10, IdleIsAPass DEF ReturnRest, PassEnds
  <2>2. \A d \in Mails : Freed(mails[d]) \in Kept /\ mails[d] \in Kept
    BY <1>0, RowsLeft
  <2>3. mails' \in [Mails -> Kept]
    BY <1>0, <1>10, <2>2 DEF ReturnRest, PassEnds
  <2> QED
    BY <1>0, <1>10, <1>a, <2>1, <2>3 DEF ReturnRest, PassEnds
<1>11. CASE UNCHANGED vars
  BY <1>0, <1>11, <1>a DEF vars
<1> QED
  BY <1>1, <1>2, <1>3, <1>4, <1>5, <1>6, <1>7, <1>8, <1>9, <1>10, <1>11 DEF Next, Works

(* The tables hold what their columns may, and only what waits is leased,  *)
(* whatever is queued, claimed, sent, recorded, set, cancelled and lost.   *)
THEOREM MailTypeCorrect == Spec => []TypeOK
<1>1. ASSUME Init
      PROVE  TypeOK
  <2>1. closing \in BOOLEAN /\ channel \in Channels /\ troubles \in Nat
    BY <1>1 DEF Init, Channels
  <2>2. NoRow \in Rows /\ NoRow.heldBy = {} /\ mails = [d \in Mails |-> NoRow]
    BY <1>1 DEF Init, NoRow, Rows, Purposes
  <2>3. mails \in [Mails -> Rows] /\ \A d \in Mails : mails[d].heldBy = {}
    BY <2>2
  <2>4. pass \in [Workers -> Passes]
    BY <1>1, IdleIsAPass DEF Init
  <2> QED
    BY <2>1, <2>3, <2>4 DEF TypeOK
<1>2. TypeOK /\ [Next]_vars => TypeOK'
  BY StepKeepsTheType
<1> QED
  BY <1>1, <1>2, PTL DEF Spec

-----------------------------------------------------------------------------
(* What a pass sends is no longer among what it has still to send.         *)
Apart == \A w \in Workers : pass[w].mail \cap pass[w].rest = {}

LEMMA StepKeepsApart ==
  ASSUME TypeOK, Apart, [Next]_vars
  PROVE  Apart'
<1>0. pass \in [Workers -> Passes]
  BY DEF TypeOK
<1>a. ASSUME NEW w \in Workers, NEW p \in Passes, p.mail \cap p.rest = {},
             pass' = [pass EXCEPT ![w] = p]
      PROVE  Apart'
  BY <1>0, <1>a DEF Apart
<1>b. Idle \in Passes /\ Idle.mail \cap Idle.rest = {}
  BY IdleIsAPass DEF Idle
<1>1. ASSUME UNCHANGED pass
      PROVE  Apart'
  BY <1>1 DEF Apart
<1>2. ASSUME NEW w \in Workers, ListTenant(w)
      PROVE  Apart'
  <2> DEFINE p == [pass[w] EXCEPT !.at = IF closing THEN "closing" ELSE "live"]
  <2>1. p \in Passes /\ p.mail \cap p.rest = {}
    BY <1>0 DEF Passes, Apart
  <2>2. pass' = [pass EXCEPT ![w] = p]
    BY <1>0, <1>2 DEF ListTenant
  <2> HIDE DEF p
  <2> QED
    BY <1>a, <2>1, <2>2
<1>3. ASSUME NEW w \in Workers, ClaimMail(w)
      PROVE  Apart'
  <2>1. PICK unsendable \in SUBSET Claimable(w) :
          pass' = [pass EXCEPT ![w] =
            IF Claimable(w) = unsendable THEN Idle
            ELSE [Idle EXCEPT !.at = "sending", !.rest = Claimable(w) \ unsendable,
                    !.own = {p \in Purposes : ByOwnRelay(p)}]]
    BY <1>3 DEF ClaimMail
  <2> DEFINE q == [Idle EXCEPT !.at = "sending", !.rest = Claimable(w) \ unsendable,
                     !.own = {p \in Purposes : ByOwnRelay(p)}]
  <2>2. q \in Passes /\ q.mail \cap q.rest = {}
    BY DEF Idle, Passes, Claimable
  <2>3. pass' = [pass EXCEPT ![w] = Idle] \/ pass' = [pass EXCEPT ![w] = q]
    BY <2>1
  <2> HIDE DEF q
  <2> QED
    BY <1>a, <1>b, <2>2, <2>3
<1>4. ASSUME NEW w \in Workers, NEW d \in Mails, Deliver(w, d)
      PROVE  Apart'
  <2>1. PICK answer \in Answers :
          pass' = [pass EXCEPT ![w] = [pass[w] EXCEPT !.rest = @ \ {d}, !.mail = {d}, !.answer = answer]]
    BY <1>0, <1>4 DEF Deliver
  <2> DEFINE p == [pass[w] EXCEPT !.rest = @ \ {d}, !.mail = {d}, !.answer = answer]
  <2>2. p \in Passes /\ p.mail \cap p.rest = {}
    BY <1>0 DEF Passes
  <2> HIDE DEF p
  <2> QED
    BY <1>a, <2>1, <2>2 DEF p
<1>5. ASSUME NEW w \in Workers, NEW d \in Mails, Record(w, d)
      PROVE  Apart'
  <2>1. PICK stopping : Onward(w, stopping)
    BY <1>5 DEF Record
  <2> QED
    BY <1>a, <2>1, LeftIsAPass DEF Onward
<1>6. ASSUME NEW w \in Workers, ReturnRest(w) \/ PassEnds(w)
      PROVE  Apart'
  BY <1>6, <1>a, <1>b DEF ReturnRest, PassEnds
<1>7. CASE \/ SetMailChannel \/ UNCHANGED vars
           \/ \E d \in Mails : \/ QueueMail(d) \/ TellClosing(d) \/ CancelClosing(d) \/ Deletes(d)
                               \/ LeaseLapses(d) \/ FallsDue(d) \/ Ages(d)
  BY <1>1, <1>7 DEF SetMailChannel, vars, QueueMail, TellClosing, CancelClosing, Deletes,
                    LeaseLapses, FallsDue, Ages
<1> QED
  BY <1>2, <1>3, <1>4, <1>5, <1>6, <1>7 DEF Next, Works

(* What HeldWhileItIsSent says of one step, one worker and one mail.       *)
Held(w, d) ==
  (mails[d].heldBy = {w} /\ ~mails[d].lapsed /\ Carries(w, d))
    => \/ mails'[d].heldBy = {w}
       \/ mails'[d].state = "deleted"
       \/ closing /\ ~closing' /\ mails[d].purpose = "closing"
       \/ ~Carries(w, d)'

LEMMA StepHolds ==
  ASSUME TypeOK, Apart, [Next]_vars, NEW w \in Workers, NEW d \in Mails
  PROVE  Held(w, d)
<1> SUFFICES ASSUME mails[d].heldBy = {w}, ~mails[d].lapsed, Carries(w, d)
             PROVE  \/ mails'[d].heldBy = {w}
                    \/ mails'[d].state = "deleted"
                    \/ closing /\ ~closing' /\ mails[d].purpose = "closing"
                    \/ ~Carries(w, d)'
  BY DEF Held
<1>0. /\ mails \in [Mails -> Rows] /\ mails[d] \in Rows /\ pass \in [Workers -> Passes]
      /\ Pending(d) /\ ~Free(d)
  BY DEF TypeOK, Free
<1>a. ASSUME mails'[d] = mails[d]
      PROVE  mails'[d].heldBy = {w}
  BY <1>a
<1>1. CASE SetMailChannel \/ UNCHANGED vars \/ \E v \in Workers : ListTenant(v) \/ PassEnds(v)
  BY <1>1, <1>a DEF SetMailChannel, vars, ListTenant, PassEnds
<1>2. ASSUME NEW e \in Mails, QueueMail(e) \/ TellClosing(e)
      PROVE  mails'[d].heldBy = {w}
  <2>1. e # d
    BY <1>0, <1>2 DEF QueueMail, TellClosing, Pending
  <2> QED
    BY <1>0, <1>2, <1>a, <2>1 DEF QueueMail, TellClosing
<1>3. ASSUME NEW e \in Mails, CancelClosing(e)
      PROVE  \/ mails'[d].heldBy = {w}
             \/ closing /\ ~closing' /\ mails[d].purpose = "closing"
  <2>1. e # d
    BY <1>0, <1>3 DEF CancelClosing, Pending
  <2> QED
    BY <1>0, <1>3, <1>a, <2>1 DEF CancelClosing
<1>4. ASSUME NEW e \in Mails, Deletes(e)
      PROVE  mails'[d].heldBy = {w} \/ mails'[d].state = "deleted"
  BY <1>0, <1>4, <1>a DEF Deletes, NoRow
<1>5. ASSUME NEW e \in Mails, LeaseLapses(e) \/ FallsDue(e) \/ Ages(e)
      PROVE  mails'[d].heldBy = {w}
  <2>1. CASE e # d
    BY <1>0, <1>5, <1>a, <2>1 DEF LeaseLapses, FallsDue, Ages
  <2>2. CASE e = d
    BY <1>0, <1>5, <2>2 DEF LeaseLapses, FallsDue, Ages, Rows
  <2> QED
    BY <2>1, <2>2
<1>6. ASSUME NEW v \in Workers, ClaimMail(v)
      PROVE  mails'[d].heldBy = {w}
  <2>1. d \notin GivenUp /\ d \notin Claimable(v)
    BY <1>0 DEF GivenUp, Claimable
  <2> QED
    BY <1>6, <1>a, <2>1 DEF ClaimMail
<1>7. ASSUME NEW v \in Workers, NEW e \in Mails, Deliver(v, e)
      PROVE  mails'[d].heldBy = {w}
  BY <1>7, <1>a DEF Deliver
<1>8. ASSUME NEW v \in Workers, NEW e \in Mails, Record(v, e)
      PROVE  mails'[d].heldBy = {w} \/ ~Carries(w, d)'
  <2>1. CASE ~UnderItsLease(v, e)
    BY <1>8, <1>a, <2>1 DEF Record
  <2>2. CASE UnderItsLease(v, e) /\ e # d
    <3>1. RecordEnd(v, e) \/ RecordWait(v, e) \/ RecordFailure(v, e)
      BY <1>8, <2>2 DEF Record
    <3>2. CASE RecordEnd(v, e) \/ RecordWait(v, e)
      BY <1>0, <1>a, <2>2, <3>2 DEF RecordEnd, RecordWait
    <3>3. CASE RecordFailure(v, e)
      <4>1. mails'[d] = mails[d] \/ mails'[d] = [mails[d] EXCEPT !.due = FALSE]
        BY <2>2, <3>3 DEF RecordFailure
      <4> QED
        BY <1>0, <4>1 DEF Rows
    <3> QED
      BY <3>1, <3>2, <3>3
  <2>3. CASE UnderItsLease(v, e) /\ e = d
    <3>1. v = w /\ pass[w].mail = {d} /\ d \notin pass[w].rest
      BY <1>8, <2>3 DEF UnderItsLease, Record, Apart
    <3>2. PICK stopping : Onward(w, stopping)
      BY <1>8, <3>1 DEF Record
    <3>3. pass'[w] = Left(w, stopping)
      BY <1>0, <3>2 DEF Onward
    <3>4. pass'[w].mail = {} /\ pass'[w].rest \subseteq pass[w].rest
      BY <3>3, LeftIsAPass
    <3> QED
      BY <3>1, <3>4 DEF Carries
  <2> QED
    BY <2>1, <2>2, <2>3
<1>9. ASSUME NEW v \in Workers, ReturnRest(v)
      PROVE  mails'[d].heldBy = {w} \/ ~Carries(w, d)'
  <2>1. CASE d \in Returned(v)
    <3>1. v = w
      BY <2>1 DEF Returned, UnderItsLease
    <3>2. pass'[w] = Idle
      BY <1>0, <1>9, <3>1 DEF ReturnRest
    <3> QED
      BY <3>2 DEF Carries, Idle
  <2>2. CASE d \notin Returned(v)
    BY <1>9, <1>a, <2>2 DEF ReturnRest
  <2> QED
    BY <2>1, <2>2
<1> QED
  BY <1>1, <1>2, <1>3, <1>4, <1>5, <1>6, <1>7, <1>8, <1>9 DEF Next, Works

(* What is sent is recorded: while a pass carries a mail under a lease not *)
(* past, no other pass takes, frees or gives it up, however many there are *)
(* and however late those that outlast their leases record.                *)
THEOREM MailIsHeldWhileSent == Spec => HeldWhileItIsSent
<1>1. ASSUME Init
      PROVE  Apart
  <2>1. Idle.mail = {}
    BY DEF Idle
  <2>2. ASSUME NEW w \in Workers
        PROVE  pass[w] = Idle
    BY <1>1 DEF Init
  <2>3. ASSUME NEW w \in Workers
        PROVE  pass[w].mail \cap pass[w].rest = {}
    BY <2>1, <2>2
  <2> QED
    BY <2>3 DEF Apart
<1>2. TypeOK /\ Apart /\ [Next]_vars => Apart'
  BY StepKeepsApart
<1>3. TypeOK /\ Apart /\ [Next]_vars
        => [\A w \in Workers : \A d \in Mails :
              (mails[d].heldBy = {w} /\ ~mails[d].lapsed /\ Carries(w, d))
                => \/ mails'[d].heldBy = {w}
                   \/ mails'[d].state = "deleted"
                   \/ closing /\ ~closing' /\ mails[d].purpose = "closing"
                   \/ ~Carries(w, d)']_vars
  BY StepHolds DEF Held
<1> QED
  BY <1>1, <1>2, <1>3, MailTypeCorrect, PTL DEF Spec, HeldWhileItIsSent

-----------------------------------------------------------------------------
(* The channel is marked by what is recorded alone, and that was sent by   *)
(* the relay the channel names.                                            *)
LEMMA MarksAreOfTheRelay ==
  ASSUME TypeOK, NEW w \in Workers, NEW d \in Mails, Record(w, d),
         channel'.failing # channel.failing
  PROVE  /\ pass[w].mail = {d} /\ pass'[w].mail = {}
         /\ pass[w].own = {p \in Purposes : ByOwnRelay(p)}
              => LeavesByOwn(w, d) = (channel.relay = "own")
<1>1. pass[w].mail = {d}
  BY DEF Record
<1>2. pass'[w].mail = {}
  <2>1. PICK stopping : Onward(w, stopping)
    BY DEF Record
  <2>2. pass'[w] = Left(w, stopping)
    BY <2>1 DEF Onward, TypeOK
  <2> QED
    BY <2>2, LeftIsAPass
<1>3. StandsForTheChannel(d)
  <2>1. PICK failing : Mark(d, failing)
    BY DEF Record, RecordEnd, RecordWait, RecordFailure
  <2> QED
    BY <2>1 DEF Mark
<1>4. mails[d].purpose \in Purposes
  BY DEF TypeOK, Rows
<1>5. ByOwnRelay(mails[d].purpose) <=> channel.relay = "own"
  BY <1>3 DEF StandsForTheChannel, ByOwnRelay
<1>6. ASSUME pass[w].own = {p \in Purposes : ByOwnRelay(p)}
      PROVE  LeavesByOwn(w, d) <=> channel.relay = "own"
  BY <1>4, <1>5, <1>6 DEF LeavesByOwn
<1>7. LeavesByOwn(w, d) \in BOOLEAN
  BY DEF LeavesByOwn
<1> QED
  BY <1>1, <1>2, <1>6, <1>7

(* "Nor does one relay's failing or succeeding stand for the other's":     *)
(* where the relays stand as a pass claimed by them, only what left by the *)
(* channel's marks it failing or clears it, however late it is recorded.   *)
THEOREM RelaysAreApart == Spec => EachRelayForItself
<1>1. ASSUME TypeOK, Next, channel'.failing # channel.failing
      PROVE  \E w \in Workers :
               /\ pass[w].mail # pass'[w].mail
               /\ pass[w].own = {p \in Purposes : ByOwnRelay(p)}
                    => \A d \in pass[w].mail : LeavesByOwn(w, d) = (channel.relay = "own")
  <2>1. ASSUME SetMailChannel
        PROVE  FALSE
    BY <1>1, <2>1 DEF SetMailChannel, TypeOK, Channels
  <2>2. ~UNCHANGED channel
    BY <1>1
  <2>3. PICK w \in Workers, d \in Mails : Record(w, d)
    BY <1>1, <2>1, <2>2
    DEF Next, Works, QueueMail, TellClosing, CancelClosing, Deletes, LeaseLapses, FallsDue, Ages,
        ListTenant, ClaimMail, ReturnRest, Deliver, PassEnds
  <2> QED
    BY <1>1, <2>3, MarksAreOfTheRelay
<1>2. TypeOK /\ [Next]_vars
        => [channel'.failing # channel.failing
              => \E w \in Workers :
                   /\ pass[w].mail # pass'[w].mail
                   /\ pass[w].own = {p \in Purposes : ByOwnRelay(p)}
                        => \A d \in pass[w].mail : LeavesByOwn(w, d) = (channel.relay = "own")]_vars
  BY <1>1
<1> QED
  BY <1>2, MailTypeCorrect, PTL DEF Spec, EachRelayForItself
=============================================================================
