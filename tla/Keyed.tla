--------------------------------- MODULE Keyed ---------------------------------
(***************************************************************************)
(* Requests that come with one principal's one idempotency key             *)
(* (packages/db/src/idempotency.ts, apps/service/src/idempotency.ts): an   *)
(* answer is kept for a day against the key, in the transaction that does  *)
(* the work, and the same request is answered from it again.               *)
(*                                                                         *)
(* A transaction holds the key from its recall to its commit, so what it   *)
(* recalled and what it keeps are two steps that no other's come between.  *)
(* An act whose work follows its deciding transaction holds it twice, and  *)
(* not between (apps/service/src/data/bindings.ts, creationAct).  What the *)
(* work is, is the extending module's.                                     *)
(***************************************************************************)
EXTENDS Naturals

CONSTANTS
  Sends,        \* the requests sent with the key, a first one's repeats among them
  Acts,         \* what a request may ask: its route, its path and its body
  WorksAfter,   \* the acts whose work runs after the deciding transaction commits
  Nothing       \* no record of the key, or nobody holding it

ASSUME KeyedAssumption ==
  /\ WorksAfter \subseteq Acts
  /\ Nothing \notin Acts /\ Nothing \notin Sends

VARIABLES
  call,         \* how far each request has got
  holder,       \* whose transaction holds the key's lock
  record,       \* the act idempotency_record keeps an answer to, made in the last day
  worked        \* how often work has been done under the key in its record's day

vars == <<call, holder, record, worked>>

Calls ==
  [at : {"unsent", "sent", "deciding", "after", "making", "answered", "refused"},
   act : Acts \cup {Nothing}]

Gets(s, state) == call' = [call EXCEPT ![s].at = state]
Letting == holder' = Nothing

-----------------------------------------------------------------------------
Send(s, act) ==
  /\ call[s].at = "unsent"
  /\ call' = [call EXCEPT ![s] = [at |-> "sent", act |-> act]]
  /\ UNCHANGED <<holder, record, worked>>

(* What the key holds is read under its lock.                              *)
MayRecall == holder = Nothing

Recall(s, working) ==
  /\ MayRecall
  /\ \/ record = Nothing /\ Gets(s, working) /\ holder' = s
     \/ record # Nothing /\ UNCHANGED holder
          /\ Gets(s, IF record = call[s].act THEN "answered" ELSE "refused")
  /\ UNCHANGED <<record, worked>>

Decide(s) == call[s].at = "sent" /\ Recall(s, "deciding")

(* The deciding transaction commits, having kept nothing.                  *)
Defer(s) ==
  /\ call[s].at = "deciding" /\ call[s].act \in WorksAfter
  /\ Gets(s, "after") /\ Letting
  /\ UNCHANGED <<record, worked>>

(* Its queries run, whatever comes; then the key is recalled again.  A bug *)
(* to catch: taken for still free.                                         *)
MakeUnrecalled(s) ==
  /\ call[s].at = "after" /\ MayRecall
  /\ Gets(s, "making") /\ holder' = s
  /\ UNCHANGED <<record, worked>>
Make(s) == call[s].at = "after" /\ Recall(s, "making")

(* The work, and its answer kept, committed together.                      *)
Keep(s) ==
  /\ call[s].at = IF call[s].act \in WorksAfter THEN "making" ELSE "deciding"
  /\ Gets(s, "answered") /\ Letting
  /\ record' = call[s].act
  /\ worked' = worked + 1

(* Refused, or failed, and nothing kept: within a transaction, whose lock  *)
(* goes with it, or between the two.  A bug to catch: a lock that outlives *)
(* its transaction.                                                        *)
RefuseHolding(s) ==
  /\ call[s].at \in {"deciding", "after", "making"}
  /\ Gets(s, "refused")
  /\ UNCHANGED <<holder, record, worked>>
Refuse(s) ==
  /\ call[s].at \in {"deciding", "after", "making"}
  /\ Gets(s, "refused")
  /\ IF holder = s THEN Letting ELSE UNCHANGED holder
  /\ UNCHANGED <<record, worked>>

(* A record a day old is as none, and is replaced by the next.             *)
DayEnds ==
  /\ record # Nothing
  /\ record' = Nothing /\ worked' = 0
  /\ UNCHANGED <<call, holder>>

-----------------------------------------------------------------------------
Init ==
  /\ call = [s \in Sends |-> [at |-> "unsent", act |-> Nothing]]
  /\ holder = Nothing /\ record = Nothing /\ worked = 0

Answers(s) == Decide(s) \/ Defer(s) \/ Make(s) \/ Keep(s) \/ Refuse(s)

Next ==
  \/ \E s \in Sends : Answers(s) \/ \E act \in Acts : Send(s, act)
  \/ DayEnds

Spec == Init /\ [][Next]_vars

(* A transaction ends, and PostgreSQL gives a lock let go to who waits.    *)
FairSpec == Spec /\ \A s \in Sends : WF_vars(Answers(s))

-----------------------------------------------------------------------------
(* Properties.                                                             *)

(* The record and the requests hold what they may, and the key's lock is   *)
(* held by just the request whose transaction has read it.                 *)
TypeOK ==
  /\ call \in [Sends -> Calls]
  /\ holder \in Sends \cup {Nothing}
  /\ record \in Acts \cup {Nothing}
  /\ worked \in Nat
  /\ \A s \in Sends :
       /\ call[s].at \in {"deciding", "making"} <=> holder = s
       /\ call[s].at = "unsent" <=> call[s].act = Nothing

(* API-008, ID-B.  "The record exists exactly when what it records does":  *)
(* however often and however close together requests come with a key, and  *)
(* whether their work is within the deciding transaction or after it, work *)
(* is done once in the record's day, and no record is kept of none.        *)
DoneOnceADay == worked = IF record = Nothing THEN 0 ELSE 1

(* "A second request with the key waits for the first to commit or roll    *)
(* back": and never for ever, whichever of them fail (idempotency.ts:28).  *)
EveryRequestIsAnswered ==
  \A s \in Sends : call[s].at = "sent" ~> call[s].at \in {"answered", "refused"}
=============================================================================
