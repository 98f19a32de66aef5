------------------------------ MODULE Authoring ------------------------------
(***************************************************************************)
(* One component being edited: its lock on each line of revisions, the     *)
(* iterations its editors save, the versions cut from them, and the sweep  *)
(* (packages/db: editing.ts, promotion.ts, versions.ts, retention.ts,      *)
(* lines.ts, and every other writer of a component's versions or locks).   *)
(*                                                                         *)
(* Each write runs in a transaction behind one advisory lock per component *)
(* (`serialise`), so each is one action here.  Requests may come from any  *)
(* session at any time: a delayed, repeated or reordered request is simply *)
(* an action taken later, and a refused one changes nothing.               *)
(***************************************************************************)
EXTENDS Naturals, Sequences, FiniteSets

CONSTANTS
  Principals,    \* who may edit
  Sessions,      \* editing session ids, chosen by the client: two principals may use one
  Words,         \* what a component may say: its content and its values, by digest
  LastLine,      \* the greatest ordinal of a line; 0 is the main line
  Policies,      \* what an administrator may set: [release, take, keep]
  Grace,         \* TAKE_GRACE_MS
  AskLasts,      \* TAKE_ASK_LASTS_MS, counted from the end of the grace
  MaxSequence,   \* the greatest sequence a save may carry
  MaxVersions,   \* bound: the versions of one line
  MaxNow         \* bound: the clock

Lines == 0..LastLine
Main  == 0

(* The periods' bounds: taking is always shorter than releasing.           *)
ASSUME PeriodsAssumption ==
  /\ Policies # {}
  /\ Policies \subseteq [release : Nat, take : Nat, keep : Nat \ {0}]
  /\ \A q \in Policies : q.take \in 1..(q.release - 1)
ASSUME CountsAssumption ==
  /\ LastLine \in Nat /\ MaxSequence \in Nat /\ MaxVersions \in Nat /\ MaxNow \in Nat
  /\ Grace \in Nat \ {0} /\ AskLasts \in Nat \ {0}

VARIABLES
  now,          \* the database's clock
  policy,       \* editing_policy
  lock,         \* component_lock: a row for each line, live or lapsed, or none
  iterations,   \* iteration
  versions,     \* artifact_version, by line, in the order they were cut
  base,         \* artifact_line: the version each line diverged from
  translations, \* the lines that are a language's
  closed,       \* line_closed
  deleted       \* whether artifact_deletion's latest act is a delete

lineVars == <<base, translations, closed>>
vars == <<now, policy, lock, iterations, versions, base, translations, closed, deleted>>

-----------------------------------------------------------------------------
(* What the tables hold.                                                   *)

Writers    == [principal : Principals, session : Sessions]
VersionIds == [line : Lines, no : Nat]
NoVersion  == [line |-> Main, no |-> 0]
Asks       == [by : Writers, until : Nat]
LockRows   == [holder : Principals, session : Sessions, active : Nat, expires : Nat,
               taking : SUBSET Asks, takenFrom : SUBSET Sessions]
(* No row: it reads exactly as one that expired at once.                   *)
NoLock     == [expires |-> 0]
(* `made` is `created_at`, the clock's time of a save, told by its order   *)
(* among the saves its principal still has: no two are at one time.        *)
Iterations == [principal : Principals, session : Sessions, line : Lines, made : Nat,
               sequence : Nat, openedFrom : VersionIds, words : Words]
(* `cutBy` is no column: it is the session a cut promoted, for the         *)
(* properties; empty for a version that no session's iteration became.     *)
Versions   == [words : Words, author : Principals, cutBy : SUBSET Sessions, at : Nat]

-----------------------------------------------------------------------------
(* Lines, heads and who holds what.                                        *)

Begun(l) == l = Main \/ base[l] # NoVersion
Open(l)  == Begun(l) /\ l \notin closed

HeadOf(l) == IF versions[l] = <<>> THEN base[l] ELSE [line |-> l, no |-> Len(versions[l])]
WordsAt(v) == versions[v.line][v.no].words
Exists(v) == v.no \in 1..Len(versions[v.line])

Live(l) == lock[l].expires > now
Holds(who, l) == Live(l) /\ lock[l].holder = who.principal /\ lock[l].session = who.session

(* An ask past its last moment is no ask, and nothing clears it.           *)
StandingAsks(l) == {a \in lock[l].taking : now < a.until + AskLasts}

(* A bug to catch: a session id read as if no two principals could use it. *)
IterationsOfTheSession(who) == {i \in iterations : i.session = who.session}
IterationsOf(who) ==
  {i \in iterations : i.principal = who.principal /\ i.session = who.session}

(* A session's iterations on a line opened from its head, which a cut may  *)
(* promote, and the one of them it does.  A bug to catch: the words of one  *)
(* line cut onto another.                                                  *)
DraftsOfAnyLine(who, l) == {i \in IterationsOf(who) : i.openedFrom = HeadOf(l)}
Drafts(who, l) == {i \in IterationsOf(who) : i.line = l /\ i.openedFrom = HeadOf(l)}
LatestDrafts(who, l) ==
  {i \in Drafts(who, l) : \A j \in Drafts(who, l) : j.sequence <= i.sequence}

-----------------------------------------------------------------------------
(* The lock.                                                               *)

Row(who, from) ==
  [holder |-> who.principal, session |-> who.session, active |-> now,
   expires |-> now + policy.release, taking |-> {}, takenFrom |-> from]

(* Bugs to catch: whom it was taken from forgotten, and a save that lets   *)
(* an ask stand.                                                           *)
TakenRowTellingNobody(who, l) == Row(who, {})
TakenRow(who, l) == Row(who, {lock[l].session})
SavedRowUnderTheAsk(l) == [lock[l] EXCEPT !.active = now, !.expires = now + policy.release]
SavedRow(l) ==
  [lock[l] EXCEPT !.active = now, !.expires = now + policy.release, !.taking = {}]

(* A bug to catch: the ask kept under the session's id alone.              *)
AskBySession(who) == [by |-> who.session, until |-> now + Grace]
Ask(who) == [by |-> who, until |-> now + Grace]

(* Claimed where nobody holds it, and again, or moved, by its holder.      *)
ClaimLock(who, l) ==
  /\ ~deleted /\ Open(l)
  /\ Live(l) => lock[l].holder = who.principal
  /\ lock' = [lock EXCEPT ![l] = Row(who, IF Live(l) /\ lock[l].session = who.session
                                          THEN lock[l].takenFrom ELSE {})]
  /\ UNCHANGED <<now, policy, iterations, versions, lineVars, deleted>>

(* Asked of an idle holder: the first half of takeLock.                    *)
AskForLock(who, l) ==
  /\ ~deleted /\ Open(l)
  /\ Live(l) /\ lock[l].holder # who.principal
  /\ StandingAsks(l) = {}
  /\ now >= lock[l].active + policy.take
  /\ lock' = [lock EXCEPT ![l] = [@ EXCEPT !.taking = {Ask(who)}]]
  /\ UNCHANGED <<now, policy, iterations, versions, lineVars, deleted>>

(* Asked again past the grace of one's own standing ask: taken.            *)
TakeLock(who, l) ==
  /\ ~deleted /\ Open(l)
  /\ Live(l) /\ lock[l].holder # who.principal
  /\ \E a \in StandingAsks(l) : a.by = who /\ now >= a.until
  /\ lock' = [lock EXCEPT ![l] = TakenRow(who, l)]
  /\ UNCHANGED <<now, policy, iterations, versions, lineVars, deleted>>

(* What a session that does not hold the lock is refused with.             *)
Refusal(who, l) ==
  IF ~Live(l) THEN "lock.required"
  ELSE IF who.session \in lock[l].takenFrom THEN "lock.taken" ELSE "lock.held"

-----------------------------------------------------------------------------
(* Iterations.  A repeated sequence with the same words is answered and    *)
(* changes nothing, so only a new one is a step.                           *)

(* After every save the principal has made, in whichever session.          *)
MadeNow(p) ==
  LET before == {i.made : i \in {j \in iterations : j.principal = p}} IN
  {made \in {1} \cup {m + 1 : m \in before} : \A m \in before : m < made}

SaveIteration(who, l) ==
  \E sequence \in 1..MaxSequence, words \in Words, made \in MadeNow(who.principal) :
    /\ Holds(who, l) /\ Open(l)
    /\ \A i \in IterationsOf(who) : i.sequence < sequence
    /\ iterations' = iterations \cup
         {[principal |-> who.principal, session |-> who.session, line |-> l, made |-> made,
           sequence |-> sequence, openedFrom |-> HeadOf(l), words |-> words]}
    /\ lock' = [lock EXCEPT ![l] = SavedRow(l)]
    /\ UNCHANGED <<now, policy, versions, lineVars, deleted>>

(* The cuts an iteration's window is counted from, as the sweep's query    *)
(* finds them: on the iteration's line, numbered after the version it was  *)
(* opened from unless that is the main line's and the iteration is not.    *)
(* A bug to catch: the version it was opened from counted as the next cut. *)
LaterCutsFromItsOwn(i) ==
  {n \in 1..Len(versions[i.line]) :
     (i.line # Main /\ i.openedFrom.line = Main) \/ n >= i.openedFrom.no}
LaterCuts(i) ==
  {n \in 1..Len(versions[i.line]) :
     (i.line # Main /\ i.openedFrom.line = Main) \/ n > i.openedFrom.no}
PastItsWindow(i) ==
  \E n \in LaterCuts(i) :
    /\ \A m \in LaterCuts(i) : n <= m
    /\ versions[i.line][n].at + policy.keep <= now

SweepIterations ==
  /\ iterations' = {i \in iterations : ~PastItsWindow(i)}
  /\ UNCHANGED <<now, policy, lock, versions, lineVars, deleted>>

-----------------------------------------------------------------------------
(* Versions.  Every writer records through `record`: on an open line's     *)
(* head, of a component not deleted, and only what differs from the head.  *)

Record(l, words, author, cutBy) ==
  /\ Open(l) /\ ~deleted
  /\ words # WordsAt(HeadOf(l))
  /\ Len(versions[l]) < MaxVersions
  /\ versions' = [versions EXCEPT ![l] =
       Append(@, [words |-> words, author |-> author, cutBy |-> cutBy, at |-> now])]

(* The holder's latest draft becomes the line's next version.              *)
Promote(who, l) ==
  /\ Holds(who, l) /\ Open(l)
  /\ \E i \in LatestDrafts(who, l) : Record(l, i.words, who.principal, {who.session})

NothingToCut(who, l) ==
  /\ Holds(who, l) /\ Open(l)
  /\ \A i \in LatestDrafts(who, l) : i.words = WordsAt(HeadOf(l))
  /\ UNCHANGED versions

CutVersion(who, l) ==
  /\ Promote(who, l)
  /\ UNCHANGED <<now, policy, lock, iterations, lineVars, deleted>>

(* Done editing: cut, then the row deleted; a refused cut releases nothing. *)
ReleaseLock(who, l) ==
  /\ Promote(who, l) \/ NothingToCut(who, l)
  /\ lock' = [lock EXCEPT ![l] = NoLock]
  /\ UNCHANGED <<now, policy, iterations, lineVars, deleted>>

(* An earlier version of the line made its next, while nobody holds it.    *)
RestoreVersion(p, l) ==
  /\ ~Live(l)
  /\ \E n \in 1..Len(versions[l]) : Record(l, versions[l][n].words, p, {})
  /\ UNCHANGED <<now, policy, lock, iterations, lineVars, deleted>>

(* A suggestion merged into the main line by whoever holds it with nothing *)
(* saved since, or by anyone while nobody does.                            *)
MayAccept(p) ==
  Live(Main) => /\ lock[Main].holder = p
                /\ Drafts([principal |-> p, session |-> lock[Main].session], Main) = {}

AcceptSuggestion(p) ==
  /\ MayAccept(p)
  /\ \E words \in Words : Record(Main, words, p, {})
  /\ UNCHANGED <<now, policy, lock, iterations, lineVars, deleted>>

(* A translation come back from a vendor, while nobody holds its line.  A  *)
(* bug to catch: the main line's lock asked about rather than the line's.  *)
MayReturnToUnheldMain(l) == l \in translations /\ ~Live(Main)
MayReturn(l) == l \in translations /\ ~Live(l)

CutReturned(p, l) ==
  /\ MayReturn(l)
  /\ \E words \in Words : Record(l, words, p, {})
  /\ UNCHANGED <<now, policy, lock, iterations, lineVars, deleted>>

-----------------------------------------------------------------------------
(* Lines and the component.                                                *)

(* Begun at the next ordinal, from any version a gate may have designated; *)
(* a language's line always from one of the main line's.                   *)
Diverge(l, from, language) ==
  /\ ~deleted /\ ~Begun(l)
  /\ \A k \in Lines : k < l => Begun(k)
  /\ Exists(from) /\ (language => from.line = Main)
  /\ base' = [base EXCEPT ![l] = from]
  /\ translations' = IF language THEN translations \cup {l} ELSE translations
  /\ UNCHANGED <<now, policy, lock, iterations, versions, closed, deleted>>

(* A line closed, and what was chosen of it made the main line's next      *)
(* version: neither line may be held.                                      *)
BringLineBack(p, l) ==
  /\ l # Main /\ Open(l) /\ l \notin translations
  /\ ~Live(Main) /\ ~Live(l)
  /\ (\E words \in Words : Record(Main, words, p, {})) \/ UNCHANGED versions
  /\ closed' = closed \cup {l}
  /\ UNCHANGED <<now, policy, lock, iterations, base, translations, deleted>>

(* Moved to another space: every line's lock is dropped.                   *)
MoveToSpace ==
  /\ ~deleted
  /\ lock' = [l \in Lines |-> NoLock]
  /\ UNCHANGED <<now, policy, iterations, versions, lineVars, deleted>>

(* A lock on any line refuses a delete.  A bug to catch: the main line's   *)
(* alone does.                                                             *)
HeldOnMain == Live(Main)
HeldAnywhere == \E l \in Lines : Live(l)

DeleteArtifact ==
  /\ ~deleted /\ ~HeldAnywhere
  /\ deleted' = TRUE
  /\ UNCHANGED <<now, policy, lock, iterations, versions, lineVars>>

UndeleteArtifact ==
  /\ deleted
  /\ deleted' = FALSE
  /\ UNCHANGED <<now, policy, lock, iterations, versions, lineVars>>

SetEditingPolicy ==
  /\ policy' \in Policies
  /\ UNCHANGED <<now, lock, iterations, versions, lineVars, deleted>>

Tick ==
  /\ now < MaxNow
  /\ now' = now + 1
  /\ UNCHANGED <<policy, lock, iterations, versions, lineVars, deleted>>

-----------------------------------------------------------------------------
(* A component made a moment ago: one version, no lines, nobody editing.   *)
Init ==
  /\ now = 0
  /\ policy \in Policies
  /\ lock = [l \in Lines |-> NoLock]
  /\ iterations = {}
  /\ \E words \in Words, p \in Principals :
       versions = [l \in Lines |->
         IF l = Main THEN <<[words |-> words, author |-> p, cutBy |-> {}, at |-> 0]>> ELSE <<>>]
  /\ base = [l \in Lines |-> NoVersion]
  /\ translations = {}
  /\ closed = {}
  /\ deleted = FALSE

Next ==
  \/ \E who \in Writers, l \in Lines :
       \/ ClaimLock(who, l) \/ AskForLock(who, l) \/ TakeLock(who, l)
       \/ SaveIteration(who, l) \/ CutVersion(who, l) \/ ReleaseLock(who, l)
  \/ \E p \in Principals, l \in Lines :
       RestoreVersion(p, l) \/ CutReturned(p, l) \/ BringLineBack(p, l)
  \/ \E p \in Principals : AcceptSuggestion(p)
  \/ \E l, k \in Lines, n \in 1..MaxVersions, language \in BOOLEAN :
       Diverge(l, [line |-> k, no |-> n], language)
  \/ SweepIterations \/ MoveToSpace \/ DeleteArtifact \/ UndeleteArtifact
  \/ SetEditingPolicy \/ Tick

Spec == Init /\ [][Next]_vars

-----------------------------------------------------------------------------
(* Properties.                                                             *)

(* The tables hold what their columns may.                                 *)
TypeOK ==
  /\ now \in Nat
  /\ policy \in Policies
  /\ lock \in [Lines -> LockRows \cup {NoLock}]
  /\ iterations \subseteq Iterations
  /\ versions \in [Lines -> Seq(Versions)]
  /\ base \in [Lines -> VersionIds]
  /\ translations \subseteq Lines
  /\ closed \subseteq Lines
  /\ deleted \in BOOLEAN

(* The version a cut on a line was made from: the one before it, or the    *)
(* one its line diverged from.                                             *)
Before(l, n) == IF n = 1 THEN base[l] ELSE [line |-> l, no |-> n - 1]

(* VER-006.  A version a session cut says what that session, of its        *)
(* author, saved last on that line from the version before: never another  *)
(* principal's words, another line's, an older cut's or an earlier save's. *)
(* The saves it was cut from are there until the version has stood a whole *)
(* window, and only the sweep may have taken them by then.                 *)
CutSaysWhatWasSavedLast ==
  \A l \in Lines : \A n \in 1..Len(versions[l]) : \A s \in versions[l][n].cutBy :
    LET saved == {i \in iterations :
                    /\ i.principal = versions[l][n].author /\ i.session = s
                    /\ i.line = l /\ i.openedFrom = Before(l, n)}
    IN  /\ \A i \in saved :
             (\A j \in saved : j.sequence <= i.sequence) => i.words = versions[l][n].words
        /\ saved = {} => \E q \in Policies : versions[l][n].at + q.keep <= now

(* A lock is a deletion's dependant (TR-H) and an open session is never    *)
(* closed under: neither a deleted component nor a closed line is held, on *)
(* any line, whatever order the claims, the delete and the close came in.  *)
NothingGoneIsHeld ==
  \A l \in Lines : Live(l) => ~deleted /\ Open(l)

(* COL-047.  A lock passes from one principal to another while it is live  *)
(* only where the first has been idle for a take period and a whole grace: *)
(* a claim or a save in the grace keeps it, whatever was asked before.     *)
TakenOnlyFromTheIdle ==
  [][\A l \in Lines :
       (Live(l) /\ Live(l)' /\ lock'[l].holder # lock[l].holder)
         => \E q \in Policies : now >= lock[l].active + q.take + Grace]_vars

(* COL-045.  The session a lock was taken from is told it was taken, and   *)
(* by whom, for as long as the taker's session keeps it, through every     *)
(* claim and save of the taker's.                                          *)
TheTakenAreTold ==
  [][\A l \in Lines : (Live(l) /\ Live(l)') =>
       /\ \A who \in Writers :
            (Holds(who, l) /\ lock'[l].holder # who.principal)
              => Refusal(who, l)' = "lock.taken"
       /\ (lock'[l].holder = lock[l].holder /\ lock'[l].session = lock[l].session)
            => lock'[l].takenFrom = lock[l].takenFrom]_vars

(* VER-003.  The sweep takes an iteration only once the next version of    *)
(* its own line, after the one it was opened from, was cut a whole window  *)
(* ago: work no later version of its line followed is never taken.         *)
NextCutOf(i) == IF i.openedFrom.line = i.line THEN i.openedFrom.no + 1 ELSE 1
WindowOver(i) ==
  /\ NextCutOf(i) \in 1..Len(versions[i.line])
  /\ versions[i.line][NextCutOf(i)].at + policy.keep <= now
KeptThroughItsWindow ==
  [][\A i \in iterations \ iterations' : WindowOver(i)]_vars
=============================================================================
