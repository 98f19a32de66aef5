--------------------------- MODULE EditorSession ---------------------------
(***************************************************************************)
(* The editing session in the browser: the state machine every open page   *)
(* of a component runs (apps/web/src/editor/session.ts), what its window   *)
(* keeps for a reload (stored-session.ts), how a page opens over that      *)
(* (ComponentEditor.tsx), and the four calls it makes of the service.      *)
(*                                                                         *)
(* One component and one author with several windows.  The service is its  *)
(* lock, its versions and the author's iterations, each call one step of   *)
(* it; Authoring models it in full.  A text is a number, a new one for     *)
(* every change.  A call in flight is a member of `requests`, its answer   *)
(* one of `answers`; one the page no longer waits for (timed out, or its   *)
(* page gone) may still reach the service at any later time, or never.     *)
(***************************************************************************)
EXTENDS Naturals, Sequences, FiniteSets

CONSTANTS
  Windows,              \* the author's browser tabs
  Nobody, Other,        \* the lock free, and held by another author
  NoText,               \* no text: nothing kept, nothing to repeat
  Copies,               \* whether a tab is ever duplicated
  ReopensEarly,         \* whether a page opens while one left in its window has a save queued
  MaxTexts,             \* bound: changes, the other author's included
  MaxSessions,          \* bound: session ids minted
  MaxTroubles,          \* bound: calls given up on, reloads and pages left
  MaxTurns              \* bound: refusals, lapses of the lock, and claims by another author

ASSUME WindowsAssumption ==
  /\ Nobody \notin Nat /\ Other \notin Nat /\ Nobody # Other /\ NoText \notin Nat
  /\ Copies \in BOOLEAN /\ ReopensEarly \in BOOLEAN
  /\ MaxTexts \in Nat /\ MaxSessions \in Nat /\ MaxTroubles \in Nat
  /\ MaxTurns \in Nat

VARIABLES
  lock,         \* the session that holds it, Nobody or Other
  versions,     \* the texts of the versions, oldest first
  iterations,   \* the author's retained iterations
  requests, answers,
  kept,         \* each window's session storage
  page,         \* the page each window shows
  texts, minted, troubles, turns,
  copied        \* the sessions a duplicated tab took with it

server  == <<lock, versions, iterations>>
network == <<requests, answers>>
bounds  == <<texts, minted, troubles, turns>>
vars    == <<lock, versions, iterations, requests, answers, kept, page,
             texts, minted, troubles, turns, copied>>

Phases == {"none", "reading", "claiming", "editing", "cutting", "releasing", "lost"}
Sendings == {"none", "save", "saveAgain", "reclaim"}
Askings == {"none", "claim", "repeat", "flush", "request", "reclaim", "again"}

-----------------------------------------------------------------------------
(* The service.                                                            *)

HeadNo == Len(versions)
IterationsOf(s) == {i \in iterations : i.session = s}
Latest(s) == CHOOSE n \in {0} \cup {i.sequence : i \in IterationsOf(s)} :
               \A i \in IterationsOf(s) : i.sequence <= n

(* What a version cut now under the session would say.                     *)
Drafts(s) == {i \in IterationsOf(s) : i.from = HeadNo}
CutText(s) ==
  IF Drafts(s) = {} THEN versions[HeadNo]
  ELSE (CHOOSE i \in Drafts(s) : \A j \in Drafts(s) : j.sequence <= i.sequence).words

Answer(r, result) ==
  [by |-> r.by, chain |-> r.chain, session |-> r.session, sequence |-> r.sequence,
   then |-> r.then, result |-> result, version |-> HeadNo']

(* A call reaches the service, which answers it unless nobody listens.     *)
Answered(r, result) ==
  /\ requests' = requests \ {r}
  /\ answers' = IF r.chain = "deaf" THEN answers ELSE answers \cup {Answer(r, result)}
  /\ UNCHANGED <<kept, page, texts, minted, troubles, copied>>

NotHeld == IF lock = Nobody THEN "lock_required" ELSE "lock_held"

ServeClaim(r) ==
  /\ r.kind = "claim"
  /\ UNCHANGED <<versions, iterations, turns>>
  /\ \/ /\ lock \in {Nobody, r.session} \/ (lock # Other /\ r.move)
        /\ lock' = r.session
        /\ Answered(r, "ok")
     \/ /\ lock \notin {Nobody, r.session} /\ (lock = Other \/ ~r.move)
        /\ Answered(r, IF lock = Other THEN "lock_held" ELSE "held_by_you")
        /\ UNCHANGED lock

(* Judged in this order: the lock, the version, the sequence, the text.  A *)
(* number is taken once: a bug to catch, one taken again for other text.   *)
AboveOrAt(r) == \A i \in IterationsOf(r.session) : i.sequence <= r.sequence
Above(r) == \A i \in IterationsOf(r.session) : i.sequence < r.sequence
Judged(r) ==
  IF lock # r.session THEN NotHeld
  ELSE IF r.from # HeadNo THEN "version_precondition"
  ELSE IF \E i \in IterationsOf(r.session) : i.sequence > r.sequence THEN "iteration_stale"
  ELSE IF \/ Above(r)
          \/ \E i \in IterationsOf(r.session) :
               i.sequence = r.sequence /\ i.words = r.words
  THEN "ok"
  ELSE "iteration_conflict"

ServeSave(r) ==
  /\ r.kind = "save"
  /\ iterations' =
       IF Judged(r) = "ok" /\ Above(r)
       THEN iterations \cup {[session |-> r.session, sequence |-> r.sequence,
                              from |-> r.from, words |-> r.words]}
       ELSE iterations
  /\ UNCHANGED <<lock, versions, turns>>
  /\ Answered(r, Judged(r))

(* A version of the session's latest draft, where it says anything new; a  *)
(* release lets the lock go with it.                                       *)
ServeCut(r) ==
  /\ r.kind \in {"cut", "release"}
  /\ IF lock = r.session /\ r.from = HeadNo
     THEN /\ versions' = IF CutText(r.session) = versions[HeadNo] THEN versions
                         ELSE Append(versions, CutText(r.session))
          /\ lock' = IF r.kind = "release" THEN Nobody ELSE lock
          /\ Answered(r, "ok")
     ELSE /\ UNCHANGED <<lock, versions>>
          /\ Answered(r, IF lock # r.session THEN NotHeld ELSE "version_precondition")
  /\ UNCHANGED <<iterations, turns>>

Serve(r) == ServeClaim(r) \/ ServeSave(r) \/ ServeCut(r)

(* Refused before it is looked at: signed out, or no longer permitted.     *)
RefuseCall(r) ==
  /\ r.chain # "deaf"
  /\ turns < MaxTurns /\ turns' = turns + 1
  /\ UNCHANGED server
  /\ \E result \in {"signed_out", "forbidden"} : Answered(r, result)

(* The lock's period runs out; another author takes a free lock, and may   *)
(* cut a version before letting it go.                                     *)
LapseLock ==
  /\ lock # Nobody
  /\ turns < MaxTurns /\ turns' = turns + 1
  /\ lock' = Nobody
  /\ UNCHANGED <<versions, iterations, network, kept, page, texts, minted, troubles, copied>>

OtherClaims ==
  /\ lock = Nobody
  /\ turns < MaxTurns /\ turns' = turns + 1
  /\ lock' = Other
  /\ UNCHANGED <<versions, iterations, network, kept, page, texts, minted, troubles, copied>>

OtherCuts ==
  /\ lock = Other
  /\ texts < MaxTexts /\ texts' = texts + 1
  /\ versions' = Append(versions, texts')
  /\ lock' = Nobody
  /\ UNCHANGED <<iterations, network, kept, page, minted, troubles, turns, copied>>

-----------------------------------------------------------------------------
(* What a window keeps.  `changed` is a revision above 0, without which    *)
(* nothing is kept of the text; `unsent` and `laterCurrent` say whether    *)
(* the revision has moved since the send they are of.                      *)

NothingKept ==
  [session |-> 0, version |-> 1, words |-> 0, changed |-> FALSE,
   sent |-> 0, sentWords |-> NoText, unsent |-> FALSE,
   later |-> 0, laterCurrent |-> FALSE, answered |-> 0, accepted |-> FALSE]

(* The surface put back to a text with a fresh history: nothing to replay. *)
Reset(k, version, words) ==
  [k EXCEPT !.version = version, !.words = words, !.changed = FALSE,
            !.sentWords = NoText, !.unsent = FALSE, !.laterCurrent = FALSE]

(* A sequence taken for a save of the text as it stands.  The key of a     *)
(* session's last sequence only ever rises.                                *)
Sent(k, n) ==
  [k EXCEPT !.sent = n, !.sentWords = k.words, !.unsent = FALSE,
            !.later = IF n > @ THEN n ELSE @,
            !.laterCurrent = IF n > k.later THEN TRUE ELSE @]

(* The service's answer to one, told whoever sent it is gone or not.       *)
Told(k, o) ==
  IF o.result \in {"ok", "iteration_stale", "iteration_conflict"} /\ o.sequence > 0
     /\ o.session = k.session /\ o.sequence >= k.answered
  THEN [k EXCEPT !.answered = o.sequence, !.accepted = (o.result = "ok")]
  ELSE k

-----------------------------------------------------------------------------
(* What a page hears: an answer, or at the end of its patience that there  *)
(* is none, its call left to arrive or not with nobody listening.          *)

Calls(w, chain) == {r \in requests : r.by = w /\ r.chain = chain}
Answers(w, chain) == {a \in answers : a.by = w /\ a.chain = chain}
Deafened(rs) == {[r EXCEPT !.chain = "deaf", !.then = {}] : r \in rs}

Hears(w, chain) ==
  {[result |-> a.result, session |-> a.session, sequence |-> a.sequence,
    version |-> a.version, heard |-> TRUE] : a \in Answers(w, chain)}
GivesUp ==
  [result |-> "failed", session |-> 0, sequence |-> 0, version |-> 0, heard |-> FALSE]

(* A window's step on hearing of its call: the page and what is kept       *)
(* become those given, and the calls `more` go out.                        *)
Becomes(w, chain, o, p, k, more) ==
  /\ page' = [page EXCEPT ![w] = p]
  /\ kept' = [kept EXCEPT ![w] = k]
  /\ answers' = answers \ Answers(w, chain)
  /\ requests' = (requests \ Calls(w, chain)) \cup Deafened(Calls(w, chain)) \cup more
  /\ IF o.heard THEN UNCHANGED troubles
     ELSE troubles < MaxTroubles /\ troubles' = troubles + 1
  /\ UNCHANGED <<server, texts, minted, turns, copied>>

(* A step of a window's own, with the calls it sends.                      *)
Does(w, p, k, more) ==
  /\ page' = [page EXCEPT ![w] = p]
  /\ kept' = [kept EXCEPT ![w] = k]
  /\ requests' = requests \cup more
  /\ UNCHANGED <<server, answers>>

Call(w, chain, kind, k) ==
  [by |-> w, chain |-> chain, kind |-> kind, session |-> k.session, from |-> k.version,
   sequence |-> 0, words |-> NoText, move |-> FALSE, then |-> {}]
ClaimCall(w, chain, k, move) == [Call(w, chain, "claim", k) EXCEPT !.move = move]
SaveCall(w, chain, k, n, words) ==
  [Call(w, chain, "save", k) EXCEPT !.sequence = n, !.words = words]

-----------------------------------------------------------------------------
(* Where a page stops.  Finishing that still waits on a save ends with it. *)

Stopped(p) == [p EXCEPT !.timed = FALSE, !.asking = IF @ = "flush" THEN "none" ELSE @]
Lose(p, behind) ==
  [Stopped(p) EXCEPT !.phase = "lost", !.save = "stopped", !.behind = behind]
Refuse(p, result) ==
  IF result = "forbidden" THEN Lose(p, FALSE)
  ELSE [Stopped(p) EXCEPT !.phase = "editing", !.replay = FALSE,
                          !.save = IF p.dirty THEN "stopped" ELSE @]
Refusals == {"signed_out", "forbidden"}
RefusedOrLost(p, result) ==
  IF result \in Refusals THEN Refuse(p, result) ELSE Lose(p, FALSE)

-----------------------------------------------------------------------------
(* Saving: one save in flight at a time, of the text as it stands, under   *)
(* the next sequence.                                                      *)

SavingPhases == {"editing", "cutting", "releasing"}

(* A bug to catch: a save begun beside the one in flight.                  *)
SendingBeside(p, as, forced) ==
  [p EXCEPT !.sequence = @ + 1, !.dirty = FALSE, !.save = "saving", !.forced = forced]
Sending(p, as, forced) ==
  [p EXCEPT !.sequence = @ + 1, !.dirty = FALSE, !.save = "saving",
            !.sending = as, !.forced = forced]
NextSave(w, p, k) == SaveCall(w, "send", k, p.sequence + 1, k.words)

(* A timer runs out: the pause after a change, or a failed save's backoff. *)
Flush(w) ==
  LET p == page[w]  k == kept[w]  idle == [p EXCEPT !.timed = FALSE] IN
  /\ p.timed /\ p.sending = "none"
  /\ IF p.dirty /\ p.phase \in SavingPhases
     THEN Does(w, Sending(idle, "save", FALSE), Sent(k, p.sequence + 1), {NextSave(w, p, k)})
     ELSE Does(w, idle, k, {})
  /\ UNCHANGED <<bounds, copied>>

(* A failed save is held and retried, and ends a cut or a release that     *)
(* asked for it; a lapsed lock is claimed again, once; anything else says  *)
(* this page is behind, or no longer holds the component.  Bugs to catch:  *)
(* a failed save not tried again, and what was typed while a save was out  *)
(* taken for saved with it.                                                *)
SaveFailedForGood(p) ==
  [p EXCEPT !.dirty = TRUE, !.forced = FALSE,
            !.phase = IF p.forced THEN "editing" ELSE @,
            !.asking = IF p.forced THEN "none" ELSE @]
SaveFailed(p) ==
  [p EXCEPT !.dirty = TRUE, !.timed = TRUE, !.forced = FALSE,
            !.phase = IF p.forced THEN "editing" ELSE @,
            !.asking = IF p.forced THEN "none" ELSE @]

AcknowledgedWhole(p) == [p EXCEPT !.dirty = FALSE, !.save = "saved", !.forced = FALSE]
Acknowledged(p) ==
  [p EXCEPT !.save = IF p.dirty THEN "saving" ELSE "saved", !.forced = FALSE]

HearSave(w, o) ==
  LET p == page[w]  k == Told(kept[w], o)
      done == [p EXCEPT !.sending = "none"]
      unsaved == [done EXCEPT !.dirty = TRUE]
      ended == [unsaved EXCEPT !.forced = FALSE]
  IN
  /\ p.phase # "none" /\ p.sending \in {"save", "saveAgain"}
  /\ \/ /\ o.result = "ok"
        /\ Becomes(w, "send", o, Acknowledged(done), k, {})
     \/ /\ o.result = "lock_required" /\ p.sending = "save"
        /\ Becomes(w, "send", o, [unsaved EXCEPT !.sending = "reclaim"], k,
                   {ClaimCall(w, "send", k, FALSE)})
     \/ /\ o.result = "failed"
        /\ Becomes(w, "send", o, SaveFailed(done), k, {})
     \/ /\ o.result \in Refusals
        /\ Becomes(w, "send", o, Refuse(ended, o.result), k, {})
     \/ /\ o.result \in {"iteration_stale", "iteration_conflict"}
        /\ Becomes(w, "send", o, Lose(ended, TRUE), k, {})
     \/ /\ \/ o.result \in {"lock_held", "version_precondition"}
           \/ o.result = "lock_required" /\ p.sending = "saveAgain"
        /\ Becomes(w, "send", o, Lose(ended, FALSE), k, {})

HearSaveReclaim(w, o) ==
  LET p == page[w]  k == kept[w]  done == [p EXCEPT !.sending = "none", !.forced = FALSE] IN
  /\ p.phase # "none" /\ p.sending = "reclaim"
  /\ IF o.result = "ok"
     THEN Becomes(w, "send", o, Sending(p, "saveAgain", p.forced), Sent(k, p.sequence + 1),
                  {NextSave(w, p, k)})
     ELSE Becomes(w, "send", o, RefusedOrLost(done, o.result), k, {})

-----------------------------------------------------------------------------
(* Typing and claiming.                                                    *)

Claiming(p) ==
  [p EXCEPT !.phase = "claiming", !.asking = "claim", !.holder = "none", !.behind = FALSE]

(* A change: the first claims the lock, and one while it is held is timed. *)
Type(w) ==
  LET p == page[w]  k == kept[w]
      changed == [p EXCEPT !.dirty = TRUE, !.save = "saving"]
      typed == [k EXCEPT !.words = texts + 1, !.changed = TRUE, !.unsent = TRUE,
                         !.laterCurrent = FALSE]
  IN
  /\ texts < MaxTexts /\ texts' = texts + 1
  /\ \/ /\ p.phase = "reading"
        /\ Does(w, Claiming(changed), typed, {ClaimCall(w, "ask", k, FALSE)})
     \/ /\ p.phase = "claiming"
        /\ Does(w, changed, typed, {})
     \/ /\ p.phase = "editing"
        /\ Does(w, [changed EXCEPT !.timed = TRUE], typed, {})
  /\ UNCHANGED <<minted, troubles, turns, copied>>

(* Asked again after a refusal, moving the lock from the author's other    *)
(* window; or, behind, afresh: a new session from which nothing is sent.   *)
ClaimAgain(w) ==
  LET p == page[w]  k == kept[w] IN
  /\ p.phase = "reading" /\ p.holder # "none"
  /\ Does(w, Claiming(p), k, {ClaimCall(w, "ask", k, p.holder = "yours")})
  /\ UNCHANGED <<bounds, copied>>

FreshSession(k, s) ==
  [k EXCEPT !.session = s, !.sent = 0, !.sentWords = NoText, !.unsent = k.changed,
            !.later = 0, !.laterCurrent = FALSE, !.answered = 0, !.accepted = FALSE]

ContinueAfresh(w) ==
  LET p == page[w]  k == FreshSession(kept[w], minted + 1) IN
  /\ p.phase = "lost" /\ p.behind
  /\ minted < MaxSessions /\ minted' = minted + 1
  /\ Does(w, [Claiming(p) EXCEPT !.sequence = 0, !.repeat = NoText], k,
          {ClaimCall(w, "ask", k, TRUE)})
  /\ UNCHANGED <<texts, troubles, turns, copied>>

Started(p) ==
  [p EXCEPT !.phase = "editing", !.asking = "none", !.repeat = NoText, !.replay = FALSE,
            !.save = IF p.dirty THEN "saving" ELSE "saved", !.timed = p.timed \/ p.dirty]

(* Refused, a change, or what a reload replayed, leaves the surface.       *)
TurnedBack(p, result) ==
  [p EXCEPT !.phase = "reading", !.asking = "none", !.dirty = FALSE, !.replay = FALSE,
            !.save = IF p.dirty \/ @ = "stopped" THEN "stopped" ELSE "saved",
            !.holder = IF result = "held_by_you" THEN "yours" ELSE "other"]

HearClaim(w, o) ==
  LET p == page[w]  k == kept[w] IN
  /\ p.asking = "claim"
  /\ \/ /\ o.result = "ok" /\ p.repeat = NoText
        /\ Becomes(w, "ask", o, Started(p), k, {})
     \/ /\ o.result = "ok" /\ p.repeat # NoText
        /\ Becomes(w, "ask", o, [p EXCEPT !.asking = "repeat"], k,
                   {SaveCall(w, "ask", k, p.sequence, p.repeat)})
     \/ /\ o.result # "ok"
        /\ Becomes(w, "ask", o, TurnedBack(p, o.result),
                   IF p.dirty \/ p.replay THEN Reset(k, k.version, p.base) ELSE k, {})

(* A reload's last save, sent again at its own number.                     *)
HearRepeat(w, o) ==
  LET p == page[w]  k == Told(kept[w], o)
      ended == [p EXCEPT !.asking = "none", !.dirty = TRUE]
  IN
  /\ p.asking = "repeat"
  /\ IF o.result = "ok" THEN Becomes(w, "ask", o, Started(p), k, {})
     ELSE Becomes(w, "ask", o, Lose(ended, o.result \notin Refusals), k, {})

-----------------------------------------------------------------------------
(* Save version and Done editing: everything saved first, then the cut.    *)

Finish(w, during) ==
  LET p == page[w] IN
  /\ p.phase = "editing" /\ p.asking = "none"
  /\ Does(w, [p EXCEPT !.phase = during, !.asking = "flush"], kept[w], {})
  /\ UNCHANGED <<bounds, copied>>

CutCall(w, p, k) == Call(w, "ask", IF p.phase = "cutting" THEN "cut" ELSE "release", k)

FlushToFinish(w) ==
  LET p == [page[w] EXCEPT !.timed = FALSE]  k == kept[w] IN
  /\ p.asking = "flush" /\ p.sending = "none"
  /\ IF p.dirty
     THEN Does(w, Sending(p, "save", TRUE), Sent(k, p.sequence + 1), {NextSave(w, p, k)})
     ELSE Does(w, [p EXCEPT !.asking = "request"], k, {CutCall(w, p, k)})
  /\ UNCHANGED <<bounds, copied>>

(* The version the page now shows is whatever the surface holds.           *)
HearCut(w, o) ==
  LET p == page[w]  k == kept[w]
      new == o.version # k.version
      ended == [p EXCEPT !.asking = "none"]
      done == [ended EXCEPT !.base = IF new THEN k.words ELSE @]
  IN
  /\ p.asking \in {"request", "again"}
  /\ \/ /\ o.result = "ok" /\ p.phase = "cutting"
        /\ Becomes(w, "ask", o, [done EXCEPT !.phase = "editing"],
                   IF new THEN Reset(k, o.version, k.words) ELSE k, {})
     \/ /\ o.result = "ok" /\ p.phase = "releasing"
        /\ Becomes(w, "ask", o, [done EXCEPT !.phase = "reading"],
                   Reset(k, o.version, k.words), {})
     \/ /\ o.result = "lock_required" /\ p.asking = "request"
        /\ Becomes(w, "ask", o, [p EXCEPT !.asking = "reclaim"], k,
                   {ClaimCall(w, "ask", k, FALSE)})
     \/ /\ o.result = "failed"
        /\ Becomes(w, "ask", o, [ended EXCEPT !.phase = "editing"], k, {})
     \/ /\ \/ o.result \in Refusals \cup {"lock_held", "version_precondition"}
           \/ o.result = "lock_required" /\ p.asking = "again"
        /\ Becomes(w, "ask", o, RefusedOrLost(ended, o.result), k, {})

HearFinishReclaim(w, o) ==
  LET p == page[w]  k == kept[w]  ended == [p EXCEPT !.asking = "none"] IN
  /\ p.asking = "reclaim"
  /\ IF o.result = "ok"
     THEN Becomes(w, "ask", o, [p EXCEPT !.asking = "again"], k, {CutCall(w, p, k)})
     ELSE Becomes(w, "ask", o, RefusedOrLost(ended, o.result), k, {})

-----------------------------------------------------------------------------
(* Pages come and go.                                                      *)

NoPage ==
  [phase |-> "none", sequence |-> 0, base |-> 0, dirty |-> FALSE, save |-> "saved",
   behind |-> FALSE, holder |-> "none", repeat |-> NoText, replay |-> FALSE, timed |-> FALSE,
   sending |-> "none", forced |-> FALSE, asking |-> "none"]

(* Where a reload goes on from: what this window sent last, what the       *)
(* service says it holds under the session, and whose that is.             *)
LastSent(k) ==
  IF k.later > k.sent
  THEN [sequence |-> k.later, current |-> k.laterCurrent,
        words |-> IF k.laterCurrent THEN k.words ELSE NoText]
  ELSE [sequence |-> k.sent, current |-> ~k.unsent, words |-> k.sentWords]

(* A bug to catch: what the service holds at the last number sent taken    *)
(* for this window's, whoever sent it.                                     *)
ContinuingUntold(k, accepted) ==
  LET last == LastSent(k) IN
  [sequence |-> IF last.sequence > accepted THEN last.sequence ELSE accepted,
   unsent |-> ~last.current \/ accepted # last.sequence,
   ahead |-> accepted > last.sequence, repeat |-> NoText]
Continuing(k, accepted) ==
  LET last == LastSent(k)
      told == k.answered > 0 /\ k.answered = last.sequence
      repeat == /\ accepted > 0 /\ accepted = last.sequence
                /\ k.answered < last.sequence /\ last.words # NoText
  IN [sequence |-> IF last.sequence > accepted THEN last.sequence ELSE accepted,
      unsent |-> ~last.current \/ accepted # last.sequence,
      ahead |-> \/ accepted > last.sequence
                \/ accepted > 0 /\ accepted = last.sequence /\ ~(told /\ k.accepted) /\ ~repeat
                \/ told /\ ~k.accepted,
      repeat |-> IF repeat THEN last.words ELSE NoText]

Replays(k) == k.session # 0 /\ k.changed /\ k.version = HeadNo

(* Opened over what the window kept: behind, or its claim asked again.     *)
OpenReplaying(w) ==
  LET k == kept[w]  going == Continuing(k, Latest(k.session))
      opened == [NoPage EXCEPT !.sequence = going.sequence, !.base = versions[HeadNo]]
  IN
  /\ page[w].phase = "none" /\ Replays(k)
  /\ IF going.ahead
     THEN Does(w, Lose([opened EXCEPT !.dirty = TRUE], TRUE), k, {})
     ELSE Does(w, [Claiming(opened) EXCEPT !.dirty = going.unsent, !.repeat = going.repeat,
                     !.replay = TRUE,
                     !.save = IF going.unsent \/ going.repeat # NoText THEN "saving" ELSE "saved"],
               k, {ClaimCall(w, "ask", k, FALSE)})
  /\ UNCHANGED <<bounds, copied>>

(* Opened as it stands: under the session the window keeps where that      *)
(* holds the lock, above whatever was sent under it, and otherwise a new.  *)
OpenAfresh(w) ==
  LET k == kept[w]  mine == k.session # 0 /\ lock = k.session
      n == IF Latest(k.session) > k.later THEN Latest(k.session) ELSE k.later
      same == [Reset(k, HeadNo, versions[HeadNo]) EXCEPT !.sent = n]
      new == [Reset(FreshSession(k, minted + 1), HeadNo, versions[HeadNo]) EXCEPT !.sent = 0]
  IN
  /\ page[w].phase = "none" /\ ~Replays(k)
  /\ mine \/ minted < MaxSessions
  /\ minted' = IF mine THEN minted ELSE minted + 1
  /\ Does(w, [NoPage EXCEPT !.phase = "reading", !.base = versions[HeadNo],
                            !.sequence = IF mine THEN n ELSE 0],
          IF mine THEN same ELSE new, {})
  /\ UNCHANGED <<texts, troubles, turns, copied>>

Ends == troubles < MaxTroubles /\ troubles' = troubles + 1

(* The page left within the application: its last save goes, or waits to   *)
(* go after the one in flight, and what its saves are answered is told.    *)
Leave(w) ==
  LET p == page[w]  k == kept[w]  n == p.sequence + 1
      last == p.dirty /\ p.repeat = NoText /\ p.phase \in SavingPhases \cup {"claiming"}
      save == SaveCall(w, "gone", k, n, k.words)
      told == {"send"} \cup IF p.asking = "repeat" THEN {"ask"} ELSE {}
      Left(c) ==
        IF c.by # w \/ c.chain \in {"gone", "deaf"} THEN c
        ELSE IF c.chain \in told
        THEN [c EXCEPT !.chain = "gone", !.then = IF last THEN {save} ELSE {}]
        ELSE [c EXCEPT !.chain = "deaf"]
      now == last /\ p.sending = "none"
  IN
  /\ p.phase # "none" /\ Ends
  /\ requests' = {Left(r) : r \in requests} \cup (IF now THEN {save} ELSE {})
  /\ answers' = {a \in {Left(b) : b \in answers} : a.chain # "deaf"}
  /\ kept' = [kept EXCEPT ![w] = IF now THEN Sent(k, n) ELSE k]
  /\ page' = [page EXCEPT ![w] = NoPage]
  /\ UNCHANGED <<server, texts, minted, turns, copied>>

(* What waited goes as soon as the one before it is settled, under the     *)
(* number after it, and only that number is kept of it: the window's       *)
(* record is closed, and is another page's by now.                         *)
Following(k, c) ==
  IF c.then # {} /\ c.session = k.session
     /\ \A r \in c.then : r.sequence > k.later
  THEN [k EXCEPT !.later = (CHOOSE r \in c.then : TRUE).sequence,
                 !.laterCurrent = k.changed /\ \A r \in c.then : k.words = r.words]
  ELSE k

HearGone(w) ==
  \E a \in Answers(w, "gone") :
    /\ answers' = answers \ {a}
    /\ requests' = requests \cup a.then
    /\ kept' = [kept EXCEPT ![w] = Following(Told(@, a), a)]
    /\ UNCHANGED <<server, page, bounds, copied>>

(* Given up on after ten seconds as any save, or its call failed.          *)
GoneGivesUp(w) ==
  /\ Ends
  /\ \E r \in Calls(w, "gone") :
       /\ requests' = (requests \ {r}) \cup Deafened({r}) \cup r.then
       /\ kept' = [kept EXCEPT ![w] = Following(@, r)]
  /\ UNCHANGED <<server, answers, page, texts, minted, turns, copied>>

(* Reloaded or crashed: nothing more runs, and nobody hears.               *)
Reload(w) ==
  /\ page[w].phase # "none" \/ Calls(w, "gone") \cup Answers(w, "gone") # {}
  /\ Ends
  /\ requests' = {r \in requests : r.by # w} \cup Deafened({r \in requests : r.by = w})
  /\ answers' = {a \in answers : a.by # w}
  /\ page' = [page EXCEPT ![w] = NoPage]
  /\ UNCHANGED <<server, kept, texts, minted, turns, copied>>

(* The tab duplicated, its session storage with it.                        *)
Duplicate(w, v) ==
  /\ Copies /\ kept[v].session = 0 /\ kept[w].session # 0
  /\ kept' = [kept EXCEPT ![v] = kept[w]]
  /\ copied' = copied \cup {kept[w].session}
  /\ UNCHANGED <<server, network, page, bounds>>

-----------------------------------------------------------------------------
Init ==
  /\ lock = Nobody /\ versions = <<0>> /\ iterations = {}
  /\ requests = {} /\ answers = {}
  /\ kept = [w \in Windows |-> NothingKept]
  /\ page = [w \in Windows |-> NoPage]
  /\ texts = 0 /\ minted = 0 /\ troubles = 0 /\ turns = 0 /\ copied = {}

Hear(w) ==
  \/ \E o \in Hears(w, "send") : HearSave(w, o) \/ HearSaveReclaim(w, o)
  \/ \E o \in Hears(w, "ask") :
       \/ HearClaim(w, o) \/ HearRepeat(w, o)
       \/ HearCut(w, o) \/ HearFinishReclaim(w, o)

(* A save or a claim is given up on after ten seconds; a cut or a release  *)
(* only when the browser says its call failed.                             *)
GiveUp(w) ==
  \/ HearSave(w, GivesUp) \/ HearSaveReclaim(w, GivesUp)
  \/ HearClaim(w, GivesUp) \/ HearRepeat(w, GivesUp)
  \/ HearCut(w, GivesUp) \/ HearFinishReclaim(w, GivesUp)
  \/ GoneGivesUp(w)

(* Within one window a page is most often opened once the last one's saves *)
(* have gone; where it is not (ReopensEarly), SavedIsKept fails.           *)
Open(w) ==
  /\ ReopensEarly \/ \A c \in Calls(w, "gone") \cup Answers(w, "gone") : c.then = {}
  /\ OpenReplaying(w) \/ OpenAfresh(w)
Author(w) ==
  \/ Open(w) \/ Type(w) \/ ClaimAgain(w) \/ ContinueAfresh(w)
  \/ Finish(w, "cutting") \/ Finish(w, "releasing")
  \/ Leave(w) \/ Reload(w) \/ \E v \in Windows : Duplicate(w, v)
Runs(w) == Flush(w) \/ FlushToFinish(w) \/ Hear(w) \/ HearGone(w)

Next ==
  \/ \E r \in requests : Serve(r) \/ RefuseCall(r)
  \/ LapseLock \/ OtherClaims \/ OtherCuts
  \/ \E w \in Windows : Author(w) \/ Runs(w) \/ GiveUp(w)

Spec == Init /\ [][Next]_vars

(* A page's timers run out and it hears what it is answered; the service   *)
(* answers a call that does not fail.  Nothing is fair of the author.      *)
Fairness ==
  /\ WF_vars(\E r \in requests : r.chain # "deaf" /\ Serve(r))
  /\ \A w \in Windows : WF_vars(Runs(w))

FairSpec == Spec /\ Fairness

-----------------------------------------------------------------------------
(* Properties.                                                             *)

CallKinds == {"claim", "save", "cut", "release"}
Results == {"ok", "lock_required", "lock_held", "held_by_you", "version_precondition",
            "iteration_stale", "iteration_conflict", "signed_out", "forbidden"}
Chains == {"send", "ask", "gone", "deaf"}

CallTypes(waiting) ==
  [by : Windows, chain : Chains, kind : CallKinds, session : Nat, from : Nat \ {0},
   sequence : Nat, words : Nat \cup {NoText}, move : BOOLEAN, then : waiting]
Waiting == SUBSET CallTypes({{}})
RequestTypes == CallTypes(Waiting)
AnswerTypes ==
  [by : Windows, chain : Chains, session : Nat, sequence : Nat, then : Waiting,
   result : Results, version : Nat \ {0}]
KeptTypes ==
  [session : Nat, version : Nat \ {0}, words : Nat, changed : BOOLEAN, sent : Nat,
   sentWords : Nat \cup {NoText}, unsent : BOOLEAN, later : Nat, laterCurrent : BOOLEAN,
   answered : Nat, accepted : BOOLEAN]
PageTypes ==
  [phase : Phases, sequence : Nat, base : Nat, dirty : BOOLEAN,
   save : {"saved", "saving", "stopped"}, behind : BOOLEAN,
   holder : {"none", "yours", "other"}, repeat : Nat \cup {NoText}, replay : BOOLEAN,
   timed : BOOLEAN, sending : Sendings, forced : BOOLEAN, asking : Askings]

(* Everything is what it may be, and a page that waits has one call out,   *)
(* and no page has two of a kind: "never two requests for one session at   *)
(* once" (session.ts:1184-1185).                                                *)
Out(w, chain) == Cardinality(Calls(w, chain)) + Cardinality(Answers(w, chain))
TypeOK ==
  /\ lock \in Nat \cup {Nobody, Other}
  /\ versions \in Seq(Nat) /\ versions # <<>>
  /\ iterations \subseteq [session : Nat, sequence : Nat, from : Nat, words : Nat]
  /\ requests \subseteq RequestTypes /\ answers \subseteq AnswerTypes
  /\ kept \in [Windows -> KeptTypes] /\ page \in [Windows -> PageTypes]
  /\ \A w \in Windows :
       /\ Out(w, "send") = IF page[w].sending = "none" THEN 0 ELSE 1
       /\ Out(w, "ask") = IF page[w].asking \in {"none", "flush"} THEN 0 ELSE 1
  /\ texts \in Nat /\ minted \in Nat /\ troubles \in Nat /\ turns \in Nat
  /\ copied \subseteq Nat

(* What a page shows as saved while it edits is kept by the service: one   *)
(* of the author's iterations, or a version, whatever was lost, late,      *)
(* repeated or sent from another tab under the same session ("never a save *)
(* taken for this window's that was not", stored-session.ts:412-413).      *)
ShownAsSaved(w) == page[w].phase = "editing" /\ page[w].save = "saved" /\ ~page[w].dirty
SavedIsKept ==
  \A w \in Windows : ShownAsSaved(w) =>
    \/ \E i \in iterations : i.words = kept[w].words
    \/ \E n \in 1..HeadNo : versions[n] = kept[w].words

(* And a change shown as saved is what Save version would publish now, not *)
(* merely kept somewhere: no older save overtook it, no newer was sent     *)
(* over it, and it was saved under the session and from the version that   *)
(* the page cuts.  Of a session no other tab took with it.                 *)
TypedIsWhatACutSays ==
  \A w \in Windows :
    /\ ShownAsSaved(w) /\ kept[w].session \notin copied
    /\ kept[w].words # page[w].base /\ kept[w].version = HeadNo
    => CutText(kept[w].session) = kept[w].words

(* The service keeps one text under a session's number, though two tabs    *)
(* take the same number for two texts and either save comes twice: what a  *)
(* reload's repeat is answered rests on it.                                *)
OneTextANumber ==
  \A i, j \in iterations :
    i.session = j.session /\ i.sequence = j.sequence => i.words = j.words

(* No page says for ever that it is saving, starting, cutting or           *)
(* releasing: through lost calls, a lapsed lock, a reload and refusals, it *)
(* comes to say what is saved and what is not ("left the indicator saying  *)
(* Saving for ever ... a button that then waited for ever",                *)
(* session.ts:474-476).                                                    *)
Settled(w) ==
  /\ page[w].phase \in {"none", "reading", "editing", "lost"}
  /\ page[w].save # "saving"
EveryWaitEnds == \A w \in Windows : []<>Settled(w)
=============================================================================
