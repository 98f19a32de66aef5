-------------------------- MODULE EditorSessionProofs --------------------------
(***************************************************************************)
(* What EditorSession keeps for every value of its constants.              *)
(***************************************************************************)
EXTENDS EditorSession, FiniteSetTheorems, TLAPS

-----------------------------------------------------------------------------
(* The types, and what keeps them.                                         *)

(* Where a page is, by what it asks: a claim is asked while claiming, a    *)
(* cut or a release while finishing, and nothing else is asked.  A save is *)
(* out, or timed, only while it edits or still flushes to finish.          *)
Finishing == {"cutting", "releasing"}
Shape(p) ==
  /\ p.asking = "none" <=> p.phase \in {"none", "reading", "editing", "lost"}
  /\ p.asking \in {"claim", "repeat"} <=> p.phase = "claiming"
  /\ p.sending # "none" \/ p.timed =>
       p.phase \in SavingPhases /\ p.asking \in {"none", "flush"}
Pages == {p \in PageTypes : Shape(p)}

(* A call that has nothing waiting behind it, as every call is sent: a     *)
(* save says a text.                                                       *)
Says(r) == r.kind = "save" => r.words \in Nat
PlainCalls == {r \in CallTypes({{}}) : Says(r)}

(* What is out on a chain: one call or one answer where the page waits for *)
(* it, and nothing where it does not.                                      *)
Pair == {"send", "ask"}
Awaits(p, chain) ==
  IF chain = "send" THEN p.sending # "none" ELSE p.asking \notin {"none", "flush"}
OneOut(w, chain) ==
  IF Awaits(page[w], chain)
  THEN \E c : \/ Calls(w, chain) = {c} /\ Answers(w, chain) = {}
              \/ Calls(w, chain) = {} /\ Answers(w, chain) = {c}
  ELSE Calls(w, chain) = {} /\ Answers(w, chain) = {}

(* The saves of a session from a version have a last, and so have those of *)
(* a session: what a cut would say, and a reload is told, is defined.      *)
IterationTypes == [session : Nat, sequence : Nat, from : Nat, words : Nat]
LastOf(S, i) == i \in S /\ \A j \in S : j.sequence <= i.sequence
Opened(s, f) == {i \in IterationsOf(s) : i.from = f}
Topped ==
  \A s \in Nat :
    /\ IterationsOf(s) # {} => \E i \in iterations : LastOf(IterationsOf(s), i)
    /\ \A f \in Nat : Opened(s, f) # {} => \E i \in iterations : LastOf(Opened(s, f), i)

ServerTypes ==
  /\ lock \in Nat \cup {Nobody, Other}
  /\ versions \in Seq(Nat) /\ versions # <<>>
  /\ iterations \subseteq IterationTypes
NetworkTypes ==
  /\ requests \subseteq RequestTypes /\ answers \subseteq AnswerTypes
  /\ \A r \in requests : Says(r)
  /\ \A c \in requests \cup answers : \A r \in c.then : r.chain = "gone" /\ Says(r)
BoundTypes ==
  /\ texts \in Nat /\ minted \in Nat /\ troubles \in Nat /\ turns \in Nat
  /\ copied \subseteq Nat
WindowTypes == kept \in [Windows -> KeptTypes] /\ page \in [Windows -> Pages]

TypeInv ==
  /\ ServerTypes /\ NetworkTypes /\ BoundTypes /\ WindowTypes
  /\ Topped
  /\ \A w \in Windows : \A chain \in Pair : OneOut(w, chain)

(* What a window keeps, a page and a call are given their fields by these. *)
LEMMA StoredIsKept ==
  ASSUME NEW k \in KeptTypes
  PROVE  /\ \A n \in Nat : Sent(k, n) \in KeptTypes /\ FreshSession(k, n) \in KeptTypes
         /\ \A v \in Nat \ {0}, words \in Nat : Reset(k, v, words) \in KeptTypes
  BY WindowsAssumption DEF KeptTypes, Sent, FreshSession, Reset

LEMMA PagesStop ==
  ASSUME NEW p \in PageTypes
  PROVE  /\ Stopped(p) \in PageTypes
         /\ \A b \in BOOLEAN : Lose(p, b) \in PageTypes
         /\ \A result : Refuse(p, result) \in PageTypes /\ RefusedOrLost(p, result) \in PageTypes
<1>1. Stopped(p) \in PageTypes
  BY Zenon DEF Stopped, PageTypes, Askings
<1>2. \A b \in BOOLEAN : Lose(p, b) \in PageTypes
  BY <1>1, Zenon DEF Lose, PageTypes, Phases
<1>3. ASSUME NEW result
      PROVE  Refuse(p, result) \in PageTypes
  <2> DEFINE q == Stopped(p)
  <2>1. \A save \in {"saved", "saving", "stopped"} :
          [q EXCEPT !.phase = "editing", !.replay = FALSE, !.save = save] \in PageTypes
    BY <1>1, Zenon DEF PageTypes, Phases
  <2>2. (IF p.dirty THEN "stopped" ELSE q.save) \in {"saved", "saving", "stopped"}
    BY <1>1, Zenon DEF PageTypes
  <2> QED
    BY <1>2, <2>1, <2>2 DEF Refuse
<1> QED
  BY <1>1, <1>2, <1>3 DEF RefusedOrLost

LEMMA PagesGoOn ==
  ASSUME NEW p \in PageTypes
  PROVE  /\ Claiming(p) \in PageTypes /\ Started(p) \in PageTypes
         /\ \A result : TurnedBack(p, result) \in PageTypes
         /\ SaveFailed(p) \in PageTypes /\ Acknowledged(p) \in PageTypes
         /\ \A as \in Sendings, forced \in BOOLEAN : Sending(p, as, forced) \in PageTypes
<1>1. Claiming(p) \in PageTypes
  BY Zenon DEF Claiming, PageTypes, Phases, Askings
<1>2. Started(p) \in PageTypes
  <2>1. (p.timed \/ p.dirty) \in BOOLEAN
    OBVIOUS
  <2> QED
    BY <2>1, Zenon DEF Started, PageTypes, Phases, Askings
<1>3. ASSUME NEW result PROVE TurnedBack(p, result) \in PageTypes
  <2>1. \A save \in {"saved", "saving", "stopped"}, holder \in {"none", "yours", "other"} :
          [p EXCEPT !.phase = "reading", !.asking = "none", !.dirty = FALSE, !.replay = FALSE,
                    !.save = save, !.holder = holder] \in PageTypes
    BY Zenon DEF PageTypes, Phases, Askings
  <2> QED
    BY <2>1 DEF TurnedBack
<1>4. SaveFailed(p) \in PageTypes
  BY Zenon DEF SaveFailed, PageTypes, Phases, Askings
<1>5. Acknowledged(p) \in PageTypes
  BY Zenon DEF Acknowledged, PageTypes
<1>6. \A as \in Sendings, forced \in BOOLEAN : Sending(p, as, forced) \in PageTypes
  <2>1. p.sequence + 1 \in Nat
    BY DEF PageTypes
  <2> QED
    BY <2>1, Zenon DEF Sending, PageTypes
<1> QED
  BY <1>1, <1>2, <1>3, <1>4, <1>5, <1>6

LEMMA CallsAreRequests ==
  ASSUME NEW w \in Windows, NEW k \in KeptTypes, NEW chain \in Chains
  PROVE  /\ \A kind \in CallKinds \ {"save"} : Call(w, chain, kind, k) \in PlainCalls
         /\ \A move \in BOOLEAN : ClaimCall(w, chain, k, move) \in PlainCalls
         /\ \A n, words \in Nat : SaveCall(w, chain, k, n, words) \in PlainCalls
  BY WindowsAssumption DEF KeptTypes, PlainCalls, Says, CallTypes, CallKinds, Call, ClaimCall, SaveCall

LEMMA PlainAreRequests ==
  /\ PlainCalls \subseteq RequestTypes
  /\ \A r \in PlainCalls : r.then = {} /\ Says(r)
  BY DEF PlainCalls, RequestTypes, CallTypes, Waiting

LEMMA SameServer ==
  ASSUME TypeInv, UNCHANGED server
  PROVE  ServerTypes' /\ Topped'
  BY DEF TypeInv, ServerTypes, Topped, server, IterationsOf, Opened, LastOf

LEMMA DeafenedAreDeaf ==
  ASSUME NEW rs \in SUBSET RequestTypes
  PROVE  /\ Deafened(rs) \subseteq RequestTypes
         /\ (\A r \in rs : Says(r)) => \A d \in Deafened(rs) : Says(d)
         /\ \A d \in Deafened(rs) : d.chain = "deaf" /\ d.then = {} /\ \E r \in rs : d = [r EXCEPT !.chain = "deaf", !.then = {}]
<1>1. ASSUME NEW r \in RequestTypes
      PROVE  /\ [r EXCEPT !.chain = "deaf", !.then = {}] \in RequestTypes
             /\ [r EXCEPT !.chain = "deaf", !.then = {}].chain = "deaf"
             /\ [r EXCEPT !.chain = "deaf", !.then = {}].then = {}
             /\ Says(r) => Says([r EXCEPT !.chain = "deaf", !.then = {}])
  <2>1. "deaf" \in Chains /\ {} \in Waiting
    BY DEF Chains, Waiting
  <2> QED
    BY <2>1, Zenon DEF RequestTypes, CallTypes, Says
<1>2. \A d \in Deafened(rs) : \E r \in rs : d = [r EXCEPT !.chain = "deaf", !.then = {}]
  BY DEF Deafened
<1>3. ASSUME NEW d \in Deafened(rs)
      PROVE  d \in RequestTypes /\ d.chain = "deaf" /\ d.then = {}
  <2>1. PICK r \in rs : d = [r EXCEPT !.chain = "deaf", !.then = {}]
    BY <1>2
  <2> QED
    BY <1>1, <2>1
<1> QED
  BY <1>1, <1>2, <1>3

(* What a window hears is an answer to it, or that there is none.          *)
Outcomes(w, chain) == Hears(w, chain) \cup {GivesUp}

LEMMA OutcomesAreOf ==
  ASSUME TypeInv, NEW w \in Windows, NEW chain \in Pair, NEW o \in Outcomes(w, chain)
  PROVE  /\ o.result \in Results \cup {"failed"} /\ o.sequence \in Nat /\ o.session \in Nat
         /\ o.version \in Nat /\ o.heard \in BOOLEAN
         /\ o.result # "failed" => o.heard /\ o.version \in Nat \ {0}
         /\ o.heard => \E a \in Answers(w, chain) :
              /\ o.result = a.result /\ o.session = a.session /\ o.sequence = a.sequence
              /\ o.version = a.version
         /\ ~o.heard => o = GivesUp
<1>1. CASE o = GivesUp
  BY <1>1 DEF GivesUp
<1>2. CASE o \in Hears(w, chain)
  <2>1. PICK a \in Answers(w, chain) :
          o = [result |-> a.result, session |-> a.session, sequence |-> a.sequence,
               version |-> a.version, heard |-> TRUE]
    BY <1>2 DEF Hears
  <2>2. a \in AnswerTypes
    BY DEF Answers, TypeInv, NetworkTypes
  <2> QED
    BY <2>1, <2>2 DEF AnswerTypes
<1> QED
  BY <1>1, <1>2 DEF Outcomes

LEMMA ToldIsKept ==
  ASSUME NEW k \in KeptTypes, NEW o, o.sequence \in Nat
  PROVE  Told(k, o) \in KeptTypes
<1>1. \A accepted \in BOOLEAN :
        [k EXCEPT !.answered = o.sequence, !.accepted = accepted] \in KeptTypes
  BY Zenon DEF KeptTypes
<1>2. CASE o.result = "ok"
  BY <1>1, <1>2, (o.result = "ok") = TRUE, Zenon DEF Told
<1>3. CASE o.result # "ok"
  BY <1>1, <1>3, (o.result = "ok") = FALSE, Zenon DEF Told
<1> QED
  BY <1>2, <1>3

(* A step that hears on a chain leaves on it what it sends there.          *)
Sends(w, p, chain, more) ==
  IF Awaits(p, chain) THEN \E r : more = {r} /\ r.by = w /\ r.chain = chain ELSE more = {}

LEMMA BecomesChains ==
  ASSUME TypeInv, NEW w \in Windows, NEW chain \in Pair, NEW o, NEW p, NEW k,
         NEW more \in SUBSET PlainCalls, Becomes(w, chain, o, p, k, more), Sends(w, p, chain, more)
  PROVE  /\ Calls(w, chain)' = more /\ Answers(w, chain)' = {}
         /\ \A v \in Windows, c \in Pair : v # w \/ c # chain =>
              Calls(v, c)' = Calls(v, c) /\ Answers(v, c)' = Answers(v, c)
<1>1. Calls(w, chain) \subseteq RequestTypes
  BY DEF TypeInv, NetworkTypes, Calls
<1>2. \A d \in Deafened(Calls(w, chain)) : d.chain = "deaf"
  BY <1>1, DeafenedAreDeaf
<1>3. requests' = (requests \ Calls(w, chain)) \cup Deafened(Calls(w, chain)) \cup more
      /\ answers' = answers \ Answers(w, chain)
  BY DEF Becomes
<1>4. \A r \in more : r.by = w /\ r.chain = chain
  BY DEF Sends
<1> QED
  BY <1>2, <1>3, <1>4 DEF Calls, Answers, Pair

LEMMA BecomesKeepsTypes ==
  ASSUME TypeInv, NEW w \in Windows, NEW chain \in Pair, NEW o, NEW p \in Pages, NEW k \in KeptTypes,
         NEW more \in SUBSET PlainCalls, Becomes(w, chain, o, p, k, more), Sends(w, p, chain, more),
         \A other \in Pair \ {chain} : Awaits(p, other) <=> Awaits(page[w], other)
  PROVE  TypeInv'
<1>1. NetworkTypes'
  <2>1. Calls(w, chain) \subseteq RequestTypes
    BY DEF TypeInv, NetworkTypes, Calls
  <2> DEFINE D == Deafened(Calls(w, chain))
  <2>2. D \subseteq RequestTypes /\ \A d \in D : d.then = {} /\ Says(d)
    BY <2>1, DeafenedAreDeaf DEF Calls, TypeInv, NetworkTypes
  <2>3. more \subseteq RequestTypes /\ \A r \in more : r.then = {} /\ Says(r)
    BY PlainAreRequests
  <2>4. requests' \subseteq requests \cup D \cup more /\ answers' \subseteq answers
    BY DEF Becomes
  <2> HIDE DEF D
  <2>5. ASSUME NEW c \in requests' \cup answers', NEW r \in c.then
        PROVE  r.chain = "gone" /\ Says(r)
    <3>1. c \in requests \/ c \in answers \/ c \in D \/ c \in more
      BY <2>4
    <3>2. c \in requests \cup answers
      BY <2>2, <2>3, <3>1
    <3> QED
      BY <3>2 DEF TypeInv, NetworkTypes
  <2>6. /\ requests' \subseteq RequestTypes /\ answers' \subseteq AnswerTypes
        /\ \A r \in requests' : Says(r)
    BY <2>2, <2>3, <2>4 DEF TypeInv, NetworkTypes
  <2> QED
    BY <2>5, <2>6, Zenon DEF NetworkTypes
<1>2. WindowTypes' /\ \A v \in Windows : page'[v] = IF v = w THEN p ELSE page[v]
  BY DEF TypeInv, WindowTypes, Becomes
<1>3. BoundTypes' /\ ServerTypes' /\ Topped'
  <2>1. UNCHANGED <<lock, versions, iterations, texts, minted, turns, copied>>
    BY DEF Becomes, server
  <2>2. troubles' \in Nat
    BY DEF TypeInv, BoundTypes, Becomes
  <2> QED
    BY <2>1, <2>2, SameServer DEF TypeInv, BoundTypes, server
<1>4. ASSUME NEW v \in Windows, NEW c \in Pair
      PROVE  OneOut(v, c)'
  <2>1. CASE v # w
    <3>1. OneOut(v, c) /\ page'[v] = page[v]
      BY <2>1, <1>2 DEF TypeInv
    <3>2. Calls(v, c)' = Calls(v, c) /\ Answers(v, c)' = Answers(v, c)
      BY <2>1, BecomesChains
    <3> QED
      BY <3>1, <3>2, Zenon DEF OneOut
  <2>2. CASE v = w /\ c # chain
    <3>1. OneOut(w, c) /\ (Awaits(page'[w], c) <=> Awaits(page[w], c))
      BY <2>2, <1>2 DEF TypeInv
    <3>2. Calls(w, c)' = Calls(w, c) /\ Answers(w, c)' = Answers(w, c)
      BY <2>2, BecomesChains
    <3>3. OneOut(w, c)'
      BY <3>1, <3>2, Zenon DEF OneOut
    <3> QED
      BY <2>2, <3>3
  <2>3. CASE v = w /\ c = chain
    <3>1. page'[w] = p /\ Calls(w, chain)' = more /\ Answers(w, chain)' = {}
      BY <1>2, BecomesChains
    <3>2. OneOut(w, chain)'
      BY <3>1 DEF OneOut, Sends, Awaits
    <3> QED
      BY <2>3, <3>2
  <2> QED
    BY <2>1, <2>2, <2>3
<1> QED
  BY <1>1, <1>2, <1>3, <1>4 DEF TypeInv

(* A step of a window's own keeps what it waits for, and waits for what it *)
(* sends.                                                                  *)
Adds(w, p, more) ==
  /\ \A r \in more : r.by = w
  /\ \A c \in Pair :
       IF Awaits(p, c) /\ ~Awaits(page[w], c) THEN \E r : more = {r} /\ r.chain = c
       ELSE (Awaits(page[w], c) => Awaits(p, c)) /\ \A r \in more : r.chain # c

LEMMA DoesKeepsTypes ==
  ASSUME TypeInv, NEW w \in Windows, NEW p \in Pages, NEW k \in KeptTypes,
         NEW more \in SUBSET PlainCalls, Does(w, p, k, more), Adds(w, p, more), BoundTypes'
  PROVE  TypeInv'
<1>1. NetworkTypes' /\ WindowTypes' /\ \A v \in Windows : page'[v] = IF v = w THEN p ELSE page[v]
  BY PlainAreRequests DEF TypeInv, NetworkTypes, WindowTypes, Does
<1>2. ServerTypes' /\ Topped'
  BY SameServer DEF Does
<1>3. ASSUME NEW v \in Windows, NEW c \in Pair
      PROVE  OneOut(v, c)'
  <2>0. requests' = requests \cup more /\ answers' = answers
    BY DEF Does
  <2>1. CASE \A r \in more : ~(r.by = v /\ r.chain = c)
    <3>1. Calls(v, c)' = Calls(v, c) /\ Answers(v, c)' = Answers(v, c)
      BY <2>0, <2>1 DEF Calls, Answers
    <3>2. Awaits(page'[v], c) <=> Awaits(page[v], c)
      BY <2>1, <1>1 DEF Adds
    <3> QED
      BY <3>1, <3>2, Zenon DEF OneOut, TypeInv
  <2>2. CASE \E r \in more : r.by = v /\ r.chain = c
    <3>1. v = w
      BY <2>2 DEF Adds
    <3>2. Awaits(p, c) /\ ~Awaits(page[w], c) /\ \E r : more = {r} /\ r.chain = c
      BY <2>2 DEF Adds
    <3>3. PICK r : more = {r} /\ r.chain = c /\ r.by = w
      BY <3>2 DEF Adds
    <3>4. Calls(w, c) = {} /\ Answers(w, c) = {}
      BY <3>2 DEF TypeInv, OneOut
    <3>5. Calls(w, c)' = {r} /\ Answers(w, c)' = {} /\ Awaits(page'[w], c)
      BY <2>0, <3>2, <3>3, <3>4, <1>1 DEF Calls, Answers
    <3> QED
      BY <3>1, <3>5 DEF OneOut
  <2> QED
    BY <2>1, <2>2
<1> QED
  BY <1>1, <1>2, <1>3 DEF TypeInv

LEMMA VersionsAreTexts ==
  ASSUME TypeInv
  PROVE  HeadNo \in Nat \ {0} /\ \A n \in 1..HeadNo : versions[n] \in Nat
  BY DEF TypeInv, ServerTypes, HeadNo

LEMMA LatestIsLatest ==
  ASSUME TypeInv, NEW s \in Nat
  PROVE  /\ Latest(s) \in Nat /\ \A i \in IterationsOf(s) : i.sequence <= Latest(s)
         /\ Latest(s) # 0 => \E i \in IterationsOf(s) : i.sequence = Latest(s)
<1> DEFINE N == {0} \cup {i.sequence : i \in IterationsOf(s)}
           Top(n) == \A i \in IterationsOf(s) : i.sequence <= n
<1>1. \A i \in IterationsOf(s) : i.sequence \in Nat
  BY DEF TypeInv, ServerTypes, IterationTypes, IterationsOf
<1>2. \E n \in N : Top(n)
  <2>1. CASE IterationsOf(s) = {}
    BY <2>1
  <2>2. CASE IterationsOf(s) # {}
    BY <2>2 DEF TypeInv, Topped, LastOf
  <2> QED
    BY <2>1, <2>2
<1>3. Latest(s) = CHOOSE n \in N : Top(n)
  BY DEF Latest
<1>4. Latest(s) \in N /\ Top(Latest(s))
  BY <1>2, <1>3
<1> QED
  BY <1>1, <1>4

LEMMA ContinuingIsOf ==
  ASSUME NEW k \in KeptTypes, NEW n \in Nat
  PROVE  LET going == Continuing(k, n) IN
         /\ going.sequence \in Nat /\ going.unsent \in BOOLEAN /\ going.ahead \in BOOLEAN
         /\ going.repeat \in Nat \cup {NoText}
  BY DEF KeptTypes, Continuing, LastSent

(* The actions of a page, each leaving pages and what they wait for whole. *)
LEMMA OwnAreTyped ==
  ASSUME TypeInv, NEW w \in Windows
  PROVE  /\ page[w] \in Pages /\ page[w] \in PageTypes /\ Shape(page[w]) /\ kept[w] \in KeptTypes
         /\ page[w].sequence + 1 \in Nat
  BY DEF TypeInv, WindowTypes, Pages, PageTypes

LEMMA SendingIsAPage ==
  ASSUME NEW q \in PageTypes, NEW as \in Sendings \ {"none"}, NEW forced \in BOOLEAN,
         q.phase \in SavingPhases, q.asking \in {"none", "flush"}, q.asking = "none" <=> q.phase = "editing"
  PROVE  /\ Sending(q, as, forced) \in Pages
         /\ Sending(q, as, forced).sending = as /\ Sending(q, as, forced).asking = q.asking
<1> DEFINE s == Sending(q, as, forced)
<1>1. s \in PageTypes
  BY PagesGoOn, Zenon
<1>2. s.sending = as /\ s.asking = q.asking /\ s.phase = q.phase
  BY DEF PageTypes, Sending
<1>3. Shape(s)
  <2> HIDE DEF s
  <2> QED
    BY <1>2 DEF Shape, SavingPhases
<1> QED
  BY <1>1, <1>2, <1>3 DEF Pages

LEMMA NextSaveIsTyped ==
  ASSUME NEW w \in Windows, NEW q \in PageTypes, NEW k \in KeptTypes
  PROVE  /\ Sent(k, q.sequence + 1) \in KeptTypes
         /\ NextSave(w, q, k) \in PlainCalls
         /\ NextSave(w, q, k).by = w /\ NextSave(w, q, k).chain = "send"
<1>1. q.sequence + 1 \in Nat
  BY DEF PageTypes
<1>2. k.words \in Nat /\ "send" \in Chains
  BY DEF KeptTypes, Chains
<1>3. NextSave(w, q, k) \in PlainCalls
  BY <1>1, <1>2, CallsAreRequests DEF NextSave
<1>4. NextSave(w, q, k).by = w /\ NextSave(w, q, k).chain = "send"
  BY DEF NextSave, SaveCall, Call
<1> QED
  BY <1>1, <1>3, <1>4, StoredIsKept

LEMMA FlushKeepsTypes ==
  ASSUME TypeInv, NEW w \in Windows, Flush(w)
  PROVE  TypeInv'
<1> DEFINE p == page[w]  k == kept[w]  idle == [p EXCEPT !.timed = FALSE]
<1>0. p \in Pages /\ p \in PageTypes /\ Shape(p) /\ k \in KeptTypes
  BY OwnAreTyped
<1>1. idle \in PageTypes
  BY <1>0, Zenon DEF PageTypes
<1>2. p.timed /\ p.sending = "none" /\ p.phase \in SavingPhases /\ p.asking \in {"none", "flush"}
  BY <1>0 DEF Flush, Shape
<1>3. /\ idle.phase = p.phase /\ idle.asking = p.asking /\ idle.sending = "none" /\ idle.sequence = p.sequence
      /\ idle.timed = FALSE
  BY <1>0, <1>2 DEF PageTypes
<1>4. idle.asking = "none" <=> idle.phase = "editing"
  BY <1>0, <1>2, <1>3 DEF Shape, SavingPhases
<1>5. BoundTypes'
  BY DEF Flush, bounds, BoundTypes, TypeInv
<1>6. CASE p.dirty
  <2> DEFINE q == Sending(idle, "save", FALSE)  more == {NextSave(w, p, k)}
  <2>1. Does(w, q, Sent(k, p.sequence + 1), more)
    BY <1>2, <1>6 DEF Flush
  <2>2. "save" \in Sendings \ {"none"} /\ FALSE \in BOOLEAN
    BY DEF Sendings
  <2>3. /\ q \in Pages /\ q.sending = "save" /\ q.asking = p.asking
        /\ Sent(k, p.sequence + 1) \in KeptTypes
        /\ NextSave(w, p, k) \in PlainCalls
        /\ NextSave(w, p, k).by = w /\ NextSave(w, p, k).chain = "send"
    <3>1. /\ Sent(k, p.sequence + 1) \in KeptTypes
          /\ NextSave(w, p, k) \in PlainCalls
          /\ NextSave(w, p, k).by = w /\ NextSave(w, p, k).chain = "send"
      BY <1>0, NextSaveIsTyped
    <3> HIDE DEF idle
    <3>2. idle.phase \in SavingPhases /\ idle.asking \in {"none", "flush"}
      BY <1>2, <1>3
    <3>3. q \in Pages /\ q.sending = "save" /\ q.asking = idle.asking
      BY <1>1, <1>4, <2>2, <3>2, SendingIsAPage, Zenon
    <3> QED
      BY <1>3, <3>1, <3>3
  <2> HIDE DEF q
  <2>4. Adds(w, q, more)
    BY <1>2, <2>3 DEF Adds, Awaits, Pair
  <2> QED
    BY <1>5, <2>1, <2>3, <2>4, DoesKeepsTypes
<1>7. CASE ~p.dirty
  <2>1. Does(w, idle, k, {})
    BY <1>2, <1>7 DEF Flush
  <2>2. idle \in Pages
    BY <1>0, <1>1, <1>2, <1>3 DEF Pages, Shape
  <2>3. Adds(w, idle, {})
    BY <1>2, <1>3 DEF Adds, Awaits, Pair
  <2> QED
    BY <1>0, <1>5, <2>1, <2>2, <2>3, DoesKeepsTypes
<1> QED
  BY <1>6, <1>7

(* A page that still edits, or flushes to finish, with no save out.        *)
Resting(q) ==
  /\ q.sending = "none" /\ q.phase \in SavingPhases /\ q.asking \in {"none", "flush"}
  /\ q.asking = "none" <=> q.phase = "editing"

LEMMA PagesOnceHeard ==
  ASSUME NEW q \in PageTypes, Resting(q), NEW x,
         \/ x = Acknowledged(q) \/ x = SaveFailed(q)
         \/ \E b \in BOOLEAN : x = Lose(q, b)
         \/ \E result : x = Refuse(q, result) \/ x = RefusedOrLost(q, result)
  PROVE  x \in Pages /\ x.sending = "none" /\ x.asking \in {"none", "flush"}
<1>1. CASE x = Acknowledged(q)
  <2>1. x \in PageTypes
    BY <1>1, PagesGoOn, Zenon
  <2>2. x.phase = q.phase /\ x.sending = "none" /\ x.asking = q.asking
    BY <1>1 DEF PageTypes, Acknowledged, Resting
  <2> QED
    BY <2>1, <2>2 DEF Pages, Shape, Resting, SavingPhases
<1>2. CASE x = SaveFailed(q)
  <2>1. x \in PageTypes
    BY <1>2, PagesGoOn, Zenon
  <2>2. /\ x.sending = "none" /\ x.phase \in SavingPhases /\ x.asking \in {"none", "flush"}
        /\ x.asking = "none" <=> x.phase = "editing"
    BY <1>2 DEF PageTypes, SaveFailed, Resting, SavingPhases
  <2> QED
    BY <2>1, <2>2 DEF Pages, Shape, SavingPhases
<1>3. ASSUME NEW b \in BOOLEAN, x = Lose(q, b)
      PROVE  x \in Pages /\ x.sending = "none" /\ x.asking \in {"none", "flush"}
  <2>1. x \in PageTypes
    BY <1>3, PagesStop, Zenon
  <2>2. x.sending = "none" /\ x.phase = "lost" /\ x.asking = "none" /\ x.timed = FALSE
    BY <1>3 DEF PageTypes, Lose, Stopped, Resting
  <2> QED
    BY <2>1, <2>2 DEF Pages, Shape
<1>4. ASSUME NEW result, x = Refuse(q, result)
      PROVE  x \in Pages /\ x.sending = "none" /\ x.asking \in {"none", "flush"}
  <2>1. CASE result = "forbidden"
    BY <1>3, <1>4, <2>1 DEF Refuse
  <2>2. CASE result # "forbidden"
    <3>1. x \in PageTypes
      BY <1>4, PagesStop, Zenon
    <3>2. x.sending = "none" /\ x.phase = "editing" /\ x.asking = "none" /\ x.timed = FALSE
      BY <1>4, <2>2 DEF PageTypes, Refuse, Stopped, Resting
    <3> QED
      BY <3>1, <3>2 DEF Pages, Shape, SavingPhases
  <2> QED
    BY <2>1, <2>2
<1> QED
  BY <1>1, <1>2, <1>3, <1>4 DEF RefusedOrLost

LEMMA HearSaveKeepsTypes ==
  ASSUME TypeInv, NEW w \in Windows, NEW o \in Outcomes(w, "send"),
         HearSave(w, o) \/ HearSaveReclaim(w, o)
  PROVE  TypeInv'
<1> DEFINE p == page[w]  k == Told(kept[w], o)
           done == [p EXCEPT !.sending = "none"]
           unsaved == [done EXCEPT !.dirty = TRUE]
           ended == [unsaved EXCEPT !.forced = FALSE]
           back == [p EXCEPT !.sending = "none", !.forced = FALSE]
<1>0. p \in Pages /\ p \in PageTypes /\ Shape(p) /\ kept[w] \in KeptTypes
  BY OwnAreTyped
<1>1. /\ p.sending # "none" /\ p.phase \in SavingPhases /\ p.asking \in {"none", "flush"}
      /\ p.asking = "none" <=> p.phase = "editing"
  BY <1>0 DEF HearSave, HearSaveReclaim, Shape, SavingPhases
<1>2. k \in KeptTypes
  <2>1. "send" \in Pair
    BY DEF Pair
  <2> QED
    BY <1>0, <2>1, OutcomesAreOf, ToldIsKept
<1>3. done \in PageTypes /\ unsaved \in PageTypes /\ ended \in PageTypes /\ back \in PageTypes
  <2>1. done \in PageTypes
    BY <1>0, Zenon DEF PageTypes, Sendings
  <2>2. unsaved \in PageTypes
    BY <2>1, Zenon DEF PageTypes
  <2>3. ended \in PageTypes
    BY <2>2, Zenon DEF PageTypes
  <2>4. back \in PageTypes
    BY <1>0, Zenon DEF PageTypes, Sendings
  <2> QED
    BY <2>1, <2>2, <2>3, <2>4
<1>4. Resting(done) /\ Resting(unsaved) /\ Resting(ended) /\ Resting(back)
  BY <1>0, <1>1 DEF PageTypes, Resting
(* Where nothing more goes out. *)
<1>5. ASSUME NEW x \in Pages, x.sending = "none" /\ x.asking \in {"none", "flush"},
             NEW l \in KeptTypes, Becomes(w, "send", o, x, l, {})
      PROVE  TypeInv'
  <2>1. "send" \in Pair /\ Sends(w, x, "send", {})
    BY <1>5 DEF Pair, Sends, Awaits
  <2>2. \A other \in Pair \ {"send"} : Awaits(x, other) <=> Awaits(page[w], other)
    BY <1>1, <1>5 DEF Pair, Awaits
  <2> QED
    BY <1>5, <2>1, <2>2, {} \in SUBSET PlainCalls, BecomesKeepsTypes
<1>6. ASSUME HearSave(w, o)
      PROVE  TypeInv'
  <2>1. ASSUME Becomes(w, "send", o, Acknowledged(done), k, {})
        PROVE  TypeInv'
    BY <1>2, <1>3, <1>4, <1>5, <2>1, PagesOnceHeard, Zenon
  <2>2. ASSUME Becomes(w, "send", o, SaveFailed(done), k, {})
        PROVE  TypeInv'
    BY <1>2, <1>3, <1>4, <1>5, <2>2, PagesOnceHeard, Zenon
  <2>3. ASSUME Becomes(w, "send", o, Refuse(ended, o.result), k, {})
        PROVE  TypeInv'
    BY <1>2, <1>3, <1>4, <1>5, <2>3, PagesOnceHeard, Zenon
  <2>4. ASSUME NEW b \in BOOLEAN, Becomes(w, "send", o, Lose(ended, b), k, {})
        PROVE  TypeInv'
    BY <1>2, <1>3, <1>4, <1>5, <2>4, PagesOnceHeard, Zenon
  <2>5. ASSUME Becomes(w, "send", o, [unsaved EXCEPT !.sending = "reclaim"], k,
                       {ClaimCall(w, "send", k, FALSE)})
        PROVE  TypeInv'
    <3> DEFINE x == [unsaved EXCEPT !.sending = "reclaim"]
               more == {ClaimCall(w, "send", k, FALSE)}
    <3>1. x \in PageTypes
      BY <1>3, Zenon DEF PageTypes, Sendings
    <3>2. x.sending = "reclaim" /\ x.phase = p.phase /\ x.asking = p.asking
      BY <1>0 DEF PageTypes
    <3>3. more \in SUBSET PlainCalls
      BY <1>2, CallsAreRequests DEF Chains
    <3>4. ClaimCall(w, "send", k, FALSE).by = w /\ ClaimCall(w, "send", k, FALSE).chain = "send"
      BY DEF ClaimCall, Call
    <3> HIDE DEF x
    <3>5. x \in Pages
      BY <1>0, <1>1, <3>1, <3>2 DEF Pages, Shape
    <3>6. "send" \in Pair /\ Sends(w, x, "send", more)
      BY <3>2, <3>4 DEF Pair, Sends, Awaits
    <3>7. \A other \in Pair \ {"send"} : Awaits(x, other) <=> Awaits(page[w], other)
      BY <3>2 DEF Pair, Awaits
    <3> QED
      <4> HIDE DEF more
      <4>1. Becomes(w, "send", o, x, k, more)
        BY <2>5 DEF x, more
      <4> QED
        BY <1>2, <3>3, <3>5, <3>6, <3>7, <4>1, BecomesKeepsTypes
  <2> QED
    BY <1>6, <2>1, <2>2, <2>3, <2>4, <2>5 DEF HearSave
<1>7. ASSUME HearSaveReclaim(w, o)
      PROVE  TypeInv'
  <2>1. ASSUME Becomes(w, "send", o, RefusedOrLost(back, o.result), kept[w], {})
        PROVE  TypeInv'
    BY <1>0, <1>3, <1>4, <1>5, <2>1, PagesOnceHeard, Zenon
  <2>2. ASSUME Becomes(w, "send", o, Sending(p, "saveAgain", p.forced), Sent(kept[w], p.sequence + 1),
                       {NextSave(w, p, kept[w])})
        PROVE  TypeInv'
    <3> DEFINE x == Sending(p, "saveAgain", p.forced)
    <3>1. x \in Pages /\ x.sending = "saveAgain" /\ x.asking = p.asking
      <4>1. "saveAgain" \in Sendings \ {"none"} /\ p.forced \in BOOLEAN
        BY <1>0 DEF Sendings, PageTypes
      <4> QED
        BY <1>0, <1>1, <4>1, SendingIsAPage, Zenon
    <3>2. /\ Sent(kept[w], p.sequence + 1) \in KeptTypes
          /\ NextSave(w, p, kept[w]) \in PlainCalls
          /\ NextSave(w, p, kept[w]).by = w /\ NextSave(w, p, kept[w]).chain = "send"
      BY <1>0, NextSaveIsTyped
    <3> HIDE DEF x
    <3>3. "send" \in Pair /\ Sends(w, x, "send", {NextSave(w, p, kept[w])})
      BY <3>1, <3>2 DEF Pair, Sends, Awaits
    <3>4. \A other \in Pair \ {"send"} : Awaits(x, other) <=> Awaits(page[w], other)
      BY <3>1 DEF Pair, Awaits
    <3> QED
      BY <2>2, <3>1, <3>2, <3>3, <3>4, BecomesKeepsTypes DEF x
  <2> QED
    BY <1>7, <2>1, <2>2 DEF HearSaveReclaim
<1> QED
  BY <1>6, <1>7

(* An answer to what a page asked: it asks nothing more, or one thing.     *)
LEMMA AskedNoMore ==
  ASSUME TypeInv, NEW w \in Windows, NEW o, page[w].sending = "none",
         NEW x \in PageTypes, x.asking = "none", x.sending = "none",
         x.phase \in {"reading", "editing", "lost"}, x.timed => x.phase = "editing",
         NEW l \in KeptTypes, Becomes(w, "ask", o, x, l, {})
  PROVE  TypeInv'
<1>1. x \in Pages
  BY DEF Pages, Shape, SavingPhases
<1>2. "ask" \in Pair /\ Sends(w, x, "ask", {})
  BY DEF Pair, Sends, Awaits
<1>3. \A other \in Pair \ {"ask"} : Awaits(x, other) <=> Awaits(page[w], other)
  BY DEF Pair, Awaits
<1> QED
  BY <1>1, <1>2, <1>3, {} \in SUBSET PlainCalls, BecomesKeepsTypes

LEMMA AskedOnceMore ==
  ASSUME TypeInv, NEW w \in Windows, NEW o, page[w].sending = "none",
         NEW x \in Pages, x.sending = "none", x.asking \notin {"none", "flush"},
         NEW l \in KeptTypes, NEW r \in PlainCalls, r.by = w, r.chain = "ask",
         Becomes(w, "ask", o, x, l, {r})
  PROVE  TypeInv'
<1>2. "ask" \in Pair /\ Sends(w, x, "ask", {r})
  BY DEF Pair, Sends, Awaits
<1>3. \A other \in Pair \ {"ask"} : Awaits(x, other) <=> Awaits(page[w], other)
  BY DEF Pair, Awaits
<1> QED
  BY <1>2, <1>3, {r} \in SUBSET PlainCalls, BecomesKeepsTypes

LEMMA HearClaimKeepsTypes ==
  ASSUME TypeInv, NEW w \in Windows, NEW o \in Outcomes(w, "ask"), HearClaim(w, o)
  PROVE  TypeInv'
<1> DEFINE p == page[w]  k == kept[w]
<1>0. p \in Pages /\ p \in PageTypes /\ Shape(p) /\ k \in KeptTypes
  BY OwnAreTyped
<1>1. p.asking = "claim" /\ p.phase = "claiming" /\ p.sending = "none" /\ p.timed = FALSE
  <2>1. p.asking = "claim" /\ p.timed \in BOOLEAN
    BY <1>0 DEF HearClaim, PageTypes
  <2> QED
    BY <1>0, <2>1 DEF Shape, SavingPhases
<1>2. CASE Becomes(w, "ask", o, Started(p), k, {})
  <2>1. Started(p) \in PageTypes
    BY <1>0, PagesGoOn, Zenon
  <2>2. Started(p).asking = "none" /\ Started(p).sending = "none" /\ Started(p).phase = "editing"
    BY <1>0, <1>1 DEF Started, PageTypes
  <2> QED
    BY <1>0, <1>1, <1>2, <2>1, <2>2, AskedNoMore
<1>3. CASE /\ p.repeat # NoText
           /\ Becomes(w, "ask", o, [p EXCEPT !.asking = "repeat"], k,
                      {SaveCall(w, "ask", k, p.sequence, p.repeat)})
  <2> DEFINE x == [p EXCEPT !.asking = "repeat"]  r == SaveCall(w, "ask", k, p.sequence, p.repeat)
  <2>1. x \in PageTypes
    BY <1>0, Zenon DEF PageTypes, Askings
  <2>2. x.asking = "repeat" /\ x.sending = "none" /\ x.phase = "claiming" /\ x.timed = FALSE
    BY <1>0, <1>1 DEF PageTypes
  <2>3. r \in PlainCalls
    <3>1. p.repeat \in Nat /\ p.sequence \in Nat /\ "ask" \in Chains
      BY <1>0, <1>3 DEF PageTypes, Chains
    <3> QED
      BY <1>0, <3>1, CallsAreRequests
  <2>4. r.by = w /\ r.chain = "ask"
    BY DEF SaveCall, Call
  <2>5. x \in Pages
    <3> HIDE DEF x
    <3> QED
      BY <2>1, <2>2 DEF Pages, Shape
  <2>6. Becomes(w, "ask", o, x, k, {r})
    BY <1>3
  <2> HIDE DEF x, r
  <2> QED
    BY <1>0, <1>1, <2>2, <2>3, <2>4, <2>5, <2>6, AskedOnceMore
<1>4. ASSUME NEW l \in KeptTypes, Becomes(w, "ask", o, TurnedBack(p, o.result), l, {})
      PROVE  TypeInv'
  <2> DEFINE x == TurnedBack(p, o.result)
  <2>1. x \in PageTypes
    BY <1>0, PagesGoOn, Zenon
  <2>2. x.asking = "none" /\ x.sending = "none" /\ x.phase = "reading" /\ x.timed = FALSE
    BY <1>0, <1>1 DEF TurnedBack, PageTypes
  <2> HIDE DEF x
  <2> QED
    BY <1>1, <1>4, <2>1, <2>2, AskedNoMore DEF x
<1>5. Reset(k, k.version, p.base) \in KeptTypes
  BY <1>0, StoredIsKept DEF KeptTypes, PageTypes
<1> QED
  BY <1>0, <1>2, <1>3, <1>4, <1>5 DEF HearClaim

LEMMA HearRepeatKeepsTypes ==
  ASSUME TypeInv, NEW w \in Windows, NEW o \in Outcomes(w, "ask"), HearRepeat(w, o)
  PROVE  TypeInv'
<1> DEFINE p == page[w]  k == Told(kept[w], o)
           ended == [p EXCEPT !.asking = "none", !.dirty = TRUE]
<1>0. p \in Pages /\ p \in PageTypes /\ Shape(p) /\ kept[w] \in KeptTypes
  BY OwnAreTyped
<1>1. p.asking = "repeat" /\ p.phase = "claiming" /\ p.sending = "none" /\ p.timed = FALSE
  <2>1. p.asking = "repeat" /\ p.timed \in BOOLEAN
    BY <1>0 DEF HearRepeat, PageTypes
  <2> QED
    BY <1>0, <2>1 DEF Shape, SavingPhases
<1>2. k \in KeptTypes
  <2>1. "ask" \in Pair
    BY DEF Pair
  <2> QED
    BY <1>0, <2>1, OutcomesAreOf, ToldIsKept
<1>3. CASE Becomes(w, "ask", o, Started(p), k, {})
  <2>1. Started(p) \in PageTypes
    BY <1>0, PagesGoOn, Zenon
  <2>2. Started(p).asking = "none" /\ Started(p).sending = "none" /\ Started(p).phase = "editing"
    BY <1>0, <1>1 DEF Started, PageTypes
  <2> QED
    BY <1>1, <1>2, <1>3, <2>1, <2>2, AskedNoMore
<1>4. ASSUME NEW b \in BOOLEAN, Becomes(w, "ask", o, Lose(ended, b), k, {})
      PROVE  TypeInv'
  <2> DEFINE x == Lose(ended, b)
  <2>1. ended \in PageTypes
    BY <1>0, Zenon DEF PageTypes, Askings
  <2>2. x \in PageTypes
    BY <2>1, PagesStop, Zenon
  <2>3. ended.asking = "none" /\ ended.sending = "none"
    BY <1>0, <1>1 DEF PageTypes
  <2>4. x.asking = "none" /\ x.sending = "none" /\ x.phase = "lost" /\ x.timed = FALSE
    <3> HIDE DEF ended
    <3> QED
      BY <2>1, <2>3 DEF Lose, Stopped, PageTypes
  <2> HIDE DEF x
  <2> QED
    BY <1>1, <1>2, <1>4, <2>2, <2>4, AskedNoMore DEF x
<1> QED
  BY <1>3, <1>4, (o.result \notin Refusals) \in BOOLEAN DEF HearRepeat

LEMMA HearFinishKeepsTypes ==
  ASSUME TypeInv, NEW w \in Windows, NEW o \in Outcomes(w, "ask"),
         HearCut(w, o) \/ HearFinishReclaim(w, o)
  PROVE  TypeInv'
<1> DEFINE p == page[w]  k == kept[w]
           ended == [p EXCEPT !.asking = "none"]
           done == [ended EXCEPT !.base = IF o.version # k.version THEN k.words ELSE @]
<1>0. p \in Pages /\ p \in PageTypes /\ Shape(p) /\ k \in KeptTypes
  BY OwnAreTyped
<1>1. /\ p.asking \in {"request", "reclaim", "again"} /\ p.phase \in {"cutting", "releasing"}
      /\ p.sending = "none" /\ p.timed = FALSE
  <2>1. p.asking \in {"request", "reclaim", "again"} /\ p.timed \in BOOLEAN /\ p.phase \in Phases
    BY <1>0 DEF HearCut, HearFinishReclaim, PageTypes
  <2> QED
    BY <1>0, <2>1 DEF Shape, SavingPhases, Phases
<1>2. ended \in PageTypes /\ ended.asking = "none" /\ ended.sending = "none" /\ ended.timed = FALSE
      /\ ended.base \in Nat
  <2>1. ended \in PageTypes
    BY <1>0, Zenon DEF PageTypes, Askings
  <2> QED
    BY <1>0, <1>1, <2>1 DEF PageTypes
<1>3. done \in PageTypes /\ done.asking = "none" /\ done.sending = "none" /\ done.timed = FALSE
  <2>1. (IF o.version # k.version THEN k.words ELSE ended.base) \in Nat
    BY <1>0, <1>2 DEF KeptTypes
  <2> HIDE DEF ended
  <2>2. done \in PageTypes
    BY <1>2, <2>1, Zenon DEF PageTypes
  <2> QED
    BY <1>2, <2>2 DEF PageTypes
<1>4. ASSUME NEW q \in PageTypes, q.asking = "none" /\ q.sending = "none" /\ q.timed = FALSE,
             NEW phase \in {"editing", "reading"}, NEW l \in KeptTypes,
             Becomes(w, "ask", o, [q EXCEPT !.phase = phase], l, {})
      PROVE  TypeInv'
  <2> DEFINE x == [q EXCEPT !.phase = phase]
  <2>1. x \in PageTypes
    BY <1>4, phase \in Phases, Zenon DEF PageTypes, Phases
  <2>2. x.asking = "none" /\ x.sending = "none" /\ x.phase = phase /\ x.timed = FALSE
    BY <1>4 DEF PageTypes
  <2> HIDE DEF x
  <2> QED
    BY <1>1, <1>4, <2>1, <2>2, AskedNoMore DEF x
<1>5. ASSUME Becomes(w, "ask", o, RefusedOrLost(ended, o.result), k, {})
      PROVE  TypeInv'
  <2> DEFINE x == RefusedOrLost(ended, o.result)
  <2>1. x \in PageTypes
    BY <1>2, PagesStop, Zenon
  <2>2. x.asking = "none" /\ x.sending = "none" /\ x.phase \in {"lost", "editing"} /\ x.timed = FALSE
    <3> HIDE DEF ended
    <3> QED
      BY <1>2 DEF RefusedOrLost, Refuse, Lose, Stopped, PageTypes
  <2> HIDE DEF x
  <2> QED
    BY <1>0, <1>1, <1>5, <2>1, <2>2, AskedNoMore DEF x
<1>6. ASSUME NEW asking \in {"reclaim", "again"}, NEW r \in PlainCalls, r.by = w, r.chain = "ask",
             Becomes(w, "ask", o, [p EXCEPT !.asking = asking], k, {r})
      PROVE  TypeInv'
  <2> DEFINE x == [p EXCEPT !.asking = asking]
  <2>1. x \in PageTypes
    BY <1>0, <1>6, asking \in Askings, Zenon DEF PageTypes, Askings
  <2>2. x.asking = asking /\ x.sending = "none" /\ x.phase = p.phase /\ x.timed = FALSE
    BY <1>0, <1>1 DEF PageTypes
  <2> HIDE DEF x
  <2>3. x \in Pages
    BY <1>0, <1>1, <2>1, <2>2 DEF Pages, Shape
  <2> QED
    BY <1>0, <1>1, <1>6, <2>2, <2>3, AskedOnceMore DEF x
<1>7. o.result = "ok" => o.version \in Nat \ {0}
  BY "ask" \in Pair, OutcomesAreOf DEF Pair
<1>8. o.version \in Nat \ {0} => Reset(k, o.version, k.words) \in KeptTypes
  BY <1>0, StoredIsKept DEF KeptTypes
<1>9. /\ ClaimCall(w, "ask", k, FALSE) \in PlainCalls /\ CutCall(w, p, k) \in PlainCalls
      /\ ClaimCall(w, "ask", k, FALSE).by = w /\ ClaimCall(w, "ask", k, FALSE).chain = "ask"
      /\ CutCall(w, p, k).by = w /\ CutCall(w, p, k).chain = "ask"
  <2>1. "ask" \in Chains /\ "cut" \in CallKinds /\ "release" \in CallKinds
    BY DEF Chains, CallKinds
  <2>2. ClaimCall(w, "ask", k, FALSE) \in PlainCalls /\ CutCall(w, p, k) \in PlainCalls
    BY <1>0, <2>1, CallsAreRequests DEF CutCall
  <2> QED
    BY <2>2 DEF ClaimCall, CutCall, Call
<1>10. CASE HearCut(w, o)
  BY <1>0, <1>2, <1>3, <1>4, <1>5, <1>6, <1>7, <1>8, <1>9, <1>10 DEF HearCut
<1>11. CASE HearFinishReclaim(w, o)
  BY <1>5, <1>6, <1>9, <1>11 DEF HearFinishReclaim
<1> QED
  BY <1>10, <1>11

(* A step of a window's own that sends nothing, or sends a call it awaits. *)
LEMMA DoesNoMore ==
  ASSUME TypeInv, NEW w \in Windows, NEW x \in Pages, NEW l \in KeptTypes, Does(w, x, l, {}),
         \A c \in Pair : Awaits(x, c) <=> Awaits(page[w], c), BoundTypes'
  PROVE  TypeInv'
<1>1. Adds(w, x, {})
  BY DEF Adds
<1> QED
  BY <1>1, {} \in SUBSET PlainCalls, DoesKeepsTypes

LEMMA DoesAskOnce ==
  ASSUME TypeInv, NEW w \in Windows, NEW x \in Pages, NEW l \in KeptTypes, NEW r \in PlainCalls,
         Does(w, x, l, {r}), r.by = w, r.chain = "ask", BoundTypes',
         x.sending = "none", page[w].sending = "none",
         x.asking \notin {"none", "flush"}, page[w].asking \in {"none", "flush"}
  PROVE  TypeInv'
<1>1. Adds(w, x, {r})
  BY DEF Adds, Awaits, Pair
<1> QED
  BY <1>1, {r} \in SUBSET PlainCalls, DoesKeepsTypes

LEMMA ClaimingIsAPage ==
  ASSUME NEW p \in PageTypes, p.sending = "none", p.timed = FALSE
  PROVE  /\ Claiming(p) \in Pages
         /\ Claiming(p).sending = "none" /\ Claiming(p).asking = "claim"
<1> DEFINE x == Claiming(p)
<1>1. x \in PageTypes
  BY PagesGoOn, Zenon
<1>2. x.phase = "claiming" /\ x.asking = "claim" /\ x.sending = "none" /\ x.timed = FALSE
  BY DEF Claiming, PageTypes
<1> HIDE DEF x
<1>3. x \in Pages
  BY <1>1, <1>2 DEF Pages, Shape
<1> QED
  BY <1>2, <1>3 DEF x

LEMMA ClaimIsTyped ==
  ASSUME NEW w \in Windows, NEW k \in KeptTypes, NEW move \in BOOLEAN
  PROVE  /\ ClaimCall(w, "ask", k, move) \in PlainCalls
         /\ ClaimCall(w, "ask", k, move).by = w /\ ClaimCall(w, "ask", k, move).chain = "ask"
<1>1. "ask" \in Chains
  BY DEF Chains
<1>2. ClaimCall(w, "ask", k, move) \in PlainCalls
  BY <1>1, CallsAreRequests, Zenon
<1> QED
  BY <1>2 DEF ClaimCall, Call

LEMMA TypeKeepsTypes ==
  ASSUME TypeInv, NEW w \in Windows, Type(w)
  PROVE  TypeInv'
<1> DEFINE p == page[w]  k == kept[w]
           changed == [p EXCEPT !.dirty = TRUE, !.save = "saving"]
           typed == [k EXCEPT !.words = texts + 1, !.changed = TRUE, !.unsent = TRUE,
                              !.laterCurrent = FALSE]
<1>0. p \in Pages /\ p \in PageTypes /\ Shape(p) /\ k \in KeptTypes
  BY OwnAreTyped
<1>1. BoundTypes' /\ texts + 1 \in Nat
  BY DEF TypeInv, BoundTypes, Type
<1>2. typed \in KeptTypes
  BY <1>0, <1>1, Zenon DEF KeptTypes
<1>3. changed \in PageTypes
  BY <1>0, Zenon DEF PageTypes
<1>4. /\ changed.phase = p.phase /\ changed.asking = p.asking /\ changed.sending = p.sending
      /\ changed.timed = p.timed
  BY <1>0 DEF PageTypes
<1>5. changed \in Pages
  <2> HIDE DEF changed
  <2> QED
    BY <1>0, <1>3, <1>4 DEF Pages, Shape
<1>6. CASE p.phase = "reading" /\ Does(w, Claiming(changed), typed, {ClaimCall(w, "ask", k, FALSE)})
  <2>1. p.asking = "none" /\ p.sending = "none" /\ p.timed = FALSE
    <3>1. p.timed \in BOOLEAN
      BY <1>0 DEF PageTypes
    <3> QED
      BY <1>0, <1>6, <3>1 DEF Shape, SavingPhases
  <2>2. Claiming(changed) \in Pages /\ Claiming(changed).sending = "none"
        /\ Claiming(changed).asking = "claim"
    <3> HIDE DEF changed
    <3> QED
      BY <1>3, <1>4, <2>1, ClaimingIsAPage
  <2> DEFINE x == Claiming(changed)  r == ClaimCall(w, "ask", k, FALSE)
  <2>3. r \in PlainCalls /\ r.by = w /\ r.chain = "ask"
    BY <1>0, ClaimIsTyped
  <2>4. Does(w, x, typed, {r})
    BY <1>6
  <2> HIDE DEF x, r, typed
  <2> QED
    BY <1>1, <1>2, <2>1, <2>2, <2>3, <2>4, DoesAskOnce DEF x
<1>7. CASE Does(w, changed, typed, {})
  <2>1. \A c \in Pair : Awaits(changed, c) <=> Awaits(page[w], c)
    BY <1>4 DEF Awaits
  <2> HIDE DEF changed, typed
  <2> QED
    BY <1>1, <1>2, <1>5, <1>7, <2>1, DoesNoMore
<1>8. CASE p.phase = "editing" /\ Does(w, [changed EXCEPT !.timed = TRUE], typed, {})
  <2> DEFINE x == [changed EXCEPT !.timed = TRUE]
  <2>1. x \in PageTypes
    BY <1>3, Zenon DEF PageTypes
  <2>2. x.phase = p.phase /\ x.asking = p.asking /\ x.sending = p.sending
    BY <1>3, <1>4 DEF PageTypes
  <2> HIDE DEF changed, typed
  <2>3. x \in Pages
    <3> HIDE DEF x
    <3> QED
      BY <1>0, <1>8, <2>1, <2>2 DEF Pages, Shape, SavingPhases
  <2>4. \A c \in Pair : Awaits(x, c) <=> Awaits(page[w], c)
    BY <2>2 DEF Awaits
  <2>5. Does(w, x, typed, {})
    BY <1>8
  <2> HIDE DEF x
  <2> QED
    BY <1>1, <1>2, <2>3, <2>4, <2>5, DoesNoMore
<1> QED
  BY <1>6, <1>7, <1>8 DEF Type

LEMMA ClaimAgainKeepsTypes ==
  ASSUME TypeInv, NEW w \in Windows, ClaimAgain(w) \/ ContinueAfresh(w)
  PROVE  TypeInv'
<1> DEFINE p == page[w]
<1>0. p \in Pages /\ p \in PageTypes /\ Shape(p) /\ kept[w] \in KeptTypes
  BY OwnAreTyped
<1>1. p.asking = "none" /\ p.sending = "none" /\ p.timed = FALSE
  <2>1. p.timed \in BOOLEAN /\ p.phase \in {"reading", "lost"}
    BY <1>0 DEF PageTypes, ClaimAgain, ContinueAfresh
  <2> QED
    BY <1>0, <2>1 DEF Shape, SavingPhases
<1>2. CASE ClaimAgain(w)
  <2> DEFINE x == Claiming(p)  r == ClaimCall(w, "ask", kept[w], p.holder = "yours")
  <2>1. Does(w, x, kept[w], {r})
    BY <1>2 DEF ClaimAgain
  <2>2. r \in PlainCalls /\ r.by = w /\ r.chain = "ask"
    BY <1>0, (p.holder = "yours") \in BOOLEAN, ClaimIsTyped, Zenon
  <2>3. x \in Pages /\ x.sending = "none" /\ x.asking = "claim"
    BY <1>0, <1>1, ClaimingIsAPage
  <2>4. BoundTypes'
    BY <1>2 DEF ClaimAgain, bounds, TypeInv, BoundTypes
  <2> HIDE DEF x, r
  <2> QED
    BY <1>0, <1>1, <2>1, <2>2, <2>3, <2>4, DoesAskOnce
<1>3. CASE ContinueAfresh(w)
  <2> DEFINE k == FreshSession(kept[w], minted + 1)  q == Claiming(p)
             x == [q EXCEPT !.sequence = 0, !.repeat = NoText]
             r == ClaimCall(w, "ask", k, TRUE)
  <2>1. Does(w, x, k, {r})
    BY <1>3 DEF ContinueAfresh
  <2>2. BoundTypes' /\ minted + 1 \in Nat
    BY <1>3 DEF ContinueAfresh, TypeInv, BoundTypes
  <2>3. k \in KeptTypes
    BY <1>0, <2>2, StoredIsKept
  <2>4. r \in PlainCalls /\ r.by = w /\ r.chain = "ask"
    BY <2>3, ClaimIsTyped, Zenon
  <2>5. q \in Pages /\ q.sending = "none" /\ q.asking = "claim"
    BY <1>0, <1>1, ClaimingIsAPage
  <2>6. x \in Pages /\ x.sending = "none" /\ x.asking = "claim"
    <3> HIDE DEF q
    <3>1. q \in PageTypes /\ Shape(q)
      BY <2>5 DEF Pages
    <3>2. x \in PageTypes
      BY <3>1, 0 \in Nat, Zenon DEF PageTypes
    <3>3. x.phase = q.phase /\ x.asking = q.asking /\ x.sending = q.sending /\ x.timed = q.timed
      BY <3>1 DEF PageTypes
    <3> HIDE DEF x
    <3> QED
      BY <2>5, <3>1, <3>2, <3>3 DEF Pages, Shape
  <2> HIDE DEF x, r, k
  <2> QED
    BY <1>0, <1>1, <2>1, <2>2, <2>3, <2>4, <2>6, DoesAskOnce
<1> QED
  BY <1>2, <1>3

LEMMA FinishKeepsTypes ==
  ASSUME TypeInv, NEW w \in Windows, NEW during \in {"cutting", "releasing"}, Finish(w, during)
  PROVE  TypeInv'
<1> DEFINE p == page[w]  x == [p EXCEPT !.phase = during, !.asking = "flush"]
<1>0. p \in Pages /\ p \in PageTypes /\ Shape(p) /\ kept[w] \in KeptTypes
  BY OwnAreTyped
<1>1. BoundTypes'
  BY DEF Finish, bounds, TypeInv, BoundTypes
<1>2. x \in PageTypes
  BY <1>0, during \in Phases, Zenon DEF PageTypes, Phases, Askings
<1>3. x.phase = during /\ x.asking = "flush" /\ x.sending = p.sending /\ x.timed = p.timed
  BY <1>0 DEF PageTypes
<1>4. Does(w, x, kept[w], {}) /\ p.asking = "none"
  BY DEF Finish
<1> HIDE DEF x
<1>5. x \in Pages /\ \A c \in Pair : Awaits(x, c) <=> Awaits(page[w], c)
  BY <1>0, <1>2, <1>3, <1>4 DEF Pages, Shape, SavingPhases, Awaits
<1> QED
  BY <1>0, <1>1, <1>4, <1>5, DoesNoMore

LEMMA FlushToFinishKeepsTypes ==
  ASSUME TypeInv, NEW w \in Windows, FlushToFinish(w)
  PROVE  TypeInv'
<1> DEFINE p == [page[w] EXCEPT !.timed = FALSE]  k == kept[w]
<1>0. page[w] \in PageTypes /\ Shape(page[w]) /\ k \in KeptTypes
  BY OwnAreTyped
<1>1. BoundTypes'
  BY DEF FlushToFinish, bounds, TypeInv, BoundTypes
<1>2. p \in PageTypes
  BY <1>0, Zenon DEF PageTypes
<1>3. /\ p.asking = "flush" /\ p.sending = "none" /\ p.phase \in {"cutting", "releasing"} /\ p.timed = FALSE
      /\ page[w].asking = "flush" /\ page[w].sending = "none"
  <2>1. page[w].asking = "flush" /\ page[w].sending = "none"
    BY DEF FlushToFinish
  <2>2. p.asking = page[w].asking /\ p.sending = page[w].sending /\ p.phase = page[w].phase /\ p.timed = FALSE
    BY <1>0 DEF PageTypes
  <2>3. page[w].phase \in {"cutting", "releasing"}
    BY <1>0, <2>1 DEF PageTypes, Phases, Shape
  <2> QED
    BY <2>1, <2>2, <2>3
<1> HIDE DEF p
<1>4. CASE Does(w, Sending(p, "save", TRUE), Sent(k, p.sequence + 1), {NextSave(w, p, k)})
  <2> DEFINE x == Sending(p, "save", TRUE)  l == Sent(k, p.sequence + 1)  r == NextSave(w, p, k)
  <2>1. x \in Pages /\ x.sending = "save" /\ x.asking = p.asking
    <3>1. "save" \in Sendings \ {"none"} /\ p.phase \in SavingPhases
          /\ (p.asking = "none" <=> p.phase = "editing") /\ p.asking \in {"none", "flush"}
      BY <1>3 DEF Sendings, SavingPhases
    <3> QED
      BY <1>2, <3>1, SendingIsAPage, Zenon
  <2>2. l \in KeptTypes /\ r \in PlainCalls /\ r.by = w /\ r.chain = "send"
    BY <1>0, <1>2, NextSaveIsTyped
  <2>3. Does(w, x, l, {r})
    BY <1>4
  <2> HIDE DEF x, l, r
  <2>4. Adds(w, x, {r})
    BY <1>3, <2>1, <2>2 DEF Adds, Awaits, Pair
  <2> QED
    BY <1>1, <2>1, <2>2, <2>3, <2>4, {r} \in SUBSET PlainCalls, DoesKeepsTypes
<1>5. CASE Does(w, [p EXCEPT !.asking = "request"], k, {CutCall(w, p, k)})
  <2> DEFINE x == [p EXCEPT !.asking = "request"]  r == CutCall(w, p, k)
  <2>1. x \in PageTypes
    BY <1>2, Zenon DEF PageTypes, Askings
  <2>2. x.asking = "request" /\ x.phase = p.phase /\ x.sending = "none" /\ x.timed = FALSE
    BY <1>2, <1>3 DEF PageTypes
  <2>3. r \in PlainCalls /\ r.by = w /\ r.chain = "ask"
    <3>1. "ask" \in Chains /\ "cut" \in CallKinds /\ "release" \in CallKinds
      BY DEF Chains, CallKinds
    <3>2. r \in PlainCalls
      BY <1>0, <3>1, CallsAreRequests DEF CutCall
    <3> QED
      BY <3>2 DEF CutCall, Call
  <2>4. Does(w, x, k, {r})
    BY <1>5
  <2> HIDE DEF x, r
  <2>5. x \in Pages
    BY <1>3, <2>1, <2>2 DEF Pages, Shape
  <2> QED
    BY <1>0, <1>1, <1>3, <2>2, <2>3, <2>4, <2>5, DoesAskOnce
<1> QED
  BY <1>4, <1>5 DEF FlushToFinish, p


LEMMA OpenKeepsTypes ==
  ASSUME TypeInv, NEW w \in Windows, OpenReplaying(w) \/ OpenAfresh(w)
  PROVE  TypeInv'
<1> DEFINE p == page[w]  k == kept[w]
<1>0. p \in PageTypes /\ Shape(p) /\ k \in KeptTypes
  BY OwnAreTyped
<1>1. p.phase = "none" /\ p.asking = "none" /\ p.sending = "none"
  <2>1. p.phase = "none"
    BY DEF OpenReplaying, OpenAfresh
  <2> QED
    BY <1>0, <2>1 DEF Shape, SavingPhases
<1>2. HeadNo \in Nat \ {0} /\ versions[HeadNo] \in Nat
  BY VersionsAreTexts
<1>3. Latest(k.session) \in Nat /\ k.session \in Nat /\ k.later \in Nat
  <2>1. k.session \in Nat /\ k.later \in Nat
    BY <1>0 DEF KeptTypes
  <2> QED
    BY <2>1, LatestIsLatest
<1>4. NoPage \in PageTypes /\ NoPage.phase = "none" /\ NoPage.asking = "none" /\ NoPage.sending = "none"
      /\ NoPage.timed = FALSE
  BY WindowsAssumption DEF NoPage, PageTypes, Phases, Askings, Sendings
<1>5. CASE OpenReplaying(w)
  <2> DEFINE going == Continuing(k, Latest(k.session))
             opened == [NoPage EXCEPT !.sequence = going.sequence, !.base = versions[HeadNo]]
  <2>1. /\ going.sequence \in Nat /\ going.unsent \in BOOLEAN /\ going.ahead \in BOOLEAN
        /\ going.repeat \in Nat \cup {NoText}
    BY <1>0, <1>3, ContinuingIsOf
  <2>2. BoundTypes'
    BY <1>5 DEF OpenReplaying, bounds, TypeInv, BoundTypes
  <2> HIDE DEF going
  <2>3. opened \in PageTypes
    BY <1>2, <1>4, <2>1, Zenon DEF PageTypes
  <2>4. opened.phase = "none" /\ opened.asking = "none" /\ opened.sending = "none" /\ opened.timed = FALSE
    BY <1>4 DEF PageTypes
  <2> HIDE DEF opened
  <2>5. CASE Does(w, Lose([opened EXCEPT !.dirty = TRUE], TRUE), k, {})
    <3> DEFINE q == [opened EXCEPT !.dirty = TRUE]  x == Lose(q, TRUE)
    <3>1. q \in PageTypes
      BY <2>3, Zenon DEF PageTypes
    <3>2. q.sending = "none" /\ q.asking = "none"
      BY <2>3, <2>4 DEF PageTypes
    <3> HIDE DEF q
    <3>3. x \in PageTypes
      BY <3>1, PagesStop, Zenon
    <3>4. x.phase = "lost" /\ x.asking = "none" /\ x.sending = "none" /\ x.timed = FALSE
      BY <3>1, <3>2 DEF PageTypes, Lose, Stopped
    <3>5. Does(w, x, k, {})
      BY <2>5 DEF q
    <3> HIDE DEF x
    <3>6. x \in Pages /\ \A c \in Pair : Awaits(x, c) <=> Awaits(page[w], c)
      BY <1>1, <3>3, <3>4 DEF Pages, Shape, Awaits
    <3> QED
      BY <1>0, <2>2, <3>5, <3>6, DoesNoMore
  <2>6. ASSUME NEW save \in {"saving", "saved"},
               Does(w, [Claiming(opened) EXCEPT !.dirty = going.unsent, !.repeat = going.repeat,
                          !.replay = TRUE, !.save = save],
                    k, {ClaimCall(w, "ask", k, FALSE)})
        PROVE  TypeInv'
    <3> DEFINE q == Claiming(opened)  r == ClaimCall(w, "ask", k, FALSE)
               x == [q EXCEPT !.dirty = going.unsent, !.repeat = going.repeat,
                              !.replay = TRUE, !.save = save]
    <3>1. q \in Pages /\ q.sending = "none" /\ q.asking = "claim"
      BY <2>3, <2>4, ClaimingIsAPage
    <3>2. r \in PlainCalls /\ r.by = w /\ r.chain = "ask"
      BY <1>0, FALSE \in BOOLEAN, ClaimIsTyped, Zenon
    <3>3. Does(w, x, k, {r})
      BY <2>6
    <3> HIDE DEF q, r
    <3>4. q \in PageTypes /\ Shape(q)
      BY <3>1 DEF Pages
    <3>5. x \in PageTypes
      BY <2>1, <3>4, Zenon DEF PageTypes
    <3>6. x.phase = q.phase /\ x.asking = q.asking /\ x.sending = q.sending /\ x.timed = q.timed
      BY <3>4 DEF PageTypes
    <3> HIDE DEF x
    <3>7. x \in Pages /\ x.sending = "none" /\ x.asking = "claim"
      BY <3>1, <3>4, <3>5, <3>6 DEF Pages, Shape
    <3> QED
      BY <1>0, <1>1, <2>2, <3>2, <3>3, <3>7, DoesAskOnce
  <2>7. \/ Does(w, Lose([opened EXCEPT !.dirty = TRUE], TRUE), k, {})
        \/ Does(w, [Claiming(opened) EXCEPT !.dirty = going.unsent, !.repeat = going.repeat,
                     !.replay = TRUE,
                     !.save = IF going.unsent \/ going.repeat # NoText THEN "saving" ELSE "saved"],
               k, {ClaimCall(w, "ask", k, FALSE)})
    BY <1>5, Zenon DEF OpenReplaying, opened, going
  <2>8. (IF going.unsent \/ going.repeat # NoText THEN "saving" ELSE "saved") \in {"saving", "saved"}
    BY Zenon
  <2> QED
    BY <2>5, <2>6, <2>7, <2>8, Zenon
<1>6. CASE OpenAfresh(w)
  <2> DEFINE mine == k.session # 0 /\ lock = k.session
             n == IF Latest(k.session) > k.later THEN Latest(k.session) ELSE k.later
             same == [Reset(k, HeadNo, versions[HeadNo]) EXCEPT !.sent = n]
             new == [Reset(FreshSession(k, minted + 1), HeadNo, versions[HeadNo]) EXCEPT !.sent = 0]
             x == [NoPage EXCEPT !.phase = "reading", !.base = versions[HeadNo],
                                 !.sequence = IF mine THEN n ELSE 0]
             l == IF mine THEN same ELSE new
  <2>1. Does(w, x, l, {})
    BY <1>6 DEF OpenAfresh
  <2>2. BoundTypes' /\ minted + 1 \in Nat
    BY <1>6 DEF OpenAfresh, TypeInv, BoundTypes
  <2>3. n \in Nat
    BY <1>3
  <2> HIDE DEF n
  <2>4. l \in KeptTypes
    <3>1. Reset(k, HeadNo, versions[HeadNo]) \in KeptTypes
      BY <1>0, <1>2, StoredIsKept
    <3>2. FreshSession(k, minted + 1) \in KeptTypes
      BY <1>0, <2>2, StoredIsKept
    <3>3. Reset(FreshSession(k, minted + 1), HeadNo, versions[HeadNo]) \in KeptTypes
      BY <1>2, <3>2, StoredIsKept
    <3>4. same \in KeptTypes
      BY <2>3, <3>1, Zenon DEF KeptTypes
    <3>5. new \in KeptTypes
      BY <3>3, 0 \in Nat, Zenon DEF KeptTypes
    <3> QED
      BY <3>4, <3>5, Zenon
  <2>5. (IF mine THEN n ELSE 0) \in Nat
    BY <2>3
  <2>6. x \in PageTypes
    BY <1>2, <1>4, <2>5, Zenon DEF PageTypes, Phases
  <2>7. x.phase = "reading" /\ x.asking = "none" /\ x.sending = "none" /\ x.timed = FALSE
    BY <1>4 DEF PageTypes
  <2> HIDE DEF x, l
  <2>8. x \in Pages /\ \A c \in Pair : Awaits(x, c) <=> Awaits(page[w], c)
    BY <1>1, <2>6, <2>7 DEF Pages, Shape, Awaits
  <2> QED
    BY <2>1, <2>2, <2>4, <2>8, DoesNoMore
<1> QED
  BY <1>5, <1>6

LEMMA NoPageIsAPage ==
  NoPage \in Pages /\ \A c \in Pair : ~Awaits(NoPage, c)
<1>1. NoPage \in PageTypes
  BY WindowsAssumption DEF NoPage, PageTypes, Phases, Askings, Sendings
<1>2. NoPage.phase = "none" /\ NoPage.asking = "none" /\ NoPage.sending = "none" /\ NoPage.timed = FALSE
  BY DEF NoPage
<1> QED
  BY <1>1, <1>2 DEF Pages, Shape, Awaits

(* A step that leaves the others' calls, and none of the window's awaited. *)
LEMMA GoneKeepsTypes ==
  ASSUME TypeInv, NEW w \in Windows, UNCHANGED server, NetworkTypes', BoundTypes',
         kept' \in [Windows -> KeptTypes], page' = [page EXCEPT ![w] = NoPage],
         \A c \in Pair : Calls(w, c)' = {} /\ Answers(w, c)' = {},
         \A v \in Windows \ {w}, c \in Pair :
           Calls(v, c)' = Calls(v, c) /\ Answers(v, c)' = Answers(v, c)
  PROVE  TypeInv'
<1>1. WindowTypes' /\ \A v \in Windows : page'[v] = IF v = w THEN NoPage ELSE page[v]
  BY NoPageIsAPage DEF TypeInv, WindowTypes
<1>2. ServerTypes' /\ Topped'
  BY SameServer
<1>3. ASSUME NEW v \in Windows, NEW c \in Pair
      PROVE  OneOut(v, c)'
  <2>1. CASE v = w
    <3>1. ~Awaits(page'[w], c)
      BY <1>1, NoPageIsAPage
    <3> QED
      BY <2>1, <3>1 DEF OneOut
  <2>2. CASE v # w
    <3>1. page'[v] = page[v] /\ OneOut(v, c)
      BY <1>1, <2>2 DEF TypeInv
    <3> QED
      BY <2>2, <3>1 DEF OneOut
  <2> QED
    BY <2>1, <2>2
<1> QED
  BY <1>1, <1>2, <1>3 DEF TypeInv

LEMMA LeaveKeepsTypes ==
  ASSUME TypeInv, NEW w \in Windows, Leave(w)
  PROVE  TypeInv'
<1> DEFINE p == page[w]  k == kept[w]  n == p.sequence + 1
           last == p.dirty /\ p.repeat = NoText /\ p.phase \in SavingPhases \cup {"claiming"}
           save == SaveCall(w, "gone", k, n, k.words)
           told == {"send"} \cup IF p.asking = "repeat" THEN {"ask"} ELSE {}
           Left(c) ==
             IF c.by # w \/ c.chain \in {"gone", "deaf"} THEN c
             ELSE IF c.chain \in told
             THEN [c EXCEPT !.chain = "gone", !.then = IF last THEN {save} ELSE {}]
             ELSE [c EXCEPT !.chain = "deaf"]
           now == last /\ p.sending = "none"
           behind == IF last THEN {save} ELSE {}
<1>0. p \in PageTypes /\ k \in KeptTypes /\ n \in Nat
  BY OwnAreTyped
<1>1. /\ requests' = {Left(r) : r \in requests} \cup (IF now THEN {save} ELSE {})
      /\ answers' = {a \in {Left(b) : b \in answers} : a.chain # "deaf"}
      /\ kept' = [kept EXCEPT ![w] = IF now THEN Sent(k, n) ELSE k]
      /\ page' = [page EXCEPT ![w] = NoPage]
      /\ UNCHANGED <<server, texts, minted, turns, copied>>
      /\ Ends
  BY DEF Leave
<1>2. save \in PlainCalls /\ save.by = w /\ save.chain = "gone" /\ save.then = {}
  <2>1. k.words \in Nat /\ "gone" \in Chains
    BY <1>0 DEF KeptTypes, Chains
  <2>2. save \in PlainCalls
    BY <1>0, <2>1, CallsAreRequests
  <2> QED
    BY <2>2 DEF SaveCall, Call
<1>3. behind \in Waiting /\ \A r \in behind : r.chain = "gone" /\ Says(r)
  BY <1>2, PlainAreRequests DEF Waiting, PlainCalls
<1> HIDE DEF save, behind, last
<1>4. ASSUME NEW c, c \in RequestTypes \/ c \in AnswerTypes,
             \A r \in c.then : r.chain = "gone" /\ Says(r)
      PROVE  /\ c \in RequestTypes => Left(c) \in RequestTypes
             /\ c \in AnswerTypes => Left(c) \in AnswerTypes
             /\ \A r \in Left(c).then : r.chain = "gone" /\ Says(r)
             /\ c \in RequestTypes /\ Says(c) => Says(Left(c))
             /\ c.by # w => Left(c) = c
             /\ c.by = w => Left(c).by = w /\ Left(c).chain \in {"gone", "deaf"}
  <2> DEFINE left == [c EXCEPT !.chain = "gone", !.then = behind]  deaf == [c EXCEPT !.chain = "deaf"]
  <2>1. "gone" \in Chains /\ "deaf" \in Chains
    BY DEF Chains
  <2>2. c \in RequestTypes => left \in RequestTypes /\ deaf \in RequestTypes
    BY <1>3, <2>1, Zenon DEF RequestTypes, CallTypes
  <2>3. c \in AnswerTypes => left \in AnswerTypes /\ deaf \in AnswerTypes
    BY <1>3, <2>1, Zenon DEF AnswerTypes
  <2>4. /\ left.by = c.by /\ left.chain = "gone" /\ left.then = behind
        /\ deaf.by = c.by /\ deaf.chain = "deaf" /\ deaf.then = c.then
        /\ c \in RequestTypes => left.kind = c.kind /\ left.words = c.words /\ deaf.kind = c.kind
             /\ deaf.words = c.words
    <3>1. ASSUME c \in RequestTypes
          PROVE  /\ left.by = c.by /\ left.chain = "gone" /\ left.then = behind
                 /\ deaf.by = c.by /\ deaf.chain = "deaf" /\ deaf.then = c.then
                 /\ left.kind = c.kind /\ left.words = c.words /\ deaf.kind = c.kind
                 /\ deaf.words = c.words
      BY <3>1, Zenon DEF RequestTypes, CallTypes
    <3>2. ASSUME c \in AnswerTypes
          PROVE  /\ left.by = c.by /\ left.chain = "gone" /\ left.then = behind
                 /\ deaf.by = c.by /\ deaf.chain = "deaf" /\ deaf.then = c.then
      BY <3>2, Zenon DEF AnswerTypes
    <3> QED
      BY <1>4, <3>1, <3>2
  <2>5. \/ Left(c) = c /\ (c.by # w \/ c.chain \in {"gone", "deaf"})
        \/ Left(c) = left /\ c.by = w
        \/ Left(c) = deaf /\ c.by = w
    BY Zenon DEF behind
  <2>6. c.by # w => Left(c) = c
    OBVIOUS
  <2> HIDE DEF left, deaf, Left
  <2> QED
    BY <1>3, <1>4, <2>2, <2>3, <2>4, <2>5, <2>6 DEF Says
<1> HIDE DEF now, Left
<1>5. /\ \A r \in requests : r \in RequestTypes /\ Says(r) /\ \A s \in r.then : s.chain = "gone" /\ Says(s)
      /\ \A a \in answers : a \in AnswerTypes /\ \A s \in a.then : s.chain = "gone" /\ Says(s)
  BY DEF TypeInv, NetworkTypes
<1>6. \A r \in requests' : r = save \/ \E c \in requests : r = Left(c)
  BY <1>1
<1>7. \A a \in answers' : \E b \in answers : a = Left(b)
  BY <1>1
<1>8. save \in RequestTypes /\ Says(save)
  BY <1>2, PlainAreRequests
<1>9. NetworkTypes'
  <2>1. /\ requests' \subseteq RequestTypes /\ answers' \subseteq AnswerTypes
        /\ \A r \in requests' : Says(r)
    BY <1>4, <1>5, <1>6, <1>7, <1>8
  <2>2. ASSUME NEW c \in requests' \cup answers'
        PROVE  \A r \in c.then : r.chain = "gone" /\ Says(r)
    BY <1>2, <1>4, <1>5, <1>6, <1>7
  <2> QED
    BY <2>1, <2>2, Zenon DEF NetworkTypes
<1>10. BoundTypes' /\ UNCHANGED server
  BY <1>1 DEF Ends, TypeInv, BoundTypes
<1>11. kept' \in [Windows -> KeptTypes]
  <2>1. (IF now THEN Sent(k, n) ELSE k) \in KeptTypes
    BY <1>0, StoredIsKept
  <2> QED
    BY <1>1, <2>1 DEF TypeInv, WindowTypes
<1>12. \A c \in Pair : Calls(w, c)' = {} /\ Answers(w, c)' = {}
  <2>1. \A r \in requests' : r.by = w => r.chain \in {"gone", "deaf"}
    BY <1>2, <1>4, <1>5, <1>6
  <2>2. \A a \in answers' : a.by = w => a.chain \in {"gone", "deaf"}
    BY <1>4, <1>5, <1>7
  <2> QED
    BY <2>1, <2>2 DEF Calls, Answers, Pair
<1>13. ASSUME NEW v \in Windows \ {w}, NEW c \in Pair
       PROVE  Calls(v, c)' = Calls(v, c) /\ Answers(v, c)' = Answers(v, c)
  <2>0. c # "deaf"
    BY DEF Pair
  <2>1. \A r : r \in requests' /\ r.by = v <=> r \in requests /\ r.by = v
    <3>1. \A r \in requests : r.by = v => r \in requests'
      BY <1>1, <1>4, <1>5
    <3>2. \A r \in requests' : r.by = v => r \in requests
      BY <1>2, <1>4, <1>5, <1>6
    <3> QED
      BY <3>1, <3>2
  <2>2. \A a : a \in answers' /\ a.by = v /\ a.chain = c <=> a \in answers /\ a.by = v /\ a.chain = c
    <3>1. \A a \in answers : a.by = v /\ a.chain = c => a \in answers'
      <4> TAKE a \in answers
      <4> HAVE a.by = v /\ a.chain = c
      <4>1. Left(a) = a
        BY <1>4, <1>5
      <4> QED
        BY <1>1, <2>0, <4>1
    <3>2. \A a \in answers' : a.by = v => a \in answers
      BY <1>4, <1>5, <1>7
    <3> QED
      BY <3>1, <3>2
  <2>3. Calls(v, c)' = Calls(v, c)
    BY <2>1 DEF Calls
  <2>4. Answers(v, c)' = Answers(v, c)
    BY <2>2 DEF Answers
  <2> QED
    BY <2>3, <2>4
<1> QED
  BY <1>1, <1>9, <1>10, <1>11, <1>12, <1>13, GoneKeepsTypes

LEMMA ReloadKeepsTypes ==
  ASSUME TypeInv, NEW w \in Windows, Reload(w)
  PROVE  TypeInv'
<1> DEFINE own == {r \in requests : r.by = w}
<1>1. /\ requests' = {r \in requests : r.by # w} \cup Deafened(own)
      /\ answers' = {a \in answers : a.by # w}
      /\ page' = [page EXCEPT ![w] = NoPage]
      /\ UNCHANGED <<server, kept, texts, minted, turns, copied>>
      /\ Ends
  BY DEF Reload
<1>2. own \in SUBSET RequestTypes
  BY DEF TypeInv, NetworkTypes
<1>3. /\ Deafened(own) \subseteq RequestTypes
      /\ \A d \in Deafened(own) : d.chain = "deaf" /\ d.then = {} /\ Says(d)
  BY <1>2, DeafenedAreDeaf DEF TypeInv, NetworkTypes
<1> HIDE DEF own
<1>4. NetworkTypes'
  <2>1. /\ requests' \subseteq RequestTypes /\ answers' \subseteq AnswerTypes
        /\ \A r \in requests' : Says(r)
    BY <1>1, <1>3 DEF TypeInv, NetworkTypes
  <2>2. ASSUME NEW c \in requests' \cup answers', NEW r \in c.then
        PROVE  r.chain = "gone" /\ Says(r)
    <3>1. c \in Deafened(own) \/ c \in requests \cup answers
      BY <1>1
    <3> QED
      BY <1>3, <3>1 DEF TypeInv, NetworkTypes
  <2> QED
    BY <2>1, <2>2, Zenon DEF NetworkTypes
<1>5. BoundTypes' /\ UNCHANGED server /\ kept' \in [Windows -> KeptTypes]
  BY <1>1 DEF Ends, TypeInv, BoundTypes, WindowTypes
<1>6. \A c \in Pair : Calls(w, c)' = {} /\ Answers(w, c)' = {}
  BY <1>1, <1>3 DEF Calls, Answers, Pair
<1>7. \A d \in Deafened(own) : d.chain \notin Pair
  BY <1>3 DEF Pair
<1>8. \A v \in Windows \ {w}, c \in Pair :
        Calls(v, c)' = Calls(v, c) /\ Answers(v, c)' = Answers(v, c)
  BY <1>1, <1>7 DEF Calls, Answers
<1> QED
  BY <1>1, <1>4, <1>5, <1>6, <1>8, GoneKeepsTypes

LEMMA FollowingIsKept ==
  ASSUME NEW k \in KeptTypes, NEW c, c.then \in Waiting
  PROVE  Following(k, c) \in KeptTypes
<1>1. CASE c.then = {}
  BY <1>1 DEF Following
<1>2. CASE c.then # {}
  <2> DEFINE n == (CHOOSE r \in c.then : TRUE).sequence
  <2>1. n \in Nat
    BY <1>2 DEF Waiting, CallTypes
  <2>2. (k.changed /\ \A r \in c.then : k.words = r.words) \in BOOLEAN
    OBVIOUS
  <2> HIDE DEF n
  <2>3. \A b \in BOOLEAN : [k EXCEPT !.later = n, !.laterCurrent = b] \in KeptTypes
    BY <2>1, Zenon DEF KeptTypes
  <2> QED
    BY <2>2, <2>3, Zenon DEF Following, n
<1> QED
  BY <1>1, <1>2

(* What waits behind a call goes out as it is. *)
LEMMA WaitingAreCalls ==
  ASSUME TypeInv, NEW c \in requests \cup answers
  PROVE  /\ c.then \in Waiting /\ c.by \in Windows
         /\ c.then \subseteq RequestTypes
         /\ \A r \in c.then : r.then = {} /\ r.chain = "gone" /\ Says(r)
<1>1. c.then \in Waiting /\ c.by \in Windows
  BY DEF TypeInv, NetworkTypes, RequestTypes, CallTypes, AnswerTypes
<1>2. \A r \in c.then : r.chain = "gone" /\ Says(r)
  BY DEF TypeInv, NetworkTypes
<1>3. c.then \subseteq PlainCalls
  BY <1>1, <1>2 DEF Waiting, PlainCalls
<1> QED
  BY <1>1, <1>2, <1>3, PlainAreRequests

LEMMA SameWaitsKeepTypes ==
  ASSUME TypeInv, ServerTypes', Topped', NetworkTypes', BoundTypes', kept' \in [Windows -> KeptTypes],
         UNCHANGED page,
         \A v \in Windows, c \in Pair : Calls(v, c)' = Calls(v, c) /\ Answers(v, c)' = Answers(v, c)
  PROVE  TypeInv'
<1>1. ASSUME NEW v \in Windows, NEW c \in Pair
      PROVE  OneOut(v, c)'
  <2>1. OneOut(v, c) /\ Calls(v, c)' = Calls(v, c) /\ Answers(v, c)' = Answers(v, c)
    BY DEF TypeInv
  <2> QED
    BY <2>1, Zenon DEF OneOut
<1> QED
  BY <1>1 DEF TypeInv, WindowTypes

LEMMA HearGoneKeepsTypes ==
  ASSUME TypeInv, NEW w \in Windows, HearGone(w) \/ GoneGivesUp(w)
  PROVE  TypeInv'
<1>0. kept[w] \in KeptTypes
  BY OwnAreTyped
<1>1. CASE HearGone(w)
  <2>1. PICK a \in Answers(w, "gone") :
          /\ answers' = answers \ {a}
          /\ requests' = requests \cup a.then
          /\ kept' = [kept EXCEPT ![w] = Following(Told(@, a), a)]
          /\ UNCHANGED <<server, page, bounds, copied>>
    BY <1>1 DEF HearGone
  <2>2. a \in answers /\ a.chain = "gone" /\ a.sequence \in Nat
    BY DEF Answers, TypeInv, NetworkTypes, AnswerTypes
  <2>3. /\ a.then \in Waiting /\ a.then \subseteq RequestTypes
        /\ \A r \in a.then : r.then = {} /\ r.chain = "gone" /\ Says(r)
    BY <2>2, WaitingAreCalls
  <2>4. kept' \in [Windows -> KeptTypes]
    <3>1. Following(Told(kept[w], a), a) \in KeptTypes
      BY <1>0, <2>2, <2>3, ToldIsKept, FollowingIsKept
    <3> QED
      BY <2>1, <3>1 DEF TypeInv, WindowTypes
  <2>5. NetworkTypes'
    <3>1. /\ requests' \subseteq RequestTypes /\ answers' \subseteq AnswerTypes
          /\ \A x \in requests' : Says(x)
      BY <2>1, <2>3 DEF TypeInv, NetworkTypes
    <3>2. \A c \in requests' \cup answers' : \A r \in c.then : r.chain = "gone" /\ Says(r)
      BY <2>1, <2>3 DEF TypeInv, NetworkTypes
    <3> QED
      BY <3>1, <3>2, Zenon DEF NetworkTypes
  <2>6. \A v \in Windows, c \in Pair : Calls(v, c)' = Calls(v, c) /\ Answers(v, c)' = Answers(v, c)
    BY <2>1, <2>2, <2>3 DEF Calls, Answers, Pair
  <2>7. ServerTypes' /\ Topped' /\ BoundTypes'
    BY <2>1, SameServer DEF bounds, TypeInv, BoundTypes
  <2> QED
    BY <2>1, <2>4, <2>5, <2>6, <2>7, SameWaitsKeepTypes
<1>2. CASE GoneGivesUp(w)
  <2>1. PICK r \in Calls(w, "gone") :
          /\ requests' = (requests \ {r}) \cup Deafened({r}) \cup r.then
          /\ kept' = [kept EXCEPT ![w] = Following(@, r)]
    BY <1>2 DEF GoneGivesUp
  <2>2. Ends /\ UNCHANGED <<server, answers, page, texts, minted, turns, copied>>
    BY <1>2 DEF GoneGivesUp
  <2>3. r \in requests /\ r.chain = "gone" /\ r \in RequestTypes
    BY DEF Calls, TypeInv, NetworkTypes
  <2>4. /\ r.then \in Waiting /\ r.then \subseteq RequestTypes
        /\ \A s \in r.then : s.then = {} /\ s.chain = "gone" /\ Says(s)
    BY <2>3, WaitingAreCalls
  <2>5. Deafened({r}) \subseteq RequestTypes /\ \A d \in Deafened({r}) : d.chain = "deaf" /\ d.then = {} /\ Says(d)
    <3>1. Says(r)
      BY <2>3 DEF TypeInv, NetworkTypes
    <3> QED
      BY <2>3, <3>1, {r} \in SUBSET RequestTypes, DeafenedAreDeaf
  <2>6. kept' \in [Windows -> KeptTypes]
    <3>1. Following(kept[w], r) \in KeptTypes
      BY <1>0, <2>4, FollowingIsKept
    <3> QED
      BY <2>1, <3>1 DEF TypeInv, WindowTypes
  <2>7. NetworkTypes'
    <3>1. /\ requests' \subseteq RequestTypes /\ answers' \subseteq AnswerTypes
          /\ \A x \in requests' : Says(x)
      BY <2>1, <2>2, <2>4, <2>5 DEF TypeInv, NetworkTypes
    <3>2. \A c \in requests' \cup answers' : \A s \in c.then : s.chain = "gone" /\ Says(s)
      BY <2>1, <2>2, <2>4, <2>5 DEF TypeInv, NetworkTypes
    <3> QED
      BY <3>1, <3>2, Zenon DEF NetworkTypes
  <2>8. \A v \in Windows, c \in Pair : Calls(v, c)' = Calls(v, c) /\ Answers(v, c)' = Answers(v, c)
    <3>1. \A d \in Deafened({r}) \cup r.then \cup {r} : d.chain \notin Pair
      BY <2>3, <2>4, <2>5 DEF Pair
    <3> QED
      BY <2>1, <2>2, <3>1 DEF Calls, Answers
  <2>9. ServerTypes' /\ Topped' /\ BoundTypes'
    BY <2>2, SameServer DEF Ends, TypeInv, BoundTypes
  <2> QED
    BY <2>2, <2>6, <2>7, <2>8, <2>9, SameWaitsKeepTypes
<1> QED
  BY <1>1, <1>2

LEMMA DuplicateKeepsTypes ==
  ASSUME TypeInv, NEW w \in Windows, NEW v \in Windows, Duplicate(w, v)
  PROVE  TypeInv'
<1>1. /\ kept' = [kept EXCEPT ![v] = kept[w]]
      /\ copied' = copied \cup {kept[w].session}
      /\ UNCHANGED <<server, network, page, bounds>>
  BY DEF Duplicate
<1>2. kept[w] \in KeptTypes /\ kept[w].session \in Nat
  BY OwnAreTyped DEF KeptTypes
<1>3. kept' \in [Windows -> KeptTypes]
  BY <1>1, <1>2 DEF TypeInv, WindowTypes
<1>4. BoundTypes' /\ ServerTypes' /\ Topped'
  BY <1>1, <1>2, SameServer DEF bounds, TypeInv, BoundTypes
<1>5. NetworkTypes' /\ \A x \in Windows, c \in Pair :
        Calls(x, c)' = Calls(x, c) /\ Answers(x, c)' = Answers(x, c)
  BY <1>1 DEF network, TypeInv, NetworkTypes, Calls, Answers
<1> QED
  BY <1>1, <1>3, <1>4, <1>5, SameWaitsKeepTypes

(* The service's side: a call becomes an answer, heard once at most. *)
LEMMA AnsweredKeepsWaits ==
  ASSUME TypeInv, NEW r \in requests, NEW result \in Results, Answered(r, result),
         HeadNo' \in Nat \ {0}, ServerTypes', Topped', turns' \in Nat
  PROVE  TypeInv'
<1> DEFINE a == Answer(r, result)
<1>1. /\ requests' = requests \ {r}
      /\ answers' = IF r.chain = "deaf" THEN answers ELSE answers \cup {a}
      /\ UNCHANGED <<kept, page, texts, minted, troubles, copied>>
  BY DEF Answered
<1>2. r \in RequestTypes /\ \A s \in r.then : s.chain = "gone" /\ Says(s)
  BY DEF TypeInv, NetworkTypes
<1>3. a \in AnswerTypes /\ a.by = r.by /\ a.chain = r.chain /\ a.then = r.then
  BY <1>2 DEF Answer, AnswerTypes, RequestTypes, CallTypes
<1> HIDE DEF a
<1>4. NetworkTypes'
  <2>1. /\ requests' \subseteq RequestTypes /\ answers' \subseteq AnswerTypes
        /\ \A x \in requests' : Says(x)
    BY <1>1, <1>3 DEF TypeInv, NetworkTypes
  <2>2. \A c \in requests' \cup answers' : \A s \in c.then : s.chain = "gone" /\ Says(s)
    BY <1>1, <1>2, <1>3 DEF TypeInv, NetworkTypes
  <2> QED
    BY <2>1, <2>2, Zenon DEF NetworkTypes
<1>5. BoundTypes' /\ WindowTypes'
  BY <1>1 DEF TypeInv, BoundTypes, WindowTypes
<1>6. ASSUME NEW v \in Windows, NEW c \in Pair
      PROVE  OneOut(v, c)'
  <2>0. OneOut(v, c) /\ page'[v] = page[v]
    BY <1>1 DEF TypeInv
  <2>1. CASE r.by = v /\ r.chain = c
    <3>1. r \in Calls(v, c) /\ c # "deaf"
      BY <2>1 DEF Calls, Pair
    <3>2. Awaits(page[v], c) /\ Calls(v, c) = {r} /\ Answers(v, c) = {}
      BY <2>0, <3>1 DEF OneOut
    <3>3. Calls(v, c)' = {} /\ Answers(v, c)' = {a}
      BY <1>1, <1>3, <2>1, <3>1, <3>2 DEF Calls, Answers
    <3> QED
      BY <2>0, <3>2, <3>3 DEF OneOut
  <2>2. CASE ~(r.by = v /\ r.chain = c)
    <3>1. Calls(v, c)' = Calls(v, c) /\ Answers(v, c)' = Answers(v, c)
      BY <1>1, <1>3, <2>2 DEF Calls, Answers
    <3> QED
      BY <2>0, <3>1, Zenon DEF OneOut
  <2> QED
    BY <2>1, <2>2
<1> QED
  BY <1>4, <1>5, <1>6 DEF TypeInv

LEMMA SameIterationsTopped ==
  ASSUME TypeInv, UNCHANGED iterations
  PROVE  Topped'
  BY DEF TypeInv, Topped, IterationsOf, Opened, LastOf

(* The versions only get longer, and what a cut would say is a text. *)
LEMMA CutTextIsAText ==
  ASSUME TypeInv, NEW s \in Nat
  PROVE  /\ CutText(s) \in Nat
         /\ Drafts(s) # {} => \E i \in Drafts(s) : LastOf(Drafts(s), i) /\ i.words = CutText(s)
         /\ Drafts(s) = {} => CutText(s) = versions[HeadNo]
<1>1. HeadNo \in Nat \ {0} /\ versions[HeadNo] \in Nat
  BY VersionsAreTexts
<1>2. CASE Drafts(s) = {}
  BY <1>1, <1>2 DEF CutText
<1>3. CASE Drafts(s) # {}
  <2> DEFINE i == CHOOSE j \in Drafts(s) : \A x \in Drafts(s) : x.sequence <= j.sequence
  <2>1. \E j \in Drafts(s) : \A x \in Drafts(s) : x.sequence <= j.sequence
    BY <1>1, <1>3 DEF TypeInv, Topped, Opened, Drafts, LastOf
  <2>2. i \in Drafts(s) /\ \A x \in Drafts(s) : x.sequence <= i.sequence
    BY <2>1, Zenon
  <2>3. CutText(s) = i.words
    BY <1>3, Zenon DEF CutText
  <2> HIDE DEF i
  <2>4. i.words \in Nat
    BY <2>2 DEF Drafts, IterationsOf, TypeInv, ServerTypes, IterationTypes
  <2> QED
    BY <1>3, <2>2, <2>3, <2>4 DEF LastOf
<1> QED
  BY <1>2, <1>3

(* A version more, and none of those before it changed. *)
LEMMA OneVersionMore ==
  ASSUME TypeInv, NEW text \in Nat, versions' = Append(versions, text)
  PROVE  /\ versions' \in Seq(Nat) /\ versions' # <<>>
         /\ HeadNo' = HeadNo + 1 /\ HeadNo' \in Nat \ {0}
         /\ versions'[HeadNo'] = text
         /\ \A n \in 1..HeadNo : versions'[n] = versions[n]
<1>1. versions \in Seq(Nat) /\ HeadNo \in Nat
  BY DEF TypeInv, ServerTypes, HeadNo
<1> QED
  BY <1>1 DEF HeadNo

LEMMA ServeSaveTopped ==
  ASSUME TypeInv, NEW r \in requests, ServeSave(r)
  PROVE  ServerTypes' /\ Topped'
<1> DEFINE new == [session |-> r.session, sequence |-> r.sequence, from |-> r.from, words |-> r.words]
<1>1. CASE UNCHANGED iterations
  BY <1>1, SameIterationsTopped DEF ServeSave, TypeInv, ServerTypes
<1>2. CASE Above(r) /\ iterations' = iterations \cup {new}
  <2>1. r.session \in Nat /\ r.sequence \in Nat /\ r.from \in Nat /\ r.words \in Nat
    BY DEF TypeInv, NetworkTypes, Says, ServeSave, RequestTypes, CallTypes
  <2>2. new \in IterationTypes /\ new.session = r.session /\ new.sequence = r.sequence /\ new.from = r.from
    BY <2>1 DEF IterationTypes
  <2> HIDE DEF new
  <2>3. ServerTypes'
    BY <1>2, <2>2 DEF ServeSave, TypeInv, ServerTypes
  <2>4. \A i \in iterations : i.sequence \in Nat
    BY DEF TypeInv, ServerTypes, IterationTypes
  <2>5. ASSUME NEW s \in Nat, IterationsOf(s)' # {}
        PROVE  \E i \in iterations' : LastOf(IterationsOf(s)', i)
    <3>1. CASE s = r.session
      <4>1. IterationsOf(s)' = IterationsOf(s) \cup {new}
        BY <1>2, <2>2, <3>1 DEF IterationsOf
      <4>2. LastOf(IterationsOf(s)', new)
        BY <1>2, <2>1, <2>2, <2>4, <3>1, <4>1 DEF LastOf, Above, IterationsOf
      <4> QED
        BY <1>2, <4>2
    <3>2. CASE s # r.session
      <4>1. IterationsOf(s)' = IterationsOf(s)
        BY <1>2, <2>2, <3>2 DEF IterationsOf
      <4> QED
        BY <1>2, <2>5, <4>1 DEF TypeInv, Topped
    <3> QED
      BY <3>1, <3>2
  <2>6. ASSUME NEW s \in Nat, NEW f \in Nat, Opened(s, f)' # {}
        PROVE  \E i \in iterations' : LastOf(Opened(s, f)', i)
    <3>1. CASE s = r.session /\ f = r.from
      <4>1. Opened(s, f)' = Opened(s, f) \cup {new}
        BY <1>2, <2>2, <3>1 DEF Opened, IterationsOf
      <4>2. LastOf(Opened(s, f)', new)
        BY <1>2, <2>1, <2>2, <2>4, <3>1, <4>1 DEF LastOf, Above, Opened, IterationsOf
      <4> QED
        BY <1>2, <4>2
    <3>2. CASE ~(s = r.session /\ f = r.from)
      <4>1. Opened(s, f)' = Opened(s, f)
        BY <1>2, <2>2, <3>2 DEF Opened, IterationsOf
      <4> QED
        BY <1>2, <2>6, <4>1 DEF TypeInv, Topped
    <3> QED
      BY <3>1, <3>2
  <2> QED
    BY <2>3, <2>5, <2>6 DEF Topped
<1>3. \/ UNCHANGED iterations
      \/ Above(r) /\ iterations' = iterations \cup {new}
  BY DEF ServeSave
<1> QED
  BY <1>1, <1>2, <1>3

LEMMA ServeKeepsTypes ==
  ASSUME TypeInv, NEW r \in requests, Serve(r) \/ RefuseCall(r)
  PROVE  TypeInv'
<1>0. r \in RequestTypes /\ r.session \in Nat /\ HeadNo \in Nat \ {0} /\ turns \in Nat
  BY VersionsAreTexts DEF TypeInv, NetworkTypes, RequestTypes, CallTypes, BoundTypes
<1>1. CASE ServeClaim(r)
  <2>1. ServerTypes' /\ Topped' /\ HeadNo' = HeadNo /\ turns' = turns
    BY <1>0, <1>1, SameIterationsTopped DEF ServeClaim, TypeInv, ServerTypes, HeadNo
  <2>2. \E result \in Results : Answered(r, result)
    BY <1>1 DEF ServeClaim, Results
  <2> QED
    BY <1>0, <2>1, <2>2, AnsweredKeepsWaits
<1>2. CASE ServeSave(r)
  <2>1. HeadNo' = HeadNo /\ turns' = turns /\ Answered(r, Judged(r))
    BY <1>2 DEF ServeSave, HeadNo
  <2>2. Judged(r) \in Results
    BY Zenon DEF Judged, Results, NotHeld
  <2> QED
    BY <1>0, <1>2, <2>1, <2>2, ServeSaveTopped, AnsweredKeepsWaits
<1>3. CASE ServeCut(r)
  <2>1. UNCHANGED <<iterations, turns>>
    BY <1>3 DEF ServeCut
  <2>2. versions' = versions \/ versions' = Append(versions, CutText(r.session))
    BY <1>3 DEF ServeCut
  <2>3. versions' \in Seq(Nat) /\ HeadNo' \in Nat \ {0} /\ versions' # <<>>
    <3>1. CASE versions' = versions
      BY <1>0, <3>1 DEF HeadNo, TypeInv, ServerTypes
    <3>2. CASE versions' = Append(versions, CutText(r.session))
      BY <1>0, <3>2, CutTextIsAText, OneVersionMore
    <3> QED
      BY <2>2, <3>1, <3>2
  <2>4. lock' \in Nat \cup {Nobody, Other}
    BY <1>3 DEF ServeCut, TypeInv, ServerTypes
  <2>5. \E result \in Results : Answered(r, result)
    BY <1>3, Zenon DEF ServeCut, Results, NotHeld
  <2>6. ServerTypes' /\ Topped'
    BY <2>1, <2>3, <2>4, SameIterationsTopped DEF TypeInv, ServerTypes
  <2> QED
    BY <1>0, <2>1, <2>3, <2>5, <2>6, AnsweredKeepsWaits
<1>4. CASE RefuseCall(r)
  <2>1. ServerTypes' /\ Topped' /\ HeadNo' = HeadNo
    BY <1>4, SameServer DEF RefuseCall, server, HeadNo
  <2>2. \E result \in Results : Answered(r, result)
    BY <1>4 DEF RefuseCall, Results
  <2>3. turns' \in Nat
    BY <1>0, <1>4 DEF RefuseCall
  <2> QED
    BY <1>0, <2>1, <2>2, <2>3, AnsweredKeepsWaits
<1> QED
  BY <1>1, <1>2, <1>3, <1>4 DEF Serve

LEMMA OthersKeepTypes ==
  ASSUME TypeInv, LapseLock \/ OtherClaims \/ OtherCuts \/ UNCHANGED vars
  PROVE  TypeInv'
<1>1. UNCHANGED <<iterations, network, kept, page, copied, minted>>
  BY DEF LapseLock, OtherClaims, OtherCuts, vars, network
<1>2. ServerTypes' /\ BoundTypes'
  <2>1. CASE OtherCuts
    <3>1. texts' \in Nat /\ versions' = Append(versions, texts')
      BY <2>1 DEF OtherCuts, TypeInv, BoundTypes
    <3>2. versions' \in Seq(Nat) /\ versions' # <<>>
      BY <3>1, OneVersionMore
    <3> QED
      BY <2>1, <3>1, <3>2 DEF OtherCuts, TypeInv, ServerTypes, BoundTypes
  <2>2. CASE LapseLock \/ OtherClaims \/ UNCHANGED vars
    <3>1. /\ lock' \in {lock, Nobody, Other} /\ turns' \in {turns, turns + 1}
          /\ UNCHANGED <<versions, iterations, texts, minted, troubles, copied>>
      BY <2>2 DEF LapseLock, OtherClaims, vars
    <3> QED
      BY <3>1 DEF TypeInv, ServerTypes, BoundTypes
  <2> QED
    BY <2>1, <2>2
<1>3. NetworkTypes' /\ kept' \in [Windows -> KeptTypes]
      /\ \A x \in Windows, c \in Pair : Calls(x, c)' = Calls(x, c) /\ Answers(x, c)' = Answers(x, c)
  BY <1>1 DEF network, TypeInv, NetworkTypes, WindowTypes, Calls, Answers
<1> QED
  BY <1>1, <1>2, <1>3, SameIterationsTopped, SameWaitsKeepTypes

LEMMA TypeInit ==
  ASSUME Init
  PROVE  TypeInv
<1>1. ServerTypes /\ BoundTypes /\ NetworkTypes
  BY DEF Init, ServerTypes, BoundTypes, NetworkTypes
<1>2. NothingKept \in KeptTypes
  BY WindowsAssumption DEF NothingKept, KeptTypes
<1>3. WindowTypes /\ \A w \in Windows : page[w] = NoPage
  BY <1>2, NoPageIsAPage DEF Init, WindowTypes
<1>4. Topped
  BY DEF Init, Topped, IterationsOf, Opened
<1>5. \A w \in Windows : \A chain \in Pair : OneOut(w, chain)
  BY <1>3, NoPageIsAPage DEF Init, OneOut, Calls, Answers
<1> QED
  BY <1>1, <1>3, <1>4, <1>5 DEF TypeInv

LEMMA TypeNext ==
  ASSUME TypeInv, [Next]_vars
  PROVE  TypeInv'
<1>1. ASSUME NEW w \in Windows, Author(w)
      PROVE  TypeInv'
  <2>1. CASE Open(w)
    BY <2>1, OpenKeepsTypes DEF Open
  <2>2. CASE Finish(w, "cutting") \/ Finish(w, "releasing")
    BY <2>2, FinishKeepsTypes
  <2>3. CASE \E v \in Windows : Duplicate(w, v)
    BY <2>3, DuplicateKeepsTypes
  <2> QED
    BY <1>1, <2>1, <2>2, <2>3, TypeKeepsTypes, ClaimAgainKeepsTypes, LeaveKeepsTypes, ReloadKeepsTypes
       DEF Author
<1>2. ASSUME NEW w \in Windows, NEW o \in Outcomes(w, "send"), HearSave(w, o) \/ HearSaveReclaim(w, o)
      PROVE  TypeInv'
  BY <1>2, HearSaveKeepsTypes
<1>3. ASSUME NEW w \in Windows, NEW o \in Outcomes(w, "ask"),
             HearClaim(w, o) \/ HearRepeat(w, o) \/ HearCut(w, o) \/ HearFinishReclaim(w, o)
      PROVE  TypeInv'
  BY <1>3, HearClaimKeepsTypes, HearRepeatKeepsTypes, HearFinishKeepsTypes
<1>4. ASSUME NEW w \in Windows, Runs(w) \/ GiveUp(w)
      PROVE  TypeInv'
  <2>1. \A chain : GivesUp \in Outcomes(w, chain) /\ Hears(w, chain) \subseteq Outcomes(w, chain)
    BY DEF Outcomes
  <2>2. CASE Hear(w) \/ GiveUp(w)
    BY <1>2, <1>3, <2>1, <2>2, HearGoneKeepsTypes DEF Hear, GiveUp
  <2> QED
    BY <1>4, <2>2, FlushKeepsTypes, FlushToFinishKeepsTypes, HearGoneKeepsTypes DEF Runs
<1> QED
  BY <1>1, <1>4, ServeKeepsTypes, OthersKeepTypes DEF Next

(* What TypeOK says of the calls out is counted. *)
LEMMA OneOutIsCounted ==
  ASSUME NEW w \in Windows, NEW chain \in Pair, OneOut(w, chain)
  PROVE  Out(w, chain) = IF Awaits(page[w], chain) THEN 1 ELSE 0
<1>1. Cardinality({}) = 0 /\ \A c : Cardinality({c}) = 1
  BY FS_EmptySet, FS_Singleton
<1> QED
  BY <1>1 DEF OneOut, Out

LEMMA TypeInvIsTypeOK ==
  ASSUME TypeInv
  PROVE  TypeOK
<1>1. ASSUME NEW w \in Windows
      PROVE  /\ Out(w, "send") = IF page[w].sending = "none" THEN 0 ELSE 1
             /\ Out(w, "ask") = IF page[w].asking \in {"none", "flush"} THEN 0 ELSE 1
  BY OneOutIsCounted DEF Pair, Awaits, TypeInv
<1> QED
  BY <1>1 DEF TypeInv, TypeOK, ServerTypes, NetworkTypes, BoundTypes, WindowTypes, Pages, IterationTypes

(* No page, call, record or count is ever out of its type, and a page that *)
(* waits has exactly one call or answer out, whatever is lost, late,       *)
(* repeated, refused or sent from another tab (session.ts:1184-1185).      *)
THEOREM Typed == Spec => []TypeOK
<1>1. Spec => []TypeInv
  BY TypeInit, TypeNext, PTL DEF Spec
<1> QED
  BY <1>1, TypeInvIsTypeOK, PTL

LEMMA PagesLeaveTheServer ==
  ASSUME NEW w \in Windows, Author(w) \/ Runs(w) \/ GiveUp(w)
  PROVE  UNCHANGED server
<1>1. ASSUME NEW p, NEW k, NEW more, Does(w, p, k, more)
      PROVE  UNCHANGED server
  BY <1>1 DEF Does
<1>2. ASSUME NEW chain, NEW o, NEW p, NEW k, NEW more, Becomes(w, chain, o, p, k, more)
      PROVE  UNCHANGED server
  BY <1>2 DEF Becomes
<1>3. ASSUME Open(w) \/ Type(w) \/ ClaimAgain(w) \/ ContinueAfresh(w)
             \/ Finish(w, "cutting") \/ Finish(w, "releasing") \/ Flush(w) \/ FlushToFinish(w)
      PROVE  UNCHANGED server
  BY <1>1, <1>3, Zenon DEF Open, OpenReplaying, OpenAfresh, Type, ClaimAgain, ContinueAfresh, Finish,
     Flush, FlushToFinish
<1>4. ASSUME NEW o, \/ HearSave(w, o) \/ HearSaveReclaim(w, o)
                    \/ HearClaim(w, o) \/ HearRepeat(w, o) \/ HearCut(w, o) \/ HearFinishReclaim(w, o)
      PROVE  UNCHANGED server
  BY <1>2, <1>4, Zenon DEF HearSave, HearSaveReclaim, HearClaim, HearRepeat, HearCut, HearFinishReclaim
<1>5. ASSUME Leave(w) \/ Reload(w) \/ (\E v \in Windows : Duplicate(w, v))
             \/ HearGone(w) \/ GoneGivesUp(w)
      PROVE  UNCHANGED server
  BY <1>5 DEF Leave, Reload, Duplicate, HearGone, GoneGivesUp
<1> QED
  BY <1>3, <1>4, <1>5 DEF Author, Runs, GiveUp, Hear

(* The iterations only gain those above every other of their session.      *)
LEMMA OneTextStep ==
  ASSUME TypeInv, OneTextANumber, [Next]_vars
  PROVE  OneTextANumber'
<1>1. CASE UNCHANGED iterations
  BY <1>1 DEF OneTextANumber
<1>2. ASSUME NEW r \in requests, ServeSave(r)
      PROVE  OneTextANumber'
  <2> DEFINE new == [session |-> r.session, sequence |-> r.sequence, from |-> r.from, words |-> r.words]
  <2>1. \/ UNCHANGED iterations
        \/ Above(r) /\ iterations' = iterations \cup {new}
    BY <1>2 DEF ServeSave
  <2>2. new.session = r.session /\ new.sequence = r.sequence
    OBVIOUS
  <2> HIDE DEF new
  <2>3. \A i \in iterations : i.sequence \in Nat
    BY DEF TypeInv, ServerTypes, IterationTypes
  <2>4. r.sequence \in Nat
    BY DEF TypeInv, NetworkTypes, RequestTypes, CallTypes
  <2>5. ASSUME Above(r), NEW i \in iterations, i.session = new.session, i.sequence = new.sequence
        PROVE  FALSE
    BY <2>2, <2>3, <2>4, <2>5 DEF Above, IterationsOf
  <2>6. CASE Above(r) /\ iterations' = iterations \cup {new}
    <3>1. ASSUME NEW i \in iterations', NEW j \in iterations',
                 i.session = j.session /\ i.sequence = j.sequence
          PROVE  i.words = j.words
      <4>1. i = new <=> j = new
        BY <2>5, <2>6, <3>1
      <4>2. CASE i = new
        BY <4>1, <4>2
      <4>3. CASE i # new
        BY <2>6, <3>1, <4>1, <4>3 DEF OneTextANumber
      <4> QED
        BY <4>2, <4>3
    <3> QED
      BY <3>1 DEF OneTextANumber
  <2> QED
    BY <1>1, <2>1, <2>6
<1>3. UNCHANGED iterations \/ \E r \in requests : ServeSave(r)
  <2>1. ASSUME NEW w \in Windows, Author(w) \/ Runs(w) \/ GiveUp(w)
        PROVE  UNCHANGED iterations
    BY <2>1, PagesLeaveTheServer DEF server
  <2>2. ASSUME NEW r \in requests, Serve(r) \/ RefuseCall(r), ~ServeSave(r)
        PROVE  UNCHANGED iterations
    BY <2>2 DEF Serve, ServeClaim, ServeCut, RefuseCall, server
  <2>3. ASSUME LapseLock \/ OtherClaims \/ OtherCuts \/ UNCHANGED vars
        PROVE  UNCHANGED iterations
    BY <2>3 DEF LapseLock, OtherClaims, OtherCuts, vars
  <2> QED
    BY <2>1, <2>2, <2>3 DEF Next
<1> QED
  BY <1>1, <1>2, <1>3

(* The service never keeps two texts under one number of a session, though *)
(* two tabs send under it and any save comes twice.                        *)
THEOREM OneText == Spec => []OneTextANumber
<1>1. Init => OneTextANumber
  BY DEF Init, OneTextANumber
<1>2. Spec => []TypeInv
  BY TypeInit, TypeNext, PTL DEF Spec
<1> QED
  BY <1>1, <1>2, OneTextStep, PTL DEF Spec

-----------------------------------------------------------------------------
(* What is saved is kept.                                                  *)

(* The service keeps a text: one of the iterations, or a version.          *)
Retained(words) ==
  \/ \E i \in iterations : i.words = words
  \/ \E n \in 1..HeadNo : versions[n] = words

(* The number a window sent last, and whether its text still stands so.    *)
Last(k) == IF k.later > k.sent THEN k.later ELSE k.sent
Current(k) == IF k.later > k.sent THEN k.laterCurrent ELSE ~k.unsent

(* What a window keeps, of m sessions minted: a text changed and not since *)
(* sent was sent under a number; what is kept of a send that still stands  *)
(* is the text; no answer is to a later number than the last; and a last   *)
(* save accepted, its text still standing, is kept by the service.         *)
KeptSound(k, m) ==
  /\ k.session <= m
  /\ k.session = 0 => k = NothingKept
  /\ k.changed /\ ~k.unsent => k.sent > 0
  /\ ~k.unsent /\ k.sentWords # NoText => k.sentWords = k.words
  /\ k.answered <= Last(k)
  /\ \/ k.sent <= k.later
     \/ \E i \in iterations : i.session = k.session /\ i.sequence >= k.sent
  /\ Current(k) /\ k.accepted /\ k.answered > 0 /\ k.answered = Last(k) => Retained(k.words)

(* What a page shows, over what its window keeps.                          *)
Waits(p) == p.sending \in {"save", "saveAgain"}
PageSound(p, k) ==
  /\ p.phase # "none" => k.session # 0 /\ Retained(p.base)
  /\ p.phase \notin {"none", "lost"} => p.sequence = Last(k)
  /\ p.phase = "lost" /\ p.behind => p.dirty
  /\ p.phase \in SavingPhases => p.repeat = NoText
  /\ p.repeat # NoText => p.sequence > 0
  /\ p.asking = "repeat" => p.repeat # NoText
  /\ p.sending = "reclaim" => p.dirty
  /\ p.asking \in {"request", "reclaim", "again"} => ~p.dirty
  /\ Waits(p) => p.save = "saving" /\ (p.dirty \/ Current(k))
  /\ p.phase \in {"reading", "claiming"} /\ p.repeat # NoText /\ Current(k) =>
       Retained(k.words) \/ p.repeat = k.words
  /\ p.phase \notin {"none", "lost"} /\ ~p.dirty /\ ~Waits(p) =>
       Retained(k.words) \/ (p.repeat # NoText /\ p.repeat = k.words)

(* What a window has under way: of its page's own session, under the last  *)
(* number; of nothing sent before it, under a later one.                   *)
Saves(c) == c.sequence > 0
CallSound(w, p, k, m, c) ==
  /\ k.session # 0 /\ c.session <= m
  /\ c.session = k.session => c.sequence <= Last(k)
  /\ c.chain \in Pair => c.session = k.session /\ c.then = {} /\ (Saves(c) => c.sequence = Last(k))
  /\ c.chain = "send" => (Saves(c) <=> Waits(p))
  /\ c.chain = "ask" => (Saves(c) <=> p.asking = "repeat")
  /\ \A r \in c.then :
       /\ p.phase = "none" /\ r.by = w /\ r.kind = "save"
       /\ c.session = k.session /\ r.session = k.session
       /\ r.words = k.words /\ r.sequence >= Last(k) /\ r.sequence > 0
       /\ \A s \in c.then : s = r
(* A save under the last number, its text still standing, says that text,  *)
(* or is of one the service keeps already; and once accepted, it does.     *)
OfTheLast(k, c) == c.session = k.session /\ Saves(c) /\ c.sequence = Last(k) /\ Current(k)
RequestSound(w, p, k, m, r) ==
  /\ CallSound(w, p, k, m, r)
  /\ r.kind = "save" <=> Saves(r)
  /\ OfTheLast(k, r) => Retained(k.words) \/ r.words = k.words
  /\ r.chain = "ask" /\ Saves(r) => r.words = p.repeat
AnswerSound(w, p, k, m, a) ==
  /\ CallSound(w, p, k, m, a)
  /\ a.chain # "deaf"
  /\ OfTheLast(k, a) /\ a.result = "ok" => Retained(k.words)
  /\ a.chain = "ask" /\ Saves(a) /\ a.result = "ok" => Retained(p.repeat)

Listened(w) == {r \in requests : r.by = w /\ r.chain # "deaf"}
Due(w) == {a \in answers : a.by = w}
OneWaits(w) ==
  \A c, d \in Listened(w) \cup Due(w) : c.then # {} /\ d.then # {} => c = d

Sound(w) ==
  LET p == page[w]  k == kept[w] IN
  /\ KeptSound(k, minted) /\ PageSound(p, k)
  /\ \A r \in Listened(w) : RequestSound(w, p, k, minted, r)
  /\ \A a \in Due(w) : AnswerSound(w, p, k, minted, a)
  /\ OneWaits(w)
SoundInv == \A w \in Windows : Sound(w)

(* The service only gains.                                                 *)
Grows ==
  /\ iterations \subseteq iterations'
  /\ \A words : Retained(words) => Retained(words)'

LEMMA SameServerGrows ==
  ASSUME UNCHANGED server
  PROVE  Grows
  BY DEF server, Grows, Retained, HeadNo

LEMMA SoundGrows ==
  ASSUME Grows, NEW m \in Nat, NEW n \in Nat, m <= n, NEW w \in Windows,
         NEW k \in KeptTypes, NEW p \in PageTypes
  PROVE  /\ KeptSound(k, m) => KeptSound(k, n)'
         /\ PageSound(p, k) => PageSound(p, k)'
         /\ \A r \in RequestTypes : RequestSound(w, p, k, m, r) => RequestSound(w, p, k, n, r)'
         /\ \A a \in AnswerTypes : AnswerSound(w, p, k, m, a) => AnswerSound(w, p, k, n, a)'
<1>1. KeptSound(k, m) => KeptSound(k, n)'
  BY DEF KeptSound, Last, Current, KeptTypes, Grows
<1>2. PageSound(p, k) => PageSound(p, k)'
  BY DEF PageSound, Last, Current, Waits, Grows
<1>3. \A c : c.session \in Nat /\ CallSound(w, p, k, m, c) => CallSound(w, p, k, n, c)'
  BY DEF CallSound, Last, Saves, Waits
<1>4. \A r \in RequestTypes : RequestSound(w, p, k, m, r) => RequestSound(w, p, k, n, r)'
  BY <1>3 DEF RequestSound, OfTheLast, Saves, Last, Current, Grows, RequestTypes, CallTypes
<1>5. \A a \in AnswerTypes : AnswerSound(w, p, k, m, a) => AnswerSound(w, p, k, n, a)'
  BY <1>3 DEF AnswerSound, OfTheLast, Saves, Last, Current, Grows, AnswerTypes
<1> QED
  BY <1>1, <1>2, <1>4, <1>5

(* A window whose page and record stay, and to whom nothing new is due. *)
LEMMA OthersStaySound ==
  ASSUME TypeInv, Grows, NEW w \in Windows, Sound(w), minted' \in Nat, minted <= minted',
         page'[w] = page[w], kept'[w] = kept[w],
         Listened(w)' \subseteq Listened(w), Due(w)' \subseteq Due(w)
  PROVE  Sound(w)'
<1>1. minted \in Nat /\ kept[w] \in KeptTypes /\ page[w] \in PageTypes
  BY OwnAreTyped DEF TypeInv, BoundTypes
<1>2. Listened(w) \subseteq RequestTypes /\ Due(w) \subseteq AnswerTypes
  BY DEF Listened, Due, TypeInv, NetworkTypes
<1>3. PICK k : k = kept[w]
  OBVIOUS
<1>4. PICK p : p = page[w]
  OBVIOUS
<1>5. PICK m : m = minted
  OBVIOUS
<1>6. PICK n : n = minted'
  OBVIOUS
<1>7. KeptSound(k, n)' /\ PageSound(p, k)'
  BY <1>1, <1>3, <1>4, <1>5, <1>6, SoundGrows DEF Sound
<1>8. \A r \in Listened(w)' : RequestSound(w, p, k, n, r)'
  BY <1>1, <1>2, <1>3, <1>4, <1>5, <1>6, SoundGrows DEF Sound
<1>9. \A a \in Due(w)' : AnswerSound(w, p, k, n, a)'
  BY <1>1, <1>2, <1>3, <1>4, <1>5, <1>6, SoundGrows DEF Sound
<1>10. OneWaits(w)'
  BY DEF Sound, OneWaits
<1> QED
  BY <1>3, <1>4, <1>6, <1>7, <1>8, <1>9, <1>10 DEF Sound

(* A step of one window: what it keeps and shows, and what is then due it, *)
(* are sound, and nothing more is due the others.                          *)
LEMMA WindowStep ==
  ASSUME TypeInv, SoundInv, UNCHANGED server, NEW w \in Windows, NEW x \in PageTypes, NEW l \in KeptTypes,
         page' = [page EXCEPT ![w] = x], kept' = [kept EXCEPT ![w] = l],
         minted' \in Nat, minted <= minted', NetworkTypes',
         KeptSound(l, minted'), PageSound(x, l),
         \A r \in Listened(w)' : RequestSound(w, x, l, minted', r),
         \A a \in Due(w)' : AnswerSound(w, x, l, minted', a),
         x.phase = "none" => OneWaits(w)',
         \A v \in Windows \ {w} : Listened(v)' \subseteq Listened(v) /\ Due(v)' \subseteq Due(v)
  PROVE  SoundInv'
<1>1. Grows
  BY SameServerGrows
<1>2. \A v \in Windows : page'[v] = (IF v = w THEN x ELSE page[v]) /\ kept'[v] = IF v = w THEN l ELSE kept[v]
  BY DEF TypeInv, WindowTypes
<1>3. ASSUME NEW v \in Windows \ {w}
      PROVE  Sound(v)'
  <2>1. Sound(v) /\ page'[v] = page[v] /\ kept'[v] = kept[v]
    BY <1>2 DEF SoundInv
  <2> QED
    BY <1>1, <2>1, OthersStaySound
<1>4. Sound(w)'
  <2>1. Listened(w)' \subseteq RequestTypes /\ Due(w)' \subseteq AnswerTypes
    BY DEF Listened, Due, NetworkTypes
  <2>2. PICK n : n = minted'
    OBVIOUS
  <2>3. n \in Nat /\ n <= n
    BY <2>2
  <2>4. KeptSound(l, n)' /\ PageSound(x, l)'
    BY <1>1, <2>2, <2>3, SoundGrows
  <2>5. \A r \in Listened(w)' : RequestSound(w, x, l, n, r)'
    BY <1>1, <2>1, <2>2, <2>3, SoundGrows
  <2>6. \A a \in Due(w)' : AnswerSound(w, x, l, n, a)'
    BY <1>1, <2>1, <2>2, <2>3, SoundGrows
  <2>7. ASSUME x.phase # "none"
        PROVE  OneWaits(w)'
    <3>1. \A c \in Listened(w)' \cup Due(w)' : c.then = {}
      BY <2>7 DEF RequestSound, AnswerSound, CallSound
    <3> QED
      BY <3>1 DEF OneWaits
  <2>8. page'[w] = x /\ kept'[w] = l
    BY <1>2
  <2> QED
    BY <2>2, <2>4, <2>5, <2>6, <2>7, <2>8 DEF Sound
<1> QED
  BY <1>3, <1>4 DEF SoundInv

(* What is under way stays sound over a record that goes on from the last: *)
(* under a session minted since, a later number, or with no text standing  *)
(* under the last one that did not before.                                 *)
Carries(k, l, m) ==
  \/ l.session > m
  \/ /\ l.session = k.session
     /\ \/ Last(l) > Last(k)
        \/ /\ Last(l) = Last(k)
           /\ Current(l) => Retained(l.words) \/ (Current(k) /\ l.words = k.words)
(* And what a page waits for, over one that waits for the same.            *)
Stays(p, k, x, l) ==
  /\ l.session = k.session /\ Last(l) = Last(k) /\ x.repeat = p.repeat
  /\ Waits(x) <=> Waits(p)
  /\ x.asking = "repeat" <=> p.asking = "repeat"

LEMMA LastIsANumber ==
  ASSUME NEW k \in KeptTypes
  PROVE  Last(k) \in Nat /\ k.session \in Nat /\ Current(k) \in BOOLEAN
  BY DEF KeptTypes, Last, Current

LEMMA CallsCarry ==
  ASSUME NEW w \in Windows, NEW p \in PageTypes, NEW x \in PageTypes,
         NEW k \in KeptTypes, NEW l \in KeptTypes, NEW m \in Nat, NEW n \in Nat, m <= n,
         l.session # 0, Carries(k, l, m)
  PROVE  /\ \A r \in RequestTypes :
              RequestSound(w, p, k, m, r) /\ r.then = {} /\ (r.chain \in Pair => Stays(p, k, x, l))
              => RequestSound(w, x, l, n, r)
         /\ \A a \in AnswerTypes :
              AnswerSound(w, p, k, m, a) /\ a.then = {} /\ (a.chain \in Pair => Stays(p, k, x, l))
              => AnswerSound(w, x, l, n, a)
<1>0. Last(k) \in Nat /\ k.session \in Nat /\ Last(l) \in Nat /\ l.session \in Nat
  BY LastIsANumber
<1>1. ASSUME NEW c, c.session \in Nat, c.sequence \in Nat, CallSound(w, p, k, m, c), c.then = {},
             c.chain \in Pair => Stays(p, k, x, l)
      PROVE  /\ CallSound(w, x, l, n, c)
             /\ OfTheLast(l, c) => Retained(l.words) \/ (OfTheLast(k, c) /\ l.words = k.words)
  <2>1. CASE l.session > m
    BY <1>0, <1>1, <2>1 DEF CallSound, Stays, OfTheLast, Pair
  <2>2. CASE l.session = k.session
    BY <1>0, <1>1, <2>2 DEF CallSound, Stays, OfTheLast, Carries, Pair
  <2> QED
    BY <2>1, <2>2 DEF Carries
<1>2. ASSUME NEW r \in RequestTypes, RequestSound(w, p, k, m, r), r.then = {},
             r.chain \in Pair => Stays(p, k, x, l)
      PROVE  RequestSound(w, x, l, n, r)
  <2>1. r.session \in Nat /\ r.sequence \in Nat /\ CallSound(w, p, k, m, r)
    BY <1>2 DEF RequestTypes, CallTypes, RequestSound
  <2>2. CallSound(w, x, l, n, r)
        /\ (OfTheLast(l, r) => Retained(l.words) \/ (OfTheLast(k, r) /\ l.words = k.words))
    BY <1>1, <1>2, <2>1
  <2>3. r.chain = "ask" => x.repeat = p.repeat
    BY <1>2 DEF Pair, Stays
  <2> QED
    BY <1>2, <2>2, <2>3 DEF RequestSound
<1>3. ASSUME NEW a \in AnswerTypes, AnswerSound(w, p, k, m, a), a.then = {},
             a.chain \in Pair => Stays(p, k, x, l)
      PROVE  AnswerSound(w, x, l, n, a)
  <2>1. a.session \in Nat /\ a.sequence \in Nat /\ CallSound(w, p, k, m, a)
    BY <1>3 DEF AnswerTypes, AnswerSound
  <2>2. CallSound(w, x, l, n, a)
        /\ (OfTheLast(l, a) => Retained(l.words) \/ (OfTheLast(k, a) /\ l.words = k.words))
    BY <1>1, <1>3, <2>1
  <2>3. a.chain = "ask" => x.repeat = p.repeat
    BY <1>3 DEF Pair, Stays
  <2> QED
    BY <1>3, <2>2, <2>3 DEF AnswerSound
<1> QED
  BY <1>2, <1>3

(* While a page is there, nothing waits to follow a call. *)
LEMMA NothingFollows ==
  ASSUME SoundInv, NEW w \in Windows, page[w].phase # "none"
  PROVE  \A c \in Listened(w) \cup Due(w) : c.then = {}
  BY DEF SoundInv, Sound, RequestSound, AnswerSound, CallSound

LEMMA OwnAreSound ==
  ASSUME TypeInv, SoundInv, NEW w \in Windows
  PROVE  /\ KeptSound(kept[w], minted) /\ PageSound(page[w], kept[w])
         /\ \A r \in Listened(w) : r \in RequestTypes /\ RequestSound(w, page[w], kept[w], minted, r)
         /\ \A a \in Due(w) : a \in AnswerTypes /\ AnswerSound(w, page[w], kept[w], minted, a)
         /\ minted \in Nat
<1>1. Listened(w) \subseteq RequestTypes /\ Due(w) \subseteq AnswerTypes /\ minted \in Nat
  BY DEF Listened, Due, TypeInv, NetworkTypes, BoundTypes
<1> QED
  BY <1>1 DEF SoundInv, Sound

LEMMA DoesKeepsSound ==
  ASSUME TypeInv, SoundInv, TypeInv', NEW w \in Windows, NEW x \in PageTypes, NEW l \in KeptTypes,
         NEW more, Does(w, x, l, more), minted <= minted', x.phase # "none", l.session # 0,
         KeptSound(l, minted'), PageSound(x, l), Carries(kept[w], l, minted),
         \A r \in more : r.by = w /\ RequestSound(w, x, l, minted', r),
         \A c \in Listened(w) \cup Due(w) :
           c.then = {} /\ (c.chain \in Pair => Stays(page[w], kept[w], x, l))
  PROVE  SoundInv'
<1>1. minted' \in Nat /\ NetworkTypes'
  BY DEF TypeInv, BoundTypes
<1>2. page[w] \in PageTypes /\ kept[w] \in KeptTypes
  BY OwnAreTyped
<1>3. requests' = requests \cup more /\ answers' = answers /\ UNCHANGED server
      /\ page' = [page EXCEPT ![w] = x] /\ kept' = [kept EXCEPT ![w] = l]
  BY DEF Does
<1>4. \A r \in Listened(w)' : RequestSound(w, x, l, minted', r)
  <2> TAKE r \in Listened(w)'
  <2>1. CASE r \in more
    BY <2>1
  <2>2. CASE r \in Listened(w)
    <3>1. r \in RequestTypes /\ RequestSound(w, page[w], kept[w], minted, r) /\ minted \in Nat
      BY <2>2, OwnAreSound
    <3> QED
      BY <1>1, <1>2, <2>2, <3>1, CallsCarry
  <2> QED
    BY <1>3, <2>1, <2>2 DEF Listened
<1>5. \A a \in Due(w)' : AnswerSound(w, x, l, minted', a)
  <2> TAKE a \in Due(w)'
  <2>1. a \in Due(w)
    BY <1>3 DEF Due
  <2>2. a \in AnswerTypes /\ AnswerSound(w, page[w], kept[w], minted, a) /\ minted \in Nat
    BY <2>1, OwnAreSound
  <2> QED
    BY <1>1, <1>2, <2>1, <2>2, CallsCarry
<1>6. \A v \in Windows \ {w} : Listened(v)' \subseteq Listened(v) /\ Due(v)' \subseteq Due(v)
  BY <1>3 DEF Listened, Due
<1> QED
  BY <1>1, <1>3, <1>4, <1>5, <1>6, WindowStep

(* A page waits on one chain while it hears on it. *)
LEMMA OneChain ==
  ASSUME TypeInv, NEW w \in Windows, NEW chain \in Pair, Awaits(page[w], chain)
  PROVE  \A c \in Listened(w) \cup Due(w) : c.chain \in Pair => c.chain = chain
<1>1. Shape(page[w])
  BY OwnAreTyped
<1>2. \A other \in Pair \ {chain} : ~Awaits(page[w], other)
  BY <1>1 DEF Awaits, Pair, Shape, SavingPhases
<1>3. \A other \in Pair \ {chain} : Calls(w, other) = {} /\ Answers(w, other) = {}
  BY <1>2 DEF TypeInv, OneOut
<1> QED
  BY <1>3 DEF Listened, Due, Calls, Answers

LEMMA BecomesKeepsSound ==
  ASSUME TypeInv, SoundInv, TypeInv', NEW w \in Windows, NEW chain \in Pair, NEW o,
         NEW x \in PageTypes, NEW l \in KeptTypes, NEW more, Becomes(w, chain, o, x, l, more),
         Awaits(page[w], chain), page[w].phase # "none",
         x.phase # "none", l.session # 0,
         KeptSound(l, minted), PageSound(x, l), Carries(kept[w], l, minted),
         \A r \in more : r.by = w /\ RequestSound(w, x, l, minted, r)
  PROVE  SoundInv'
<1>1. minted' = minted /\ minted \in Nat /\ NetworkTypes'
  BY DEF Becomes, TypeInv, BoundTypes
<1>2. page[w] \in PageTypes /\ kept[w] \in KeptTypes
  BY OwnAreTyped
<1>3. requests' = (requests \ Calls(w, chain)) \cup Deafened(Calls(w, chain)) \cup more
      /\ answers' = answers \ Answers(w, chain) /\ UNCHANGED server
      /\ page' = [page EXCEPT ![w] = x] /\ kept' = [kept EXCEPT ![w] = l]
  BY DEF Becomes
<1>4. \A d \in Deafened(Calls(w, chain)) : d.chain = "deaf"
  <2>1. Calls(w, chain) \in SUBSET RequestTypes
    BY DEF Calls, TypeInv, NetworkTypes
  <2> QED
    BY <2>1, DeafenedAreDeaf
<1>5. \A c \in Listened(w) \cup Due(w) : c.then = {} /\ (c.chain \in Pair => c.chain = chain)
  BY NothingFollows, OneChain
<1>6. \A r \in Listened(w)' : RequestSound(w, x, l, minted', r)
  <2> TAKE r \in Listened(w)'
  <2>1. CASE r \in more
    BY <1>1, <2>1
  <2>2. CASE r \in Listened(w) \ Calls(w, chain)
    <3>1. r \in RequestTypes /\ RequestSound(w, page[w], kept[w], minted, r)
      BY <2>2, OwnAreSound
    <3>2. r.chain \notin Pair
      BY <1>5, <2>2 DEF Listened, Calls
    <3> QED
      BY <1>1, <1>2, <1>5, <2>2, <3>1, <3>2, CallsCarry
  <2> QED
    BY <1>3, <1>4, <2>1, <2>2 DEF Listened
<1>7. \A a \in Due(w)' : AnswerSound(w, x, l, minted', a)
  <2> TAKE a \in Due(w)'
  <2>1. a \in Due(w) \ Answers(w, chain)
    BY <1>3 DEF Due
  <2>2. a \in AnswerTypes /\ AnswerSound(w, page[w], kept[w], minted, a)
    BY <2>1, OwnAreSound
  <2>3. a.chain \notin Pair
    BY <1>5, <2>1 DEF Due, Answers
  <2> QED
    BY <1>1, <1>2, <1>5, <2>1, <2>2, <2>3, CallsCarry
<1>8. \A v \in Windows \ {w} : Listened(v)' \subseteq Listened(v) /\ Due(v)' \subseteq Due(v)
  BY <1>3, <1>4 DEF Listened, Due
<1>9. minted' \in Nat /\ minted <= minted' /\ KeptSound(l, minted')
  BY <1>1
<1> QED
  BY <1>1, <1>3, <1>6, <1>7, <1>8, <1>9, WindowStep

(* What the page hears of its call. *)
LEMMA HeardIsSound ==
  ASSUME TypeInv, SoundInv, NEW w \in Windows, NEW chain \in Pair, NEW o \in Outcomes(w, chain)
  PROVE  LET p == page[w]  k == kept[w] IN
         /\ o.sequence \in Nat /\ o.session \in Nat
         /\ o.sequence > 0 =>
              /\ o.session = k.session /\ o.sequence = Last(k)
              /\ o.result = "ok" /\ Current(k) => Retained(k.words)
              /\ chain = "ask" /\ o.result = "ok" => Retained(p.repeat)
         /\ o.result = "ok" /\ chain = "send" /\ Waits(p) => o.sequence > 0
         /\ o.result = "ok" /\ chain = "ask" /\ p.asking = "repeat" => o.sequence > 0
<1> DEFINE p == page[w]  k == kept[w]
<1>0. /\ o.sequence \in Nat /\ o.session \in Nat
      /\ o.result # "failed" => o.heard
      /\ o.heard => \E a \in Answers(w, chain) :
           o.result = a.result /\ o.session = a.session /\ o.sequence = a.sequence
      /\ ~o.heard => o = GivesUp
  BY OutcomesAreOf
<1>1. CASE o.heard
  <2>1. PICK a \in Answers(w, chain) :
          o.result = a.result /\ o.session = a.session /\ o.sequence = a.sequence
    BY <1>0, <1>1
  <2>2. a \in Due(w) /\ a.chain = chain
    BY DEF Answers, Due
  <2>3. AnswerSound(w, p, k, minted, a)
    BY <2>2, OwnAreSound
  <2> QED
    BY <1>0, <2>1, <2>2, <2>3 DEF AnswerSound, CallSound, OfTheLast, Saves, Pair
<1>2. CASE ~o.heard
  <2>1. o.sequence = 0 /\ o.result # "ok"
    BY <1>0, <1>2 DEF GivesUp
  <2> QED
    BY <1>0, <2>1
<1> QED
  BY <1>1, <1>2

LEMMA TellingKeeps ==
  ASSUME NEW k \in KeptTypes, NEW o
  PROVE  LET l == Told(k, o) IN
         /\ l.session = k.session /\ l.version = k.version /\ l.words = k.words
         /\ l.changed = k.changed /\ l.sent = k.sent /\ l.sentWords = k.sentWords
         /\ l.unsent = k.unsent /\ l.later = k.later /\ l.laterCurrent = k.laterCurrent
         /\ \/ l.answered = k.answered /\ l.accepted = k.accepted
            \/ /\ o.sequence > 0 /\ l.answered = o.sequence
               /\ l.accepted <=> o.result = "ok"
  BY DEF Told, KeptTypes

LEMMA ToldIsSound ==
  ASSUME NEW k \in KeptTypes, NEW m, KeptSound(k, m), NEW o, o.sequence \in Nat, k.session # 0,
         o.sequence > 0 /\ o.session = k.session =>
           /\ o.sequence <= Last(k)
           /\ o.result = "ok" /\ o.sequence = Last(k) /\ Current(k) => Retained(k.words)
  PROVE  LET l == Told(k, o) IN
         /\ KeptSound(l, m) /\ l.session = k.session /\ l.words = k.words
         /\ Last(l) = Last(k) /\ Current(l) = Current(k) /\ Carries(k, l, m)
<1> DEFINE l == Told(k, o)
<1>1. /\ l.session = k.session /\ l.version = k.version /\ l.words = k.words
      /\ l.changed = k.changed /\ l.sent = k.sent /\ l.sentWords = k.sentWords
      /\ l.unsent = k.unsent /\ l.later = k.later /\ l.laterCurrent = k.laterCurrent
  BY TellingKeeps
<1>2. \/ l = k
      \/ /\ o.sequence > 0 /\ o.session = k.session /\ l.answered = o.sequence
         /\ l.accepted <=> o.result = "ok"
  BY DEF Told, KeptTypes
<1> HIDE DEF l
<1>3. Last(l) = Last(k) /\ Current(l) = Current(k)
  BY <1>1 DEF Last, Current
<1>4. KeptSound(l, m)
  BY <1>1, <1>2, <1>3 DEF KeptSound
<1> QED
  BY <1>1, <1>3, <1>4 DEF l, Carries

(* The other changes of what a window keeps. *)
LEMMA SentIsSound ==
  ASSUME NEW k \in KeptTypes, NEW m, KeptSound(k, m), k.session # 0, NEW n, n = Last(k) + 1
  PROVE  LET l == Sent(k, n) IN
         /\ KeptSound(l, m) /\ l.session = k.session /\ l.words = k.words
         /\ Last(l) = n /\ Current(l) /\ Carries(k, l, m)
<1> DEFINE l == Sent(k, n)
<1>1. /\ k.later \in Nat /\ k.sent \in Nat /\ k.answered \in Nat /\ Last(k) \in Nat
  BY DEF KeptTypes, Last
<1>2. n > k.later /\ n > k.sent /\ n \in Nat
  BY <1>1 DEF Last
<1>3. /\ l.session = k.session /\ l.words = k.words /\ l.changed = k.changed /\ l.answered = k.answered
      /\ l.accepted = k.accepted /\ l.sent = n /\ l.later = n /\ l.sentWords = k.words /\ l.unsent = FALSE
  BY <1>2 DEF Sent, KeptTypes
<1> HIDE DEF l
<1>4. Last(l) = n /\ Current(l)
  BY <1>2, <1>3 DEF Last, Current
<1>5. KeptSound(l, m)
  BY <1>1, <1>2, <1>3, <1>4 DEF KeptSound
<1> QED
  BY <1>1, <1>3, <1>4, <1>5 DEF l, Carries

LEMMA ResetIsSound ==
  ASSUME NEW k \in KeptTypes, NEW m, KeptSound(k, m), k.session # 0, NEW v, NEW words, Retained(words)
  PROVE  LET l == Reset(k, v, words) IN
         /\ KeptSound(l, m) /\ l.session = k.session /\ l.words = words
         /\ Last(l) = Last(k) /\ Carries(k, l, m)
<1> DEFINE l == Reset(k, v, words)
<1>1. /\ l.session = k.session /\ l.words = words /\ l.changed = FALSE /\ l.answered = k.answered
      /\ l.accepted = k.accepted /\ l.sent = k.sent /\ l.later = k.later /\ l.sentWords = NoText
  BY DEF Reset, KeptTypes
<1> HIDE DEF l
<1>2. Last(l) = Last(k)
  BY <1>1 DEF Last
<1>3. KeptSound(l, m)
  BY <1>1, <1>2 DEF KeptSound
<1> QED
  BY <1>1, <1>2, <1>3 DEF l, Carries

LEMMA FreshIsSound ==
  ASSUME NEW k \in KeptTypes, NEW m \in Nat, KeptSound(k, m)
  PROVE  LET l == FreshSession(k, m + 1) IN
         /\ KeptSound(l, m + 1) /\ l.session = m + 1 /\ l.words = k.words
         /\ Last(l) = 0 /\ Carries(k, l, m)
<1> DEFINE l == FreshSession(k, m + 1)
<1>1. /\ l.session = m + 1 /\ l.words = k.words /\ l.changed = k.changed /\ l.answered = 0
      /\ l.accepted = FALSE /\ l.sent = 0 /\ l.later = 0 /\ l.sentWords = NoText /\ l.unsent = k.changed
  BY DEF FreshSession, KeptTypes
<1> HIDE DEF l
<1>2. Last(l) = 0
  BY <1>1 DEF Last
<1>3. KeptSound(l, m + 1)
  BY <1>1, <1>2 DEF KeptSound
<1> QED
  BY <1>1, <1>2, <1>3 DEF l, Carries

(* A save that goes is of the text as it stands, under the next number. *)
LEMMA SendingIsSound ==
  ASSUME NEW w \in Windows, NEW q \in PageTypes, NEW k \in KeptTypes, NEW m \in Nat, KeptSound(k, m),
         k.session # 0, Retained(q.base), q.sequence = Last(k), q.phase \in SavingPhases,
         q.repeat = NoText, q.asking \in {"none", "flush"},
         NEW as \in {"save", "saveAgain"}, NEW forced \in BOOLEAN
  PROVE  LET x == Sending(q, as, forced)  l == Sent(k, q.sequence + 1) IN
         /\ x \in PageTypes /\ l \in KeptTypes /\ x.phase # "none" /\ l.session # 0
         /\ PageSound(x, l) /\ KeptSound(l, m) /\ Carries(k, l, m)
         /\ NextSave(w, q, k).by = w
         /\ RequestSound(w, x, l, m, NextSave(w, q, k))
<1> DEFINE x == Sending(q, as, forced)  l == Sent(k, q.sequence + 1)  r == NextSave(w, q, k)
<1>1. /\ KeptSound(l, m) /\ l.session = k.session /\ l.words = k.words
      /\ Last(l) = q.sequence + 1 /\ Current(l) /\ Carries(k, l, m)
  BY SentIsSound
<1>2. l \in KeptTypes
  BY NextSaveIsTyped
<1>3. x \in PageTypes
  <2>1. as \in Sendings
    BY DEF Sendings
  <2> QED
    BY <2>1, PagesGoOn, Zenon
<1>4. /\ x.phase = q.phase /\ x.base = q.base /\ x.repeat = NoText /\ x.asking = q.asking
      /\ x.sequence = q.sequence + 1 /\ x.dirty = FALSE /\ x.save = "saving" /\ x.sending = as
  BY DEF Sending, PageTypes
<1>5. /\ r.by = w /\ r.chain = "send" /\ r.kind = "save" /\ r.session = k.session
      /\ r.sequence = q.sequence + 1 /\ r.words = k.words /\ r.then = {}
  BY DEF NextSave, SaveCall, Call
<1>6. q.sequence \in Nat /\ k.session <= m
  BY DEF PageTypes, KeptSound
<1> HIDE DEF x, l, r
<1>7. PageSound(x, l)
  BY <1>1, <1>4, <1>6 DEF PageSound, Waits, SavingPhases
<1>8. RequestSound(w, x, l, m, r)
  <2>1. Saves(r) /\ Waits(x)
    <3>1. r.sequence > 0
      BY <1>5, <1>6
    <3>2. x.sending \in {"save", "saveAgain"}
      BY <1>4
    <3> QED
      BY <3>1, <3>2, Zenon DEF Saves, Waits
  <2>2. CallSound(w, x, l, m, r)
    <3>1. l.session # 0 /\ r.session <= m /\ r.sequence <= Last(l) /\ r.sequence = Last(l)
          /\ r.session = l.session
      BY <1>1, <1>5, <1>6
    <3> QED
      BY <1>5, <2>1, <3>1 DEF CallSound
  <2> QED
    BY <1>1, <1>5, <2>1, <2>2 DEF RequestSound
<1> QED
  BY <1>1, <1>2, <1>3, <1>4, <1>5, <1>7, <1>8 DEF x, l, r, SavingPhases

(* A page whose text, numbers and waits are as they were stays sound, and  *)
(* so does one that is lost.                                               *)
LEMMA SamePageIsSound ==
  ASSUME NEW p, NEW k, PageSound(p, k), NEW x, x.base = p.base, x.sequence = p.sequence,
         x.dirty = p.dirty, x.repeat = p.repeat, x.sending = p.sending, x.save = p.save,
         p.phase \in Phases \ {"none", "lost"}, x.phase # "none", x.phase # "lost",
         x.phase \in SavingPhases <=> p.phase \in SavingPhases,
         x.asking = "repeat" => p.asking = "repeat",
         x.asking \in {"request", "reclaim", "again"} => ~p.dirty
  PROVE  PageSound(x, k)
  BY DEF PageSound, Waits, SavingPhases, Phases

LEMMA FlushKeepsSound ==
  ASSUME TypeInv, TypeInv', SoundInv, NEW w \in Windows, Flush(w) \/ FlushToFinish(w)
  PROVE  SoundInv'
<1> DEFINE p == page[w]  k == kept[w]  idle == [p EXCEPT !.timed = FALSE]
<1>0. p \in PageTypes /\ Shape(p) /\ k \in KeptTypes /\ minted \in Nat
      /\ KeptSound(k, minted) /\ PageSound(p, k)
  BY OwnAreTyped, OwnAreSound
<1>1. p.sending = "none" /\ p.phase \in SavingPhases /\ p.asking \in {"none", "flush"}
  BY <1>0 DEF Flush, FlushToFinish, Shape, SavingPhases, PageTypes, Phases
<1>2. k.session # 0 /\ Retained(p.base) /\ p.sequence = Last(k) /\ p.repeat = NoText
  BY <1>0, <1>1 DEF PageSound, SavingPhases
<1>3. idle \in PageTypes
  BY <1>0, Zenon DEF PageTypes
<1>4. /\ idle.phase = p.phase /\ idle.base = p.base /\ idle.sequence = p.sequence /\ idle.repeat = p.repeat
      /\ idle.asking = p.asking /\ idle.dirty = p.dirty /\ idle.sending = p.sending /\ idle.save = p.save
  BY <1>0 DEF PageTypes
<1>5. minted' = minted /\ minted <= minted'
  <2>1. UNCHANGED <<bounds, copied>>
    BY Zenon DEF Flush, FlushToFinish
  <2> QED
    BY <1>0, <2>1 DEF bounds
<1>6. \A c \in Listened(w) \cup Due(w) : c.then = {} /\ c.chain \notin Pair
  <2>1. \A c \in Pair : ~Awaits(page[w], c)
    BY <1>1 DEF Pair, Awaits
  <2>2. \A c \in Pair : Calls(w, c) = {} /\ Answers(w, c) = {}
    BY <2>1 DEF TypeInv, OneOut
  <2>3. \A c \in Listened(w) \cup Due(w) : c.chain \notin Pair
    BY <2>2 DEF Listened, Due, Calls, Answers
  <2> QED
    BY <1>1, <2>3, NothingFollows DEF SavingPhases
<1> HIDE DEF idle
<1>7. ASSUME NEW forced \in BOOLEAN, NEW q \in {p, idle},
             Does(w, Sending(idle, "save", forced), Sent(k, q.sequence + 1), {NextSave(w, q, k)})
      PROVE  SoundInv'
  <2> DEFINE x == Sending(idle, "save", forced)  l == Sent(k, idle.sequence + 1)
             r == NextSave(w, idle, k)
  <2>1. Does(w, x, l, {r})
    BY <1>4, <1>7 DEF NextSave
  <2>2. /\ x \in PageTypes /\ l \in KeptTypes /\ x.phase # "none" /\ l.session # 0
        /\ PageSound(x, l) /\ KeptSound(l, minted) /\ Carries(k, l, minted)
        /\ r.by = w /\ RequestSound(w, x, l, minted, r)
    BY <1>0, <1>1, <1>2, <1>3, <1>4, SendingIsSound
  <2> HIDE DEF x, l, r
  <2>3. KeptSound(l, minted') /\ \A s \in {r} : s.by = w /\ RequestSound(w, x, l, minted', s)
    BY <1>5, <2>2
  <2> QED
    BY <1>5, <1>6, <2>1, <2>2, <2>3, DoesKeepsSound
<1>8. ASSUME NEW x \in PageTypes, x.base = p.base, x.sequence = p.sequence,
             x.dirty = p.dirty, x.repeat = p.repeat, x.sending = p.sending, x.save = p.save,
             x.phase = p.phase,
             x.asking = p.asking \/ (x.asking = "request" /\ ~p.dirty),
             NEW more, Does(w, x, k, more),
             \A r \in more : r.by = w /\ RequestSound(w, x, k, minted, r)
      PROVE  SoundInv'
  <2>1. PageSound(x, k) /\ x.phase # "none"
    BY <1>0, <1>1, <1>8, SamePageIsSound DEF SavingPhases, Phases
  <2>2. Carries(k, k, minted)
    BY DEF Carries
  <2>3. KeptSound(k, minted') /\ \A r \in more : r.by = w /\ RequestSound(w, x, k, minted', r)
    BY <1>0, <1>5, <1>8
  <2> QED
    BY <1>0, <1>2, <1>5, <1>6, <1>8, <2>1, <2>2, <2>3, DoesKeepsSound
<1>9. CASE Flush(w)
  <2>1. CASE p.dirty
    BY <1>1, <1>7, <1>9, <2>1 DEF Flush, idle
  <2>2. CASE ~p.dirty
    <3>1. Does(w, idle, k, {})
      BY <1>1, <1>9, <2>2 DEF Flush, idle
    <3> QED
      BY <1>3, <1>4, <1>8, <3>1
  <2> QED
    BY <2>1, <2>2
<1>10. CASE FlushToFinish(w)
  <2>1. CASE p.dirty
    BY <1>4, <1>7, <1>10, <2>1 DEF FlushToFinish, idle
  <2>2. CASE ~p.dirty
    <3> DEFINE x == [idle EXCEPT !.asking = "request"]  r == CutCall(w, idle, k)
    <3>1. Does(w, x, k, {r})
      BY <1>4, <1>10, <2>2 DEF FlushToFinish, idle
    <3>2. x \in PageTypes
      BY <1>3, Zenon DEF PageTypes, Askings
    <3>3. /\ x.phase = p.phase /\ x.base = p.base /\ x.sequence = p.sequence /\ x.repeat = p.repeat
          /\ x.asking = "request" /\ x.dirty = p.dirty /\ x.sending = p.sending /\ x.save = p.save
      BY <1>3, <1>4 DEF PageTypes
    <3>4. /\ r.by = w /\ r.chain = "ask" /\ r.session = k.session /\ r.sequence = 0 /\ r.then = {}
          /\ r.kind # "save"
      BY DEF CutCall, Call
    <3> HIDE DEF x, r
    <3>5. RequestSound(w, x, k, minted, r)
      BY <1>0, <1>2, <3>3, <3>4, LastIsANumber DEF RequestSound, CallSound, Saves, Waits, OfTheLast, Pair, KeptSound
    <3> QED
      BY <1>8, <2>2, <3>1, <3>2, <3>3, <3>4, <3>5
  <2> QED
    BY <2>1, <2>2
<1> QED
  BY <1>9, <1>10

(* What a page becomes where it is answered or stops. *)
StopsAs(q, x) ==
  \/ x = Acknowledged(q) \/ x = SaveFailed(q)
  \/ \E b \in BOOLEAN : x = Lose(q, b)
  \/ \E result : x = Refuse(q, result) \/ x = RefusedOrLost(q, result)

LEMMA StoppedFields ==
  ASSUME NEW q \in PageTypes, q.asking \in {"none", "flush"}, NEW x, StopsAs(q, x)
  PROVE  /\ x.base = q.base /\ x.sequence = q.sequence /\ x.repeat = q.repeat /\ x.sending = q.sending
         /\ x.phase \in {"lost", "editing", q.phase} /\ x.asking \in {"none", "flush"}
         /\ x.dirty = q.dirty \/ x.dirty = TRUE
         /\ x.phase = "lost" /\ q.phase # "lost" /\ x.behind => x = Lose(q, TRUE)
<1>1. ASSUME NEW b \in BOOLEAN, NEW y, y = Lose(q, b)
      PROVE  /\ y.base = q.base /\ y.sequence = q.sequence /\ y.repeat = q.repeat /\ y.sending = q.sending
             /\ y.phase = "lost" /\ y.asking = "none" /\ y.dirty = q.dirty /\ y.behind = b
  BY <1>1 DEF PageTypes, Lose, Stopped
<1>2. ASSUME NEW result, NEW y, y = Refuse(q, result), result # "forbidden"
      PROVE  /\ y.base = q.base /\ y.sequence = q.sequence /\ y.repeat = q.repeat /\ y.sending = q.sending
             /\ y.phase = "editing" /\ y.asking = "none" /\ y.dirty = q.dirty
  BY <1>2 DEF PageTypes, Refuse, Stopped
<1>3. CASE x = Acknowledged(q)
  BY <1>3 DEF PageTypes, Acknowledged
<1>4. CASE x = SaveFailed(q)
  BY <1>4 DEF PageTypes, SaveFailed
<1>5. CASE \E b \in BOOLEAN : x = Lose(q, b)
  BY <1>1, <1>5
<1>6. CASE \E result : x = Refuse(q, result) \/ x = RefusedOrLost(q, result)
  <2>1. x = Lose(q, FALSE) \/ \E result : x = Refuse(q, result) /\ result # "forbidden"
    BY <1>6 DEF Refuse, RefusedOrLost
  <2>2. CASE x = Lose(q, FALSE)
    BY <1>1, <2>2
  <2>3. CASE \E result : x = Refuse(q, result) /\ result # "forbidden"
    BY <1>2, <2>3
  <2> QED
    BY <2>1, <2>2, <2>3
<1> QED
  BY <1>3, <1>4, <1>5, <1>6 DEF StopsAs

LEMMA StoppedIsSound ==
  ASSUME NEW k, NEW x, x.phase \in SavingPhases \cup {"lost"}, x.asking \in {"none", "flush"},
         x.sending \in {"none", "reclaim"}, k.session # 0, Retained(x.base),
         x.phase # "lost" => x.sequence = Last(k), x.phase # "lost" => x.repeat = NoText,
         x.repeat # NoText => x.sequence > 0,
         x.sending = "reclaim" => x.dirty, x.phase = "lost" /\ x.behind => x.dirty,
         x.dirty \/ Retained(k.words)
  PROVE  PageSound(x, k)
  BY DEF PageSound, Waits, SavingPhases

LEMMA NoSaveIsSound ==
  ASSUME NEW w, NEW x, NEW k \in KeptTypes, NEW m, k.session # 0, k.session <= m,
         NEW chain \in Pair, chain = "send" => ~Waits(x), chain = "ask" => x.asking # "repeat",
         NEW r, r.chain = chain, r.session = k.session, r.sequence = 0, r.then = {}, r.kind # "save"
  PROVE  RequestSound(w, x, k, m, r)
  BY LastIsANumber DEF RequestSound, CallSound, Saves, OfTheLast, Pair

LEMMA HearSaveKeepsSound ==
  ASSUME TypeInv, TypeInv', SoundInv, NEW w \in Windows, NEW o \in Outcomes(w, "send"),
         HearSave(w, o) \/ HearSaveReclaim(w, o)
  PROVE  SoundInv'
<1> DEFINE p == page[w]  old == kept[w]  k == Told(old, o)
           done == [p EXCEPT !.sending = "none"]
           unsaved == [done EXCEPT !.dirty = TRUE]
           ended == [unsaved EXCEPT !.forced = FALSE]
           back == [p EXCEPT !.sending = "none", !.forced = FALSE]
<1>0. p \in PageTypes /\ Shape(p) /\ old \in KeptTypes /\ minted \in Nat
      /\ KeptSound(old, minted) /\ PageSound(p, old) /\ "send" \in Pair
  BY OwnAreTyped, OwnAreSound DEF Pair
<1>1. /\ p.sending # "none" /\ p.phase \in SavingPhases /\ p.asking \in {"none", "flush"}
  BY <1>0 DEF HearSave, HearSaveReclaim, Shape, SavingPhases
<1>2. old.session # 0 /\ Retained(p.base) /\ p.sequence = Last(old) /\ p.repeat = NoText /\ p.phase # "none"
      /\ old.session <= minted
  BY <1>0, <1>1 DEF PageSound, KeptSound, SavingPhases
<1>3. Awaits(page[w], "send")
  BY <1>1 DEF Awaits
<1>4. /\ o.sequence \in Nat
      /\ o.sequence > 0 =>
           /\ o.session = old.session /\ o.sequence = Last(old)
           /\ o.result = "ok" /\ Current(old) => Retained(old.words)
      /\ o.result = "ok" /\ Waits(p) => o.sequence > 0
  BY <1>0, HeardIsSound
<1>5. /\ KeptSound(k, minted) /\ k.session = old.session /\ k.words = old.words
      /\ Last(k) = Last(old) /\ Current(k) = Current(old) /\ Carries(old, k, minted)
      /\ k \in KeptTypes
  <2>1. o.sequence <= Last(old) \/ o.sequence = 0
    BY <1>0, <1>4, LastIsANumber
  <2> QED
    BY <1>0, <1>2, <1>4, <2>1, ToldIsSound, ToldIsKept
<1>6. done \in PageTypes /\ unsaved \in PageTypes /\ ended \in PageTypes /\ back \in PageTypes
  <2>1. done \in PageTypes
    BY <1>0, Zenon DEF PageTypes, Sendings
  <2>2. unsaved \in PageTypes
    BY <2>1, Zenon DEF PageTypes
  <2>3. ended \in PageTypes
    BY <2>2, Zenon DEF PageTypes
  <2>4. back \in PageTypes
    BY <1>0, Zenon DEF PageTypes, Sendings
  <2> QED
    BY <2>1, <2>2, <2>3, <2>4
<1>7. \A q \in {done, unsaved, ended, back} :
        /\ q.base = p.base /\ q.sequence = p.sequence /\ q.repeat = p.repeat /\ q.asking = p.asking
        /\ q.phase = p.phase /\ q.sending = "none"
  BY <1>0 DEF PageTypes
<1>8. unsaved.dirty = TRUE /\ ended.dirty = TRUE /\ done.dirty = p.dirty /\ back.dirty = p.dirty
  BY <1>0 DEF PageTypes
<1> HIDE DEF done, unsaved, ended, back, k
(* Where nothing more goes out. *)
<1>9. ASSUME NEW q \in {done, ended, back}, NEW x \in PageTypes, NEW l \in {k, old},
             \/ x = Acknowledged(q) \/ x = SaveFailed(q)
             \/ \E b \in BOOLEAN : x = Lose(q, b)
             \/ \E result : x = Refuse(q, result) \/ x = RefusedOrLost(q, result),
             x.dirty \/ (Retained(l.words) /\ x = Acknowledged(q)),
             Becomes(w, "send", o, x, l, {})
      PROVE  SoundInv'
  <2>1. q \in PageTypes /\ q.asking \in {"none", "flush"}
    BY <1>1, <1>6, <1>7
  <2>2. /\ x.base = q.base /\ x.sequence = q.sequence /\ x.repeat = q.repeat /\ x.sending = q.sending
        /\ x.phase \in {"lost", "editing", q.phase} /\ x.asking \in {"none", "flush"}
    <3>1. StopsAs(q, x)
      BY <1>9 DEF StopsAs
    <3> QED
      BY <2>1, <3>1, StoppedFields
  <2>3. x.phase = "lost" /\ x.behind => x.dirty
    <3>1. CASE x = Acknowledged(q)
      <4>1. x.phase = q.phase
        BY <2>1, <3>1 DEF Acknowledged, PageTypes
      <4> QED
        BY <1>1, <1>7, <4>1 DEF SavingPhases
    <3> QED
      BY <1>9, <3>1
  <2>4. Last(l) = Last(old) /\ l.session # 0 /\ KeptSound(l, minted) /\ Carries(old, l, minted) /\ l \in KeptTypes
    BY <1>0, <1>2, <1>5 DEF Carries
  <2>5. PageSound(x, l) /\ x.phase # "none"
    <3>1. x.phase \in SavingPhases \cup {"lost"} /\ x.sending = "none" /\ x.sequence = Last(l)
          /\ x.repeat = NoText /\ Retained(x.base)
      BY <1>1, <1>2, <1>7, <2>2, <2>4 DEF SavingPhases
    <3> QED
      BY <1>9, <2>2, <2>3, <2>4, <3>1, StoppedIsSound DEF SavingPhases
  <2> QED
    BY <1>0, <1>2, <1>3, <1>9, <2>4, <2>5, BecomesKeepsSound
<1>10. CASE HearSave(w, o)
  <2>0. Waits(p)
    BY <1>10 DEF HearSave, Waits
  <2>1. ASSUME o.result = "ok", Becomes(w, "send", o, Acknowledged(done), k, {})
        PROVE  SoundInv'
    <3>1. Acknowledged(done) \in PageTypes
      BY <1>6, PagesGoOn
    <3>2. Acknowledged(done).dirty = p.dirty
      BY <1>6, <1>8 DEF Acknowledged, PageTypes
    <3>3. p.dirty \/ Retained(k.words)
      BY <1>0, <1>4, <1>5, <2>0, <2>1 DEF PageSound
    <3> QED
      BY <1>9, <2>1, <3>1, <3>2, <3>3
  <2>2. ASSUME Becomes(w, "send", o, SaveFailed(done), k, {})
        PROVE  SoundInv'
    <3>1. SaveFailed(done) \in PageTypes
      BY <1>6, PagesGoOn
    <3>2. SaveFailed(done).dirty = TRUE
      BY <1>6 DEF SaveFailed, PageTypes
    <3> QED
      BY <1>9, <2>2, <3>1, <3>2
  <2>3. ASSUME Becomes(w, "send", o, Refuse(ended, o.result), k, {})
        PROVE  SoundInv'
    <3>1. Refuse(ended, o.result) \in PageTypes /\ Refuse(ended, o.result).dirty = TRUE
      <4>1. ended.asking \in {"none", "flush"}
        BY <1>1, <1>7
      <4>2. StopsAs(ended, Refuse(ended, o.result))
        BY DEF StopsAs
      <4> QED
        BY <1>6, <1>8, <4>1, <4>2, PagesStop, StoppedFields
    <3> QED
      BY <1>9, <2>3, <3>1
  <2>4. ASSUME NEW b \in BOOLEAN, Becomes(w, "send", o, Lose(ended, b), k, {})
        PROVE  SoundInv'
    <3>1. Lose(ended, b) \in PageTypes
      BY <1>6, PagesStop
    <3>2. Lose(ended, b).dirty = TRUE
      BY <1>6, <1>8 DEF Lose, Stopped, PageTypes
    <3> QED
      BY <1>9, <2>4, <3>1, <3>2
  <2>5. ASSUME Becomes(w, "send", o, [unsaved EXCEPT !.sending = "reclaim"], k,
                       {ClaimCall(w, "send", k, FALSE)})
        PROVE  SoundInv'
    <3> DEFINE x == [unsaved EXCEPT !.sending = "reclaim"]  r == ClaimCall(w, "send", k, FALSE)
    <3>1. x \in PageTypes
      BY <1>6, Zenon DEF PageTypes, Sendings
    <3>2. /\ x.sending = "reclaim" /\ x.phase = p.phase /\ x.asking = p.asking /\ x.dirty = TRUE
          /\ x.base = p.base /\ x.sequence = p.sequence /\ x.repeat = p.repeat
      BY <1>6, <1>7, <1>8 DEF PageTypes
    <3>3. /\ r.by = w /\ r.chain = "send" /\ r.session = k.session /\ r.sequence = 0 /\ r.then = {}
          /\ r.kind # "save"
      BY DEF ClaimCall, Call
    <3>4. Becomes(w, "send", o, x, k, {r})
      BY <2>5
    <3> HIDE DEF x, r
    <3>5. PageSound(x, k) /\ x.phase # "none"
      <4>1. x.phase # "none" /\ x.phase # "lost" /\ x.phase \in SavingPhases \cup {"lost"}
        BY <1>1, <3>2 DEF SavingPhases
      <4>2. k.session # 0 /\ Retained(x.base) /\ x.sequence = Last(k) /\ x.repeat = NoText
        BY <1>2, <1>5, <3>2
      <4>3. x.asking \in {"none", "flush"} /\ x.sending \in {"none", "reclaim"} /\ x.dirty
        BY <1>1, <3>2
      <4> QED
        BY <4>1, <4>2, <4>3, StoppedIsSound
    <3>6. RequestSound(w, x, k, minted, r)
      <4>1. ~Waits(x) /\ k.session # 0 /\ k.session <= minted
        BY <1>2, <1>5, <3>2 DEF Waits
      <4> QED
        BY <1>0, <1>5, <3>3, <4>1, NoSaveIsSound
    <3>7. \A s \in {r} : s.by = w /\ RequestSound(w, x, k, minted, s)
      BY <3>3, <3>6
    <3> QED
      BY <1>0, <1>2, <1>3, <1>5, <3>1, <3>4, <3>5, <3>7, BecomesKeepsSound
  <2> QED
    BY <1>10, <2>1, <2>2, <2>3, <2>4, <2>5 DEF HearSave, done, unsaved, ended, k
<1>11. CASE HearSaveReclaim(w, o)
  <2>0. p.dirty /\ p.sending = "reclaim" /\ p.dirty \in BOOLEAN
    BY <1>0, <1>11 DEF HearSaveReclaim, PageSound, PageTypes
  <2>1. ASSUME Becomes(w, "send", o, RefusedOrLost(back, o.result), old, {})
        PROVE  SoundInv'
    <3>1. RefusedOrLost(back, o.result) \in PageTypes /\ RefusedOrLost(back, o.result).dirty
      <4>1. back.asking \in {"none", "flush"}
        BY <1>1, <1>7
      <4>2. StopsAs(back, RefusedOrLost(back, o.result))
        BY DEF StopsAs
      <4> QED
        BY <1>6, <1>8, <2>0, <4>1, <4>2, PagesStop, StoppedFields
    <3> QED
      BY <1>9, <2>1, <3>1
  <2>2. ASSUME Becomes(w, "send", o, Sending(p, "saveAgain", p.forced), Sent(old, p.sequence + 1),
                       {NextSave(w, p, old)})
        PROVE  SoundInv'
    <3> DEFINE x == Sending(p, "saveAgain", p.forced)  l == Sent(old, p.sequence + 1)
               r == NextSave(w, p, old)
    <3>1. p.forced \in BOOLEAN
      BY <1>0 DEF PageTypes
    <3>2. /\ x \in PageTypes /\ l \in KeptTypes /\ x.phase # "none" /\ l.session # 0
          /\ PageSound(x, l) /\ KeptSound(l, minted) /\ Carries(old, l, minted)
          /\ r.by = w /\ RequestSound(w, x, l, minted, r)
      BY <1>0, <1>1, <1>2, <3>1, SendingIsSound
    <3>3. Becomes(w, "send", o, x, l, {r})
      BY <2>2
    <3> HIDE DEF x, l, r
    <3>4. \A s \in {r} : s.by = w /\ RequestSound(w, x, l, minted, s)
      BY <3>2
    <3> QED
      BY <1>0, <1>2, <1>3, <3>2, <3>3, <3>4, BecomesKeepsSound
  <2> QED
    BY <1>11, <2>1, <2>2 DEF HearSaveReclaim, back
<1> QED
  BY <1>10, <1>11

LEMMA TypeKeepsSound ==
  ASSUME TypeInv, TypeInv', SoundInv, NEW w \in Windows, Type(w)
  PROVE  SoundInv'
<1> DEFINE p == page[w]  k == kept[w]
           changed == [p EXCEPT !.dirty = TRUE, !.save = "saving"]
           l == [k EXCEPT !.words = texts + 1, !.changed = TRUE, !.unsent = TRUE,
                          !.laterCurrent = FALSE]
<1>0. p \in PageTypes /\ Shape(p) /\ k \in KeptTypes /\ minted \in Nat
      /\ KeptSound(k, minted) /\ PageSound(p, k) /\ texts + 1 \in Nat
  BY OwnAreTyped, OwnAreSound DEF TypeInv, BoundTypes
<1>1. p.phase \in {"reading", "claiming", "editing"} /\ minted' = minted
  BY Zenon DEF Type
<1>2. k.session # 0 /\ Retained(p.base) /\ p.sequence = Last(k) /\ k.session <= minted
  BY <1>0, <1>1 DEF PageSound, KeptSound
<1>3. l \in KeptTypes
  BY <1>0, Zenon DEF KeptTypes
<1>4. /\ l.session = k.session /\ l.sent = k.sent /\ l.later = k.later /\ l.answered = k.answered
      /\ l.accepted = k.accepted /\ l.unsent = TRUE /\ l.laterCurrent = FALSE
  BY <1>0 DEF KeptTypes
<1>5. changed \in PageTypes
  BY <1>0, Zenon DEF PageTypes
<1>6. /\ changed.phase = p.phase /\ changed.base = p.base /\ changed.sequence = p.sequence
      /\ changed.repeat = p.repeat /\ changed.asking = p.asking /\ changed.sending = p.sending
      /\ changed.dirty = TRUE /\ changed.save = "saving"
  BY <1>0 DEF PageTypes
<1> HIDE DEF l, changed
<1>7. Last(l) = Last(k) /\ ~Current(l) /\ KeptSound(l, minted) /\ Carries(k, l, minted)
  <2>1. Last(l) = Last(k) /\ ~Current(l)
    BY <1>4 DEF Last, Current
  <2> QED
    BY <1>0, <1>2, <1>4, <2>1 DEF KeptSound, Carries
<1>8. \A c \in Listened(w) \cup Due(w) : c.then = {}
  BY <1>1, NothingFollows
<1>9. ASSUME NEW x \in PageTypes, x.base = p.base, x.sequence = p.sequence, x.repeat = p.repeat,
             x.sending = p.sending, x.dirty = TRUE, x.save = "saving",
             \/ x.phase = p.phase /\ x.asking = p.asking
             \/ p.phase = "reading" /\ x.phase = "claiming" /\ x.asking = "claim",
             NEW more, Does(w, x, l, more),
             more = {} \/ \A r \in more : r.by = w /\ RequestSound(w, x, l, minted, r)
      PROVE  SoundInv'
  <2>1. PageSound(x, l) /\ x.phase # "none"
    BY <1>0, <1>1, <1>2, <1>4, <1>7, <1>9 DEF PageSound, Waits, SavingPhases, Shape
  <2>2. \A c \in Listened(w) \cup Due(w) :
          c.then = {} /\ (c.chain \in Pair => Stays(page[w], kept[w], x, l))
    <3>1. CASE p.phase = "reading"
      <4>1. \A c \in Pair : ~Awaits(page[w], c)
        BY <1>0, <3>1 DEF Pair, Awaits, Shape, SavingPhases
      <4>2. \A c \in Listened(w) \cup Due(w) : c.chain \notin Pair
        BY <4>1 DEF TypeInv, OneOut, Listened, Due, Calls, Answers
      <4> QED
        BY <1>8, <4>2
    <3>2. CASE p.phase # "reading"
      BY <1>4, <1>7, <1>8, <1>9, <3>2 DEF Stays, Waits
    <3> QED
      BY <3>1, <3>2
  <2>3. KeptSound(l, minted') /\ minted <= minted' /\ l.session # 0
        /\ \A r \in more : r.by = w /\ RequestSound(w, x, l, minted', r)
    BY <1>0, <1>1, <1>2, <1>4, <1>7, <1>9
  <2> QED
    BY <1>3, <1>7, <1>9, <2>1, <2>2, <2>3, DoesKeepsSound
<1>10. CASE p.phase = "reading" /\ Does(w, Claiming(changed), l, {ClaimCall(w, "ask", k, FALSE)})
  <2> DEFINE x == Claiming(changed)  r == ClaimCall(w, "ask", k, FALSE)
  <2>1. x \in PageTypes
    BY <1>5, PagesGoOn
  <2>2. /\ x.base = p.base /\ x.sequence = p.sequence /\ x.repeat = p.repeat
        /\ x.sending = p.sending /\ x.dirty = TRUE /\ x.save = "saving"
        /\ x.phase = "claiming" /\ x.asking = "claim"
    BY <1>5, <1>6 DEF Claiming, PageTypes
  <2>3. /\ r.by = w /\ r.chain = "ask" /\ r.session = l.session /\ r.sequence = 0 /\ r.then = {}
        /\ r.kind # "save"
    BY <1>4 DEF ClaimCall, Call
  <2>4. Does(w, x, l, {r})
    BY <1>10
  <2> HIDE DEF x, r
  <2>5. RequestSound(w, x, l, minted, r)
    BY <1>2, <1>3, <1>4, <2>2, <2>3, NoSaveIsSound DEF Pair
  <2> QED
    BY <1>9, <1>10, <2>1, <2>2, <2>3, <2>4, <2>5
<1>11. CASE Does(w, changed, l, {})
  BY <1>5, <1>6, <1>9, <1>11
<1>12. CASE Does(w, [changed EXCEPT !.timed = TRUE], l, {})
  <2> DEFINE x == [changed EXCEPT !.timed = TRUE]
  <2>1. x \in PageTypes
    BY <1>5, Zenon DEF PageTypes
  <2>2. /\ x.phase = p.phase /\ x.base = p.base /\ x.sequence = p.sequence
        /\ x.repeat = p.repeat /\ x.asking = p.asking /\ x.sending = p.sending
        /\ x.dirty = TRUE /\ x.save = "saving"
    BY <1>5, <1>6 DEF PageTypes
  <2>3. Does(w, x, l, {})
    BY <1>12
  <2> HIDE DEF x
  <2> QED
    BY <1>9, <2>1, <2>2, <2>3
<1> QED
  BY <1>10, <1>11, <1>12 DEF Type, changed, l

LEMMA ClaimAgainKeepsSound ==
  ASSUME TypeInv, TypeInv', SoundInv, NEW w \in Windows, ClaimAgain(w) \/ ContinueAfresh(w)
  PROVE  SoundInv'
<1> DEFINE p == page[w]  k == kept[w]
<1>0. p \in PageTypes /\ Shape(p) /\ k \in KeptTypes /\ minted \in Nat
      /\ KeptSound(k, minted) /\ PageSound(p, k) /\ minted + 1 \in Nat
  BY OwnAreTyped, OwnAreSound
<1>1. p.phase \in {"reading", "lost"}
  BY DEF ClaimAgain, ContinueAfresh
<1>2. k.session # 0 /\ Retained(p.base) /\ k.session <= minted
  BY <1>0, <1>1 DEF PageSound, KeptSound
<1>3. p.sending = "none" /\ \A c \in Listened(w) \cup Due(w) : c.then = {} /\ c.chain \notin Pair
  <2>1. p.sending = "none" /\ \A c \in Pair : ~Awaits(page[w], c)
    BY <1>0, <1>1 DEF Pair, Awaits, Shape, SavingPhases
  <2>2. \A c \in Listened(w) \cup Due(w) : c.chain \notin Pair
    BY <2>1 DEF TypeInv, OneOut, Listened, Due, Calls, Answers
  <2>3. p.phase # "none"
    BY <1>1
  <2> QED
    BY <2>1, <2>2, <2>3, NothingFollows
<1>4. Claiming(p) \in PageTypes
  BY <1>0, PagesGoOn
<1>5. LET q == Claiming(p) IN
      /\ q.phase = "claiming" /\ q.asking = "claim" /\ q.base = p.base /\ q.sequence = p.sequence
      /\ q.repeat = p.repeat /\ q.dirty = p.dirty /\ q.sending = p.sending /\ q.save = p.save
  BY <1>0 DEF Claiming, PageTypes
<1>6. CASE ClaimAgain(w)
  <2> DEFINE x == Claiming(p)  r == ClaimCall(w, "ask", k, p.holder = "yours")
  <2>1. Does(w, x, k, {r}) /\ p.phase = "reading"
    BY <1>6 DEF ClaimAgain
  <2>2. /\ r.by = w /\ r.chain = "ask" /\ r.session = k.session /\ r.sequence = 0 /\ r.then = {}
        /\ r.kind # "save"
    BY DEF ClaimCall, Call
  <2>3. minted' = minted
    BY <1>6 DEF ClaimAgain, bounds
  <2> HIDE DEF x, r
  <2>4. PageSound(x, k) /\ x.phase # "none"
    BY <1>0, <1>5, <2>1, SamePageIsSound DEF SavingPhases, Phases, x
  <2>5. RequestSound(w, x, k, minted, r)
    BY <1>0, <1>2, <1>5, <2>2, NoSaveIsSound DEF Pair, x
  <2>6. Carries(k, k, minted)
    BY DEF Carries
  <2>7. KeptSound(k, minted') /\ minted <= minted' /\ \A s \in {r} : s.by = w /\ RequestSound(w, x, k, minted', s)
    BY <1>0, <2>2, <2>3, <2>5
  <2> QED
    BY <1>0, <1>2, <1>3, <1>4, <2>1, <2>4, <2>6, <2>7, DoesKeepsSound DEF x
<1>7. CASE ContinueAfresh(w)
  <2> DEFINE l == FreshSession(k, minted + 1)  q == Claiming(p)
             x == [q EXCEPT !.sequence = 0, !.repeat = NoText]
             r == ClaimCall(w, "ask", l, TRUE)
  <2>1. Does(w, x, l, {r}) /\ p.phase = "lost" /\ p.behind
    BY <1>7 DEF ContinueAfresh
  <2>2. minted' = minted + 1
    BY <1>7 DEF ContinueAfresh
  <2>3. /\ KeptSound(l, minted + 1) /\ l.session = minted + 1
        /\ Last(l) = 0 /\ Carries(k, l, minted)
    BY <1>0, FreshIsSound
  <2>4. l \in KeptTypes
    BY <1>0, StoredIsKept
  <2>5. x \in PageTypes
    <3> HIDE DEF q
    <3> QED
      BY <1>4, 0 \in Nat, Zenon DEF PageTypes, q
  <2>6. /\ x.phase = "claiming" /\ x.asking = "claim" /\ x.base = p.base /\ x.sequence = 0
        /\ x.repeat = NoText /\ x.dirty = p.dirty /\ x.sending = p.sending
    <3>1. q \in PageTypes
      BY <1>4
    <3> HIDE DEF q
    <3> QED
      BY <1>5, <3>1 DEF PageTypes, q
  <2>7. /\ r.by = w /\ r.chain = "ask" /\ r.session = l.session /\ r.sequence = 0 /\ r.then = {}
        /\ r.kind # "save"
    BY DEF ClaimCall, Call
  <2> HIDE DEF l, q, x, r
  <2>8. PageSound(x, l) /\ x.phase # "none"
    <3>1. p.dirty
      BY <1>0, <2>1 DEF PageSound
    <3> QED
      BY <1>0, <1>2, <1>3, <2>3, <2>6, <3>1 DEF PageSound, Waits, SavingPhases
  <2>9. RequestSound(w, x, l, minted + 1, r)
    BY <1>0, <2>3, <2>4, <2>6, <2>7, NoSaveIsSound DEF Pair
  <2>10. KeptSound(l, minted') /\ minted <= minted' /\ l.session # 0
         /\ \A s \in {r} : s.by = w /\ RequestSound(w, x, l, minted', s)
    BY <1>0, <2>2, <2>3, <2>7, <2>9
  <2> QED
    BY <1>3, <2>1, <2>3, <2>4, <2>5, <2>8, <2>10, DoesKeepsSound
<1> QED
  BY <1>6, <1>7

LEMMA FinishKeepsSound ==
  ASSUME TypeInv, TypeInv', SoundInv, NEW w \in Windows, NEW during \in {"cutting", "releasing"},
         Finish(w, during)
  PROVE  SoundInv'
<1> DEFINE p == page[w]  k == kept[w]  x == [p EXCEPT !.phase = during, !.asking = "flush"]
<1>0. p \in PageTypes /\ Shape(p) /\ k \in KeptTypes /\ minted \in Nat
      /\ KeptSound(k, minted) /\ PageSound(p, k)
  BY OwnAreTyped, OwnAreSound
<1>1. p.phase = "editing" /\ p.asking = "none" /\ Does(w, x, k, {})
  BY DEF Finish
<1>2. minted' = minted
  BY DEF Finish, bounds
<1>3. x \in PageTypes
  BY <1>0, during \in Phases, Zenon DEF PageTypes, Phases, Askings
<1>4. /\ x.phase = during /\ x.asking = "flush" /\ x.base = p.base /\ x.sequence = p.sequence
      /\ x.repeat = p.repeat /\ x.dirty = p.dirty /\ x.sending = p.sending /\ x.save = p.save
  BY <1>0 DEF PageTypes
<1> HIDE DEF x
<1>5. PageSound(x, k) /\ x.phase # "none" /\ k.session # 0
  <2>1. k.session # 0
    BY <1>0, <1>1 DEF PageSound
  <2> QED
    BY <1>0, <1>1, <1>4, <2>1, SamePageIsSound DEF SavingPhases, Phases
<1>6. \A c \in Listened(w) \cup Due(w) :
        c.then = {} /\ (c.chain \in Pair => Stays(page[w], kept[w], x, k))
  <2>1. p.phase # "none"
    BY <1>1
  <2>2. Stays(p, k, x, k)
    BY <1>1, <1>4 DEF Stays, Waits
  <2> QED
    BY <2>1, <2>2, NothingFollows
<1>7. Carries(k, k, minted) /\ KeptSound(k, minted') /\ minted <= minted'
  BY <1>0, <1>2 DEF Carries
<1> QED
  BY <1>0, <1>1, <1>3, <1>5, <1>6, <1>7, DoesKeepsSound

(* A page with nothing unsaved, over a text the service keeps. *)
LEMMA SavedPageIsSound ==
  ASSUME NEW k, NEW x, x.repeat = NoText, x.sending = "none", x.asking # "repeat",
         x.dirty = FALSE, k.session # 0, Retained(x.base), x.sequence = Last(k),
         x.phase = "lost" => x.behind = FALSE, Retained(k.words)
  PROVE  PageSound(x, k)
  BY DEF PageSound, Waits

LEMMA HearClaimKeepsSound ==
  ASSUME TypeInv, TypeInv', SoundInv, NEW w \in Windows, NEW o \in Outcomes(w, "ask"), HearClaim(w, o)
  PROVE  SoundInv'
<1> DEFINE p == page[w]  k == kept[w]
<1>0. p \in PageTypes /\ Shape(p) /\ k \in KeptTypes /\ minted \in Nat
      /\ KeptSound(k, minted) /\ PageSound(p, k) /\ "ask" \in Pair
  BY OwnAreTyped, OwnAreSound DEF Pair
<1>1. p.asking = "claim" /\ p.phase = "claiming" /\ p.sending = "none"
  <2>1. p.asking = "claim"
    BY DEF HearClaim
  <2> QED
    BY <1>0, <2>1 DEF Shape, SavingPhases
<1>2. k.session # 0 /\ k.session <= minted /\ Retained(p.base) /\ p.sequence = Last(k)
      /\ Awaits(page[w], "ask") /\ Carries(k, k, minted)
  BY <1>0, <1>1 DEF PageSound, KeptSound, Awaits, Carries
<1>3. CASE p.repeat = NoText /\ Becomes(w, "ask", o, Started(p), k, {})
  <2> DEFINE x == Started(p)
  <2>1. x \in PageTypes
    BY <1>0, PagesGoOn, Zenon
  <2>2. /\ x.asking = "none" /\ x.sending = "none" /\ x.phase = "editing" /\ x.repeat = NoText
        /\ x.base = p.base /\ x.sequence = p.sequence /\ x.dirty = p.dirty
    BY <1>0, <1>1 DEF Started, PageTypes
  <2>3. p.dirty \/ Retained(k.words)
    BY <1>0, <1>1, <1>3 DEF PageSound, Waits
  <2> HIDE DEF x
  <2>4. PageSound(x, k) /\ x.phase # "none"
    BY <1>2, <2>2, <2>3, StoppedIsSound DEF SavingPhases
  <2> QED
    BY <1>0, <1>1, <1>2, <1>3, <2>1, <2>4, BecomesKeepsSound DEF x
<1>4. CASE /\ p.repeat # NoText
           /\ Becomes(w, "ask", o, [p EXCEPT !.asking = "repeat"], k,
                      {SaveCall(w, "ask", k, p.sequence, p.repeat)})
  <2> DEFINE x == [p EXCEPT !.asking = "repeat"]  r == SaveCall(w, "ask", k, p.sequence, p.repeat)
  <2>1. x \in PageTypes
    BY <1>0, Zenon DEF PageTypes, Askings
  <2>2. /\ x.asking = "repeat" /\ x.sending = "none" /\ x.phase = "claiming" /\ x.repeat = p.repeat
        /\ x.base = p.base /\ x.sequence = p.sequence /\ x.dirty = p.dirty
    BY <1>0, <1>1 DEF PageTypes
  <2>3. /\ r.by = w /\ r.chain = "ask" /\ r.kind = "save" /\ r.session = k.session
        /\ r.sequence = p.sequence /\ r.words = p.repeat /\ r.then = {}
    BY DEF SaveCall, Call
  <2>4. Becomes(w, "ask", o, x, k, {r})
    BY <1>4
  <2> HIDE DEF x, r
  <2>5. PageSound(x, k) /\ x.phase # "none"
    BY <1>0, <1>1, <1>2, <1>4, <2>2 DEF PageSound, Waits, SavingPhases
  <2>6. RequestSound(w, x, k, minted, r)
    <3>1. p.sequence > 0 /\ Last(k) \in Nat /\ (Current(k) => Retained(k.words) \/ p.repeat = k.words)
      BY <1>0, <1>1, <1>4, LastIsANumber DEF PageSound
    <3>2. Saves(r) /\ ~Waits(x)
      BY <2>2, <2>3, <3>1 DEF Saves, Waits
    <3>3. CallSound(w, x, k, minted, r)
      BY <1>2, <2>2, <2>3, <3>1, <3>2 DEF CallSound
    <3> QED
      BY <1>2, <2>2, <2>3, <3>1, <3>2, <3>3 DEF RequestSound, OfTheLast
  <2>7. \A s \in {r} : s.by = w /\ RequestSound(w, x, k, minted, s)
    BY <2>3, <2>6
  <2> QED
    BY <1>0, <1>1, <1>2, <2>1, <2>4, <2>5, <2>7, BecomesKeepsSound
<1>5. CASE Becomes(w, "ask", o, TurnedBack(p, o.result),
                   IF p.dirty \/ p.replay THEN Reset(k, k.version, p.base) ELSE k, {})
  <2> DEFINE x == TurnedBack(p, o.result)
             l == IF p.dirty \/ p.replay THEN Reset(k, k.version, p.base) ELSE k
  <2>1. x \in PageTypes
    BY <1>0, PagesGoOn, Zenon
  <2>2. /\ x.asking = "none" /\ x.sending = "none" /\ x.phase = "reading" /\ x.repeat = p.repeat
        /\ x.base = p.base /\ x.sequence = p.sequence /\ x.dirty = FALSE
    BY <1>0, <1>1 DEF TurnedBack, PageTypes
  <2>3. Reset(k, k.version, p.base) \in KeptTypes
    BY <1>0, StoredIsKept DEF KeptTypes, PageTypes
  <2>4. /\ KeptSound(l, minted) /\ l.session = k.session /\ Last(l) = Last(k)
        /\ Carries(k, l, minted) /\ l \in KeptTypes
        /\ Retained(l.words) \/ (l = k /\ p.dirty = FALSE)
    <3>1. CASE p.dirty \/ p.replay
      <4>1. l = Reset(k, k.version, p.base)
        BY <3>1
      <4>2. LET y == Reset(k, k.version, p.base) IN
            /\ KeptSound(y, minted) /\ y.session = k.session /\ y.words = p.base
            /\ Last(y) = Last(k) /\ Carries(k, y, minted)
        BY <1>0, <1>2, ResetIsSound
      <4> QED
        BY <1>2, <2>3, <4>1, <4>2
    <3>2. CASE ~(p.dirty \/ p.replay)
      <4>1. l = k /\ p.dirty \in BOOLEAN
        BY <1>0, <3>2 DEF PageTypes
      <4> QED
        BY <1>0, <1>2, <3>2, <4>1
    <3> QED
      BY <3>1, <3>2
  <2>5. Becomes(w, "ask", o, x, l, {})
    BY <1>5
  <2> HIDE DEF x, l
  <2>6. PageSound(x, l) /\ x.phase # "none"
    BY <1>0, <1>1, <1>2, <2>2, <2>4 DEF PageSound, Waits, SavingPhases
  <2> QED
    BY <1>0, <1>1, <1>2, <2>1, <2>4, <2>5, <2>6, BecomesKeepsSound
<1> QED
  BY <1>3, <1>4, <1>5 DEF HearClaim

LEMMA HearRepeatKeepsSound ==
  ASSUME TypeInv, TypeInv', SoundInv, NEW w \in Windows, NEW o \in Outcomes(w, "ask"), HearRepeat(w, o)
  PROVE  SoundInv'
<1> DEFINE p == page[w]  old == kept[w]  k == Told(old, o)
           ended == [p EXCEPT !.asking = "none", !.dirty = TRUE]
<1>0. p \in PageTypes /\ Shape(p) /\ old \in KeptTypes /\ minted \in Nat
      /\ KeptSound(old, minted) /\ PageSound(p, old) /\ "ask" \in Pair
  BY OwnAreTyped, OwnAreSound DEF Pair
<1>1. p.asking = "repeat" /\ p.phase = "claiming" /\ p.sending = "none"
  <2>1. p.asking = "repeat"
    BY DEF HearRepeat
  <2> QED
    BY <1>0, <2>1 DEF Shape, SavingPhases
<1>2. old.session # 0 /\ Retained(p.base) /\ p.sequence = Last(old) /\ Awaits(page[w], "ask")
      /\ (p.repeat # NoText => p.sequence > 0)
  BY <1>0, <1>1 DEF PageSound, Awaits
<1>3. /\ o.sequence \in Nat
      /\ o.sequence > 0 =>
           /\ o.session = old.session /\ o.sequence = Last(old)
           /\ o.result = "ok" /\ Current(old) => Retained(old.words)
           /\ o.result = "ok" => Retained(p.repeat)
      /\ o.result = "ok" => o.sequence > 0
  BY <1>0, <1>1, HeardIsSound
<1>4. /\ KeptSound(k, minted) /\ k.session = old.session /\ k.words = old.words
      /\ Last(k) = Last(old) /\ Carries(old, k, minted) /\ k \in KeptTypes
  <2>1. o.sequence <= Last(old) \/ o.sequence = 0
    BY <1>0, <1>3, LastIsANumber
  <2> QED
    BY <1>0, <1>2, <1>3, <2>1, ToldIsSound, ToldIsKept
<1> HIDE DEF k
<1>5. CASE o.result = "ok" /\ Becomes(w, "ask", o, Started(p), k, {})
  <2> DEFINE x == Started(p)
  <2>1. x \in PageTypes
    BY <1>0, PagesGoOn, Zenon
  <2>2. /\ x.asking = "none" /\ x.sending = "none" /\ x.phase = "editing" /\ x.repeat = NoText
        /\ x.base = p.base /\ x.sequence = p.sequence /\ x.dirty = p.dirty
    BY <1>0, <1>1 DEF Started, PageTypes
  <2>3. p.dirty \/ Retained(k.words)
    BY <1>0, <1>1, <1>3, <1>4, <1>5 DEF PageSound, Waits
  <2> HIDE DEF x
  <2>4. PageSound(x, k) /\ x.phase # "none"
    BY <1>2, <1>4, <2>2, <2>3, StoppedIsSound DEF SavingPhases
  <2> QED
    BY <1>0, <1>1, <1>2, <1>4, <1>5, <2>1, <2>4, BecomesKeepsSound DEF x
<1>6. ASSUME NEW b \in BOOLEAN, Becomes(w, "ask", o, Lose(ended, b), k, {})
      PROVE  SoundInv'
  <2> DEFINE x == Lose(ended, b)
  <2>1. ended \in PageTypes
    BY <1>0, Zenon DEF PageTypes, Askings
  <2>2. x \in PageTypes
    BY <2>1, PagesStop, Zenon
  <2>3. /\ ended.asking = "none" /\ ended.sending = "none" /\ ended.dirty = TRUE /\ ended.base = p.base
        /\ ended.sequence = p.sequence /\ ended.repeat = p.repeat
    BY <1>0, <1>1 DEF PageTypes
  <2>4. /\ x.asking = "none" /\ x.sending = "none" /\ x.phase = "lost" /\ x.dirty = TRUE
        /\ x.base = p.base /\ x.sequence = p.sequence /\ x.repeat = p.repeat
    <3> HIDE DEF ended
    <3> QED
      BY <2>1, <2>3 DEF Lose, Stopped, PageTypes
  <2> HIDE DEF x
  <2>5. PageSound(x, k) /\ x.phase # "none"
    BY <1>2, <1>4, <2>4, StoppedIsSound
  <2> QED
    BY <1>0, <1>1, <1>2, <1>4, <1>6, <2>2, <2>5, BecomesKeepsSound DEF x
<1> QED
  BY <1>5, <1>6, (o.result \notin Refusals) \in BOOLEAN DEF HearRepeat, k

LEMMA HearFinishKeepsSound ==
  ASSUME TypeInv, TypeInv', SoundInv, NEW w \in Windows, NEW o \in Outcomes(w, "ask"),
         HearCut(w, o) \/ HearFinishReclaim(w, o)
  PROVE  SoundInv'
<1> DEFINE p == page[w]  k == kept[w]
           ended == [p EXCEPT !.asking = "none"]
           done == [ended EXCEPT !.base = IF o.version # k.version THEN k.words ELSE @]
<1>0. p \in PageTypes /\ Shape(p) /\ k \in KeptTypes /\ minted \in Nat
      /\ KeptSound(k, minted) /\ PageSound(p, k) /\ "ask" \in Pair
  BY OwnAreTyped, OwnAreSound DEF Pair
<1>1. /\ p.asking \in {"request", "reclaim", "again"} /\ p.phase \in {"cutting", "releasing"}
      /\ p.sending = "none"
  <2>1. p.asking \in {"request", "reclaim", "again"} /\ p.phase \in Phases
    BY <1>0 DEF HearCut, HearFinishReclaim, PageTypes
  <2> QED
    BY <1>0, <2>1 DEF Shape, SavingPhases, Phases
<1>2. /\ k.session # 0 /\ k.session <= minted /\ Retained(p.base) /\ p.sequence = Last(k)
      /\ p.repeat = NoText /\ p.dirty = FALSE /\ Awaits(page[w], "ask") /\ Carries(k, k, minted)
      /\ p.phase # "none"
  <2>1. p.dirty \in BOOLEAN
    BY <1>0 DEF PageTypes
  <2> QED
    BY <1>0, <1>1, <2>1 DEF PageSound, KeptSound, Awaits, Carries, SavingPhases
<1>3. Retained(k.words)
  BY <1>0, <1>1, <1>2 DEF PageSound, Waits
<1>4. ended \in PageTypes
  BY <1>0, Zenon DEF PageTypes, Askings
<1>5. /\ ended.asking = "none" /\ ended.sending = "none" /\ ended.base = p.base /\ ended.dirty = FALSE
      /\ ended.sequence = p.sequence /\ ended.repeat = NoText /\ ended.phase = p.phase
  BY <1>0, <1>1, <1>2 DEF PageTypes
<1>6. done \in PageTypes
  <2>1. (IF o.version # k.version THEN k.words ELSE ended.base) \in Nat
    BY <1>0, <1>4 DEF KeptTypes, PageTypes
  <2> HIDE DEF ended
  <2> QED
    BY <1>4, <2>1, Zenon DEF PageTypes
<1>7. /\ done.asking = "none" /\ done.sending = "none" /\ done.dirty = FALSE /\ Retained(done.base)
      /\ done.sequence = p.sequence /\ done.repeat = NoText
  <2> HIDE DEF ended
  <2>1. done.base \in {k.words, ended.base}
    BY <1>4 DEF PageTypes
  <2>2. Retained(done.base)
    BY <1>2, <1>3, <1>5, <2>1
  <2> QED
    BY <1>4, <1>5, <2>2 DEF PageTypes
<1>8. ASSUME NEW l, l = k \/ (o.result = "ok" /\ l = Reset(k, o.version, k.words))
      PROVE  /\ l \in KeptTypes /\ KeptSound(l, minted) /\ l.session # 0 /\ Retained(l.words)
             /\ Last(l) = Last(k) /\ Carries(k, l, minted)
  <2>1. CASE l = k
    BY <1>0, <1>2, <1>3, <2>1
  <2>2. CASE o.result = "ok" /\ l = Reset(k, o.version, k.words)
    <3>1. o.version \in Nat \ {0}
      BY <1>0, <2>2, OutcomesAreOf
    <3>2. l \in KeptTypes
      BY <1>0, <2>2, <3>1, StoredIsKept DEF KeptTypes
    <3> QED
      BY <1>0, <1>2, <1>3, <2>2, <3>2, ResetIsSound
  <2> QED
    BY <1>8, <2>1, <2>2
<1> HIDE DEF ended, done
(* Where nothing more goes out. *)
<1>9. ASSUME NEW x \in PageTypes, x.asking = "none", x.sending = "none", x.dirty = FALSE,
             Retained(x.base), x.sequence = p.sequence, x.repeat = NoText, x.phase # "none",
             x.phase = "lost" => x.behind = FALSE,
             NEW l, l = k \/ (o.result = "ok" /\ l = Reset(k, o.version, k.words)),
             Becomes(w, "ask", o, x, l, {})
      PROVE  SoundInv'
  <2>1. /\ l \in KeptTypes /\ KeptSound(l, minted) /\ l.session # 0 /\ Retained(l.words)
        /\ Last(l) = Last(k) /\ Carries(k, l, minted)
    BY <1>8, <1>9
  <2>2. PageSound(x, l)
    BY <1>2, <1>9, <2>1, SavedPageIsSound
  <2> QED
    BY <1>0, <1>2, <1>9, <2>1, <2>2, BecomesKeepsSound
<1>10. ASSUME NEW q \in {ended, done}, NEW phase \in {"editing", "reading"},
              NEW l, l = k \/ (o.result = "ok" /\ l = Reset(k, o.version, k.words)),
              Becomes(w, "ask", o, [q EXCEPT !.phase = phase], l, {})
       PROVE  SoundInv'
  <2> DEFINE x == [q EXCEPT !.phase = phase]
  <2>1. q \in PageTypes /\ phase \in Phases
    BY <1>4, <1>6 DEF Phases
  <2>2. x \in PageTypes
    BY <2>1, Zenon DEF PageTypes
  <2>3. /\ x.asking = q.asking /\ x.sending = q.sending /\ x.dirty = q.dirty /\ x.base = q.base
        /\ x.sequence = q.sequence /\ x.repeat = q.repeat /\ x.phase = phase
    BY <2>1 DEF PageTypes
  <2>4. Becomes(w, "ask", o, x, l, {})
    BY <1>10
  <2> HIDE DEF x
  <2>5. /\ x.asking = "none" /\ x.sending = "none" /\ x.dirty = FALSE /\ Retained(x.base)
        /\ x.sequence = p.sequence /\ x.repeat = NoText /\ x.phase # "none" /\ x.phase # "lost"
    BY <1>2, <1>5, <1>7, <2>3
  <2> QED
    BY <1>9, <1>10, <2>2, <2>4, <2>5
<1>11. ASSUME Becomes(w, "ask", o, RefusedOrLost(ended, o.result), k, {})
       PROVE  SoundInv'
  <2> DEFINE x == RefusedOrLost(ended, o.result)
  <2>1. x \in PageTypes
    BY <1>4, PagesStop, Zenon
  <2>2. /\ x.asking = "none" /\ x.sending = "none" /\ x.dirty = ended.dirty /\ x.base = ended.base
        /\ x.sequence = ended.sequence /\ x.repeat = ended.repeat /\ x.phase \in {"lost", "editing"}
        /\ x.phase = "lost" => x.behind = FALSE
    BY <1>4, <1>5 DEF RefusedOrLost, Refuse, Lose, Stopped, PageTypes
  <2> HIDE DEF x
  <2>3. Retained(x.base) /\ x.dirty = FALSE /\ x.sequence = p.sequence /\ x.repeat = NoText /\ x.phase # "none"
    BY <1>2, <1>5, <2>2
  <2> QED
    BY <1>9, <1>11, <2>1, <2>2, <2>3 DEF x
<1>12. ASSUME NEW asking \in {"reclaim", "again"}, NEW r, r.by = w, r.chain = "ask",
              r.session = k.session, r.sequence = 0, r.then = {}, r.kind # "save",
              Becomes(w, "ask", o, [p EXCEPT !.asking = asking], k, {r})
       PROVE  SoundInv'
  <2> DEFINE x == [p EXCEPT !.asking = asking]
  <2>1. x \in PageTypes
    BY <1>0, asking \in Askings, Zenon DEF PageTypes, Askings
  <2>2. /\ x.asking = asking /\ x.sending = "none" /\ x.phase = p.phase /\ x.dirty = FALSE
        /\ x.base = p.base /\ x.sequence = p.sequence /\ x.repeat = NoText
    BY <1>0, <1>1, <1>2 DEF PageTypes
  <2>3. Becomes(w, "ask", o, x, k, {r})
    BY <1>12
  <2> HIDE DEF x
  <2>4. PageSound(x, k) /\ x.phase # "none" /\ x.asking # "repeat"
    BY <1>1, <1>2, <1>3, <2>2, SavedPageIsSound
  <2>5. RequestSound(w, x, k, minted, r)
    BY <1>0, <1>2, <1>12, <2>4, NoSaveIsSound
  <2>6. \A s \in {r} : s.by = w /\ RequestSound(w, x, k, minted, s)
    BY <1>12, <2>5
  <2> QED
    BY <1>0, <1>2, <2>1, <2>3, <2>4, <2>6, BecomesKeepsSound
<1>13. ASSUME NEW r, r = ClaimCall(w, "ask", k, FALSE) \/ r = CutCall(w, p, k)
       PROVE  /\ r.by = w /\ r.chain = "ask" /\ r.session = k.session /\ r.sequence = 0 /\ r.then = {}
              /\ r.kind # "save"
  BY <1>13 DEF ClaimCall, CutCall, Call
<1>14. CASE HearCut(w, o)
  <2>1. ASSUME o.result = "ok", p.phase = "cutting",
               Becomes(w, "ask", o, [done EXCEPT !.phase = "editing"],
                       IF o.version # k.version THEN Reset(k, o.version, k.words) ELSE k, {})
        PROVE  SoundInv'
    <3> DEFINE l == IF o.version # k.version THEN Reset(k, o.version, k.words) ELSE k
    <3>1. l = k \/ (o.result = "ok" /\ l = Reset(k, o.version, k.words))
      BY <2>1
    <3>2. Becomes(w, "ask", o, [done EXCEPT !.phase = "editing"], l, {})
      BY <2>1
    <3> HIDE DEF l
    <3> QED
      BY <1>10, <3>1, <3>2
  <2>2. ASSUME o.result = "ok",
               Becomes(w, "ask", o, [done EXCEPT !.phase = "reading"], Reset(k, o.version, k.words), {})
        PROVE  SoundInv'
    BY <1>10, <2>2
  <2>3. ASSUME Becomes(w, "ask", o, [p EXCEPT !.asking = "reclaim"], k, {ClaimCall(w, "ask", k, FALSE)})
        PROVE  SoundInv'
    BY <1>12, <1>13, <2>3
  <2>4. ASSUME Becomes(w, "ask", o, [ended EXCEPT !.phase = "editing"], k, {})
        PROVE  SoundInv'
    BY <1>10, <2>4
  <2> QED
    BY <1>11, <1>14, <2>1, <2>2, <2>3, <2>4 DEF HearCut, ended, done
<1>15. CASE HearFinishReclaim(w, o)
  <2>1. ASSUME Becomes(w, "ask", o, [p EXCEPT !.asking = "again"], k, {CutCall(w, p, k)})
        PROVE  SoundInv'
    BY <1>12, <1>13, <2>1
  <2> QED
    BY <1>11, <1>15, <2>1 DEF HearFinishReclaim, ended
<1> QED
  BY <1>14, <1>15

(* A page opens with nothing of its window's left to hear or to follow. *)
LEMMA NothingIsLeft ==
  ASSUME TypeInv, SoundInv, NEW w \in Windows, page[w].phase = "none",
         \A c \in Calls(w, "gone") \cup Answers(w, "gone") : c.then = {}
  PROVE  \A c \in Listened(w) \cup Due(w) : c.then = {} /\ c.chain \notin Pair
<1>1. Shape(page[w])
  BY OwnAreTyped
<1>2. \A c \in Pair : Calls(w, c) = {} /\ Answers(w, c) = {}
  <2>1. \A c \in Pair : ~Awaits(page[w], c)
    BY <1>1 DEF Pair, Awaits, Shape, SavingPhases
  <2> QED
    BY <2>1 DEF TypeInv, OneOut
<1>3. \A r \in Listened(w) : r.chain = "gone"
  <2>1. \A r \in Listened(w) : r.chain \in Chains
    BY DEF Listened, TypeInv, NetworkTypes, RequestTypes, CallTypes
  <2> QED
    BY <1>2, <2>1 DEF Listened, Calls, Pair, Chains
<1>4. \A a \in Due(w) : a.chain = "gone"
  <2>1. \A a \in Due(w) : a.chain \in Chains /\ a.chain # "deaf"
    BY OwnAreSound DEF AnswerSound, AnswerTypes
  <2> QED
    BY <1>2, <2>1 DEF Due, Answers, Pair, Chains
<1> QED
  BY <1>3, <1>4 DEF Listened, Due, Calls, Answers, Pair

LEMMA LastSentIsLast ==
  ASSUME NEW k \in KeptTypes, NEW m, KeptSound(k, m)
  PROVE  LET last == LastSent(k) IN
         /\ last.sequence = Last(k) /\ last.current = Current(k)
         /\ Current(k) /\ last.words # NoText => last.words = k.words
         /\ k.changed /\ Current(k) => Last(k) > 0
  BY DEF LastSent, Last, Current, KeptSound, KeptTypes

(* What a page goes on from, when it is not behind: under the last number, *)
(* and either unsent, or kept, or to be sent again.                        *)
LEMMA ContinuingIsSound ==
  ASSUME NEW k \in KeptTypes, NEW m, KeptSound(k, m), k.changed, NEW n \in Nat, ~Continuing(k, n).ahead
  PROVE  LET going == Continuing(k, n) IN
         /\ going.sequence = Last(k)
         /\ going.repeat # NoText => Last(k) > 0
         /\ going.repeat # NoText /\ Current(k) => going.repeat = k.words
         /\ ~going.unsent => Retained(k.words) \/ (going.repeat # NoText /\ going.repeat = k.words)
<1> DEFINE last == LastSent(k)
           told == k.answered > 0 /\ k.answered = last.sequence
           repeat == /\ n > 0 /\ n = last.sequence
                     /\ k.answered < last.sequence /\ last.words # NoText
<1>1. /\ last.sequence = Last(k) /\ last.current = Current(k)
      /\ Current(k) /\ last.words # NoText => last.words = k.words
      /\ k.changed /\ Current(k) => Last(k) > 0
  BY LastSentIsLast
<1>2. Last(k) \in Nat /\ Current(k) \in BOOLEAN
  BY LastIsANumber
<1> HIDE DEF last
<1>3. /\ Continuing(k, n).sequence = IF last.sequence > n THEN last.sequence ELSE n
      /\ Continuing(k, n).unsent = (~last.current \/ n # last.sequence)
      /\ Continuing(k, n).repeat = IF repeat THEN last.words ELSE NoText
      /\ ~(n > last.sequence) /\ ~(n > 0 /\ n = last.sequence /\ ~(told /\ k.accepted) /\ ~repeat)
  BY DEF Continuing, last
<1>4. KeptSound(k, m)!7
  BY DEF KeptSound
<1>5. ~Continuing(k, n).unsent => Retained(k.words) \/ (repeat /\ last.words = k.words)
  BY <1>1, <1>2, <1>3, <1>4
<1> QED
  BY <1>1, <1>2, <1>3, <1>5

LEMMA OpenReplayingKeepsSound ==
  ASSUME TypeInv, TypeInv', SoundInv, NEW w \in Windows, OpenReplaying(w),
         \A c \in Calls(w, "gone") \cup Answers(w, "gone") : c.then = {}
  PROVE  SoundInv'
<1> DEFINE k == kept[w]  going == Continuing(k, Latest(k.session))
           opened == [NoPage EXCEPT !.sequence = going.sequence, !.base = versions[HeadNo]]
<1>0. k \in KeptTypes /\ minted \in Nat /\ KeptSound(k, minted)
  BY OwnAreTyped, OwnAreSound
<1>1. page[w].phase = "none" /\ k.session # 0 /\ k.changed /\ k.session <= minted
  BY <1>0 DEF OpenReplaying, Replays, KeptSound
<1>2. minted' = minted /\ Carries(k, k, minted) /\ KeptSound(k, minted') /\ minted <= minted'
  <2>1. minted' = minted
    BY DEF OpenReplaying, bounds
  <2> QED
    BY <1>0, <2>1 DEF Carries
<1>3. \A c \in Listened(w) \cup Due(w) : c.then = {} /\ c.chain \notin Pair
  BY <1>1, NothingIsLeft
<1>4. HeadNo \in Nat \ {0} /\ versions[HeadNo] \in Nat /\ Retained(versions[HeadNo])
  <2>1. HeadNo \in Nat \ {0} /\ versions[HeadNo] \in Nat
    BY VersionsAreTexts
  <2> QED
    BY <2>1 DEF Retained
<1>5. Latest(k.session) \in Nat
  BY <1>0, LatestIsLatest DEF KeptTypes
<1>6. /\ going.sequence \in Nat /\ going.unsent \in BOOLEAN /\ going.ahead \in BOOLEAN
      /\ going.repeat \in Nat \cup {NoText}
  BY <1>0, <1>5, ContinuingIsOf
<1>7. NoPage \in PageTypes /\ NoPage.sending = "none" /\ NoPage.asking = "none" /\ NoPage.repeat = NoText
  BY NoPageIsAPage DEF NoPage, Pages
<1>8. ~going.ahead =>
        /\ going.sequence = Last(k)
        /\ going.repeat # NoText => Last(k) > 0
        /\ going.repeat # NoText /\ Current(k) => going.repeat = k.words
        /\ ~going.unsent => Retained(k.words) \/ (going.repeat # NoText /\ going.repeat = k.words)
  BY <1>0, <1>1, <1>5, ContinuingIsSound
<1> HIDE DEF going
<1>9. opened \in PageTypes
  BY <1>4, <1>6, <1>7, Zenon DEF PageTypes
<1>10. /\ opened.sending = "none" /\ opened.asking = "none" /\ opened.repeat = NoText
       /\ opened.base = versions[HeadNo] /\ opened.sequence = going.sequence
  BY <1>7 DEF PageTypes
<1> HIDE DEF opened
<1>11. ASSUME Does(w, Lose([opened EXCEPT !.dirty = TRUE], TRUE), k, {})
       PROVE  SoundInv'
  <2> DEFINE q == [opened EXCEPT !.dirty = TRUE]  x == Lose(q, TRUE)
  <2>1. q \in PageTypes
    BY <1>9, Zenon DEF PageTypes
  <2>2. /\ q.sending = "none" /\ q.asking = "none" /\ q.dirty = TRUE /\ q.repeat = NoText
        /\ q.base = versions[HeadNo]
    BY <1>9, <1>10 DEF PageTypes
  <2> HIDE DEF q
  <2>3. x \in PageTypes
    BY <2>1, PagesStop, Zenon
  <2>4. /\ x.phase = "lost" /\ x.asking = "none" /\ x.sending = "none" /\ x.dirty = TRUE
        /\ x.repeat = NoText /\ x.base = versions[HeadNo]
    BY <2>1, <2>2 DEF PageTypes, Lose, Stopped
  <2>5. Does(w, x, k, {})
    BY <1>11 DEF q
  <2> HIDE DEF x
  <2>6. PageSound(x, k) /\ x.phase # "none"
    BY <1>1, <1>4, <2>4, StoppedIsSound
  <2> QED
    BY <1>0, <1>1, <1>2, <1>3, <2>3, <2>5, <2>6, DoesKeepsSound
<1>12. ASSUME ~going.ahead, NEW save \in {"saving", "saved"},
              Does(w, [Claiming(opened) EXCEPT !.dirty = going.unsent, !.repeat = going.repeat,
                         !.replay = TRUE, !.save = save],
                   k, {ClaimCall(w, "ask", k, FALSE)})
       PROVE  SoundInv'
  <2> DEFINE q == Claiming(opened)  r == ClaimCall(w, "ask", k, FALSE)
             x == [q EXCEPT !.dirty = going.unsent, !.repeat = going.repeat,
                            !.replay = TRUE, !.save = save]
  <2>1. q \in PageTypes
    BY <1>9, PagesGoOn, Zenon
  <2>2. /\ q.sending = "none" /\ q.asking = "claim" /\ q.phase = "claiming"
        /\ q.base = versions[HeadNo] /\ q.sequence = going.sequence
    BY <1>9, <1>10 DEF Claiming, PageTypes
  <2>3. /\ r.by = w /\ r.chain = "ask" /\ r.session = k.session /\ r.sequence = 0 /\ r.then = {}
        /\ r.kind # "save"
    BY DEF ClaimCall, Call
  <2>4. Does(w, x, k, {r})
    BY <1>12
  <2> HIDE DEF q, r
  <2>5. x \in PageTypes
    BY <1>6, <2>1, Zenon DEF PageTypes
  <2>6. /\ x.sending = "none" /\ x.asking = "claim" /\ x.phase = "claiming" /\ x.dirty = going.unsent
        /\ x.base = versions[HeadNo] /\ x.sequence = going.sequence /\ x.repeat = going.repeat
    BY <2>1, <2>2 DEF PageTypes
  <2> HIDE DEF x
  <2>7. PageSound(x, k) /\ x.phase # "none"
    BY <1>1, <1>4, <1>8, <1>12, <2>6 DEF PageSound, Waits, SavingPhases
  <2>8. RequestSound(w, x, k, minted, r)
    BY <1>0, <1>1, <2>3, <2>6, NoSaveIsSound DEF Pair
  <2>9. \A s \in {r} : s.by = w /\ RequestSound(w, x, k, minted', s)
    BY <1>2, <2>3, <2>8
  <2> QED
    BY <1>0, <1>1, <1>2, <1>3, <2>4, <2>5, <2>7, <2>9, DoesKeepsSound
<1>13. \/ Does(w, Lose([opened EXCEPT !.dirty = TRUE], TRUE), k, {})
       \/ /\ ~going.ahead
          /\ Does(w, [Claiming(opened) EXCEPT !.dirty = going.unsent, !.repeat = going.repeat,
                        !.replay = TRUE,
                        !.save = IF going.unsent \/ going.repeat # NoText THEN "saving" ELSE "saved"],
                  k, {ClaimCall(w, "ask", k, FALSE)})
  BY Zenon DEF OpenReplaying, opened, going
<1>14. (IF going.unsent \/ going.repeat # NoText THEN "saving" ELSE "saved") \in {"saving", "saved"}
  BY Zenon
<1> QED
  BY <1>11, <1>12, <1>13, <1>14, Zenon

LEMMA OpenAfreshKeepsSound ==
  ASSUME TypeInv, TypeInv', SoundInv, NEW w \in Windows, OpenAfresh(w),
         \A c \in Calls(w, "gone") \cup Answers(w, "gone") : c.then = {}
  PROVE  SoundInv'
<1> DEFINE k == kept[w]  mine == k.session # 0 /\ lock = k.session
           n == IF Latest(k.session) > k.later THEN Latest(k.session) ELSE k.later
           cleared == Reset(k, HeadNo, versions[HeadNo])
           fresh == FreshSession(k, minted + 1)
           begun == Reset(fresh, HeadNo, versions[HeadNo])
           same == [cleared EXCEPT !.sent = n]
           new == [begun EXCEPT !.sent = 0]
           x == [NoPage EXCEPT !.phase = "reading", !.base = versions[HeadNo],
                               !.sequence = IF mine THEN n ELSE 0]
           l == IF mine THEN same ELSE new
<1>0. k \in KeptTypes /\ minted \in Nat /\ KeptSound(k, minted) /\ minted + 1 \in Nat
  BY OwnAreTyped, OwnAreSound
<1>1. page[w].phase = "none" /\ Does(w, x, l, {}) /\ minted' = IF mine THEN minted ELSE minted + 1
  BY DEF OpenAfresh
<1>2. \A c \in Listened(w) \cup Due(w) : c.then = {} /\ c.chain \notin Pair
  BY <1>1, NothingIsLeft
<1>3. HeadNo \in Nat \ {0} /\ versions[HeadNo] \in Nat /\ Retained(versions[HeadNo])
  <2>1. HeadNo \in Nat \ {0} /\ versions[HeadNo] \in Nat
    BY VersionsAreTexts
  <2> QED
    BY <2>1 DEF Retained
<1>4. /\ Latest(k.session) \in Nat /\ \A i \in IterationsOf(k.session) : i.sequence <= Latest(k.session)
      /\ Latest(k.session) # 0 => \E i \in IterationsOf(k.session) : i.sequence = Latest(k.session)
      /\ k.session \in Nat /\ k.later \in Nat /\ k.sent \in Nat /\ k.answered \in Nat
  <2>1. k.session \in Nat /\ k.later \in Nat /\ k.sent \in Nat /\ k.answered \in Nat
    BY <1>0 DEF KeptTypes
  <2> QED
    BY <2>1, LatestIsLatest
<1>5. n \in Nat /\ n >= k.later /\ n >= Latest(k.session)
      /\ (n <= k.later \/ \E i \in IterationsOf(k.session) : i.sequence = n)
  BY <1>4
<1> HIDE DEF n
<1>6. \A i \in IterationsOf(k.session) : i \in iterations /\ i.session = k.session /\ i.sequence \in Nat
  BY DEF IterationsOf, TypeInv, ServerTypes, IterationTypes
<1>7. n >= Last(k)
  <2>1. \/ k.sent <= k.later
        \/ \E i \in IterationsOf(k.session) : i.sequence >= k.sent
    BY <1>0 DEF KeptSound, IterationsOf
  <2>2. n >= k.sent
    BY <1>4, <1>5, <1>6, <2>1
  <2> QED
    BY <1>5, <2>2 DEF Last
<1>8. ASSUME mine
      PROVE  /\ same \in KeptTypes /\ KeptSound(same, minted) /\ same.session = k.session /\ same.session # 0
             /\ Last(same) = n /\ Carries(k, same, minted) /\ Retained(same.words)
  <2>1. cleared \in KeptTypes
    BY <1>0, <1>3, StoredIsKept
  <2>2. /\ cleared.session = k.session /\ cleared.words = versions[HeadNo] /\ cleared.changed = FALSE
        /\ cleared.sentWords = NoText /\ cleared.later = k.later /\ cleared.answered = k.answered
        /\ cleared.unsent = FALSE /\ cleared.laterCurrent = FALSE
    BY <1>0 DEF Reset, KeptTypes
  <2> HIDE DEF cleared
  <2>3. same \in KeptTypes
    BY <1>5, <2>1, Zenon DEF KeptTypes
  <2>4. /\ same.session = k.session /\ same.words = versions[HeadNo] /\ same.changed = FALSE
        /\ same.sentWords = NoText /\ same.later = k.later /\ same.answered = k.answered /\ same.sent = n
    BY <2>1, <2>2 DEF KeptTypes
  <2> HIDE DEF same
  <2>5. Last(same) = n
    BY <1>4, <1>5, <2>4 DEF Last
  <2>6. k.answered <= n
    BY <1>0, <1>4, <1>5, <1>7, LastIsANumber DEF KeptSound
  <2>7. same.sent <= same.later \/ \E i \in iterations : i.session = same.session /\ i.sequence >= same.sent
    BY <1>5, <1>6, <2>4
  <2>8. KeptSound(same, minted)
    BY <1>0, <1>3, <1>8, <2>4, <2>5, <2>6, <2>7 DEF KeptSound
  <2>9. Carries(k, same, minted)
    <3>1. Last(k) \in Nat
      BY <1>0, LastIsANumber
    <3> QED
      BY <1>3, <1>5, <1>7, <2>4, <2>5, <3>1 DEF Carries
  <2> QED
    BY <1>3, <1>8, <2>3, <2>4, <2>5, <2>8, <2>9
<1>9. /\ new \in KeptTypes /\ KeptSound(new, minted + 1) /\ new.session = minted + 1
      /\ Last(new) = 0 /\ Carries(k, new, minted) /\ Retained(new.words)
  <2>1. fresh \in KeptTypes
    BY <1>0, StoredIsKept
  <2>2. KeptSound(fresh, minted + 1) /\ fresh.session = minted + 1 /\ Last(fresh) = 0 /\ fresh.sent = 0
    <3>1. fresh.sent = 0
      BY <1>0 DEF FreshSession, KeptTypes
    <3> QED
      BY <1>0, <3>1, FreshIsSound
  <2> HIDE DEF fresh
  <2>3. begun \in KeptTypes
    BY <1>3, <2>1, StoredIsKept
  <2>4. fresh.session # 0
    BY <1>0, <2>2
  <2>5. /\ KeptSound(begun, minted + 1) /\ begun.session = fresh.session /\ begun.words = versions[HeadNo]
        /\ Last(begun) = Last(fresh)
    BY <1>3, <2>1, <2>2, <2>4, ResetIsSound
  <2>6. begun.sent = 0
    BY <2>1, <2>2 DEF Reset, KeptTypes
  <2> HIDE DEF begun
  <2>7. new = begun
    BY <2>3, <2>6 DEF KeptTypes
  <2> QED
    BY <1>0, <1>3, <2>2, <2>3, <2>5, <2>7 DEF Carries
<1> HIDE DEF same, new
<1>10. /\ l \in KeptTypes /\ KeptSound(l, minted') /\ l.session # 0 /\ Carries(k, l, minted)
       /\ Last(l) = (IF mine THEN n ELSE 0) /\ Retained(l.words) /\ minted <= minted'
  <2>1. CASE mine
    BY <1>0, <1>1, <1>8, <2>1
  <2>2. CASE ~mine
    BY <1>0, <1>1, <1>9, <2>2
  <2> QED
    BY <2>1, <2>2
<1>11. (IF mine THEN n ELSE 0) \in Nat
  BY <1>5
<1>12. NoPage \in PageTypes /\ NoPage.sending = "none" /\ NoPage.asking = "none" /\ NoPage.repeat = NoText
       /\ NoPage.dirty = FALSE
  BY NoPageIsAPage DEF NoPage, Pages
<1>13. x \in PageTypes
  BY <1>3, <1>11, <1>12, Zenon DEF PageTypes, Phases
<1>14. /\ x.phase = "reading" /\ x.asking = "none" /\ x.sending = "none" /\ x.repeat = NoText
       /\ x.dirty = FALSE /\ x.base = versions[HeadNo] /\ x.sequence = IF mine THEN n ELSE 0
  BY <1>12 DEF PageTypes
<1> HIDE DEF x, l
<1>15. PageSound(x, l) /\ x.phase # "none"
  BY <1>3, <1>10, <1>14, SavedPageIsSound
<1> QED
  BY <1>0, <1>1, <1>2, <1>10, <1>13, <1>15, DoesKeepsSound

LEMMA OpenKeepsSound ==
  ASSUME TypeInv, TypeInv', SoundInv, ~ReopensEarly, NEW w \in Windows, Open(w)
  PROVE  SoundInv'
  BY OpenReplayingKeepsSound, OpenAfreshKeepsSound DEF Open

(* Where there is no page there is nothing to show. *)
LEMMA NoPageIsSound ==
  ASSUME NEW p, NEW k, p.phase = "none", p.sending = "none", p.asking = "none", p.repeat = NoText
  PROVE  PageSound(p, k)
  BY DEF PageSound, Waits, SavingPhases

LEMMA GonePageStaysSound ==
  ASSUME NEW p, Shape(p), p.phase = "none", NEW k, PageSound(p, k), NEW l
  PROVE  PageSound(p, l)
  BY DEF PageSound, Waits, Shape, SavingPhases

LEMMA NoPageIsEmpty ==
  /\ NoPage \in PageTypes /\ NoPage.phase = "none" /\ NoPage.sending = "none"
  /\ NoPage.asking = "none" /\ NoPage.repeat = NoText
  BY NoPageIsAPage DEF NoPage, Pages

(* A call left behind: heard for what it answers, and followed, once, by a *)
(* save of the text as the window keeps it.                                *)
FollowsOn(w, x, l, c, behind) ==
  \A r \in behind :
    /\ x.phase = "none" /\ r.by = w /\ r.kind = "save"
    /\ c.session = l.session /\ r.session = l.session
    /\ r.words = l.words /\ r.sequence >= Last(l) /\ r.sequence > 0
    /\ \A s \in behind : s = r

LEMMA LeftIsSound ==
  ASSUME NEW w \in Windows, NEW p \in PageTypes, NEW x \in PageTypes,
         NEW k \in KeptTypes, NEW l \in KeptTypes, NEW m \in Nat,
         l.session # 0, Carries(k, l, m), NEW behind \in Waiting
  PROVE  /\ \A c \in RequestTypes :
              RequestSound(w, p, k, m, c) /\ c.then = {} /\ FollowsOn(w, x, l, c, behind)
              => RequestSound(w, x, l, m, [c EXCEPT !.chain = "gone", !.then = behind])
         /\ \A a \in AnswerTypes :
              AnswerSound(w, p, k, m, a) /\ a.then = {} /\ FollowsOn(w, x, l, a, behind)
              => AnswerSound(w, x, l, m, [a EXCEPT !.chain = "gone", !.then = behind])
<1>0. "gone" \in Chains /\ "gone" \notin Pair /\ {} \in Waiting
  BY DEF Chains, Pair, Waiting
<1>1. ASSUME NEW c \in RequestTypes, RequestSound(w, p, k, m, c), c.then = {},
             FollowsOn(w, x, l, c, behind)
      PROVE  RequestSound(w, x, l, m, [c EXCEPT !.chain = "gone", !.then = behind])
  <2> DEFINE d == [c EXCEPT !.chain = "gone", !.then = {}]
             e == [c EXCEPT !.chain = "gone", !.then = behind]
  <2>1. d \in RequestTypes /\ e \in RequestTypes
    BY <1>0, Zenon DEF RequestTypes, CallTypes
  <2>2. /\ d.session = c.session /\ d.sequence = c.sequence /\ d.kind = c.kind /\ d.words = c.words
        /\ d.chain = "gone" /\ d.then = {}
        /\ e.session = c.session /\ e.sequence = c.sequence /\ e.kind = c.kind /\ e.words = c.words
        /\ e.chain = "gone" /\ e.then = behind
    BY Zenon DEF RequestTypes, CallTypes
  <2> HIDE DEF d, e
  <2>3. RequestSound(w, p, k, m, d)
    BY <1>0, <1>1, <2>2 DEF RequestSound, CallSound, OfTheLast, Saves
  <2>4. RequestSound(w, x, l, m, d)
    <3>1. m <= m /\ d.chain \notin Pair
      BY <1>0, <2>2
    <3> QED
      BY <2>1, <2>2, <2>3, <3>1, CallsCarry
  <2>5. RequestSound(w, x, l, m, e)
    BY <1>0, <1>1, <2>2, <2>4 DEF RequestSound, CallSound, OfTheLast, Saves, FollowsOn
  <2> QED
    BY <2>5 DEF e
<1>2. ASSUME NEW c \in AnswerTypes, AnswerSound(w, p, k, m, c), c.then = {},
             FollowsOn(w, x, l, c, behind)
      PROVE  AnswerSound(w, x, l, m, [c EXCEPT !.chain = "gone", !.then = behind])
  <2> DEFINE d == [c EXCEPT !.chain = "gone", !.then = {}]
             e == [c EXCEPT !.chain = "gone", !.then = behind]
  <2>1. d \in AnswerTypes /\ e \in AnswerTypes
    BY <1>0, Zenon DEF AnswerTypes
  <2>2. /\ d.session = c.session /\ d.sequence = c.sequence /\ d.result = c.result
        /\ d.chain = "gone" /\ d.then = {}
        /\ e.session = c.session /\ e.sequence = c.sequence /\ e.result = c.result
        /\ e.chain = "gone" /\ e.then = behind
    BY Zenon DEF AnswerTypes
  <2> HIDE DEF d, e
  <2>3. AnswerSound(w, p, k, m, d)
    BY <1>0, <1>2, <2>2 DEF AnswerSound, CallSound, OfTheLast, Saves
  <2>4. AnswerSound(w, x, l, m, d)
    <3>1. m <= m /\ d.chain \notin Pair
      BY <1>0, <2>2
    <3> QED
      BY <2>1, <2>2, <2>3, <3>1, CallsCarry
  <2>5. AnswerSound(w, x, l, m, e)
    BY <1>0, <1>2, <2>2, <2>4 DEF AnswerSound, CallSound, OfTheLast, Saves, FollowsOn
  <2> QED
    BY <2>5 DEF e
<1> QED
  BY <1>1, <1>2

LEMMA LeaveKeepsSound ==
  ASSUME TypeInv, TypeInv', SoundInv, NEW w \in Windows, Leave(w)
  PROVE  SoundInv'
<1> DEFINE p == page[w]  k == kept[w]  n == p.sequence + 1
           last == p.dirty /\ p.repeat = NoText /\ p.phase \in SavingPhases \cup {"claiming"}
           save == SaveCall(w, "gone", k, n, k.words)
           told == {"send"} \cup IF p.asking = "repeat" THEN {"ask"} ELSE {}
           behind == IF last THEN {save} ELSE {}
           Left(c) ==
             IF c.by # w \/ c.chain \in {"gone", "deaf"} THEN c
             ELSE IF c.chain \in told
             THEN [c EXCEPT !.chain = "gone", !.then = behind]
             ELSE [c EXCEPT !.chain = "deaf"]
           now == last /\ p.sending = "none"
           l == IF now THEN Sent(k, n) ELSE k
<1>0. p \in PageTypes /\ Shape(p) /\ k \in KeptTypes /\ minted \in Nat /\ n \in Nat
      /\ KeptSound(k, minted) /\ PageSound(p, k)
  BY OwnAreTyped, OwnAreSound
<1>1. /\ requests' = {Left(r) : r \in requests} \cup (IF now THEN {save} ELSE {})
      /\ answers' = {a \in {Left(b) : b \in answers} : a.chain # "deaf"}
      /\ kept' = [kept EXCEPT ![w] = l]
      /\ page' = [page EXCEPT ![w] = NoPage]
      /\ UNCHANGED server /\ minted' = minted
      /\ p.phase # "none"
  BY DEF Leave
<1>2. k.session # 0 /\ k.session <= minted /\ minted' \in Nat /\ minted <= minted' /\ NetworkTypes'
  <2>1. p.phase # "none" /\ minted' = minted
    BY <1>1
  <2> QED
    BY <1>0, <2>1 DEF PageSound, KeptSound, TypeInv
<1>3. last => n = Last(k) + 1 /\ Last(k) \in Nat /\ p.asking # "repeat"
  BY <1>0, LastIsANumber DEF PageSound, SavingPhases
<1>4. /\ l \in KeptTypes /\ KeptSound(l, minted) /\ l.session = k.session /\ l.session # 0
      /\ l.words = k.words /\ Carries(k, l, minted)
      /\ now => Last(l) = n
      /\ ~now => l = k
  <2>1. CASE now
    <3>1. l = Sent(k, n)
      BY <2>1
    <3>2. Sent(k, n) \in KeptTypes
      BY <1>0, StoredIsKept
    <3>3. LET y == Sent(k, n) IN
          /\ KeptSound(y, minted) /\ y.session = k.session /\ y.words = k.words
          /\ Last(y) = n /\ Current(y) /\ Carries(k, y, minted)
      BY <1>0, <1>2, <1>3, <2>1, SentIsSound
    <3> QED
      BY <1>2, <2>1, <3>1, <3>2, <3>3
  <2>2. CASE ~now
    BY <1>0, <1>2, <2>2 DEF Carries
  <2> QED
    BY <2>1, <2>2
<1>5. /\ save.by = w /\ save.chain = "gone" /\ save.kind = "save" /\ save.session = k.session
      /\ save.sequence = n /\ save.words = k.words /\ save.then = {}
  BY DEF SaveCall, Call
<1>6. behind \in Waiting
  <2>1. k.words \in Nat /\ "gone" \in Chains
    BY <1>0 DEF KeptTypes, Chains
  <2>2. save \in PlainCalls
    BY <1>0, <2>1, CallsAreRequests
  <2> QED
    BY <2>2 DEF Waiting, PlainCalls
<1>7. behind # {} => last /\ behind = {save}
  OBVIOUS
<1>8. now => p.sending = "none"
  OBVIOUS
<1>9. p.sending # "none" => ~now
  OBVIOUS
<1>10. "ask" \in told => p.asking = "repeat"
  OBVIOUS
<1>11. told \subseteq Pair
  BY DEF Pair
<1>12. NoPage \in PageTypes /\ NoPage.phase = "none" /\ PageSound(NoPage, l)
  BY NoPageIsEmpty, NoPageIsSound
<1> HIDE DEF save, behind, l, now, last, told
<1>13. ASSUME NEW c, c \in Listened(w) \cup Due(w), c.chain \in told
       PROVE  /\ FollowsOn(w, NoPage, l, c, behind)
              /\ behind # {} => c.chain = "send"
  <2>1. CASE behind = {}
    BY <2>1 DEF FollowsOn
  <2>2. CASE behind # {}
    <3>1. last /\ behind = {save} /\ p.asking # "repeat" /\ c.chain = "send"
      BY <1>3, <1>7, <1>10, <1>11, <1>13, <2>2 DEF Pair
    <3>2. Awaits(page[w], "send")
      <4>1. "send" \in Pair
        BY DEF Pair
      <4>2. Calls(w, "send") # {} \/ Answers(w, "send") # {}
        BY <1>13, <3>1 DEF Listened, Due, Calls, Answers
      <4> QED
        BY <4>1, <4>2 DEF TypeInv, OneOut
    <3>3. l = k
      BY <1>4, <1>9, <3>2 DEF Awaits
    <3>4. c.session = k.session
      BY <1>13, <3>1, OwnAreSound DEF RequestSound, AnswerSound, CallSound, Pair
    <3> QED
      BY <1>3, <1>5, <1>12, <3>1, <3>3, <3>4 DEF FollowsOn
  <2> QED
    BY <2>1, <2>2
<1>14. \A c \in Listened(w) \cup Due(w) : c.then = {}
  BY <1>1, NothingFollows
<1>15. /\ \A r \in Listened(w) : r \in RequestTypes /\ RequestSound(w, p, k, minted, r)
       /\ \A a \in Due(w) : a \in AnswerTypes /\ AnswerSound(w, p, k, minted, a)
  BY OwnAreSound
<1>16. /\ \A c : c.by # w => Left(c) = c
       /\ \A c : c.by = w /\ c.chain \in {"gone", "deaf"} => Left(c) = c
       /\ \A c : c.by = w /\ c.chain \notin {"gone", "deaf"} /\ c.chain \in told =>
            Left(c) = [c EXCEPT !.chain = "gone", !.then = behind]
       /\ \A c : c.by = w /\ c.chain \notin {"gone", "deaf"} /\ c.chain \notin told =>
            Left(c) = [c EXCEPT !.chain = "deaf"]
  OBVIOUS
<1> HIDE DEF Left
<1>17. ASSUME NEW c, c \in requests \/ c \in answers
       PROVE  /\ c.by = w => Left(c).by = w
              /\ c.by # w => Left(c) = c
              /\ c.by = w /\ Left(c).chain # "deaf" =>
                   /\ c.chain # "deaf"
                   /\ \/ Left(c) = c /\ c.chain = "gone"
                      \/ c.chain \in told /\ Left(c) = [c EXCEPT !.chain = "gone", !.then = behind]
  <2>1. c \in RequestTypes \/ c \in AnswerTypes
    BY <1>17 DEF TypeInv, NetworkTypes
  <2>2. /\ [c EXCEPT !.chain = "gone", !.then = behind].by = c.by
        /\ [c EXCEPT !.chain = "deaf"].by = c.by /\ [c EXCEPT !.chain = "deaf"].chain = "deaf"
    <3>1. CASE c \in RequestTypes
      BY <3>1, Zenon DEF RequestTypes, CallTypes
    <3>2. CASE c \in AnswerTypes
      BY <3>2, Zenon DEF AnswerTypes
    <3> QED
      BY <2>1, <3>1, <3>2
  <2>3. c.chain = "deaf" => Left(c) = c \/ c.by # w
    BY <1>16
  <2> QED
    BY <1>16, <2>2, <2>3
<1>18. ASSUME NEW r \in Listened(w)'
       PROVE  /\ RequestSound(w, NoPage, l, minted', r)
              /\ r.then # {} => \E c \in Calls(w, "send") : r = [c EXCEPT !.chain = "gone", !.then = behind]
  <2>0. r \in requests' /\ r.by = w /\ r.chain # "deaf"
    BY DEF Listened
  <2>1. CASE now /\ r = save
    <3>1. /\ Last(l) = n /\ l.session <= minted /\ n > 0 /\ "gone" \notin Pair
      BY <1>2, <1>3, <1>4, <2>1 DEF Pair, now
    <3>2. Saves(r)
      BY <1>5, <2>1, <3>1 DEF Saves
    <3>3. CallSound(w, NoPage, l, minted, r)
      BY <1>0, <1>4, <1>5, <2>1, <3>1, <3>2 DEF CallSound
    <3> QED
      BY <1>1, <1>4, <1>5, <2>1, <3>1, <3>2, <3>3 DEF RequestSound
  <2>2. CASE \E c \in requests : r = Left(c)
    <3>1. PICK c \in requests : r = Left(c)
      BY <2>2
    <3>2. /\ c.by = w /\ c.chain # "deaf"
          /\ \/ r = c /\ c.chain = "gone"
             \/ c.chain \in told /\ r = [c EXCEPT !.chain = "gone", !.then = behind]
      BY <1>17, <2>0, <3>1
    <3>3. c \in Listened(w) /\ c \in RequestTypes /\ RequestSound(w, p, k, minted, c) /\ c.then = {}
      BY <1>14, <1>15, <3>1, <3>2 DEF Listened
    <3>4. CASE r = c /\ c.chain = "gone"
      <4>1. minted <= minted /\ c.chain \notin Pair
        BY <1>0, <3>4 DEF Pair
      <4> QED
        BY <1>0, <1>1, <1>4, <1>12, <3>3, <3>4, <4>1, CallsCarry
    <3>5. CASE c.chain \in told /\ r = [c EXCEPT !.chain = "gone", !.then = behind]
      <4>1. FollowsOn(w, NoPage, l, c, behind) /\ (behind # {} => c.chain = "send")
        BY <1>13, <3>3, <3>5
      <4>2. RequestSound(w, NoPage, l, minted, r)
        BY <1>0, <1>4, <1>6, <1>12, <3>3, <3>5, <4>1, LeftIsSound
      <4>3. r.then = behind
        BY <3>3, <3>5, Zenon DEF RequestTypes, CallTypes
      <4> QED
        BY <1>1, <3>1, <3>2, <3>5, <4>1, <4>2, <4>3 DEF Calls
    <3> QED
      BY <3>2, <3>4, <3>5
  <2> QED
    BY <1>1, <2>0, <2>1, <2>2
<1>19. ASSUME NEW a \in Due(w)'
       PROVE  /\ AnswerSound(w, NoPage, l, minted', a)
              /\ a.then # {} => \E c \in Answers(w, "send") : a = [c EXCEPT !.chain = "gone", !.then = behind]
  <2>0. a \in answers' /\ a.by = w
    BY DEF Due
  <2>1. PICK c \in answers : a = Left(c) /\ a.chain # "deaf"
    BY <1>1, <2>0
  <2>2. /\ c.by = w /\ c.chain # "deaf"
        /\ \/ a = c /\ c.chain = "gone"
           \/ c.chain \in told /\ a = [c EXCEPT !.chain = "gone", !.then = behind]
    BY <1>17, <2>0, <2>1
  <2>3. c \in Due(w) /\ c \in AnswerTypes /\ AnswerSound(w, p, k, minted, c) /\ c.then = {}
    BY <1>14, <1>15, <2>1, <2>2 DEF Due
  <2>4. CASE a = c /\ c.chain = "gone"
    <3>1. minted <= minted /\ c.chain \notin Pair
      BY <1>0, <2>4 DEF Pair
    <3> QED
      BY <1>0, <1>1, <1>4, <1>12, <2>3, <2>4, <3>1, CallsCarry
  <2>5. CASE c.chain \in told /\ a = [c EXCEPT !.chain = "gone", !.then = behind]
    <3>1. FollowsOn(w, NoPage, l, c, behind) /\ (behind # {} => c.chain = "send")
      BY <1>13, <2>3, <2>5
    <3>2. AnswerSound(w, NoPage, l, minted, a)
      BY <1>0, <1>4, <1>6, <1>12, <2>3, <2>5, <3>1, LeftIsSound
    <3>3. a.then = behind
      BY <2>3, <2>5, Zenon DEF AnswerTypes
    <3> QED
      BY <1>1, <2>1, <2>2, <2>5, <3>1, <3>2, <3>3 DEF Answers
  <2> QED
    BY <2>2, <2>4, <2>5
<1>20. OneWaits(w)'
  <2>1. \A c, d \in Calls(w, "send") \cup Answers(w, "send") : c = d
    <3>1. OneOut(w, "send")
      BY DEF TypeInv, Pair
    <3> QED
      BY <3>1 DEF OneOut
  <2>2. \A c \in Listened(w)' \cup Due(w)' : c.then # {} =>
          \E d \in Calls(w, "send") \cup Answers(w, "send") :
            c = [d EXCEPT !.chain = "gone", !.then = behind]
    BY <1>18, <1>19
  <2>3. ASSUME NEW c \in Listened(w)' \cup Due(w)', NEW d \in Listened(w)' \cup Due(w)',
               c.then # {}, d.then # {}
        PROVE  c = d
    <3>1. PICK e \in Calls(w, "send") \cup Answers(w, "send") :
            c = [e EXCEPT !.chain = "gone", !.then = behind]
      BY <2>2, <2>3
    <3>2. PICK f \in Calls(w, "send") \cup Answers(w, "send") :
            d = [f EXCEPT !.chain = "gone", !.then = behind]
      BY <2>2, <2>3
    <3>3. e = f
      BY <2>1
    <3> QED
      BY <3>1, <3>2, <3>3
  <2> QED
    BY <2>3 DEF OneWaits
<1>21. ASSUME NEW v \in Windows \ {w}
       PROVE  Listened(v)' \subseteq Listened(v) /\ Due(v)' \subseteq Due(v)
  <2>1. \A r \in requests' : r.by = v => r \in requests
    <3> TAKE r \in requests'
    <3>1. CASE r = save
      BY <1>5, <3>1
    <3>2. CASE \E c \in requests : r = Left(c)
      <4>1. PICK c \in requests : r = Left(c)
        BY <3>2
      <4>2. (c.by = w => Left(c).by = w) /\ (c.by # w => Left(c) = c)
        BY <1>17
      <4> QED
        BY <4>1, <4>2
    <3>3. r = save \/ \E c \in requests : r = Left(c)
      BY <1>1
    <3> QED
      BY <3>1, <3>2, <3>3
  <2>2. \A a \in answers' : a.by = v => a \in answers
    <3> TAKE a \in answers'
    <3>1. \E c \in answers : a = Left(c)
      BY <1>1
    <3> QED
      BY <1>17, <3>1
  <2> QED
    BY <2>1, <2>2 DEF Listened, Due
<1> QED
  <2>1. KeptSound(l, minted')
    BY <1>1, <1>4
  <2> QED
    BY <1>1, <1>2, <1>4, <1>12, <1>18, <1>19, <1>20, <1>21, <2>1, WindowStep

LEMMA ReloadKeepsSound ==
  ASSUME TypeInv, TypeInv', SoundInv, NEW w \in Windows, Reload(w)
  PROVE  SoundInv'
<1> DEFINE own == {r \in requests : r.by = w}
<1>1. /\ requests' = {r \in requests : r.by # w} \cup Deafened(own)
      /\ answers' = {a \in answers : a.by # w}
      /\ page' = [page EXCEPT ![w] = NoPage] /\ kept' = kept
      /\ UNCHANGED server /\ minted' = minted
  BY DEF Reload
<1>2. kept[w] \in KeptTypes /\ KeptSound(kept[w], minted) /\ minted \in Nat /\ NetworkTypes'
  BY OwnAreTyped, OwnAreSound DEF TypeInv
<1>3. \A d \in Deafened(own) : d.chain = "deaf"
  <2>1. own \in SUBSET RequestTypes
    BY DEF TypeInv, NetworkTypes
  <2> QED
    BY <2>1, DeafenedAreDeaf
<1> HIDE DEF own
<1>4. Listened(w)' = {} /\ Due(w)' = {} /\ OneWaits(w)'
  BY <1>1, <1>3 DEF Listened, Due, OneWaits
<1>5. \A v \in Windows \ {w} : Listened(v)' \subseteq Listened(v) /\ Due(v)' \subseteq Due(v)
  BY <1>1, <1>3 DEF Listened, Due
<1>6. kept' = [kept EXCEPT ![w] = kept[w]]
  BY <1>1 DEF TypeInv, WindowTypes
<1>7. NoPage \in PageTypes /\ PageSound(NoPage, kept[w])
  BY NoPageIsEmpty, NoPageIsSound
<1>8. PICK k \in KeptTypes : k = kept[w]
  BY <1>2
<1>9. minted' \in Nat /\ minted <= minted' /\ KeptSound(k, minted')
  BY <1>1, <1>2, <1>8
<1> QED
  BY <1>1, <1>2, <1>4, <1>5, <1>6, <1>7, <1>8, <1>9, WindowStep

LEMMA DuplicateKeepsSound ==
  ASSUME TypeInv, TypeInv', SoundInv, NEW w \in Windows, NEW v \in Windows, Duplicate(w, v)
  PROVE  SoundInv'
<1>1. /\ kept' = [kept EXCEPT ![v] = kept[w]] /\ page' = page /\ requests' = requests /\ answers' = answers
      /\ UNCHANGED server /\ minted' = minted
      /\ kept[v].session = 0
  BY DEF Duplicate, network, bounds
<1>2. PICK k \in KeptTypes : k = kept[w]
  BY OwnAreTyped
<1>3. PICK p \in PageTypes : p = page[v]
  BY OwnAreTyped
<1>4. KeptSound(k, minted) /\ minted \in Nat /\ NetworkTypes' /\ PageSound(p, kept[v]) /\ Shape(p)
  BY <1>2, <1>3, OwnAreSound, OwnAreTyped DEF TypeInv
<1>5. p.phase = "none" /\ Listened(v) = {} /\ Due(v) = {}
  <2>1. p.phase = "none"
    BY <1>1, <1>4 DEF PageSound
  <2> QED
    BY <1>1, <2>1, OwnAreSound DEF RequestSound, AnswerSound, CallSound
<1>6. PageSound(p, k)
  BY <1>4, <1>5, GonePageStaysSound
<1>7. Listened(v)' = {} /\ Due(v)' = {} /\ OneWaits(v)'
  BY <1>1, <1>5 DEF Listened, Due, OneWaits
<1>8. \A u \in Windows \ {v} : Listened(u)' \subseteq Listened(u) /\ Due(u)' \subseteq Due(u)
  BY <1>1 DEF Listened, Due
<1>9. page' = [page EXCEPT ![v] = p] /\ kept' = [kept EXCEPT ![v] = k]
  BY <1>1, <1>2, <1>3 DEF TypeInv, WindowTypes
<1>10. minted' \in Nat /\ minted <= minted' /\ KeptSound(k, minted')
  BY <1>1, <1>4
<1> QED
  BY <1>1, <1>4, <1>6, <1>7, <1>8, <1>9, <1>10, WindowStep

(* An answer is no call. *)
LEMMA AnswersAreNotCalls ==
  RequestTypes \cap AnswerTypes = {}
<1>1. ASSUME NEW r \in RequestTypes, NEW a \in AnswerTypes, r = a
      PROVE  FALSE
  <2>1. "kind" \in DOMAIN r
    BY DEF RequestTypes, CallTypes
  <2>2. "kind" \notin DOMAIN a
    BY DEF AnswerTypes
  <2> QED
    BY <1>1, <2>1, <2>2
<1> QED
  BY <1>1

(* Only this is read of what a window keeps. *)
LEMMA SameRecordIsSound ==
  ASSUME NEW w, NEW p, NEW k, NEW m, NEW l, l.session = k.session, l.words = k.words,
         Last(l) = Last(k), Current(l) = Current(k)
  PROVE  /\ PageSound(p, k) => PageSound(p, l)
         /\ \A c : RequestSound(w, p, k, m, c) => RequestSound(w, p, l, m, c)
         /\ \A c : AnswerSound(w, p, k, m, c) => AnswerSound(w, p, l, m, c)
<1>1. PageSound(p, k) => PageSound(p, l)
  BY DEF PageSound
<1>2. \A c : CallSound(w, p, k, m, c) => CallSound(w, p, l, m, c)
  BY DEF CallSound
<1>3. \A c : OfTheLast(l, c) => OfTheLast(k, c)
  BY DEF OfTheLast
<1> QED
  BY <1>1, <1>2, <1>3 DEF RequestSound, AnswerSound

(* What waited goes under the number it was given, over nothing later. *)
LEMMA FollowingIsSound ==
  ASSUME NEW w, NEW p, NEW k \in KeptTypes, NEW m, KeptSound(k, m), k.session # 0,
         NEW c, c.then \in Waiting, c.then # {}, FollowsOn(w, p, k, c, c.then)
  PROVE  LET l == Following(k, c) IN
         /\ KeptSound(l, m) /\ l.session = k.session /\ l.words = k.words
         /\ Carries(k, l, m) /\ \A r \in c.then : r.sequence <= Last(l)
<1> DEFINE l == Following(k, c)
<1>1. PICK r : r \in c.then /\ \A s \in c.then : s = r
  BY DEF FollowsOn
<1>2. /\ r.sequence \in Nat /\ r.sequence >= Last(k) /\ r.words = k.words /\ c.session = k.session
  BY <1>1 DEF FollowsOn, Waiting, CallTypes
<1>3. (CHOOSE s \in c.then : TRUE) = r /\ c.then = {r}
  BY <1>1
<1>4. /\ k.later \in Nat /\ k.sent \in Nat /\ k.answered \in Nat /\ Last(k) \in Nat
  BY LastIsANumber DEF KeptTypes
<1>5. CASE r.sequence > k.later
  <2>1. l = [k EXCEPT !.later = r.sequence, !.laterCurrent = k.changed /\ \A s \in c.then : k.words = s.words]
    BY <1>1, <1>2, <1>3, <1>5 DEF Following
  <2>2. /\ l.session = k.session /\ l.words = k.words /\ l.changed = k.changed /\ l.sent = k.sent
        /\ l.sentWords = k.sentWords /\ l.unsent = k.unsent /\ l.answered = k.answered
        /\ l.accepted = k.accepted /\ l.later = r.sequence
    BY <2>1 DEF KeptTypes
  <2> HIDE DEF l
  <2>3. CASE r.sequence > k.sent
    <3>1. Last(l) = r.sequence /\ Last(l) > Last(k)
      BY <1>2, <1>4, <1>5, <2>2, <2>3 DEF Last
    <3>2. KeptSound(l, m)
      BY <1>2, <1>4, <2>2, <2>3, <3>1 DEF KeptSound
    <3> QED
      BY <1>1, <1>2, <2>2, <3>1, <3>2 DEF Carries, l
  <2>4. CASE ~(r.sequence > k.sent)
    <3>1. Last(l) = k.sent /\ Last(k) = k.sent /\ r.sequence = k.sent
      BY <1>2, <1>4, <1>5, <2>2, <2>4 DEF Last
    <3>2. Current(l) = ~k.unsent /\ Current(k) = ~k.unsent
      BY <1>2, <1>4, <1>5, <2>2, <2>4, <3>1 DEF Current
    <3>3. KeptSound(l, m)
      BY <1>2, <1>4, <2>2, <3>1, <3>2 DEF KeptSound
    <3> QED
      BY <1>1, <1>2, <2>2, <3>1, <3>2, <3>3 DEF Carries, l
  <2> QED
    BY <2>3, <2>4
<1>6. CASE ~(r.sequence > k.later)
  <2>1. l = k
    BY <1>1, <1>6 DEF Following
  <2>2. r.sequence <= Last(k)
    BY <1>2, <1>4, <1>6 DEF Last
  <2> QED
    BY <1>1, <2>1, <2>2 DEF Carries
<1> QED
  BY <1>5, <1>6

(* A call left behind is settled: told or given up on, and followed. *)
LEMMA AfterGone ==
  ASSUME TypeInv, TypeInv', SoundInv, NEW w \in Windows, NEW c \in Calls(w, "gone") \cup Answers(w, "gone"),
         NEW k \in KeptTypes, KeptSound(k, minted), k.session = kept[w].session, k.words = kept[w].words,
         Last(k) = Last(kept[w]), Current(k) = Current(kept[w]),
         UNCHANGED <<server, page, minted>>, kept' = [kept EXCEPT ![w] = Following(k, c)],
         Listened(w)' \subseteq Listened(w) \cup c.then, Due(w)' \subseteq Due(w),
         \A d \in Listened(w)' \cup Due(w)' : c.then = {} \/ d \in c.then \/ d.then = {},
         \A v \in Windows \ {w} : Listened(v)' \subseteq Listened(v) /\ Due(v)' \subseteq Due(v)
  PROVE  SoundInv'
<1> DEFINE p == page[w]  l == Following(k, c)
<1>0. /\ p \in PageTypes /\ Shape(p) /\ PageSound(p, kept[w]) /\ kept[w] \in KeptTypes /\ minted \in Nat
      /\ \A r \in Listened(w) : r \in RequestTypes /\ RequestSound(w, p, kept[w], minted, r)
      /\ \A a \in Due(w) : a \in AnswerTypes /\ AnswerSound(w, p, kept[w], minted, a)
  BY OwnAreTyped, OwnAreSound
<1>1. c \in Listened(w) \cup Due(w) /\ c \in requests \cup answers
  BY DEF Calls, Answers, Listened, Due
<1>2. CallSound(w, p, kept[w], minted, c)
  BY <1>0, <1>1 DEF RequestSound, AnswerSound
<1>3. /\ c.then \in Waiting /\ c.then \subseteq RequestTypes
      /\ \A r \in c.then : r.then = {} /\ r.chain = "gone" /\ Says(r)
  BY <1>1, WaitingAreCalls
<1>4. k.session # 0 /\ k.session <= minted
  BY <1>2 DEF CallSound, KeptSound
<1>5. PageSound(p, k)
  BY <1>0, SameRecordIsSound
<1>6. /\ \A r \in Listened(w) : RequestSound(w, p, k, minted, r)
      /\ \A a \in Due(w) : AnswerSound(w, p, k, minted, a)
  BY <1>0, SameRecordIsSound
<1>7. page' = [page EXCEPT ![w] = p] /\ minted' = minted /\ minted' \in Nat /\ minted <= minted' /\ NetworkTypes'
  <2>1. page' = [page EXCEPT ![w] = p]
    BY DEF TypeInv, WindowTypes
  <2>2. NetworkTypes'
    BY DEF TypeInv
  <2>3. minted' = minted
    OBVIOUS
  <2>4. minted' \in Nat /\ minted <= minted'
    BY <1>0, <2>3
  <2> QED
    BY <2>1, <2>2, <2>3, <2>4
<1>8. CASE c.then = {}
  <2>1. l = k
    BY <1>8 DEF Following
  <2>2. kept' = [kept EXCEPT ![w] = k] /\ Listened(w)' \subseteq Listened(w)
    BY <1>8, <2>1
  <2>3. OneWaits(w)'
    BY <2>2 DEF OneWaits, SoundInv, Sound
  <2>4. \A r \in Listened(w)' : RequestSound(w, p, k, minted', r)
    BY <1>6, <1>7, <2>2
  <2>5. \A a \in Due(w)' : AnswerSound(w, p, k, minted', a)
    BY <1>6, <1>7
  <2>6. KeptSound(k, minted')
    BY <1>7
  <2> QED
    BY <1>0, <1>5, <1>7, <2>2, <2>3, <2>4, <2>5, <2>6, WindowStep
<1>9. CASE c.then # {}
  <2>1. p.phase = "none"
    BY <1>2, <1>9 DEF CallSound
  <2>2. FollowsOn(w, p, k, c, c.then)
    BY <1>2 DEF CallSound, FollowsOn
  <2>3. /\ KeptSound(l, minted) /\ l.session = k.session /\ l.words = k.words
        /\ Carries(k, l, minted) /\ \A r \in c.then : r.sequence <= Last(l)
    BY <1>3, <1>4, <1>9, <2>2, FollowingIsSound
  <2>4. l \in KeptTypes
    BY <1>3, FollowingIsKept
  <2>5. PageSound(p, l)
    BY <1>0, <1>5, <2>1, GonePageStaysSound
  <2>6. \A d \in Listened(w)' \cup Due(w)' : d.then = {}
    BY <1>3, <1>9
  <2>7. \A d \in Listened(w) \cup Due(w) : d.chain \notin Pair
    <3>1. \A chain \in Pair : Calls(w, chain) = {} /\ Answers(w, chain) = {}
      <4>1. \A chain \in Pair : ~Awaits(page[w], chain)
        BY <1>0, <2>1 DEF Pair, Awaits, Shape, SavingPhases
      <4> QED
        BY <4>1 DEF TypeInv, OneOut
    <3> QED
      BY <3>1 DEF Listened, Due, Calls, Answers
  <2> HIDE DEF l
  <2>8. ASSUME NEW r \in Listened(w)'
        PROVE  RequestSound(w, p, l, minted', r)
    <3>1. CASE r \in c.then
      <4>1. /\ r.by = w /\ r.kind = "save" /\ r.session = l.session /\ r.words = l.words /\ r.sequence > 0
            /\ r.sequence <= Last(l) /\ r.then = {} /\ r.chain = "gone"
        BY <1>3, <2>2, <2>3, <3>1 DEF FollowsOn
      <4>2. Saves(r)
        BY <4>1 DEF Saves
      <4>3. CallSound(w, p, l, minted, r)
        BY <1>4, <2>3, <4>1, <4>2 DEF CallSound, Pair
      <4> QED
        BY <1>7, <4>1, <4>2, <4>3 DEF RequestSound
    <3>2. CASE r \in Listened(w)
      <4>1. minted <= minted /\ r.then = {} /\ r.chain \notin Pair /\ r \in RequestTypes /\ l.session # 0
        BY <1>0, <1>4, <2>3, <2>6, <2>7, <3>2
      <4> QED
        BY <1>0, <1>6, <1>7, <2>3, <2>4, <3>2, <4>1, CallsCarry
    <3> QED
      BY <3>1, <3>2
  <2>9. ASSUME NEW a \in Due(w)'
        PROVE  AnswerSound(w, p, l, minted', a)
    <3>1. minted <= minted /\ a \in Due(w) /\ a.then = {} /\ a.chain \notin Pair /\ a \in AnswerTypes /\ l.session # 0
      BY <1>0, <1>4, <2>3, <2>6, <2>7
    <3> QED
      BY <1>0, <1>6, <1>7, <2>3, <2>4, <3>1, CallsCarry
  <2>10. OneWaits(w)'
    BY <2>6 DEF OneWaits
  <2>11. KeptSound(l, minted') /\ kept' = [kept EXCEPT ![w] = l]
    BY <1>7, <2>3 DEF l
  <2> QED
    BY <1>0, <1>7, <2>4, <2>5, <2>8, <2>9, <2>10, <2>11, WindowStep
<1> QED
  BY <1>8, <1>9

LEMMA HearGoneKeepsSound ==
  ASSUME TypeInv, TypeInv', SoundInv, NEW w \in Windows, HearGone(w) \/ GoneGivesUp(w)
  PROVE  SoundInv'
<1>0. /\ kept[w] \in KeptTypes /\ KeptSound(kept[w], minted) /\ OneWaits(w)
      /\ \A r \in Listened(w) : r \in RequestTypes /\ RequestSound(w, page[w], kept[w], minted, r)
      /\ \A a \in Due(w) : a \in AnswerTypes /\ AnswerSound(w, page[w], kept[w], minted, a)
  BY OwnAreTyped, OwnAreSound DEF SoundInv, Sound
<1>1. ASSUME NEW c \in Calls(w, "gone") \cup Answers(w, "gone"), c.then # {},
             NEW d \in Listened(w) \cup Due(w), d # c
      PROVE  d.then = {}
  <2>1. c \in Listened(w) \cup Due(w)
    BY DEF Calls, Answers, Listened, Due
  <2> QED
    BY <1>0, <1>1, <2>1 DEF OneWaits
<1>2. CASE HearGone(w)
  <2>1. PICK a \in Answers(w, "gone") :
          /\ answers' = answers \ {a}
          /\ requests' = requests \cup a.then
          /\ kept' = [kept EXCEPT ![w] = Following(Told(@, a), a)]
          /\ UNCHANGED <<server, page, bounds, copied>>
    BY <1>2 DEF HearGone
  <2>2. a \in Due(w) /\ a \in answers
    BY DEF Answers, Due
  <2>3. AnswerSound(w, page[w], kept[w], minted, a) /\ a \in AnswerTypes
    BY <1>0, <2>2
  <2>4. a.sequence \in Nat /\ kept[w].session # 0
    BY <2>3 DEF AnswerTypes, AnswerSound, CallSound
  <2>5. a.sequence > 0 /\ a.session = kept[w].session =>
          /\ a.sequence <= Last(kept[w])
          /\ a.result = "ok" /\ a.sequence = Last(kept[w]) /\ Current(kept[w]) => Retained(kept[w].words)
    BY <2>3 DEF AnswerSound, CallSound, OfTheLast, Saves
  <2>6. LET k == Told(kept[w], a) IN
        /\ KeptSound(k, minted) /\ k.session = kept[w].session /\ k.words = kept[w].words
        /\ Last(k) = Last(kept[w]) /\ Current(k) = Current(kept[w]) /\ k \in KeptTypes
    BY <1>0, <2>4, <2>5, ToldIsSound, ToldIsKept
  <2>7. /\ a.then \subseteq RequestTypes /\ \A r \in a.then : r.by = w
    <3>1. a.then \subseteq RequestTypes
      BY <2>2, WaitingAreCalls
    <3> QED
      BY <2>3, <3>1 DEF AnswerSound, CallSound
  <2>8. Listened(w)' \subseteq Listened(w) \cup a.then /\ Due(w)' \subseteq Due(w) \ {a}
    BY <2>1 DEF Listened, Due
  <2>9. \A d \in Listened(w)' \cup Due(w)' : a.then = {} \/ d \in a.then \/ d.then = {}
    <3>1. \A r \in Listened(w) : r # a
      BY <1>0, <2>3, AnswersAreNotCalls
    <3> QED
      BY <1>1, <2>8, <3>1
  <2>10. \A v \in Windows \ {w} : Listened(v)' \subseteq Listened(v) /\ Due(v)' \subseteq Due(v)
    BY <2>1, <2>7 DEF Listened, Due
  <2>11. UNCHANGED <<server, page, minted>> /\ kept' = [kept EXCEPT ![w] = Following(Told(kept[w], a), a)]
    BY <2>1 DEF bounds
  <2> QED
    BY <2>6, <2>8, <2>9, <2>10, <2>11, AfterGone
<1>3. CASE GoneGivesUp(w)
  <2>1. PICK r \in Calls(w, "gone") :
          /\ requests' = (requests \ {r}) \cup Deafened({r}) \cup r.then
          /\ kept' = [kept EXCEPT ![w] = Following(@, r)]
    BY <1>3 DEF GoneGivesUp
  <2>2. UNCHANGED <<server, page, minted>> /\ answers' = answers
    BY <1>3 DEF GoneGivesUp
  <2>3. r \in Listened(w) /\ r \in requests
    BY DEF Calls, Listened
  <2>4. r \in RequestTypes /\ CallSound(w, page[w], kept[w], minted, r)
    BY <1>0, <2>3 DEF RequestSound
  <2>5. \A s \in r.then : s.by = w
    BY <2>4 DEF CallSound
  <2>6. \A d \in Deafened({r}) : d.chain = "deaf"
    BY <2>4, {r} \in SUBSET RequestTypes, DeafenedAreDeaf
  <2>7. Listened(w)' \subseteq (Listened(w) \ {r}) \cup r.then /\ Due(w)' = Due(w)
    BY <2>1, <2>2, <2>6 DEF Listened, Due
  <2>8. \A d \in Listened(w)' \cup Due(w)' : r.then = {} \/ d \in r.then \/ d.then = {}
    <3>1. \A a \in Due(w) : a # r
      BY <1>0, <2>4, AnswersAreNotCalls
    <3> QED
      BY <1>1, <2>7, <3>1
  <2>9. \A v \in Windows \ {w} : Listened(v)' \subseteq Listened(v) /\ Due(v)' \subseteq Due(v)
    BY <2>1, <2>2, <2>5, <2>6 DEF Listened, Due
  <2> QED
    BY <1>0, <2>1, <2>2, <2>7, <2>8, <2>9, AfterGone
<1> QED
  BY <1>2, <1>3

(* The service answers a call: what it says it kept, it keeps. *)
LEMMA AnsweredKeepsSound ==
  ASSUME TypeInv, SoundInv, Grows, NEW r \in requests, NEW result, Answered(r, result),
         result = "ok" /\ r.kind = "save" => Retained(r.words)'
  PROVE  SoundInv'
<1>0. PICK a : a = Answer(r, result)
  OBVIOUS
<1>1. /\ requests' = requests \ {r}
      /\ answers' = IF r.chain = "deaf" THEN answers ELSE answers \cup {a}
      /\ page' = page /\ kept' = kept /\ minted' = minted
  BY <1>0 DEF Answered
<1>2. r \in RequestTypes
  BY DEF TypeInv, NetworkTypes
<1>3. /\ a.by = r.by /\ a.chain = r.chain /\ a.session = r.session /\ a.sequence = r.sequence
      /\ a.then = r.then /\ a.result = result
  BY <1>0 DEF Answer
<1>4. minted \in Nat /\ minted' \in Nat /\ minted <= minted'
  BY <1>1 DEF TypeInv, BoundTypes
<1>5. ASSUME NEW v \in Windows
      PROVE  Sound(v)'
  <2>0. Sound(v) /\ page'[v] = page[v] /\ kept'[v] = kept[v]
    BY <1>1 DEF SoundInv
  <2>1. CASE r.by # v \/ r.chain = "deaf"
    <3>1. Listened(v)' \subseteq Listened(v) /\ Due(v)' \subseteq Due(v)
      BY <1>1, <1>3, <2>1 DEF Listened, Due
    <3> QED
      BY <1>4, <2>0, <3>1, OthersStaySound
  <2>2. CASE r.by = v /\ r.chain # "deaf"
    <3>1. PICK k \in KeptTypes : k = kept[v]
      BY OwnAreTyped
    <3>2. PICK p \in PageTypes : p = page[v]
      BY OwnAreTyped
    <3>3. PICK m \in Nat : m = minted
      BY <1>4
    <3>4. /\ KeptSound(k, m) /\ PageSound(p, k)
          /\ \A c \in Listened(v) : c \in RequestTypes /\ RequestSound(v, p, k, m, c)
          /\ \A d \in Due(v) : d \in AnswerTypes /\ AnswerSound(v, p, k, m, d)
      BY <3>1, <3>2, <3>3, OwnAreSound
    <3>5. r \in Listened(v) /\ RequestSound(v, p, k, m, r)
      BY <2>2, <3>4 DEF Listened
    <3>6. Listened(v)' = Listened(v) \ {r} /\ Due(v)' = Due(v) \cup {a}
      BY <1>1, <1>3, <2>2 DEF Listened, Due
    <3>7. m <= m
      BY <3>3
    <3>8. KeptSound(k, m)' /\ PageSound(p, k)'
      BY <3>4, <3>7, SoundGrows
    <3>9. \A c \in Listened(v)' : RequestSound(v, p, k, m, c)'
      BY <3>4, <3>6, <3>7, SoundGrows
    <3>10. AnswerSound(v, p, k, m, a)'
      <4>1. CallSound(v, p, k, m, a)
        BY <1>3, <3>5 DEF RequestSound, CallSound, Saves
      <4>2. ASSUME result = "ok", Saves(r)
            PROVE  Retained(r.words)' /\ (Retained(k.words) => Retained(k.words)')
        BY <3>5, <4>2 DEF RequestSound, Grows
      <4>3. OfTheLast(k, a) /\ a.result = "ok" => Retained(k.words)'
        <5>1. SUFFICES ASSUME OfTheLast(k, a), result = "ok"
                       PROVE  Retained(k.words)'
          BY <1>3
        <5>2. OfTheLast(k, r) /\ Saves(r)
          BY <1>3, <5>1 DEF OfTheLast, Saves
        <5>3. Retained(k.words) \/ r.words = k.words
          BY <3>5, <5>2 DEF RequestSound
        <5>4. CASE Retained(k.words)
          BY <4>2, <5>1, <5>2, <5>4
        <5>5. CASE r.words = k.words
          <6>1. Retained(r.words)'
            BY <4>2, <5>1, <5>2
          <6> QED
            BY <5>5, <6>1 DEF Retained, HeadNo
        <5> QED
          BY <5>3, <5>4, <5>5
      <4>4. a.chain = "ask" /\ Saves(a) /\ a.result = "ok" => Retained(p.repeat)'
        <5>1. SUFFICES ASSUME r.chain = "ask", Saves(r), result = "ok"
                       PROVE  Retained(p.repeat)'
          BY <1>3 DEF Saves
        <5>2. Retained(r.words)' /\ r.words = p.repeat
          BY <3>5, <4>2, <5>1 DEF RequestSound
        <5> QED
          BY <5>2 DEF Retained, HeadNo
      <4>5. a.chain # "deaf"
        BY <1>3, <2>2
      <4> QED
        BY <4>1, <4>3, <4>4, <4>5 DEF AnswerSound, CallSound, OfTheLast
    <3>11. \A d \in Due(v)' : AnswerSound(v, p, k, m, d)'
      <4>1. \A d \in Due(v) : AnswerSound(v, p, k, m, d)'
        BY <3>4, <3>7, SoundGrows
      <4> QED
        BY <3>6, <3>10, <4>1
    <3>12. OneWaits(v)'
      <4>1. \A d \in Due(v) : d # r
        BY <1>2, <3>4, AnswersAreNotCalls
      <4>2. \A c \in (Listened(v) \ {r}) \cup Due(v) : c.then # {} => r.then = {}
        BY <2>0, <3>5, <4>1 DEF Sound, OneWaits
      <4>3. \A c, d \in (Listened(v) \ {r}) \cup Due(v) : c.then # {} /\ d.then # {} => c = d
        BY <2>0 DEF Sound, OneWaits
      <4>4. \A c, d \in Listened(v)' \cup Due(v)' : c.then # {} /\ d.then # {} => c = d
        BY <1>3, <3>6, <4>2, <4>3
      <4> QED
        BY <4>4 DEF OneWaits
    <3>13. page'[v] = p /\ kept'[v] = k /\ minted' = m
      BY <1>1, <2>0, <3>1, <3>2, <3>3
    <3> QED
      BY <3>8, <3>9, <3>11, <3>12, <3>13 DEF Sound
  <2> QED
    BY <2>1, <2>2
<1> QED
  BY <1>5 DEF SoundInv

(* The service keeps what it kept, and one version more. *)
LEMMA LongerGrows ==
  ASSUME TypeInv, iterations \subseteq iterations',
         \/ versions' = versions
         \/ \E text \in Nat : versions' = Append(versions, text)
  PROVE  Grows
<1>1. HeadNo \in Nat /\ HeadNo' \in Nat /\ HeadNo <= HeadNo'
      /\ \A n \in 1..HeadNo : versions'[n] = versions[n]
  <2>1. HeadNo \in Nat
    BY VersionsAreTexts
  <2>2. CASE versions' = versions
    BY <2>1, <2>2 DEF HeadNo
  <2>3. CASE \E text \in Nat : versions' = Append(versions, text)
    <3>1. HeadNo' = HeadNo + 1 /\ \A n \in 1..HeadNo : versions'[n] = versions[n]
      BY <2>3, OneVersionMore
    <3> QED
      BY <2>1, <3>1
  <2> QED
    BY <2>2, <2>3
<1>2. \A n \in 1..HeadNo : n \in 1..HeadNo'
  BY <1>1
<1>3. ASSUME NEW words, Retained(words)
      PROVE  Retained(words)'
  <2>1. CASE \E i \in iterations : i.words = words
    BY <2>1 DEF Retained
  <2>2. CASE \E n \in 1..HeadNo : versions[n] = words
    BY <1>1, <1>2, <2>2 DEF Retained
  <2> QED
    BY <1>3, <2>1, <2>2 DEF Retained
<1> QED
  BY <1>3 DEF Grows

LEMMA ServeKeepsSound ==
  ASSUME TypeInv, SoundInv, NEW r \in requests, Serve(r) \/ RefuseCall(r)
  PROVE  SoundInv'
<1>0. r \in RequestTypes /\ r.session \in Nat
  BY DEF TypeInv, NetworkTypes, RequestTypes, CallTypes
<1>1. CASE ServeClaim(r)
  <2>1. r.kind = "claim" /\ Grows
    BY <1>1, LongerGrows DEF ServeClaim
  <2>2. \E result : Answered(r, result)
    BY <1>1 DEF ServeClaim
  <2> QED
    BY <2>1, <2>2, AnsweredKeepsSound
<1>2. CASE ServeSave(r)
  <2> DEFINE new == [session |-> r.session, sequence |-> r.sequence, from |-> r.from, words |-> r.words]
  <2>1. /\ iterations' = IF Judged(r) = "ok" /\ Above(r) THEN iterations \cup {new} ELSE iterations
        /\ versions' = versions /\ Answered(r, Judged(r))
    BY <1>2 DEF ServeSave
  <2>2. iterations \subseteq iterations' /\ Grows
    BY <2>1, LongerGrows
  <2>3. ASSUME Judged(r) = "ok"
        PROVE  \E i \in iterations' : i.words = r.words
    <3>1. Above(r) \/ \E i \in IterationsOf(r.session) : i.sequence = r.sequence /\ i.words = r.words
      BY <2>3, Zenon DEF Judged, NotHeld
    <3>2. CASE Above(r)
      <4>1. new \in iterations' /\ new.words = r.words
        BY <2>1, <2>3, <3>2
      <4> QED
        BY <4>1
    <3>3. CASE \E i \in IterationsOf(r.session) : i.sequence = r.sequence /\ i.words = r.words
      BY <2>2, <3>3 DEF IterationsOf
    <3> QED
      BY <3>1, <3>2, <3>3
  <2>4. Judged(r) = "ok" /\ r.kind = "save" => Retained(r.words)'
    <3>1. SUFFICES ASSUME Judged(r) = "ok"
                   PROVE  Retained(r.words)'
      OBVIOUS
    <3>2. PICK i \in iterations' : i.words = r.words
      BY <2>3, <3>1
    <3> QED
      BY <2>1, <3>2 DEF Retained, Answered
  <2> QED
    BY <2>1, <2>2, <2>4, AnsweredKeepsSound
<1>3. CASE ServeCut(r)
  <2>1. r.kind # "save" /\ iterations' = iterations
    BY <1>3 DEF ServeCut
  <2>2. versions' = versions \/ versions' = Append(versions, CutText(r.session))
    BY <1>3 DEF ServeCut
  <2>3. Grows
    BY <1>0, <2>1, <2>2, CutTextIsAText, LongerGrows
  <2>4. \E result : Answered(r, result)
    BY <1>3, Zenon DEF ServeCut
  <2> QED
    BY <2>1, <2>3, <2>4, AnsweredKeepsSound
<1>4. CASE RefuseCall(r)
  <2>1. Grows
    BY <1>4, SameServerGrows DEF RefuseCall
  <2>2. \E result : result # "ok" /\ Answered(r, result)
    BY <1>4 DEF RefuseCall
  <2> QED
    BY <2>1, <2>2, AnsweredKeepsSound
<1> QED
  BY <1>1, <1>2, <1>3, <1>4 DEF Serve

LEMMA OthersKeepSound ==
  ASSUME TypeInv, SoundInv, LapseLock \/ OtherClaims \/ OtherCuts \/ UNCHANGED vars
  PROVE  SoundInv'
<1>1. UNCHANGED <<iterations, network, kept, page, minted>>
  BY DEF LapseLock, OtherClaims, OtherCuts, vars, network
<1>2. versions' = versions \/ \E text \in Nat : versions' = Append(versions, text)
  <2>1. CASE OtherCuts
    <3>1. texts' \in Nat /\ versions' = Append(versions, texts')
      BY <2>1 DEF OtherCuts, TypeInv, BoundTypes
    <3> QED
      BY <3>1
  <2>2. CASE LapseLock \/ OtherClaims \/ UNCHANGED vars
    BY <2>2 DEF LapseLock, OtherClaims, vars
  <2> QED
    BY <2>1, <2>2
<1>3. Grows
  BY <1>1, <1>2, LongerGrows
<1>4. minted' \in Nat /\ minted <= minted'
  BY <1>1 DEF TypeInv, BoundTypes
<1>5. ASSUME NEW v \in Windows
      PROVE  Sound(v)'
  <2>1. /\ Sound(v) /\ page'[v] = page[v] /\ kept'[v] = kept[v]
        /\ Listened(v)' \subseteq Listened(v) /\ Due(v)' \subseteq Due(v)
    BY <1>1 DEF SoundInv, network, Listened, Due
  <2> QED
    BY <1>3, <1>4, <2>1, OthersStaySound
<1> QED
  BY <1>5 DEF SoundInv

LEMMA SoundInit ==
  ASSUME Init
  PROVE  SoundInv
<1>1. KeptSound(NothingKept, 0)
  BY DEF KeptSound, NothingKept, Last, Current
<1>2. PageSound(NoPage, NothingKept)
  BY NoPageIsEmpty, NoPageIsSound
<1>3. ASSUME NEW w \in Windows
      PROVE  Sound(w)
  <2>1. kept[w] = NothingKept /\ page[w] = NoPage /\ minted = 0 /\ Listened(w) = {} /\ Due(w) = {}
    BY DEF Init, Listened, Due
  <2> QED
    BY <1>1, <1>2, <2>1 DEF Sound, OneWaits
<1> QED
  BY <1>3 DEF SoundInv

LEMMA SoundNext ==
  ASSUME ~ReopensEarly, TypeInv, TypeInv', SoundInv, [Next]_vars
  PROVE  SoundInv'
<1>1. ASSUME NEW w \in Windows, Author(w)
      PROVE  SoundInv'
  <2>1. CASE Finish(w, "cutting") \/ Finish(w, "releasing")
    BY <2>1, FinishKeepsSound
  <2>2. CASE \E v \in Windows : Duplicate(w, v)
    BY <2>2, DuplicateKeepsSound
  <2> QED
    BY <1>1, <2>1, <2>2, OpenKeepsSound, TypeKeepsSound, ClaimAgainKeepsSound, LeaveKeepsSound,
       ReloadKeepsSound DEF Author
<1>2. ASSUME NEW w \in Windows, NEW o \in Outcomes(w, "send"), HearSave(w, o) \/ HearSaveReclaim(w, o)
      PROVE  SoundInv'
  BY <1>2, HearSaveKeepsSound
<1>3. ASSUME NEW w \in Windows, NEW o \in Outcomes(w, "ask"),
             HearClaim(w, o) \/ HearRepeat(w, o) \/ HearCut(w, o) \/ HearFinishReclaim(w, o)
      PROVE  SoundInv'
  BY <1>3, HearClaimKeepsSound, HearRepeatKeepsSound, HearFinishKeepsSound
<1>4. ASSUME NEW w \in Windows, Runs(w) \/ GiveUp(w)
      PROVE  SoundInv'
  <2>1. \A chain : GivesUp \in Outcomes(w, chain) /\ Hears(w, chain) \subseteq Outcomes(w, chain)
    BY DEF Outcomes
  <2>2. CASE Hear(w) \/ GiveUp(w)
    BY <1>2, <1>3, <2>1, <2>2, HearGoneKeepsSound DEF Hear, GiveUp
  <2> QED
    BY <1>4, <2>2, FlushKeepsSound, HearGoneKeepsSound DEF Runs
<1> QED
  BY <1>1, <1>4, ServeKeepsSound, OthersKeepSound DEF Next

LEMMA SoundIsSavedIsKept ==
  ASSUME SoundInv
  PROVE  SavedIsKept
<1>1. ASSUME NEW w \in Windows, ShownAsSaved(w)
      PROVE  Retained(kept[w].words)
  <2>1. page[w].phase = "editing" /\ page[w].save = "saved" /\ ~page[w].dirty
    BY <1>1 DEF ShownAsSaved
  <2>2. PageSound(page[w], kept[w])
    BY DEF SoundInv, Sound
  <2> QED
    BY <2>1, <2>2 DEF PageSound, SavingPhases
<1> QED
  BY <1>1 DEF SavedIsKept, Retained

(* What a page shows as saved the service keeps, as one of the author's    *)
(* iterations or a version, whatever was lost, given up on, late, repeated *)
(* or sent from another tab under the same session: "never a save taken    *)
(* for this window's that was not" (stored-session.ts:412-413).  Of a page *)
(* opened once the last one's saves have gone (ReopensEarly says where it  *)
(* is not, and there TLC finds a text shown as saved that nothing keeps).  *)
THEOREM SavedKept == ASSUME ~ReopensEarly PROVE Spec => []SavedIsKept
<1>1. Spec => []TypeInv
  BY TypeInit, TypeNext, PTL DEF Spec
<1>2. TypeInv /\ TypeInv' /\ SoundInv /\ [Next]_vars => SoundInv'
  BY SoundNext
<1>3. Spec => []SoundInv
  BY <1>1, <1>2, SoundInit, PTL DEF Spec
<1> QED
  BY <1>3, SoundIsSavedIsKept, PTL

-----------------------------------------------------------------------------
(* What is typed is what a cut says.                                       *)

(* The last save of a window's text, from its version, is an iteration.    *)
Standing(k) == k.changed /\ Current(k)
Drafted(k) ==
  \E i \in iterations : /\ i.session = k.session /\ i.sequence = Last(k)
                        /\ i.from = k.version /\ i.words = k.words

(* A save, sent or kept: under the last number or below, and one under the *)
(* last, its text still standing, says that text from that version.        *)
Under(k, c) ==
  c.session = k.session =>
    /\ c.sequence <= Last(k)
    /\ Saves(c) /\ c.sequence = Last(k) /\ Standing(k) => c.words = k.words /\ c.from = k.version

(* A page with something to save has a change, or shows what it opened at; *)
(* and what it repeats is that change while it stands.                     *)
Changes(p, k) ==
  /\ \/ p.phase # "none" /\ (p.dirty \/ Waits(p))
     \/ p.phase \in {"reading", "claiming"} /\ p.repeat # NoText
     => k.changed \/ k.words = p.base
  /\ p.phase \in {"reading", "claiming"} /\ p.repeat # NoText /\ Standing(k) => p.repeat = k.words

(* A last save accepted is drafted, and so is what a page shows as saved.  *)
Accepted(k) == Standing(k) /\ k.accepted /\ k.answered > 0 /\ k.answered = Last(k)
Shows(p, k) ==
  p.phase \notin {"none", "lost"} /\ ~p.dirty /\ ~Waits(p) /\ k.words # p.base =>
    Drafted(k) \/ (p.repeat # NoText /\ Standing(k))

(* Of a session no other tab took with it.                                 *)
Own(k) == k.session # 0 /\ k.session \notin copied
Accepts(k, a) ==
  a.session = k.session /\ Saves(a) /\ a.sequence = Last(k) /\ Standing(k) /\ a.result = "ok"
OwnSound(w) ==
  LET p == page[w]  k == kept[w] IN
  /\ \A v \in Windows \ {w} : kept[v].session # k.session
  /\ \A r \in requests : r.kind = "save" => Under(k, r)
  /\ \A i \in iterations : Under(k, i)
  /\ \A c \in Listened(w) \cup Due(w) : \A r \in c.then : r.from = k.version
  /\ \A a \in Due(w) : Accepts(k, a) => Drafted(k)
  /\ Accepted(k) => Drafted(k)
  /\ Shows(p, k)
MintedBefore ==
  /\ \A r \in requests : r.session <= minted
  /\ \A i \in iterations : i.session <= minted
  /\ \A s \in copied : s <= minted
OwnInv ==
  /\ MintedBefore
  /\ \A w \in Windows : Changes(page[w], kept[w])
  /\ \A w \in Windows : Own(kept[w]) => OwnSound(w)

(* What a window keeps next, the numbers and texts under the last standing *)
(* for no more than they did; and a call that saves what another did.      *)
GoesOn(k, l, m) ==
  \/ l.session > m
  \/ /\ l.session = k.session
     /\ \/ Last(l) > Last(k)
        \/ /\ Last(l) = Last(k)
           /\ Standing(l) => Standing(k) /\ l.words = k.words /\ l.version = k.version
Alike(r, c) ==
  r.kind = c.kind /\ r.session = c.session /\ r.sequence = c.sequence /\ r.from = c.from /\ r.words = c.words

LEMMA OwnGrows ==
  ASSUME iterations \subseteq iterations', NEW k, NEW p
  PROVE  (Drafted(k) => Drafted(k)') /\ (Shows(p, k) => Shows(p, k)')
  BY DEF Drafted, Shows, Last, Standing, Current, Waits

(* A window whose page and record stay. *)
LEMMA OthersStayOwn ==
  ASSUME iterations \subseteq iterations', NEW w \in Windows, OwnSound(w),
         page'[w] = page[w], kept'[w] = kept[w],
         \A v \in Windows \ {w} : kept'[v].session # kept[w].session,
         \A r \in requests' : r.kind = "save" => Under(kept[w], r),
         \A i \in iterations' : Under(kept[w], i),
         \A c \in Listened(w)' \cup Due(w)' : \A r \in c.then : r.from = kept[w].version,
         \A a \in Due(w)' : Accepts(kept[w], a) => Drafted(kept[w]) \/ \E i \in iterations' :
           /\ i.session = kept[w].session /\ i.sequence = Last(kept[w])
           /\ i.from = kept[w].version /\ i.words = kept[w].words
  PROVE  OwnSound(w)'
<1>1. PICK k : k = kept[w]
  OBVIOUS
<1>2. PICK p : p = page[w]
  OBVIOUS
<1>3. (Drafted(k) => Drafted(k)') /\ (Shows(p, k) => Shows(p, k)')
  BY OwnGrows
<1>4. \A a \in Due(w)' : Accepts(k, a) => Drafted(k)'
  BY <1>1, <1>3 DEF Drafted, Last
<1>5. (Accepted(k) => Drafted(k)') /\ Shows(p, k)'
  BY <1>1, <1>2, <1>3 DEF OwnSound
<1>6. (\A i \in iterations' : Under(k, i)) /\ (\A r \in requests' : r.kind = "save" => Under(k, r))
  BY <1>1
<1>7. \A v \in Windows \ {w} : kept'[v].session # k.session
  BY <1>1
<1>8. \A c \in Listened(w)' \cup Due(w)' : \A r \in c.then : r.from = k.version
  BY <1>1
<1>9. kept'[w] = k /\ page'[w] = p
  BY <1>1, <1>2
<1> QED
  BY <1>4, <1>5, <1>6, <1>7, <1>8, <1>9 DEF OwnSound

LEMMA GoingOnStaysUnder ==
  ASSUME NEW k \in KeptTypes, NEW l \in KeptTypes, NEW m \in Nat, GoesOn(k, l, m),
         NEW c, c.session \in Nat, c.session <= m, c.sequence \in Nat, l.session = k.session => Under(k, c)
  PROVE  Under(l, c)
<1>1. Last(k) \in Nat /\ Last(l) \in Nat /\ k.session \in Nat /\ l.session \in Nat
  BY LastIsANumber
<1> QED
  BY <1>1 DEF GoesOn, Under

(* A step of one window. *)
LEMMA OwnStep ==
  ASSUME TypeInv, TypeInv', SoundInv, OwnInv, UNCHANGED <<server, copied>>,
         NEW w \in Windows, NEW x, NEW l \in KeptTypes,
         page' = [page EXCEPT ![w] = x], kept' = [kept EXCEPT ![w] = l],
         \/ l.session = kept[w].session /\ minted' = minted
         \/ l.session = minted + 1 /\ minted' = minted + 1,
         Changes(x, l),
         \A r \in requests' :
           \/ \E c \in requests : Alike(r, c)
           \/ r.session = l.session /\ (Own(l) /\ r.kind = "save" => Under(l, r)),
         \A v \in Windows \ {w} : Listened(v)' \subseteq Listened(v) /\ Due(v)' \subseteq Due(v),
         \A a \in Due(w)' : \E c \in Due(w) :
           a.session = c.session /\ a.sequence = c.sequence /\ a.result = c.result,
         Own(l) => /\ \A c \in Listened(w)' \cup Due(w)' : \A r \in c.then : r.from = l.version
                   /\ GoesOn(kept[w], l, minted)
                   /\ Accepted(l) => Drafted(l)
                   /\ Shows(x, l)
  PROVE  OwnInv'
<1>1. PICK m \in Nat : m = minted
  BY DEF TypeInv, BoundTypes
<1>2. PICK k \in KeptTypes : k = kept[w]
  BY OwnAreTyped
<1>3. /\ iterations' = iterations /\ copied' = copied
      /\ \A v \in Windows : page'[v] = (IF v = w THEN x ELSE page[v]) /\ kept'[v] = IF v = w THEN l ELSE kept[v]
  BY DEF server, TypeInv, WindowTypes
<1>4. \A v \in Windows : kept[v].session \in Nat /\ kept[v].session <= m
  BY <1>1, OwnAreTyped, OwnAreSound DEF KeptTypes, KeptSound
<1>5. l.session \in Nat /\ l.session <= minted' /\ m <= minted' /\ minted' \in Nat
  BY <1>1, <1>2, <1>4 DEF KeptTypes
<1>6. /\ \A r \in requests : r.session \in Nat /\ r.session <= m /\ r.sequence \in Nat
      /\ \A r \in requests' : r.session \in Nat /\ r.sequence \in Nat
      /\ \A i \in iterations : i.session \in Nat /\ i.session <= m /\ i.sequence \in Nat
      /\ \A s \in copied : s \in Nat /\ s <= m
  BY <1>1 DEF TypeInv, NetworkTypes, RequestTypes, CallTypes, ServerTypes, IterationTypes, BoundTypes,
     OwnInv, MintedBefore
<1>7. MintedBefore'
  <2>1. ASSUME NEW r \in requests'
        PROVE  r.session <= minted'
    <3>1. CASE \E c \in requests : Alike(r, c)
      <4>1. PICK c \in requests : r.session = c.session
        BY <3>1 DEF Alike
      <4> QED
        BY <1>5, <1>6, <4>1
    <3>2. CASE r.session = l.session
      BY <1>5, <3>2
    <3> QED
      BY <3>1, <3>2
  <2>2. (\A i \in iterations' : i.session <= minted') /\ (\A s \in copied' : s <= minted')
    BY <1>3, <1>5, <1>6
  <2> QED
    BY <2>1, <2>2 DEF MintedBefore
<1>8. ASSUME NEW v \in Windows
      PROVE  Changes(page'[v], kept'[v])
  <2>1. CASE v = w
    BY <1>3, <2>1
  <2>2. CASE v # w
    <3>1. page'[v] = page[v] /\ kept'[v] = kept[v] /\ Changes(page[v], kept[v])
      BY <1>3, <2>2 DEF OwnInv
    <3> QED
      BY <3>1
  <2> QED
    BY <2>1, <2>2
<1>10. ASSUME NEW v \in Windows \ {w}, Own(kept[v])
       PROVE  OwnSound(v)'
  <2>1. OwnSound(v)
    BY <1>10 DEF OwnInv
  <2>2. l.session # kept[v].session
    <3>1. kept[w].session # kept[v].session
      BY <2>1 DEF OwnSound
    <3> QED
      BY <1>1, <1>4, <3>1
  <2>3. \A u \in Windows \ {v} : kept'[u].session # kept[v].session
    BY <1>3, <2>1, <2>2 DEF OwnSound
  <2>4. ASSUME NEW r \in requests', r.kind = "save"
        PROVE  Under(kept[v], r)
    <3>1. CASE \E c \in requests : Alike(r, c)
      <4>1. PICK c \in requests : Alike(r, c)
        BY <3>1
      <4>2. Under(kept[v], c)
        BY <2>1, <2>4, <4>1 DEF OwnSound, Alike
      <4> QED
        BY <4>1, <4>2 DEF Under, Alike, Saves
    <3>2. CASE r.session = l.session
      BY <2>2, <3>2 DEF Under
    <3> QED
      BY <3>1, <3>2
  <2>5. \A i \in iterations' : Under(kept[v], i)
    BY <1>3, <2>1 DEF OwnSound
  <2>6. \A c \in Listened(v)' \cup Due(v)' : \A r \in c.then : r.from = kept[v].version
    BY <2>1 DEF OwnSound
  <2>7. \A a \in Due(v)' : Accepts(kept[v], a) => Drafted(kept[v])
    BY <2>1 DEF OwnSound
  <2>8. page'[v] = page[v] /\ kept'[v] = kept[v] /\ iterations \subseteq iterations'
    BY <1>3
  <2> QED
    BY <2>1, <2>3, <2>4, <2>5, <2>6, <2>7, <2>8, OthersStayOwn
<1>11. ASSUME Own(l)
       PROVE  OwnSound(w)'
  <2>0. l.session = k.session => OwnSound(w)
    <3>1. l.session = k.session => Own(kept[w])
      BY <1>2, <1>11 DEF Own
    <3> QED
      BY <3>1 DEF OwnInv
  <2>1. GoesOn(k, l, m)
    BY <1>1, <1>2, <1>11
  <2>2. \A u \in Windows \ {w} : kept'[u].session # l.session
    <3>1. CASE l.session = k.session
      BY <1>2, <1>3, <2>0, <3>1 DEF OwnSound
    <3>2. CASE l.session = m + 1
      BY <1>1, <1>3, <1>4, <3>2
    <3> QED
      BY <1>1, <1>2, <3>1, <3>2
  <2>3. ASSUME NEW c \in requests, c.kind = "save"
        PROVE  Under(l, c)
    <3>1. l.session = k.session => Under(k, c)
      BY <1>2, <2>0, <2>3 DEF OwnSound
    <3> QED
      BY <1>6, <2>1, <3>1, GoingOnStaysUnder
  <2>4. ASSUME NEW r \in requests', r.kind = "save"
        PROVE  Under(l, r)
    <3>1. CASE \E c \in requests : Alike(r, c)
      <4>1. PICK c \in requests : Alike(r, c)
        BY <3>1
      <4>2. Under(l, c)
        BY <2>3, <2>4, <4>1 DEF Alike
      <4> QED
        BY <4>1, <4>2 DEF Under, Alike, Saves
    <3>2. CASE ~\E c \in requests : Alike(r, c)
      BY <1>11, <2>4, <3>2
    <3> QED
      BY <3>1, <3>2
  <2>5. ASSUME NEW i \in iterations'
        PROVE  Under(l, i)
    <3>1. l.session = k.session => Under(k, i)
      BY <1>2, <1>3, <2>0 DEF OwnSound
    <3> QED
      BY <1>3, <1>6, <2>1, <3>1, GoingOnStaysUnder
  <2>6. ASSUME NEW a \in Due(w)', Accepts(l, a)
        PROVE  Drafted(l)
    <3>1. PICK c \in Due(w) : a.session = c.session /\ a.sequence = c.sequence /\ a.result = c.result
      OBVIOUS
    <3>2. /\ c.session <= m /\ (c.session = k.session => c.sequence <= Last(k)) /\ c \in AnswerTypes
      BY <1>1, <1>2, OwnAreSound DEF AnswerSound, CallSound
    <3>3. c.session \in Nat /\ c.sequence \in Nat /\ Last(k) \in Nat /\ Last(l) \in Nat
      BY <3>2, LastIsANumber DEF AnswerTypes
    <3>4. /\ l.session = k.session /\ Last(l) = Last(k)
          /\ Standing(k) /\ l.words = k.words /\ l.version = k.version
      BY <1>5, <2>1, <2>6, <3>1, <3>2, <3>3 DEF GoesOn, Accepts
    <3>5. Accepts(k, c)
      BY <2>6, <3>1, <3>4 DEF Accepts, Saves
    <3>6. Drafted(k)
      BY <1>2, <2>0, <3>4, <3>5 DEF OwnSound
    <3> QED
      BY <3>4, <3>6 DEF Drafted
  <2>7. (Drafted(l) => Drafted(l)') /\ (Shows(x, l) => Shows(x, l)')
    BY <1>3, OwnGrows
  <2>8. (\A a \in Due(w)' : Accepts(l, a) => Drafted(l)') /\ (Accepted(l) => Drafted(l)') /\ Shows(x, l)'
    BY <1>11, <2>6, <2>7
  <2>9. page'[w] = x /\ kept'[w] = l
    BY <1>3
  <2>10. \A c \in Listened(w)' \cup Due(w)' : \A r \in c.then : r.from = l.version
    BY <1>11
  <2> QED
    BY <2>2, <2>4, <2>5, <2>8, <2>9, <2>10 DEF OwnSound
<1>12. ASSUME NEW v \in Windows, Own(kept[v])'
       PROVE  OwnSound(v)'
  <2>1. CASE v = w
    <3>1. Own(l)
      BY <1>3, <1>12, <2>1 DEF Own
    <3> QED
      BY <1>11, <2>1, <3>1
  <2>2. CASE v # w
    <3>1. Own(kept[v])
      BY <1>3, <1>12, <2>2 DEF Own
    <3> QED
      BY <1>10, <2>2, <3>1
  <2> QED
    BY <2>1, <2>2
<1>13. \A v \in Windows : Changes(page[v], kept[v])'
  BY <1>8 DEF Changes, Standing, Current, Waits
<1> QED
  BY <1>7, <1>12, <1>13 DEF OwnInv

LEMMA OwnHas ==
  ASSUME OwnInv, NEW w \in Windows
  PROVE  /\ Changes(page[w], kept[w])
         /\ Own(kept[w]) =>
              /\ Shows(page[w], kept[w]) /\ (Accepted(kept[w]) => Drafted(kept[w]))
              /\ \A a \in Due(w) : Accepts(kept[w], a) => Drafted(kept[w])
              /\ \A c \in Listened(w) \cup Due(w) : \A r \in c.then : r.from = kept[w].version
  BY DEF OwnInv, OwnSound

LEMMA DeafenedAreAlike ==
  ASSUME NEW rs \in SUBSET RequestTypes, NEW d \in Deafened(rs)
  PROVE  \E c \in rs : Alike(d, c)
<1>1. PICK c \in rs : d = [c EXCEPT !.chain = "deaf", !.then = {}]
  BY DEF Deafened
<1>2. c \in RequestTypes
  OBVIOUS
<1>3. Alike(d, c)
  BY <1>1, <1>2 DEF Alike, RequestTypes, CallTypes
<1> QED
  BY <1>3

(* What a page of a window does, and what it becomes on being answered. *)
LEMMA NothingWillFollow ==
  ASSUME SoundInv', NEW w \in Windows, page'[w].phase # "none"
  PROVE  \A c \in Listened(w)' \cup Due(w)' : c.then = {}
  BY DEF SoundInv, Sound, RequestSound, AnswerSound, CallSound

LEMMA DoesKeepsOwn ==
  ASSUME TypeInv, TypeInv', SoundInv, SoundInv', OwnInv, copied' = copied,
         NEW w \in Windows, NEW x, NEW l \in KeptTypes, NEW more, Does(w, x, l, more),
         x.phase # "none",
         \/ l.session = kept[w].session /\ minted' = minted
         \/ l.session = minted + 1 /\ minted' = minted + 1,
         Changes(x, l),
         \A r \in more : r.by = w /\ r.session = l.session /\ (r.kind = "save" => Under(l, r)),
         Own(l) => GoesOn(kept[w], l, minted) /\ (Accepted(l) => Drafted(l)) /\ Shows(x, l)
  PROVE  OwnInv'
<1>1. requests' = requests \cup more /\ answers' = answers /\ UNCHANGED server
      /\ page' = [page EXCEPT ![w] = x] /\ kept' = [kept EXCEPT ![w] = l]
  BY DEF Does
<1>2. page'[w] = x
  BY <1>1 DEF TypeInv, WindowTypes
<1>3. \A c \in Listened(w)' \cup Due(w)' : c.then = {}
  BY <1>2, NothingWillFollow
<1>4. \A v \in Windows \ {w} : Listened(v)' \subseteq Listened(v) /\ Due(v)' \subseteq Due(v)
  BY <1>1 DEF Listened, Due
<1>5. Due(w)' = Due(w)
  BY <1>1 DEF Due
<1>6. \A r \in requests' :
        \/ \E c \in requests : Alike(r, c)
        \/ r.session = l.session /\ (Own(l) /\ r.kind = "save" => Under(l, r))
  BY <1>1 DEF Alike
<1> QED
  BY <1>1, <1>3, <1>4, <1>5, <1>6, OwnStep

LEMMA BecomesKeepsOwn ==
  ASSUME TypeInv, TypeInv', SoundInv, SoundInv', OwnInv,
         NEW w \in Windows, NEW chain \in Pair, NEW o, NEW x, NEW l \in KeptTypes, NEW more,
         Becomes(w, chain, o, x, l, more), x.phase # "none",
         l.session = kept[w].session, Changes(x, l),
         \A r \in more : r.by = w /\ r.session = l.session /\ (r.kind = "save" => Under(l, r)),
         Own(l) => GoesOn(kept[w], l, minted) /\ (Accepted(l) => Drafted(l)) /\ Shows(x, l)
  PROVE  OwnInv'
<1>1. /\ requests' = (requests \ Calls(w, chain)) \cup Deafened(Calls(w, chain)) \cup more
      /\ answers' = answers \ Answers(w, chain) /\ UNCHANGED <<server, copied>> /\ minted' = minted
      /\ page' = [page EXCEPT ![w] = x] /\ kept' = [kept EXCEPT ![w] = l]
  BY DEF Becomes
<1>2. page'[w] = x
  BY <1>1 DEF TypeInv, WindowTypes
<1>3. \A c \in Listened(w)' \cup Due(w)' : c.then = {}
  BY <1>2, NothingWillFollow
<1>4. Calls(w, chain) \in SUBSET RequestTypes /\ Calls(w, chain) \subseteq requests
  BY DEF Calls, TypeInv, NetworkTypes
<1>5. \A d \in Deafened(Calls(w, chain)) : d.chain = "deaf" /\ \E c \in requests : Alike(d, c)
  BY <1>4, DeafenedAreDeaf, DeafenedAreAlike
<1>6. \A v \in Windows \ {w} : Listened(v)' \subseteq Listened(v) /\ Due(v)' \subseteq Due(v)
  BY <1>1, <1>5 DEF Listened, Due
<1>7. Due(w)' \subseteq Due(w)
  BY <1>1 DEF Due
<1>8. ASSUME NEW r \in requests'
      PROVE  \/ \E c \in requests : Alike(r, c)
             \/ r.session = l.session /\ (Own(l) /\ r.kind = "save" => Under(l, r))
  <2>1. r \in requests => Alike(r, r)
    BY DEF Alike
  <2> QED
    BY <1>1, <1>5, <2>1
<1> QED
  BY <1>1, <1>3, <1>6, <1>7, <1>8, OwnStep

(* What a window keeps, its text and numbers as they were. *)
SameText(k, l) ==
  /\ l.session = k.session /\ l.version = k.version /\ l.words = k.words /\ l.changed = k.changed
  /\ Last(l) = Last(k) /\ Current(l) = Current(k)

LEMMA SameTextIsOwn ==
  ASSUME NEW k, NEW l, SameText(k, l), NEW x, NEW m
  PROVE  /\ GoesOn(k, l, m) /\ Standing(l) = Standing(k) /\ Drafted(l) = Drafted(k)
         /\ (Changes(x, k) => Changes(x, l)) /\ (Shows(x, k) => Shows(x, l))
<1>1. Standing(l) = Standing(k) /\ Drafted(l) = Drafted(k)
  BY DEF SameText, Standing, Drafted
<1> QED
  BY <1>1 DEF SameText, GoesOn, Changes, Shows

LEMMA ToldIsOwn ==
  ASSUME NEW k \in KeptTypes, NEW o, Accepted(k) => Drafted(k), Accepts(k, o) => Drafted(k)
  PROVE  LET l == Told(k, o) IN SameText(k, l) /\ (Accepted(l) => Drafted(l))
<1> DEFINE l == Told(k, o)
<1>1. /\ l.session = k.session /\ l.version = k.version /\ l.words = k.words
      /\ l.changed = k.changed /\ l.sent = k.sent /\ l.sentWords = k.sentWords
      /\ l.unsent = k.unsent /\ l.later = k.later /\ l.laterCurrent = k.laterCurrent
  BY TellingKeeps
<1>2. \/ l = k
      \/ /\ o.sequence > 0 /\ o.session = k.session /\ l.answered = o.sequence
         /\ l.accepted <=> o.result = "ok"
  BY DEF Told, KeptTypes
<1> HIDE DEF l
<1>3. SameText(k, l)
  BY <1>1 DEF SameText, Last, Current
<1>4. Standing(l) = Standing(k) /\ Drafted(l) = Drafted(k)
  BY <1>3, SameTextIsOwn
<1>5. Accepted(l) => Accepted(k) \/ Accepts(k, o)
  BY <1>2, <1>3, <1>4 DEF Accepted, Accepts, SameText, Saves
<1> QED
  BY <1>3, <1>4, <1>5 DEF l

(* What is heard of a save of the last number is so. *)
LEMMA HeardIsOwn ==
  ASSUME TypeInv, OwnInv, NEW w \in Windows, NEW chain \in Pair, NEW o \in Outcomes(w, chain), Own(kept[w])
  PROVE  Accepts(kept[w], o) => Drafted(kept[w])
<1>1. /\ o.heard => \E a \in Answers(w, chain) :
           o.result = a.result /\ o.session = a.session /\ o.sequence = a.sequence
      /\ ~o.heard => o = GivesUp
  BY OutcomesAreOf
<1>2. CASE o.heard
  <2>1. PICK a \in Answers(w, chain) :
          o.result = a.result /\ o.session = a.session /\ o.sequence = a.sequence
    BY <1>1, <1>2
  <2>2. a \in Due(w)
    BY DEF Answers, Due
  <2>3. Accepts(kept[w], a) => Drafted(kept[w])
    BY <2>2, OwnHas
  <2> QED
    BY <2>1, <2>3 DEF Accepts, Saves
<1>3. CASE ~o.heard
  BY <1>1, <1>3 DEF GivesUp, Accepts
<1> QED
  BY <1>2, <1>3

(* A page that goes on with what it showed and had to save. *)
LEMMA ChangesGoOn ==
  ASSUME NEW p, NEW k, Changes(p, k), NEW x, x.base = p.base, x.phase # "none", p.phase # "none",
         x.repeat # NoText => x.repeat = p.repeat,
         x.phase \in {"reading", "claiming"} /\ x.repeat # NoText => p.phase \in {"reading", "claiming"},
         x.dirty \/ Waits(x) => \/ p.dirty \/ Waits(p)
                                \/ p.phase \in {"reading", "claiming"} /\ p.repeat # NoText
  PROVE  Changes(x, k)
  BY DEF Changes

LEMMA ShowsGoesOn ==
  ASSUME NEW p, NEW k, Shows(p, k), NEW x, x.base = p.base, p.phase \notin {"none", "lost"},
         \/ x.phase = "lost" \/ x.dirty \/ Waits(x)
         \/ ~p.dirty /\ ~Waits(p) /\ x.repeat = p.repeat
  PROVE  Shows(x, k)
  BY DEF Shows

LEMMA SendingIsOwn ==
  ASSUME NEW w \in Windows, NEW q \in PageTypes, NEW k \in KeptTypes, NEW m, KeptSound(k, m), Changes(q, k),
         q.phase \in SavingPhases, q.dirty, q.repeat = NoText, q.sequence = Last(k),
         NEW as \in {"save", "saveAgain"}, NEW forced
  PROVE  LET x == Sending(q, as, forced)  l == Sent(k, q.sequence + 1)  r == NextSave(w, q, k) IN
         /\ x.phase # "none" /\ l \in KeptTypes /\ l.session = k.session /\ Changes(x, l)
         /\ GoesOn(k, l, m) /\ ~Accepted(l) /\ Shows(x, l)
         /\ r.by = w /\ r.session = l.session /\ Under(l, r)
<1> DEFINE x == Sending(q, as, forced)  l == Sent(k, q.sequence + 1)  r == NextSave(w, q, k)
<1>1. Last(k) \in Nat /\ k.later \in Nat /\ k.sent \in Nat /\ k.answered \in Nat /\ k.answered <= Last(k)
  BY LastIsANumber DEF KeptTypes, KeptSound
<1>2. l \in KeptTypes
  BY NextSaveIsTyped
<1>3. /\ l.session = k.session /\ l.words = k.words /\ l.version = k.version /\ l.changed = k.changed
      /\ l.answered = k.answered /\ l.sent = Last(k) + 1 /\ l.later = Last(k) + 1
  BY <1>1 DEF Sent, KeptTypes, Last
<1>4. x.phase = q.phase /\ x.base = q.base /\ x.repeat = NoText /\ x.dirty = FALSE /\ x.sending = as
  BY DEF Sending, PageTypes
<1>5. /\ r.by = w /\ r.session = k.session /\ r.sequence = Last(k) + 1 /\ r.words = k.words
      /\ r.from = k.version
  BY DEF NextSave, SaveCall, Call
<1> HIDE DEF x, l, r
<1>6. Last(l) = Last(k) + 1
  BY <1>1, <1>3 DEF Last
<1>7. Waits(x)
  BY <1>4 DEF Waits
<1>8. Changes(x, l)
  <2>1. k.changed \/ k.words = q.base
    BY DEF Changes, SavingPhases
  <2> QED
    BY <1>3, <1>4, <2>1 DEF Changes
<1>9. GoesOn(k, l, m) /\ ~Accepted(l) /\ Shows(x, l) /\ Under(l, r)
  BY <1>1, <1>3, <1>5, <1>6, <1>7 DEF GoesOn, Accepted, Shows, Under
<1> QED
  BY <1>2, <1>3, <1>4, <1>5, <1>8, <1>9 DEF x, l, r, SavingPhases

LEMMA FlushKeepsOwn ==
  ASSUME TypeInv, TypeInv', SoundInv, SoundInv', OwnInv, NEW w \in Windows, Flush(w) \/ FlushToFinish(w)
  PROVE  OwnInv'
<1> DEFINE p == page[w]  k == kept[w]  idle == [p EXCEPT !.timed = FALSE]
<1>0. p \in PageTypes /\ Shape(p) /\ k \in KeptTypes
      /\ KeptSound(k, minted) /\ PageSound(p, k) /\ Changes(p, k)
  BY OwnAreTyped, OwnAreSound, OwnHas
<1>1. p.sending = "none" /\ p.phase \in SavingPhases /\ p.asking \in {"none", "flush"}
  BY <1>0 DEF Flush, FlushToFinish, Shape, SavingPhases, PageTypes, Phases
<1>2. p.sequence = Last(k) /\ p.repeat = NoText
  BY <1>0, <1>1 DEF PageSound, SavingPhases
<1>3. idle \in PageTypes
  BY <1>0, Zenon DEF PageTypes
<1>4. /\ idle.phase = p.phase /\ idle.base = p.base /\ idle.sequence = p.sequence /\ idle.repeat = p.repeat
      /\ idle.dirty = p.dirty /\ idle.sending = p.sending
  BY <1>0 DEF PageTypes
<1>5. copied' = copied /\ minted' = minted
  BY Zenon DEF Flush, FlushToFinish, bounds
<1> HIDE DEF idle
<1>6. ASSUME p.dirty, NEW forced \in BOOLEAN, NEW q \in {p, idle},
             Does(w, Sending(idle, "save", forced), Sent(k, q.sequence + 1), {NextSave(w, q, k)})
      PROVE  OwnInv'
  <2> DEFINE x == Sending(idle, "save", forced)  l == Sent(k, idle.sequence + 1)
             r == NextSave(w, idle, k)
  <2>1. Does(w, x, l, {r})
    BY <1>4, <1>6 DEF NextSave
  <2>2. Changes(idle, k)
    BY <1>0, <1>1, <1>4, ChangesGoOn DEF Waits, SavingPhases
  <2>3. /\ x.phase # "none" /\ l \in KeptTypes /\ l.session = k.session /\ Changes(x, l)
        /\ GoesOn(k, l, minted) /\ ~Accepted(l) /\ Shows(x, l)
        /\ r.by = w /\ r.session = l.session /\ Under(l, r)
    <3>1. /\ idle.phase \in SavingPhases /\ idle.dirty /\ idle.repeat = NoText /\ idle.sequence = Last(k)
          /\ "save" \in {"save", "saveAgain"}
      BY <1>1, <1>2, <1>4, <1>6
    <3> QED
      BY <1>0, <1>3, <2>2, <3>1, SendingIsOwn
  <2> HIDE DEF x, l, r
  <2> QED
    BY <1>5, <2>1, <2>3, DoesKeepsOwn
<1>7. ASSUME NEW x, x.base = p.base, x.dirty = p.dirty, x.repeat = p.repeat,
             x.sending = p.sending, x.phase = p.phase, NEW more, Does(w, x, k, more),
             \A r \in more : r.by = w /\ r.session = k.session /\ r.kind # "save"
      PROVE  OwnInv'
  <2>1. Changes(x, k) /\ x.phase # "none"
    BY <1>0, <1>1, <1>7, ChangesGoOn DEF SavingPhases, Waits
  <2>2. Own(k) => Shows(x, k) /\ (Accepted(k) => Drafted(k))
    BY <1>7, OwnHas DEF Shows, Waits
  <2>3. GoesOn(k, k, minted)
    BY DEF GoesOn
  <2> QED
    BY <1>0, <1>5, <1>7, <2>1, <2>2, <2>3, DoesKeepsOwn
<1>8. CASE Flush(w)
  <2>1. CASE p.dirty
    BY <1>1, <1>6, <1>8, <2>1 DEF Flush, idle
  <2>2. CASE ~p.dirty
    <3>1. Does(w, idle, k, {})
      BY <1>1, <1>8, <2>2 DEF Flush, idle
    <3> QED
      BY <1>4, <1>7, <3>1
  <2> QED
    BY <2>1, <2>2
<1>9. CASE FlushToFinish(w)
  <2>1. CASE p.dirty
    BY <1>4, <1>6, <1>9, <2>1 DEF FlushToFinish, idle
  <2>2. CASE ~p.dirty
    <3> DEFINE x == [idle EXCEPT !.asking = "request"]  r == CutCall(w, idle, k)
    <3>1. Does(w, x, k, {r})
      BY <1>4, <1>9, <2>2 DEF FlushToFinish, idle
    <3>2. /\ x.phase = p.phase /\ x.base = p.base /\ x.repeat = p.repeat
          /\ x.dirty = p.dirty /\ x.sending = p.sending
      BY <1>3, <1>4 DEF PageTypes
    <3>3. r.by = w /\ r.session = k.session /\ r.kind # "save"
      BY DEF CutCall, Call
    <3> HIDE DEF x, r
    <3> QED
      BY <1>7, <3>1, <3>2, <3>3
  <2> QED
    BY <2>1, <2>2
<1> QED
  BY <1>8, <1>9

LEMMA HearSaveKeepsOwn ==
  ASSUME TypeInv, TypeInv', SoundInv, SoundInv', OwnInv, NEW w \in Windows, NEW o \in Outcomes(w, "send"),
         HearSave(w, o) \/ HearSaveReclaim(w, o)
  PROVE  OwnInv'
<1> DEFINE p == page[w]  old == kept[w]  k == Told(old, o)
           done == [p EXCEPT !.sending = "none"]
           unsaved == [done EXCEPT !.dirty = TRUE]
           ended == [unsaved EXCEPT !.forced = FALSE]
           back == [p EXCEPT !.sending = "none", !.forced = FALSE]
<1>0. p \in PageTypes /\ Shape(p) /\ old \in KeptTypes /\ minted \in Nat
      /\ KeptSound(old, minted) /\ PageSound(p, old) /\ "send" \in Pair /\ Changes(p, old)
  BY OwnAreTyped, OwnAreSound, OwnHas DEF Pair
<1>1. /\ p.sending # "none" /\ p.phase \in SavingPhases /\ p.asking \in {"none", "flush"}
  BY <1>0 DEF HearSave, HearSaveReclaim, Shape, SavingPhases
<1>2. p.sequence = Last(old) /\ p.repeat = NoText /\ (p.dirty \/ Waits(p)) /\ p.phase # "none"
  BY <1>0, <1>1 DEF PageSound, SavingPhases, Waits, PageTypes, Sendings
<1>3. /\ o.sequence \in Nat
      /\ o.sequence > 0 => o.session = old.session /\ o.sequence = Last(old)
      /\ o.result = "ok" /\ Waits(p) => o.sequence > 0
  BY <1>0, HeardIsSound
<1>4. /\ k \in KeptTypes /\ SameText(old, k) /\ GoesOn(old, k, minted) /\ Changes(p, k)
      /\ Own(old) => (Accepted(k) => Drafted(k))
  <2>1. k \in KeptTypes
    BY <1>0, <1>3, ToldIsKept
  <2>2. Own(old) => SameText(old, k) /\ (Accepted(k) => Drafted(k))
    BY <1>0, HeardIsOwn, OwnHas, ToldIsOwn
  <2>3. SameText(old, k)
    <3>1. /\ k.session = old.session /\ k.version = old.version /\ k.words = old.words
          /\ k.changed = old.changed /\ k.sent = old.sent
          /\ k.unsent = old.unsent /\ k.later = old.later /\ k.laterCurrent = old.laterCurrent
      BY <1>0, TellingKeeps
    <3> HIDE DEF k
    <3> QED
      BY <3>1 DEF SameText, Last, Current
  <2> HIDE DEF k
  <2> QED
    BY <1>0, <2>1, <2>2, <2>3, SameTextIsOwn
<1>5. done \in PageTypes /\ unsaved \in PageTypes /\ ended \in PageTypes /\ back \in PageTypes
  <2>1. done \in PageTypes
    BY <1>0, Zenon DEF PageTypes, Sendings
  <2>2. unsaved \in PageTypes
    BY <2>1, Zenon DEF PageTypes
  <2>3. ended \in PageTypes
    BY <2>2, Zenon DEF PageTypes
  <2>4. back \in PageTypes
    BY <1>0, Zenon DEF PageTypes, Sendings
  <2> QED
    BY <2>1, <2>2, <2>3, <2>4
<1>6. \A q \in {done, unsaved, ended, back} :
        /\ q.base = p.base /\ q.repeat = p.repeat /\ q.asking = p.asking
        /\ q.phase = p.phase /\ q.sending = "none"
  BY <1>0 DEF PageTypes
<1>7. unsaved.dirty = TRUE /\ ended.dirty = TRUE /\ done.dirty = p.dirty /\ back.dirty = p.dirty
  BY <1>0 DEF PageTypes
<1>8. Own(old) <=> Own(k)
  BY <1>4 DEF Own, SameText
<1> HIDE DEF done, unsaved, ended, back, k
(* Where nothing more goes out. *)
<1>9. ASSUME NEW q \in {done, ended, back}, NEW x, NEW l \in {k, old},
             \/ x = Acknowledged(q) \/ x = SaveFailed(q)
             \/ \E b \in BOOLEAN : x = Lose(q, b)
             \/ \E result : x = Refuse(q, result) \/ x = RefusedOrLost(q, result),
             x.dirty \/ (Own(l) => Shows(x, l)),
             Becomes(w, "send", o, x, l, {})
      PROVE  OwnInv'
  <2>1. q \in PageTypes /\ q.asking \in {"none", "flush"}
    BY <1>1, <1>5, <1>6
  <2>2. /\ x.base = p.base /\ x.repeat = NoText
        /\ x.phase \in {"lost", "editing", p.phase} /\ x.phase # "none"
    <3>1. StopsAs(q, x)
      BY <1>9 DEF StopsAs
    <3>2. /\ x.base = q.base /\ x.repeat = q.repeat /\ x.phase \in {"lost", "editing", q.phase}
      BY <2>1, <3>1, StoppedFields
    <3> QED
      BY <1>1, <1>2, <1>6, <3>2 DEF SavingPhases
  <2>4. l \in KeptTypes /\ l.session = old.session /\ GoesOn(old, l, minted) /\ Changes(p, l)
        /\ (Own(l) => (Accepted(l) => Drafted(l)))
    <3>1. GoesOn(old, old, minted) /\ (Own(old) => (Accepted(old) => Drafted(old)))
      BY OwnHas DEF GoesOn
    <3> QED
      BY <1>0, <1>4, <1>8, <3>1 DEF SameText
  <2>5. Changes(x, l)
    BY <1>2, <2>2, <2>4, ChangesGoOn
  <2>6. Own(l) => Shows(x, l)
    BY <1>9 DEF Shows
  <2> QED
    BY <1>0, <1>9, <2>2, <2>4, <2>5, <2>6, BecomesKeepsOwn
<1>10. CASE HearSave(w, o)
  <2>0. Waits(p)
    BY <1>10 DEF HearSave, Waits
  <2>1. ASSUME o.result = "ok", Becomes(w, "send", o, Acknowledged(done), k, {})
        PROVE  OwnInv'
    <3> DEFINE x == Acknowledged(done)
    <3>1. x.dirty = p.dirty /\ x.base = p.base
      BY <1>5, <1>6, <1>7 DEF Acknowledged, PageTypes
    <3>2. ASSUME ~p.dirty, Own(k)
          PROVE  Drafted(k) \/ k.words = p.base
      <4>1. Current(old) /\ o.sequence > 0 /\ o.session = old.session /\ o.sequence = Last(old)
        BY <1>0, <1>3, <2>0, <2>1, <3>2 DEF PageSound
      <4>2. old.changed \/ old.words = p.base
        BY <1>0, <1>2, <2>0 DEF Changes
      <4>3. CASE old.changed
        <5>1. Accepts(old, o)
          BY <2>1, <4>1, <4>3 DEF Accepts, Standing, Saves
        <5>2. Drafted(old)
          BY <1>0, <1>8, <3>2, <5>1, HeardIsOwn
        <5>3. Drafted(k) = Drafted(old)
          BY <1>4, SameTextIsOwn
        <5> QED
          BY <5>2, <5>3
      <4> QED
        BY <1>4, <4>2, <4>3 DEF SameText
    <3> HIDE DEF x
    <3>3. x.dirty \/ (Own(k) => Shows(x, k))
      BY <3>1, <3>2 DEF Shows
    <3> QED
      BY <1>9, <2>1, <3>3 DEF x
  <2>2. ASSUME Becomes(w, "send", o, SaveFailed(done), k, {})
        PROVE  OwnInv'
    <3>1. SaveFailed(done).dirty = TRUE
      BY <1>5 DEF SaveFailed, PageTypes
    <3> QED
      BY <1>9, <2>2, <3>1
  <2>3. ASSUME Becomes(w, "send", o, Refuse(ended, o.result), k, {})
        PROVE  OwnInv'
    <3>1. Refuse(ended, o.result).dirty = TRUE
      <4>1. ended.asking \in {"none", "flush"}
        BY <1>1, <1>6
      <4>2. StopsAs(ended, Refuse(ended, o.result))
        BY DEF StopsAs
      <4> QED
        BY <1>5, <1>7, <4>1, <4>2, StoppedFields
    <3> QED
      BY <1>9, <2>3, <3>1
  <2>4. ASSUME NEW b \in BOOLEAN, Becomes(w, "send", o, Lose(ended, b), k, {})
        PROVE  OwnInv'
    <3>1. Lose(ended, b).dirty = TRUE
      BY <1>5, <1>7 DEF Lose, Stopped, PageTypes
    <3> QED
      BY <1>9, <2>4, <3>1
  <2>5. ASSUME Becomes(w, "send", o, [unsaved EXCEPT !.sending = "reclaim"], k,
                       {ClaimCall(w, "send", k, FALSE)})
        PROVE  OwnInv'
    <3> DEFINE x == [unsaved EXCEPT !.sending = "reclaim"]  r == ClaimCall(w, "send", k, FALSE)
    <3>1. x.phase = p.phase /\ x.dirty = TRUE /\ x.base = p.base /\ x.repeat = p.repeat
      BY <1>5, <1>6, <1>7 DEF PageTypes
    <3>2. r.by = w /\ r.session = k.session /\ r.kind # "save"
      BY DEF ClaimCall, Call
    <3>3. Becomes(w, "send", o, x, k, {r})
      BY <2>5
    <3> HIDE DEF x, r
    <3>4. Changes(x, k) /\ Shows(x, k) /\ x.phase # "none"
      BY <1>2, <1>4, <3>1, ChangesGoOn DEF Shows
    <3>5. k.session = old.session
      BY <1>4 DEF SameText
    <3> QED
      BY <1>0, <1>4, <1>8, <3>2, <3>3, <3>4, <3>5, BecomesKeepsOwn
  <2> QED
    BY <1>10, <2>1, <2>2, <2>3, <2>4, <2>5 DEF HearSave, done, unsaved, ended, k
<1>11. CASE HearSaveReclaim(w, o)
  <2>0. p.dirty /\ p.sending = "reclaim" /\ p.dirty \in BOOLEAN
    BY <1>0, <1>11 DEF HearSaveReclaim, PageSound, PageTypes
  <2>1. ASSUME Becomes(w, "send", o, RefusedOrLost(back, o.result), old, {})
        PROVE  OwnInv'
    <3>1. RefusedOrLost(back, o.result).dirty
      <4>1. back.asking \in {"none", "flush"}
        BY <1>1, <1>6
      <4>2. StopsAs(back, RefusedOrLost(back, o.result))
        BY DEF StopsAs
      <4> QED
        BY <1>5, <1>7, <2>0, <4>1, <4>2, StoppedFields
    <3> QED
      BY <1>9, <2>1, <3>1
  <2>2. ASSUME Becomes(w, "send", o, Sending(p, "saveAgain", p.forced), Sent(old, p.sequence + 1),
                       {NextSave(w, p, old)})
        PROVE  OwnInv'
    <3> DEFINE x == Sending(p, "saveAgain", p.forced)  l == Sent(old, p.sequence + 1)
               r == NextSave(w, p, old)
    <3>1. /\ x.phase # "none" /\ l \in KeptTypes /\ l.session = old.session /\ Changes(x, l)
          /\ GoesOn(old, l, minted) /\ ~Accepted(l) /\ Shows(x, l)
          /\ r.by = w /\ r.session = l.session /\ Under(l, r)
      BY <1>0, <1>1, <1>2, <2>0, SendingIsOwn
    <3>2. Becomes(w, "send", o, x, l, {r})
      BY <2>2
    <3> HIDE DEF x, l, r
    <3> QED
      BY <1>0, <3>1, <3>2, BecomesKeepsOwn
  <2> QED
    BY <1>11, <2>1, <2>2 DEF HearSaveReclaim, back
<1> QED
  BY <1>10, <1>11

(* A record reset has no change, and shows the text it was reset to.       *)
LEMMA ResetIsOwn ==
  ASSUME NEW k \in KeptTypes, NEW v, NEW words, NEW m, NEW x
  PROVE  LET l == Reset(k, v, words) IN
         /\ l.session = k.session /\ l.version = v /\ l.words = words /\ Last(l) = Last(k)
         /\ GoesOn(k, l, m) /\ ~Standing(l) /\ ~Accepted(l)
         /\ x.base = words => Changes(x, l) /\ Shows(x, l)
<1> DEFINE l == Reset(k, v, words)
<1>1. /\ l.session = k.session /\ l.version = v /\ l.words = words /\ l.changed = FALSE
      /\ l.sent = k.sent /\ l.later = k.later
  BY DEF Reset, KeptTypes
<1> HIDE DEF l
<1>2. Last(l) = Last(k) /\ ~Standing(l)
  BY <1>1 DEF Last, Standing
<1> QED
  BY <1>1, <1>2 DEF l, GoesOn, Accepted, Changes, Shows

LEMMA HearClaimKeepsOwn ==
  ASSUME TypeInv, TypeInv', SoundInv, SoundInv', OwnInv, NEW w \in Windows, NEW o \in Outcomes(w, "ask"),
         HearClaim(w, o)
  PROVE  OwnInv'
<1> DEFINE p == page[w]  k == kept[w]
<1>0. p \in PageTypes /\ Shape(p) /\ k \in KeptTypes /\ PageSound(p, k) /\ "ask" \in Pair /\ Changes(p, k)
  BY OwnAreTyped, OwnAreSound, OwnHas DEF Pair
<1>1. p.asking = "claim" /\ p.phase = "claiming" /\ p.sending = "none"
  <2>1. p.asking = "claim"
    BY DEF HearClaim
  <2> QED
    BY <1>0, <2>1 DEF Shape, SavingPhases
<1>2. /\ p.sequence = Last(k) /\ Last(k) \in Nat /\ GoesOn(k, k, minted)
      /\ Own(k) => Shows(p, k) /\ (Accepted(k) => Drafted(k))
  BY <1>0, <1>1, LastIsANumber, OwnHas DEF PageSound, GoesOn
<1>3. CASE p.repeat = NoText /\ Becomes(w, "ask", o, Started(p), k, {})
  <2> DEFINE x == Started(p)
  <2>1. /\ x.sending = "none" /\ x.phase = "editing" /\ x.repeat = NoText
        /\ x.base = p.base /\ x.dirty = p.dirty
    BY <1>0, <1>1 DEF Started, PageTypes
  <2> HIDE DEF x
  <2>2. Changes(x, k) /\ x.phase # "none"
    BY <1>0, <1>1, <2>1, ChangesGoOn DEF Waits
  <2>3. Own(k) => Shows(x, k)
    BY <1>1, <1>2, <1>3, <2>1, ShowsGoesOn DEF Waits
  <2> QED
    BY <1>0, <1>2, <1>3, <2>2, <2>3, BecomesKeepsOwn DEF x
<1>4. CASE /\ p.repeat # NoText
           /\ Becomes(w, "ask", o, [p EXCEPT !.asking = "repeat"], k,
                      {SaveCall(w, "ask", k, p.sequence, p.repeat)})
  <2> DEFINE x == [p EXCEPT !.asking = "repeat"]  r == SaveCall(w, "ask", k, p.sequence, p.repeat)
  <2>1. /\ x.sending = "none" /\ x.phase = "claiming" /\ x.repeat = p.repeat
        /\ x.base = p.base /\ x.dirty = p.dirty
    BY <1>0, <1>1 DEF PageTypes
  <2>2. /\ r.by = w /\ r.session = k.session /\ r.sequence = p.sequence /\ r.words = p.repeat
        /\ r.from = k.version
    BY DEF SaveCall, Call
  <2>3. Becomes(w, "ask", o, x, k, {r})
    BY <1>4
  <2> HIDE DEF x, r
  <2>4. Changes(x, k) /\ x.phase # "none"
    BY <1>0, <1>1, <2>1, ChangesGoOn DEF Waits
  <2>5. Own(k) => Shows(x, k)
    BY <1>1, <1>2, <2>1, ShowsGoesOn DEF Waits
  <2>6. Under(k, r)
    BY <1>0, <1>1, <1>2, <1>4, <2>2 DEF Under, Changes
  <2> QED
    BY <1>0, <1>2, <2>2, <2>3, <2>4, <2>5, <2>6, BecomesKeepsOwn
<1>5. CASE Becomes(w, "ask", o, TurnedBack(p, o.result),
                   IF p.dirty \/ p.replay THEN Reset(k, k.version, p.base) ELSE k, {})
  <2> DEFINE x == TurnedBack(p, o.result)  y == Reset(k, k.version, p.base)
  <2>1. /\ x.sending = "none" /\ x.phase = "reading" /\ x.repeat = p.repeat
        /\ x.base = p.base /\ x.dirty = FALSE
    BY <1>0, <1>1 DEF TurnedBack, PageTypes
  <2>2. y \in KeptTypes
    BY <1>0, StoredIsKept DEF KeptTypes, PageTypes
  <2>3. /\ y.session = k.session /\ GoesOn(k, y, minted) /\ ~Accepted(y)
        /\ x.base = p.base => Changes(x, y) /\ Shows(x, y)
    <3> HIDE DEF x
    <3> QED
      BY <1>0, ResetIsOwn
  <2>4. CASE p.dirty \/ p.replay
    <3>1. Becomes(w, "ask", o, x, y, {})
      BY <1>5, <2>4
    <3> HIDE DEF x, y
    <3>2. Changes(x, y) /\ Shows(x, y) /\ x.phase # "none"
      BY <2>1, <2>3
    <3> QED
      BY <1>0, <2>2, <2>3, <3>1, <3>2, BecomesKeepsOwn
  <2>5. CASE ~(p.dirty \/ p.replay)
    <3>1. Becomes(w, "ask", o, x, k, {})
      BY <1>5, <2>5
    <3>2. p.dirty = FALSE
      BY <1>0, <2>5 DEF PageTypes
    <3> HIDE DEF x
    <3>3. Changes(x, k) /\ x.phase # "none"
      BY <1>0, <1>1, <2>1, ChangesGoOn DEF Waits
    <3>4. Own(k) => Shows(x, k)
      BY <1>1, <1>2, <2>1, <3>2, ShowsGoesOn DEF Waits
    <3> QED
      BY <1>0, <1>2, <3>1, <3>3, <3>4, BecomesKeepsOwn
  <2> QED
    BY <2>4, <2>5
<1> QED
  BY <1>3, <1>4, <1>5 DEF HearClaim

LEMMA HearRepeatKeepsOwn ==
  ASSUME TypeInv, TypeInv', SoundInv, SoundInv', OwnInv, NEW w \in Windows, NEW o \in Outcomes(w, "ask"),
         HearRepeat(w, o)
  PROVE  OwnInv'
<1> DEFINE p == page[w]  old == kept[w]  k == Told(old, o)
           ended == [p EXCEPT !.asking = "none", !.dirty = TRUE]
<1>0. p \in PageTypes /\ Shape(p) /\ old \in KeptTypes /\ PageSound(p, old) /\ "ask" \in Pair /\ Changes(p, old)
  BY OwnAreTyped, OwnAreSound, OwnHas DEF Pair
<1>1. p.asking = "repeat" /\ p.phase = "claiming" /\ p.sending = "none" /\ p.repeat # NoText
  <2>1. p.asking = "repeat"
    BY DEF HearRepeat
  <2> QED
    BY <1>0, <2>1 DEF Shape, SavingPhases, PageSound
<1>2. /\ o.sequence \in Nat
      /\ o.sequence > 0 => o.session = old.session /\ o.sequence = Last(old)
      /\ o.result = "ok" => o.sequence > 0
  BY <1>0, <1>1, HeardIsSound
<1>3. Own(old) => /\ Shows(p, old) /\ (Accepts(old, o) => Drafted(old))
                  /\ SameText(old, k) /\ (Accepted(k) => Drafted(k))
  BY <1>0, HeardIsOwn, OwnHas, ToldIsOwn
<1>4. SameText(old, k) /\ k \in KeptTypes
  <2>1. k \in KeptTypes
    BY <1>0, <1>2, ToldIsKept
  <2>2. /\ k.session = old.session /\ k.version = old.version /\ k.words = old.words
        /\ k.changed = old.changed /\ k.sent = old.sent
        /\ k.unsent = old.unsent /\ k.later = old.later /\ k.laterCurrent = old.laterCurrent
    BY <1>0, TellingKeeps
  <2> HIDE DEF k
  <2> QED
    BY <2>1, <2>2 DEF SameText, Last, Current
<1> HIDE DEF k
<1>5. /\ k.session = old.session /\ GoesOn(old, k, minted) /\ Changes(p, k) /\ (Own(k) <=> Own(old))
      /\ Standing(k) = Standing(old) /\ Drafted(k) = Drafted(old)
  BY <1>0, <1>4, SameTextIsOwn DEF SameText, Own
<1>6. Own(k) => /\ Shows(p, k) /\ (Accepted(k) => Drafted(k))
                /\ o.result = "ok" /\ Standing(k) => Drafted(k)
  <2>1. SUFFICES ASSUME Own(k)
                 PROVE  /\ Shows(p, k) /\ (Accepted(k) => Drafted(k))
                        /\ o.result = "ok" /\ Standing(k) => Drafted(k)
    OBVIOUS
  <2>2. Shows(p, k) /\ (Accepted(k) => Drafted(k))
    BY <1>3, <1>4, <1>5, <2>1, SameTextIsOwn
  <2>3. o.result = "ok" /\ Standing(k) => Accepts(old, o)
    BY <1>2, <1>5 DEF Accepts, Saves
  <2> QED
    BY <1>3, <1>5, <2>1, <2>2, <2>3
<1>7. CASE o.result = "ok" /\ Becomes(w, "ask", o, Started(p), k, {})
  <2> DEFINE x == Started(p)
  <2>1. /\ x.sending = "none" /\ x.phase = "editing" /\ x.repeat = NoText
        /\ x.base = p.base /\ x.dirty = p.dirty
    BY <1>0, <1>1 DEF Started, PageTypes
  <2> HIDE DEF x
  <2>2. Changes(x, k) /\ x.phase # "none"
    BY <1>1, <1>5, <2>1, ChangesGoOn DEF Waits
  <2>3. Own(k) => Shows(x, k)
    BY <1>1, <1>6, <1>7, <2>1 DEF Shows, Waits
  <2> QED
    BY <1>0, <1>4, <1>5, <1>6, <1>7, <2>2, <2>3, BecomesKeepsOwn DEF x
<1>8. ASSUME NEW b \in BOOLEAN, Becomes(w, "ask", o, Lose(ended, b), k, {})
      PROVE  OwnInv'
  <2> DEFINE x == Lose(ended, b)
  <2>1. ended \in PageTypes
    BY <1>0, Zenon DEF PageTypes, Askings
  <2>2. ended.base = p.base /\ ended.repeat = p.repeat
    BY <1>0 DEF PageTypes
  <2>3. x.phase = "lost" /\ x.base = p.base /\ x.repeat = p.repeat
    <3> HIDE DEF ended
    <3> QED
      BY <2>1, <2>2 DEF Lose, Stopped, PageTypes
  <2> HIDE DEF x
  <2>4. Changes(x, k) /\ Shows(x, k) /\ x.phase # "none"
    BY <1>1, <1>5, <2>3, ChangesGoOn DEF Shows
  <2> QED
    BY <1>0, <1>4, <1>5, <1>6, <1>8, <2>4, BecomesKeepsOwn DEF x
<1> QED
  BY <1>7, <1>8, (o.result \notin Refusals) \in BOOLEAN DEF HearRepeat, k

LEMMA HearFinishKeepsOwn ==
  ASSUME TypeInv, TypeInv', SoundInv, SoundInv', OwnInv, NEW w \in Windows, NEW o \in Outcomes(w, "ask"),
         HearCut(w, o) \/ HearFinishReclaim(w, o)
  PROVE  OwnInv'
<1> DEFINE p == page[w]  k == kept[w]
           ended == [p EXCEPT !.asking = "none"]
           done == [ended EXCEPT !.base = IF o.version # k.version THEN k.words ELSE @]
<1>0. p \in PageTypes /\ Shape(p) /\ k \in KeptTypes /\ PageSound(p, k) /\ "ask" \in Pair
  BY OwnAreTyped, OwnAreSound DEF Pair
<1>1. /\ p.asking \in {"request", "reclaim", "again"} /\ p.phase \in {"cutting", "releasing"}
      /\ p.sending = "none"
  <2>1. p.asking \in {"request", "reclaim", "again"} /\ p.phase \in Phases
    BY <1>0 DEF HearCut, HearFinishReclaim, PageTypes
  <2> QED
    BY <1>0, <2>1 DEF Shape, SavingPhases, Phases
<1>2. p.repeat = NoText /\ p.dirty = FALSE
  <2>1. p.dirty \in BOOLEAN
    BY <1>0 DEF PageTypes
  <2> QED
    BY <1>0, <1>1, <2>1 DEF PageSound, SavingPhases
<1>3. Own(k) => (Accepted(k) => Drafted(k)) /\ (Drafted(k) \/ k.words = p.base)
  <2>1. Own(k) => Shows(p, k) /\ (Accepted(k) => Drafted(k))
    BY OwnHas
  <2> QED
    BY <1>1, <1>2, <2>1 DEF Shows, Waits
<1>4. ended \in PageTypes
  BY <1>0, Zenon DEF PageTypes, Askings
<1>5. /\ ended.asking = "none" /\ ended.sending = "none" /\ ended.base = p.base /\ ended.dirty = FALSE
      /\ ended.repeat = NoText
  BY <1>0, <1>1, <1>2 DEF PageTypes
<1>6. done \in PageTypes
  <2>1. (IF o.version # k.version THEN k.words ELSE ended.base) \in Nat
    BY <1>0, <1>4 DEF KeptTypes, PageTypes
  <2> HIDE DEF ended
  <2> QED
    BY <1>4, <2>1, Zenon DEF PageTypes
<1>7. /\ done.sending = "none" /\ done.dirty = FALSE /\ done.repeat = NoText
      /\ done.base = IF o.version # k.version THEN k.words ELSE p.base
  <2> HIDE DEF ended
  <2> QED
    BY <1>4, <1>5 DEF PageTypes
<1> HIDE DEF ended, done
<1>8. ASSUME NEW x, x.sending = "none", x.dirty = FALSE, x.repeat = NoText, x.phase # "none",
             NEW l \in KeptTypes, l.session = k.session, GoesOn(k, l, minted),
             Own(k) => (Accepted(l) => Drafted(l)) /\ (Drafted(l) \/ l.words = x.base),
             \/ Becomes(w, "ask", o, x, l, {})
             \/ \E r : r.by = w /\ r.session = k.session /\ r.kind # "save" /\ Becomes(w, "ask", o, x, l, {r})
      PROVE  OwnInv'
  <2>1. Changes(x, l)
    BY <1>8 DEF Changes, Waits
  <2>2. Own(l) => GoesOn(k, l, minted) /\ (Accepted(l) => Drafted(l)) /\ Shows(x, l)
    BY <1>8 DEF Own, Shows
  <2>3. CASE Becomes(w, "ask", o, x, l, {})
    BY <1>0, <1>8, <2>1, <2>2, <2>3, BecomesKeepsOwn
  <2>4. ASSUME NEW r, r.by = w, r.session = k.session, r.kind # "save", Becomes(w, "ask", o, x, l, {r})
        PROVE  OwnInv'
    <3>1. \A s \in {r} : s.by = w /\ s.session = l.session /\ (s.kind = "save" => Under(l, s))
      BY <1>8, <2>4
    <3> QED
      BY <1>0, <1>8, <2>1, <2>2, <2>4, <3>1, BecomesKeepsOwn
  <2> QED
    BY <1>8, <2>3, <2>4
<1> DEFINE same == k
<1>9. /\ same \in KeptTypes /\ same.session = k.session /\ GoesOn(k, same, minted)
      /\ Own(k) => (Accepted(same) => Drafted(same)) /\ (Drafted(same) \/ same.words = p.base)
  BY <1>0, <1>3 DEF GoesOn
<1> HIDE DEF same
<1>10. ASSUME NEW phase \in {"editing", "reading"}, o.result = "ok",
              Becomes(w, "ask", o, [done EXCEPT !.phase = phase], Reset(k, o.version, k.words), {})
       PROVE  OwnInv'
  <2> DEFINE x == [done EXCEPT !.phase = phase]  l == Reset(k, o.version, k.words)
  <2>1. /\ x.sending = "none" /\ x.dirty = FALSE /\ x.repeat = NoText /\ x.phase = phase
        /\ x.base = done.base
    BY <1>6, <1>7 DEF PageTypes
  <2>2. l \in KeptTypes
    <3>1. o.version \in Nat \ {0}
      BY <1>0, <1>10, OutcomesAreOf
    <3> QED
      BY <1>0, <3>1, StoredIsKept DEF KeptTypes
  <2>3. /\ l.session = k.session /\ l.version = o.version /\ l.words = k.words /\ Last(l) = Last(k)
        /\ GoesOn(k, l, minted) /\ ~Accepted(l)
    BY <1>0, ResetIsOwn
  <2>4. Becomes(w, "ask", o, x, l, {})
    BY <1>10
  <2> HIDE DEF x, l
  <2>5. Own(k) => (Accepted(l) => Drafted(l)) /\ (Drafted(l) \/ l.words = x.base)
    BY <1>3, <1>7, <2>1, <2>3 DEF Drafted
  <2>6. x.phase # "none"
    BY <2>1
  <2> QED
    BY <1>8, <2>1, <2>2, <2>3, <2>4, <2>5, <2>6
<1>11. ASSUME NEW q \in {ended, done}, NEW phase \in {"editing", "reading"}, q = ended \/ o.version = k.version,
              Becomes(w, "ask", o, [q EXCEPT !.phase = phase], k, {})
       PROVE  OwnInv'
  <2> DEFINE x == [q EXCEPT !.phase = phase]
  <2>1. q \in PageTypes /\ q.sending = "none" /\ q.dirty = FALSE /\ q.repeat = NoText /\ q.base = p.base
    BY <1>4, <1>5, <1>6, <1>7, <1>11
  <2>2. /\ x.sending = "none" /\ x.dirty = FALSE /\ x.repeat = NoText /\ x.phase = phase
        /\ x.base = p.base
    BY <2>1 DEF PageTypes
  <2>3. Becomes(w, "ask", o, x, same, {})
    BY <1>11 DEF same
  <2> HIDE DEF x
  <2>4. x.phase # "none"
    BY <2>2
  <2>5. Own(k) => (Accepted(same) => Drafted(same)) /\ (Drafted(same) \/ same.words = x.base)
    BY <1>9, <2>2
  <2> QED
    BY <1>8, <1>9, <2>2, <2>3, <2>4, <2>5
<1>12. ASSUME Becomes(w, "ask", o, RefusedOrLost(ended, o.result), k, {})
       PROVE  OwnInv'
  <2> DEFINE x == RefusedOrLost(ended, o.result)
  <2>1. /\ x.sending = "none" /\ x.dirty = FALSE /\ x.repeat = NoText /\ x.phase \in {"lost", "editing"}
        /\ x.base = p.base
    BY <1>4, <1>5 DEF RefusedOrLost, Refuse, Lose, Stopped, PageTypes
  <2>2. Becomes(w, "ask", o, x, same, {})
    BY <1>12 DEF same
  <2> HIDE DEF x
  <2>3. x.phase # "none"
    BY <2>1
  <2>4. Own(k) => (Accepted(same) => Drafted(same)) /\ (Drafted(same) \/ same.words = x.base)
    BY <1>9, <2>1
  <2> QED
    BY <1>8, <1>9, <2>1, <2>2, <2>3, <2>4
<1>13. ASSUME NEW asking, NEW r, r.by = w, r.session = k.session, r.kind # "save",
              Becomes(w, "ask", o, [p EXCEPT !.asking = asking], k, {r})
       PROVE  OwnInv'
  <2> DEFINE x == [p EXCEPT !.asking = asking]
  <2>1. /\ x.sending = "none" /\ x.phase = p.phase /\ x.dirty = FALSE /\ x.base = p.base
        /\ x.repeat = NoText
    BY <1>0, <1>1, <1>2 DEF PageTypes
  <2>2. Becomes(w, "ask", o, x, same, {r})
    BY <1>13 DEF same
  <2> HIDE DEF x
  <2>3. /\ x.phase # "none"
        /\ \E s : s.by = w /\ s.session = k.session /\ s.kind # "save" /\ Becomes(w, "ask", o, x, same, {s})
    BY <1>1, <1>13, <2>1, <2>2
  <2>4. Own(k) => (Accepted(same) => Drafted(same)) /\ (Drafted(same) \/ same.words = x.base)
    BY <1>9, <2>1
  <2> QED
    BY <1>8, <1>9, <2>1, <2>2, <2>3, <2>4
<1>14. ASSUME NEW r, r = ClaimCall(w, "ask", k, FALSE) \/ r = CutCall(w, p, k)
       PROVE  r.by = w /\ r.session = k.session /\ r.kind # "save"
  BY <1>14 DEF ClaimCall, CutCall, Call
<1>15. CASE HearCut(w, o)
  <2>1. ASSUME o.result = "ok",
               Becomes(w, "ask", o, [done EXCEPT !.phase = "editing"],
                       IF o.version # k.version THEN Reset(k, o.version, k.words) ELSE k, {})
        PROVE  OwnInv'
    <3>1. CASE o.version # k.version
      BY <1>10, <2>1, <3>1
    <3>2. CASE o.version = k.version
      BY <1>11, <2>1, <3>2
    <3> QED
      BY <3>1, <3>2
  <2>2. ASSUME o.result = "ok",
               Becomes(w, "ask", o, [done EXCEPT !.phase = "reading"], Reset(k, o.version, k.words), {})
        PROVE  OwnInv'
    BY <1>10, <2>2
  <2>3. ASSUME Becomes(w, "ask", o, [p EXCEPT !.asking = "reclaim"], k, {ClaimCall(w, "ask", k, FALSE)})
        PROVE  OwnInv'
    BY <1>13, <1>14, <2>3
  <2>4. ASSUME Becomes(w, "ask", o, [ended EXCEPT !.phase = "editing"], k, {})
        PROVE  OwnInv'
    BY <1>11, <2>4
  <2> QED
    BY <1>12, <1>15, <2>1, <2>2, <2>3, <2>4 DEF HearCut, ended, done
<1>16. CASE HearFinishReclaim(w, o)
  <2>1. ASSUME Becomes(w, "ask", o, [p EXCEPT !.asking = "again"], k, {CutCall(w, p, k)})
        PROVE  OwnInv'
    BY <1>13, <1>14, <2>1
  <2> QED
    BY <1>12, <1>16, <2>1 DEF HearFinishReclaim, ended
<1> QED
  BY <1>15, <1>16

LEMMA TypeKeepsOwn ==
  ASSUME TypeInv, TypeInv', SoundInv, SoundInv', OwnInv, NEW w \in Windows, Type(w)
  PROVE  OwnInv'
<1> DEFINE p == page[w]  k == kept[w]
           changed == [p EXCEPT !.dirty = TRUE, !.save = "saving"]
           l == [k EXCEPT !.words = texts + 1, !.changed = TRUE, !.unsent = TRUE,
                          !.laterCurrent = FALSE]
<1>0. p \in PageTypes /\ k \in KeptTypes /\ texts + 1 \in Nat
  BY OwnAreTyped DEF TypeInv, BoundTypes
<1>1. p.phase \in {"reading", "claiming", "editing"} /\ minted' = minted /\ copied' = copied
  BY Zenon DEF Type
<1>2. l \in KeptTypes
  BY <1>0, Zenon DEF KeptTypes
<1>3. /\ l.session = k.session /\ l.sent = k.sent /\ l.later = k.later /\ l.changed = TRUE
      /\ l.unsent = TRUE /\ l.laterCurrent = FALSE
  BY <1>0 DEF KeptTypes
<1>4. changed \in PageTypes
  BY <1>0, Zenon DEF PageTypes
<1>5. changed.phase = p.phase /\ changed.dirty = TRUE
  BY <1>0 DEF PageTypes
<1> HIDE DEF l, changed
<1>6. Last(l) = Last(k) /\ ~Standing(l)
  BY <1>3 DEF Last, Current, Standing
<1>7. GoesOn(k, l, minted) /\ ~Accepted(l)
  BY <1>3, <1>6 DEF GoesOn, Accepted
<1>8. ASSUME NEW x, x.dirty = TRUE, x.phase # "none",
             Does(w, x, l, {}) \/ Does(w, x, l, {ClaimCall(w, "ask", k, FALSE)})
      PROVE  OwnInv'
  <2>1. Changes(x, l) /\ Shows(x, l)
    BY <1>3, <1>6, <1>8 DEF Changes, Shows
  <2>2. CASE Does(w, x, l, {})
    BY <1>1, <1>2, <1>3, <1>7, <1>8, <2>1, <2>2, DoesKeepsOwn
  <2>3. CASE Does(w, x, l, {ClaimCall(w, "ask", k, FALSE)})
    <3> DEFINE r == ClaimCall(w, "ask", k, FALSE)
    <3>1. r.by = w /\ r.session = k.session /\ r.kind # "save"
      BY DEF ClaimCall, Call
    <3>2. Does(w, x, l, {r})
      BY <2>3
    <3> HIDE DEF r
    <3>3. \A s \in {r} : s.by = w /\ s.session = l.session /\ (s.kind = "save" => Under(l, s))
      BY <1>3, <3>1
    <3> QED
      BY <1>1, <1>2, <1>3, <1>7, <1>8, <2>1, <3>2, <3>3, DoesKeepsOwn
  <2> QED
    BY <1>8, <2>2, <2>3
<1>9. CASE Does(w, Claiming(changed), l, {ClaimCall(w, "ask", k, FALSE)})
  <2>1. Claiming(changed).dirty = TRUE /\ Claiming(changed).phase # "none"
    BY <1>4, <1>5 DEF Claiming, PageTypes
  <2> QED
    BY <1>8, <1>9, <2>1
<1>10. CASE Does(w, changed, l, {})
  BY <1>1, <1>5, <1>8, <1>10
<1>11. CASE Does(w, [changed EXCEPT !.timed = TRUE], l, {})
  <2>1. [changed EXCEPT !.timed = TRUE].dirty = TRUE /\ [changed EXCEPT !.timed = TRUE].phase # "none"
    BY <1>1, <1>4, <1>5 DEF PageTypes
  <2> QED
    BY <1>8, <1>11, <2>1
<1> QED
  BY <1>9, <1>10, <1>11 DEF Type, changed, l

(* A page that goes on with the same record, and what it showed of it.     *)
LEMMA SamePageIsOwn ==
  ASSUME TypeInv, TypeInv', SoundInv, SoundInv', OwnInv, UNCHANGED <<minted, copied>>,
         NEW w \in Windows, page[w].phase \notin {"none", "lost"},
         NEW x, x.base = page[w].base, x.dirty = page[w].dirty, x.repeat = page[w].repeat,
         x.sending = page[w].sending, x.phase # "none",
         x.phase \in {"reading", "claiming"} => page[w].phase \in {"reading", "claiming"},
         \/ Does(w, x, kept[w], {})
         \/ \E r : /\ r.by = w /\ r.session = kept[w].session /\ r.kind # "save"
                   /\ Does(w, x, kept[w], {r})
  PROVE  OwnInv'
<1>1. PICK k \in KeptTypes : k = kept[w]
  BY OwnAreTyped
<1>2. Changes(page[w], k) /\ (Own(k) => Shows(page[w], k) /\ (Accepted(k) => Drafted(k)))
  BY <1>1, OwnHas
<1>3. Changes(x, k)
  BY <1>2, ChangesGoOn DEF Waits
<1>4. Own(k) => GoesOn(kept[w], k, minted) /\ (Accepted(k) => Drafted(k)) /\ Shows(x, k)
  <2>1. Own(k) => Shows(x, k)
    BY <1>2 DEF Shows, Waits
  <2> QED
    BY <1>1, <1>2, <2>1 DEF GoesOn
<1>5. k.session = kept[w].session /\ minted' = minted /\ copied' = copied
  BY <1>1
<1>6. CASE Does(w, x, kept[w], {})
  <2>1. Does(w, x, k, {})
    BY <1>1, <1>6
  <2> QED
    BY <1>3, <1>4, <1>5, <2>1, DoesKeepsOwn
<1>7. ASSUME NEW r, r.by = w, r.session = kept[w].session, r.kind # "save", Does(w, x, kept[w], {r})
      PROVE  OwnInv'
  <2>1. Does(w, x, k, {r})
    BY <1>1, <1>7
  <2>2. \A s \in {r} : s.by = w /\ s.session = k.session /\ (s.kind = "save" => Under(k, s))
    BY <1>1, <1>7
  <2> QED
    BY <1>3, <1>4, <1>5, <2>1, <2>2, DoesKeepsOwn
<1> QED
  BY <1>6, <1>7

LEMMA ClaimAgainKeepsOwn ==
  ASSUME TypeInv, TypeInv', SoundInv, SoundInv', OwnInv, NEW w \in Windows,
         ClaimAgain(w) \/ ContinueAfresh(w)
  PROVE  OwnInv'
<1> DEFINE p == page[w]  k == kept[w]
<1>0. p \in PageTypes /\ k \in KeptTypes /\ PageSound(p, k) /\ minted \in Nat /\ Changes(p, k)
  BY OwnAreTyped, OwnAreSound, OwnHas
<1>1. LET q == Claiming(p) IN
      /\ q.phase = "claiming" /\ q.base = p.base
      /\ q.repeat = p.repeat /\ q.dirty = p.dirty /\ q.sending = p.sending
  BY <1>0 DEF Claiming, PageTypes
<1>2. Claiming(p) \in PageTypes
  BY <1>0, PagesGoOn
<1>3. CASE ClaimAgain(w)
  <2> DEFINE x == Claiming(p)  r == ClaimCall(w, "ask", k, p.holder = "yours")
  <2>1. Does(w, x, k, {r}) /\ p.phase = "reading" /\ UNCHANGED <<minted, copied>>
    BY <1>3 DEF ClaimAgain, bounds
  <2>2. r.by = w /\ r.session = k.session /\ r.kind # "save"
    BY DEF ClaimCall, Call
  <2>3. /\ x.phase = "claiming" /\ x.base = p.base
        /\ x.repeat = p.repeat /\ x.dirty = p.dirty /\ x.sending = p.sending
    BY <1>1
  <2> HIDE DEF x, r
  <2> QED
    BY <2>1, <2>2, <2>3, SamePageIsOwn
<1>4. CASE ContinueAfresh(w)
  <2> DEFINE l == FreshSession(k, minted + 1)  q == Claiming(p)
             x == [q EXCEPT !.sequence = 0, !.repeat = NoText]
             r == ClaimCall(w, "ask", l, TRUE)
  <2>1. Does(w, x, l, {r}) /\ p.phase = "lost" /\ p.behind /\ minted' = minted + 1 /\ copied' = copied
    BY <1>4 DEF ContinueAfresh
  <2>2. p.dirty = TRUE
    BY <1>0, <2>1 DEF PageSound, PageTypes
  <2>3. /\ l.session = minted + 1 /\ l.words = k.words /\ l.changed = k.changed /\ l.unsent = k.changed
        /\ l.sent = 0 /\ l.later = 0
    BY <1>0 DEF FreshSession, KeptTypes
  <2>4. l \in KeptTypes
    BY <1>0, StoredIsKept
  <2>5. x.phase = "claiming" /\ x.base = p.base /\ x.repeat = NoText /\ x.dirty = TRUE
    <3> HIDE DEF q
    <3>1. q \in PageTypes /\ q.phase = "claiming" /\ q.base = p.base /\ q.dirty = TRUE
      BY <1>1, <1>2, <2>2 DEF q
    <3> QED
      BY <3>1 DEF PageTypes
  <2>6. r.by = w /\ r.session = l.session /\ r.kind # "save"
    BY DEF ClaimCall, Call
  <2> HIDE DEF l, q, x, r
  <2>7. ~Standing(l)
    BY <2>3 DEF Standing, Current
  <2>8. Changes(x, l) /\ Shows(x, l) /\ ~Accepted(l) /\ x.phase # "none"
    BY <1>0, <2>1, <2>2, <2>3, <2>5, <2>7 DEF Changes, Shows, Accepted
  <2>9. GoesOn(k, l, minted)
    BY <1>0, <2>3 DEF GoesOn
  <2>10. \A s \in {r} : s.by = w /\ s.session = l.session /\ (s.kind = "save" => Under(l, s))
    BY <2>6
  <2> QED
    BY <2>1, <2>3, <2>4, <2>8, <2>9, <2>10, DoesKeepsOwn
<1> QED
  BY <1>3, <1>4

LEMMA FinishKeepsOwn ==
  ASSUME TypeInv, TypeInv', SoundInv, SoundInv', OwnInv, NEW w \in Windows,
         NEW during \in {"cutting", "releasing"}, Finish(w, during)
  PROVE  OwnInv'
<1> DEFINE p == page[w]  x == [p EXCEPT !.phase = during, !.asking = "flush"]
<1>1. p.phase = "editing" /\ Does(w, x, kept[w], {}) /\ UNCHANGED <<minted, copied>>
  BY DEF Finish, bounds
<1>2. /\ x.phase = during /\ x.base = p.base
      /\ x.repeat = p.repeat /\ x.dirty = p.dirty /\ x.sending = p.sending
  BY OwnAreTyped DEF PageTypes
<1> HIDE DEF x
<1> QED
  BY <1>1, <1>2, SamePageIsOwn

(* What a page goes on from unsent, sent again or accepted.                *)
LEMMA ContinuingIsOwn ==
  ASSUME NEW k \in KeptTypes, NEW m, KeptSound(k, m), k.changed, NEW n \in Nat, ~Continuing(k, n).ahead
  PROVE  LET going == Continuing(k, n) IN
         ~going.unsent => Accepted(k) \/ (going.repeat # NoText /\ Standing(k))
<1> DEFINE last == LastSent(k)
           told == k.answered > 0 /\ k.answered = last.sequence
           repeat == /\ n > 0 /\ n = last.sequence
                     /\ k.answered < last.sequence /\ last.words # NoText
<1>1. /\ last.sequence = Last(k) /\ last.current = Current(k)
      /\ k.changed /\ Current(k) => Last(k) > 0
  BY LastSentIsLast
<1>2. Last(k) \in Nat /\ Current(k) \in BOOLEAN
  BY LastIsANumber
<1> HIDE DEF last
<1>3. /\ Continuing(k, n).unsent = (~last.current \/ n # last.sequence)
      /\ Continuing(k, n).repeat = IF repeat THEN last.words ELSE NoText
      /\ ~(n > 0 /\ n = last.sequence /\ ~(told /\ k.accepted) /\ ~repeat)
  BY DEF Continuing, last
<1>4. ~Continuing(k, n).unsent => Current(k) /\ n = Last(k) /\ n > 0
  BY <1>1, <1>2, <1>3
<1>5. repeat => Continuing(k, n).repeat # NoText
  BY <1>3
<1>6. Current(k) /\ told /\ k.accepted => Accepted(k)
  BY <1>1 DEF Accepted, Standing
<1> QED
  BY <1>1, <1>3, <1>4, <1>5, <1>6 DEF Standing

LEMMA OpenReplayingKeepsOwn ==
  ASSUME TypeInv, TypeInv', SoundInv, SoundInv', OwnInv, NEW w \in Windows, OpenReplaying(w)
  PROVE  OwnInv'
<1> DEFINE k == kept[w]  going == Continuing(k, Latest(k.session))
           opened == [NoPage EXCEPT !.sequence = going.sequence, !.base = versions[HeadNo]]
<1>0. k \in KeptTypes /\ KeptSound(k, minted) /\ (Own(k) => (Accepted(k) => Drafted(k)))
  BY OwnAreTyped, OwnAreSound, OwnHas
<1>1. k.changed /\ minted' = minted /\ copied' = copied /\ GoesOn(k, k, minted)
  BY DEF OpenReplaying, Replays, bounds, GoesOn
<1>2. Latest(k.session) \in Nat
  BY <1>0, LatestIsLatest DEF KeptTypes
<1>3. going.sequence \in Nat /\ going.unsent \in BOOLEAN /\ going.repeat \in Nat \cup {NoText}
  BY <1>0, <1>2, ContinuingIsOf
<1>4. ~going.ahead =>
        /\ going.repeat # NoText /\ Standing(k) => going.repeat = k.words
        /\ ~going.unsent => Accepted(k) \/ (going.repeat # NoText /\ Standing(k))
  <2>1. ~going.ahead => /\ going.repeat # NoText /\ Current(k) => going.repeat = k.words
                        /\ ~going.unsent => Accepted(k) \/ (going.repeat # NoText /\ Standing(k))
    BY <1>0, <1>1, <1>2, ContinuingIsSound, ContinuingIsOwn
  <2> QED
    BY <2>1 DEF Standing
<1> HIDE DEF going
<1>5. opened \in PageTypes
  <2>1. NoPage \in PageTypes /\ versions[HeadNo] \in Nat
    BY NoPageIsAPage, VersionsAreTexts DEF Pages
  <2> QED
    BY <1>3, <2>1, Zenon DEF PageTypes
<1> HIDE DEF opened
<1>6. ASSUME Does(w, Lose([opened EXCEPT !.dirty = TRUE], TRUE), k, {})
      PROVE  OwnInv'
  <2> DEFINE q == [opened EXCEPT !.dirty = TRUE]  x == Lose(q, TRUE)
  <2>1. q \in PageTypes
    BY <1>5, Zenon DEF PageTypes
  <2> HIDE DEF q
  <2>2. x.phase = "lost"
    BY <2>1 DEF PageTypes, Lose, Stopped
  <2>3. Does(w, x, k, {})
    BY <1>6 DEF q
  <2> HIDE DEF x
  <2>4. Changes(x, k) /\ Shows(x, k) /\ x.phase # "none"
    BY <1>1, <2>2 DEF Changes, Shows
  <2> QED
    BY <1>0, <1>1, <2>3, <2>4, DoesKeepsOwn
<1>7. ASSUME ~going.ahead, NEW save,
             Does(w, [Claiming(opened) EXCEPT !.dirty = going.unsent, !.repeat = going.repeat,
                        !.replay = TRUE, !.save = save],
                  k, {ClaimCall(w, "ask", k, FALSE)})
      PROVE  OwnInv'
  <2> DEFINE q == Claiming(opened)  r == ClaimCall(w, "ask", k, FALSE)
             x == [q EXCEPT !.dirty = going.unsent, !.repeat = going.repeat,
                            !.replay = TRUE, !.save = save]
  <2>1. q \in PageTypes
    BY <1>5, PagesGoOn, Zenon
  <2>2. q.phase = "claiming"
    BY <1>5 DEF Claiming, PageTypes
  <2>3. r.by = w /\ r.session = k.session /\ r.kind # "save"
    BY DEF ClaimCall, Call
  <2>4. Does(w, x, k, {r})
    BY <1>7
  <2> HIDE DEF q, r
  <2>5. x.phase = "claiming" /\ x.dirty = going.unsent /\ x.repeat = going.repeat
    BY <2>1, <2>2 DEF PageTypes
  <2> HIDE DEF x
  <2>6. Changes(x, k) /\ x.phase # "none"
    BY <1>1, <1>4, <1>7, <2>5 DEF Changes
  <2>7. Own(k) => Shows(x, k)
    BY <1>0, <1>4, <1>7, <2>5 DEF Shows
  <2>8. \A s \in {r} : s.by = w /\ s.session = k.session /\ (s.kind = "save" => Under(k, s))
    BY <2>3
  <2> QED
    BY <1>0, <1>1, <2>4, <2>6, <2>7, <2>8, DoesKeepsOwn
<1>8. \/ Does(w, Lose([opened EXCEPT !.dirty = TRUE], TRUE), k, {})
      \/ /\ ~going.ahead
         /\ Does(w, [Claiming(opened) EXCEPT !.dirty = going.unsent, !.repeat = going.repeat,
                       !.replay = TRUE,
                       !.save = IF going.unsent \/ going.repeat # NoText THEN "saving" ELSE "saved"],
                 k, {ClaimCall(w, "ask", k, FALSE)})
  BY Zenon DEF OpenReplaying, opened, going
<1> QED
  BY <1>6, <1>7, <1>8, Zenon

LEMMA OpenAfreshKeepsOwn ==
  ASSUME TypeInv, TypeInv', SoundInv, SoundInv', OwnInv, NEW w \in Windows, OpenAfresh(w)
  PROVE  OwnInv'
<1> DEFINE k == kept[w]  mine == k.session # 0 /\ lock = k.session
           n == IF Latest(k.session) > k.later THEN Latest(k.session) ELSE k.later
           cleared == Reset(k, HeadNo, versions[HeadNo])
           fresh == FreshSession(k, minted + 1)
           begun == Reset(fresh, HeadNo, versions[HeadNo])
           same == [cleared EXCEPT !.sent = n]
           new == [begun EXCEPT !.sent = 0]
           x == [NoPage EXCEPT !.phase = "reading", !.base = versions[HeadNo],
                               !.sequence = IF mine THEN n ELSE 0]
           l == IF mine THEN same ELSE new
<1>0. k \in KeptTypes /\ minted \in Nat /\ KeptSound(k, minted) /\ minted + 1 \in Nat
  BY OwnAreTyped, OwnAreSound
<1>1. Does(w, x, l, {}) /\ minted' = (IF mine THEN minted ELSE minted + 1) /\ copied' = copied
  BY DEF OpenAfresh
<1>2. HeadNo \in Nat \ {0} /\ versions[HeadNo] \in Nat
  BY VersionsAreTexts
<1>3. /\ Latest(k.session) \in Nat /\ \A i \in IterationsOf(k.session) : i.sequence <= Latest(k.session)
      /\ k.session \in Nat /\ k.later \in Nat /\ k.sent \in Nat
  <2>1. k.session \in Nat /\ k.later \in Nat /\ k.sent \in Nat
    BY <1>0 DEF KeptTypes
  <2> QED
    BY <2>1, LatestIsLatest
<1>4. n \in Nat /\ n >= k.later /\ n >= Latest(k.session)
  BY <1>3
<1> HIDE DEF n
<1>5. n >= Last(k)
  <2>1. \A i \in IterationsOf(k.session) : i.sequence \in Nat
    BY DEF IterationsOf, TypeInv, ServerTypes, IterationTypes
  <2>2. \/ k.sent <= k.later
        \/ \E i \in IterationsOf(k.session) : i.sequence >= k.sent
    BY <1>0 DEF KeptSound, IterationsOf
  <2>3. n >= k.sent
    BY <1>3, <1>4, <2>1, <2>2
  <2> QED
    BY <1>4, <2>3 DEF Last
<1>6. /\ same \in KeptTypes /\ same.session = k.session
      /\ same.changed = FALSE /\ same.words = versions[HeadNo] /\ Last(same) = n
  <2>1. cleared \in KeptTypes
    BY <1>0, <1>2, StoredIsKept
  <2>2. /\ cleared.session = k.session /\ cleared.words = versions[HeadNo] /\ cleared.changed = FALSE
        /\ cleared.later = k.later
    BY <1>0 DEF Reset, KeptTypes
  <2> HIDE DEF cleared
  <2>3. same \in KeptTypes
    BY <1>4, <2>1, Zenon DEF KeptTypes
  <2>4. /\ same.session = k.session /\ same.words = versions[HeadNo] /\ same.changed = FALSE
        /\ same.later = k.later /\ same.sent = n
    BY <2>1, <2>2 DEF KeptTypes
  <2> HIDE DEF same
  <2> QED
    BY <1>3, <1>4, <2>3, <2>4 DEF Last
<1>7. /\ new \in KeptTypes /\ new.session = minted + 1
      /\ new.changed = FALSE /\ new.words = versions[HeadNo]
  <2>1. fresh \in KeptTypes
    BY <1>0, StoredIsKept
  <2>2. fresh.session = minted + 1
    BY <1>0 DEF FreshSession, KeptTypes
  <2> HIDE DEF fresh
  <2>3. begun \in KeptTypes
    BY <1>2, <2>1, StoredIsKept
  <2>4. begun.session = fresh.session /\ begun.words = versions[HeadNo] /\ begun.changed = FALSE
    BY <2>1 DEF Reset, KeptTypes
  <2> HIDE DEF begun
  <2>5. new \in KeptTypes
    BY <2>3, 0 \in Nat, Zenon DEF KeptTypes
  <2> QED
    BY <2>2, <2>3, <2>4, <2>5 DEF KeptTypes
<1> HIDE DEF same, new
<1>8. x.phase = "reading" /\ x.base = versions[HeadNo]
  <2>1. NoPage \in PageTypes
    BY NoPageIsEmpty
  <2> QED
    BY <2>1 DEF PageTypes
<1>9. /\ l \in KeptTypes /\ l.changed = FALSE /\ l.words = versions[HeadNo] /\ GoesOn(k, l, minted)
      /\ \/ l.session = k.session /\ minted' = minted
         \/ l.session = minted + 1 /\ minted' = minted + 1
  <2>1. CASE mine
    <3>1. GoesOn(k, same, minted)
      <4>1. Last(k) \in Nat
        BY <1>0, LastIsANumber
      <4> QED
        BY <1>4, <1>5, <1>6, <4>1 DEF GoesOn, Standing
    <3> QED
      BY <1>1, <1>6, <2>1, <3>1
  <2>2. CASE ~mine
    <3>1. GoesOn(k, new, minted)
      BY <1>0, <1>7 DEF GoesOn
    <3> QED
      BY <1>1, <1>7, <2>2, <3>1
  <2> QED
    BY <2>1, <2>2
<1> HIDE DEF x, l
<1>10. Changes(x, l) /\ Shows(x, l) /\ ~Accepted(l) /\ x.phase # "none"
  BY <1>8, <1>9 DEF Changes, Shows, Accepted, Standing
<1> QED
  BY <1>1, <1>9, <1>10, DoesKeepsOwn

(* What waited goes with the text the window keeps, from its version. *)
LEMMA FollowingIsOwn ==
  ASSUME NEW w, NEW p, NEW k \in KeptTypes, NEW m, KeptSound(k, m), NEW c, c.then \in Waiting, c.then # {},
         FollowsOn(w, p, k, c, c.then), \A r \in c.then : r.from = k.version, Accepted(k) => Drafted(k)
  PROVE  LET l == Following(k, c) IN
         /\ GoesOn(k, l, m) /\ (Accepted(l) => Drafted(l))
         /\ l.session = k.session /\ \A r \in c.then : r.session = l.session /\ Under(l, r)
<1> DEFINE l == Following(k, c)
<1>1. PICK r : r \in c.then /\ \A s \in c.then : s = r
  BY DEF FollowsOn
<1>2. /\ r.sequence \in Nat /\ r.sequence >= Last(k) /\ r.words = k.words /\ c.session = k.session
      /\ r.session = k.session /\ r.from = k.version
  BY <1>1 DEF FollowsOn, Waiting, CallTypes
<1>3. (CHOOSE s \in c.then : TRUE) = r /\ c.then = {r}
  BY <1>1
<1>4. /\ k.later \in Nat /\ k.sent \in Nat /\ k.answered \in Nat /\ Last(k) \in Nat /\ k.answered <= Last(k)
  BY LastIsANumber DEF KeptTypes, KeptSound
<1>5. CASE r.sequence > k.later
  <2>1. l = [k EXCEPT !.later = r.sequence, !.laterCurrent = k.changed /\ \A s \in c.then : k.words = s.words]
    BY <1>1, <1>2, <1>3, <1>5 DEF Following
  <2>2. /\ l.session = k.session /\ l.words = k.words /\ l.changed = k.changed /\ l.sent = k.sent
        /\ l.version = k.version /\ l.unsent = k.unsent /\ l.answered = k.answered
        /\ l.accepted = k.accepted /\ l.later = r.sequence
    BY <2>1 DEF KeptTypes
  <2> HIDE DEF l
  <2>3. CASE r.sequence > k.sent
    <3>1. Last(l) = r.sequence /\ Last(l) > Last(k)
      BY <1>2, <1>4, <1>5, <2>2, <2>3 DEF Last
    <3>2. ~Accepted(l) /\ GoesOn(k, l, m) /\ Under(l, r)
      BY <1>2, <1>4, <2>2, <3>1 DEF Accepted, GoesOn, Under
    <3> QED
      BY <1>1, <1>2, <2>2, <3>2 DEF l
  <2>4. CASE ~(r.sequence > k.sent)
    <3>1. Last(l) = k.sent /\ Last(k) = k.sent /\ r.sequence = k.sent
      BY <1>2, <1>4, <1>5, <2>2, <2>4 DEF Last
    <3>2. Current(l) = ~k.unsent /\ Current(k) = ~k.unsent
      BY <1>2, <1>4, <1>5, <2>2, <2>4, <3>1 DEF Current
    <3>3. SameText(k, l)
      BY <2>2, <3>1, <3>2 DEF SameText
    <3>4. GoesOn(k, l, m) /\ Standing(l) = Standing(k) /\ Drafted(l) = Drafted(k)
      BY <3>3, SameTextIsOwn
    <3>5. Accepted(l) => Accepted(k)
      BY <2>2, <3>1, <3>4 DEF Accepted
    <3>6. Under(l, r)
      BY <1>2, <2>2, <3>1 DEF Under
    <3> QED
      BY <1>1, <1>2, <2>2, <3>4, <3>5, <3>6 DEF l
  <2> QED
    BY <2>3, <2>4
<1>6. CASE ~(r.sequence > k.later)
  <2>1. l = k
    BY <1>1, <1>6 DEF Following
  <2>2. r.sequence = Last(k)
    BY <1>2, <1>4, <1>6 DEF Last
  <2>3. Under(k, r) /\ GoesOn(k, k, m)
    BY <1>2, <1>4, <2>2 DEF Under, GoesOn
  <2> QED
    BY <1>1, <1>2, <2>1, <2>3
<1> QED
  BY <1>5, <1>6

LEMMA AfterGoneOwn ==
  ASSUME TypeInv, TypeInv', SoundInv, OwnInv, NEW w \in Windows, NEW c \in Calls(w, "gone") \cup Answers(w, "gone"),
         NEW k \in KeptTypes, KeptSound(k, minted), SameText(kept[w], k),
         Own(k) => (Accepted(k) => Drafted(k)),
         UNCHANGED <<server, page, minted, copied>>, kept' = [kept EXCEPT ![w] = Following(k, c)],
         \A r \in requests' : r \in c.then \/ \E d \in requests : Alike(r, d),
         Listened(w)' \subseteq Listened(w) \cup c.then, Due(w)' \subseteq Due(w),
         \A d \in Listened(w)' \cup Due(w)' : c.then = {} \/ d \in c.then \/ d.then = {},
         \A v \in Windows \ {w} : Listened(v)' \subseteq Listened(v) /\ Due(v)' \subseteq Due(v)
  PROVE  OwnInv'
<1> DEFINE l == Following(k, c)
<1>0. PICK p : p = page[w]
  OBVIOUS
<1>1. PICK q \in KeptTypes : q = kept[w]
  BY OwnAreTyped
<1>2. c \in Listened(w) \cup Due(w) /\ c \in requests \cup answers
  BY DEF Calls, Answers, Listened, Due
<1>3. CallSound(w, p, q, minted, c)
  BY <1>0, <1>1, <1>2, OwnAreSound DEF RequestSound, AnswerSound
<1>4. c.then \in Waiting /\ \A r \in c.then : r.then = {}
  BY <1>2, WaitingAreCalls
<1>5. l \in KeptTypes
  BY <1>4, FollowingIsKept
<1>6. k.session = q.session /\ k.version = q.version /\ k.words = q.words /\ Last(k) = Last(q) /\ (Own(k) = Own(q))
  BY <1>1 DEF SameText, Own
<1>7. GoesOn(q, k, minted) /\ Standing(k) = Standing(q) /\ Changes(p, k)
  <2>1. Changes(p, q)
    BY <1>0, <1>1, OwnHas
  <2> QED
    BY <1>1, <2>1, SameTextIsOwn
<1>8. ASSUME Own(k)
      PROVE  /\ Shows(p, k) /\ \A d \in Listened(w) \cup Due(w) : \A r \in d.then : r.from = k.version
  <2>1. Shows(p, q) /\ \A d \in Listened(w) \cup Due(w) : \A r \in d.then : r.from = q.version
    BY <1>0, <1>1, <1>6, <1>8, OwnHas
  <2>2. Shows(p, k)
    BY <1>1, <2>1, SameTextIsOwn
  <2> QED
    BY <1>6, <2>1, <2>2
<1>9. page' = [page EXCEPT ![w] = p] /\ kept' = [kept EXCEPT ![w] = l] /\ UNCHANGED <<server, copied>> /\ minted' = minted
  BY <1>0 DEF TypeInv, WindowTypes
<1>10. \A a \in Due(w)' : \E d \in Due(w) : a.session = d.session /\ a.sequence = d.sequence /\ a.result = d.result
  OBVIOUS
<1>11. CASE c.then = {}
  <2>1. l = k
    BY <1>11 DEF Following
  <2>2. Own(k) => \A d \in Listened(w)' \cup Due(w)' : \A r \in d.then : r.from = k.version
    BY <1>8, <1>11
  <2>3. \A r \in requests' :
          \/ \E d \in requests : Alike(r, d)
          \/ r.session = l.session /\ (Own(l) /\ r.kind = "save" => Under(l, r))
    BY <1>11
  <2> HIDE DEF l
  <2>4. /\ l.session = kept[w].session /\ Changes(p, l)
        /\ Own(l) => /\ \A d \in Listened(w)' \cup Due(w)' : \A r \in d.then : r.from = l.version
                     /\ GoesOn(kept[w], l, minted)
                     /\ Accepted(l) => Drafted(l)
                     /\ Shows(p, l)
    BY <1>1, <1>6, <1>7, <1>8, <2>1, <2>2
  <2> QED
    BY <1>5, <1>9, <1>10, <2>3, <2>4, OwnStep
<1>12. CASE c.then # {}
  <2>1. p.phase = "none"
    BY <1>3, <1>12 DEF CallSound
  <2>2. FollowsOn(w, p, k, c, c.then)
    BY <1>3, <1>6 DEF CallSound, FollowsOn
  <2>3. l.session = k.session /\ \A r \in c.then : r.session = l.session
    <3>1. l.session = k.session
      BY DEF Following, KeptTypes
    <3> QED
      BY <2>2, <3>1 DEF FollowsOn
  <2>4. ASSUME Own(k)
        PROVE  /\ GoesOn(k, l, minted) /\ (Accepted(l) => Drafted(l))
               /\ \A r \in c.then : Under(l, r)
    <3>1. \A r \in c.then : r.from = k.version
      BY <1>2, <1>8, <2>4
    <3>2. Accepted(k) => Drafted(k)
      BY <2>4
    <3> HIDE DEF l
    <3> QED
      BY <1>4, <1>12, <2>2, <3>1, <3>2, FollowingIsOwn DEF l
  <2>5. \A d \in Listened(w)' \cup Due(w)' : d.then = {}
    BY <1>4, <1>12
  <2> HIDE DEF l
  <2>6. Own(l) = Own(k)
    BY <2>3 DEF Own
  <2>7. GoesOn(k, l, minted) => GoesOn(q, l, minted)
    <3>1. k.session = q.session /\ Last(k) = Last(q) /\ k.words = q.words /\ k.version = q.version
      BY <1>6
    <3> QED
      BY <1>7, <3>1 DEF GoesOn
  <2>8. Changes(p, l) /\ Shows(p, l)
    BY <2>1 DEF Changes, Shows
  <2>9. \A r \in requests' :
          \/ \E d \in requests : Alike(r, d)
          \/ r.session = l.session /\ (Own(l) /\ r.kind = "save" => Under(l, r))
    BY <2>3, <2>4, <2>6
  <2>10. /\ l.session = kept[w].session
         /\ Own(l) => /\ \A d \in Listened(w)' \cup Due(w)' : \A r \in d.then : r.from = l.version
                      /\ GoesOn(kept[w], l, minted)
                      /\ Accepted(l) => Drafted(l)
                      /\ Shows(p, l)
    BY <1>1, <1>6, <2>3, <2>4, <2>5, <2>6, <2>7, <2>8
  <2> QED
    BY <1>5, <1>9, <1>10, <2>8, <2>9, <2>10, OwnStep
<1> QED
  BY <1>11, <1>12

LEMMA HearGoneKeepsOwn ==
  ASSUME TypeInv, TypeInv', SoundInv, OwnInv, NEW w \in Windows, HearGone(w) \/ GoneGivesUp(w)
  PROVE  OwnInv'
<1>0. /\ kept[w] \in KeptTypes /\ KeptSound(kept[w], minted) /\ OneWaits(w)
      /\ \A r \in Listened(w) : r \in RequestTypes /\ RequestSound(w, page[w], kept[w], minted, r)
      /\ \A a \in Due(w) : a \in AnswerTypes /\ AnswerSound(w, page[w], kept[w], minted, a)
  BY OwnAreTyped, OwnAreSound DEF SoundInv, Sound
<1>1. ASSUME NEW c \in Calls(w, "gone") \cup Answers(w, "gone"), c.then # {},
             NEW d \in Listened(w) \cup Due(w), d # c
      PROVE  d.then = {}
  <2>1. c \in Listened(w) \cup Due(w)
    BY DEF Calls, Answers, Listened, Due
  <2> QED
    BY <1>0, <1>1, <2>1 DEF OneWaits
<1>2. CASE HearGone(w)
  <2>1. PICK a \in Answers(w, "gone") :
          /\ answers' = answers \ {a}
          /\ requests' = requests \cup a.then
          /\ kept' = [kept EXCEPT ![w] = Following(Told(@, a), a)]
          /\ UNCHANGED <<server, page, bounds, copied>>
    BY <1>2 DEF HearGone
  <2>2. a \in Due(w) /\ a \in answers
    BY DEF Answers, Due
  <2>3. AnswerSound(w, page[w], kept[w], minted, a) /\ a \in AnswerTypes
    BY <1>0, <2>2
  <2>4. a.sequence \in Nat /\ kept[w].session # 0
    BY <2>3 DEF AnswerTypes, AnswerSound, CallSound
  <2>5. a.sequence > 0 /\ a.session = kept[w].session =>
          /\ a.sequence <= Last(kept[w])
          /\ a.result = "ok" /\ a.sequence = Last(kept[w]) /\ Current(kept[w]) => Retained(kept[w].words)
    BY <2>3 DEF AnswerSound, CallSound, OfTheLast, Saves
  <2>6. LET k == Told(kept[w], a) IN KeptSound(k, minted) /\ k \in KeptTypes
    BY <1>0, <2>4, <2>5, ToldIsSound, ToldIsKept
  <2>7. PICK k \in KeptTypes : k = Told(kept[w], a) /\ KeptSound(k, minted)
    BY <2>6
  <2>8. SameText(kept[w], k)
    <3>1. PICK q \in KeptTypes : q = kept[w]
      BY <1>0
    <3>2. /\ k.session = q.session /\ k.version = q.version /\ k.words = q.words
          /\ k.changed = q.changed /\ k.sent = q.sent /\ k.unsent = q.unsent
          /\ k.later = q.later /\ k.laterCurrent = q.laterCurrent
      BY <2>7, <3>1, TellingKeeps
    <3>3. SameText(q, k)
      BY <3>2 DEF SameText, Last, Current
    <3> QED
      BY <3>1, <3>3
  <2>9. Own(k) => (Accepted(k) => Drafted(k))
    <3>1. SUFFICES ASSUME Own(k)
                   PROVE  Accepted(k) => Drafted(k)
      OBVIOUS
    <3>2. Own(kept[w])
      BY <2>8, <3>1 DEF Own, SameText
    <3>3. (Accepted(kept[w]) => Drafted(kept[w])) /\ (Accepts(kept[w], a) => Drafted(kept[w]))
      BY <2>2, <3>2, OwnHas
    <3> QED
      BY <1>0, <2>7, <3>3, ToldIsOwn
  <2>10. /\ a.then \subseteq RequestTypes /\ \A r \in a.then : r.by = w
    <3>1. a.then \subseteq RequestTypes
      BY <2>2, WaitingAreCalls
    <3> QED
      BY <2>3, <3>1 DEF AnswerSound, CallSound
  <2>11. Listened(w)' \subseteq Listened(w) \cup a.then /\ Due(w)' \subseteq Due(w) \ {a}
    BY <2>1 DEF Listened, Due
  <2>12. \A d \in Listened(w)' \cup Due(w)' : a.then = {} \/ d \in a.then \/ d.then = {}
    <3>1. \A r \in Listened(w) : r # a
      BY <1>0, <2>3, AnswersAreNotCalls
    <3> QED
      BY <1>1, <2>11, <3>1
  <2>13. \A v \in Windows \ {w} : Listened(v)' \subseteq Listened(v) /\ Due(v)' \subseteq Due(v)
    BY <2>1, <2>10 DEF Listened, Due
  <2>14. UNCHANGED <<server, page, minted, copied>> /\ kept' = [kept EXCEPT ![w] = Following(k, a)]
    BY <2>1, <2>7 DEF bounds
  <2>15. \A r \in requests' : r \in a.then \/ \E d \in requests : Alike(r, d)
    BY <2>1 DEF Alike
  <2>16. Due(w)' \subseteq Due(w)
    BY <2>11
  <2> QED
    BY <2>7, <2>8, <2>9, <2>11, <2>12, <2>13, <2>14, <2>15, <2>16, AfterGoneOwn
<1>3. CASE GoneGivesUp(w)
  <2>1. PICK r \in Calls(w, "gone") :
          /\ requests' = (requests \ {r}) \cup Deafened({r}) \cup r.then
          /\ kept' = [kept EXCEPT ![w] = Following(@, r)]
    BY <1>3 DEF GoneGivesUp
  <2>2. UNCHANGED <<server, page, minted, copied>> /\ answers' = answers
    BY <1>3 DEF GoneGivesUp
  <2>3. r \in Listened(w) /\ r \in requests
    BY DEF Calls, Listened
  <2>4. r \in RequestTypes /\ CallSound(w, page[w], kept[w], minted, r)
    BY <1>0, <2>3 DEF RequestSound
  <2>5. \A s \in r.then : s.by = w
    BY <2>4 DEF CallSound
  <2>6. \A d \in Deafened({r}) : d.chain = "deaf" /\ Alike(d, r)
    <3>1. {r} \in SUBSET RequestTypes
      BY <2>4
    <3>2. ASSUME NEW d \in Deafened({r})
          PROVE  d.chain = "deaf" /\ Alike(d, r)
      <4>1. PICK c \in {r} : Alike(d, c)
        BY <3>1, DeafenedAreAlike
      <4>2. c = r /\ d.chain = "deaf"
        BY <3>1, DeafenedAreDeaf
      <4> QED
        BY <4>1, <4>2
    <3> QED
      BY <3>2
  <2>7. Listened(w)' \subseteq (Listened(w) \ {r}) \cup r.then /\ Due(w)' = Due(w)
    BY <2>1, <2>2, <2>6 DEF Listened, Due
  <2>8. \A d \in Listened(w)' \cup Due(w)' : r.then = {} \/ d \in r.then \/ d.then = {}
    <3>1. \A a \in Due(w) : a # r
      BY <1>0, <2>4, AnswersAreNotCalls
    <3> QED
      BY <1>1, <2>7, <3>1
  <2>9. \A v \in Windows \ {w} : Listened(v)' \subseteq Listened(v) /\ Due(v)' \subseteq Due(v)
    BY <2>1, <2>2, <2>5, <2>6 DEF Listened, Due
  <2>10. \A s \in requests' : s \in r.then \/ \E d \in requests : Alike(s, d)
    <3>1. \A d \in requests : Alike(d, d)
      BY DEF Alike
    <3> QED
      BY <2>1, <2>3, <2>6, <3>1
  <2>11. SameText(kept[w], kept[w]) /\ (Own(kept[w]) => (Accepted(kept[w]) => Drafted(kept[w])))
    BY OwnHas DEF SameText
  <2>12. Listened(w)' \subseteq Listened(w) \cup r.then /\ Due(w)' \subseteq Due(w)
    BY <2>7
  <2> QED
    BY <1>0, <2>1, <2>2, <2>8, <2>9, <2>10, <2>11, <2>12, AfterGoneOwn
<1> QED
  BY <1>2, <1>3

LEMMA ReloadKeepsOwn ==
  ASSUME TypeInv, TypeInv', SoundInv, OwnInv, NEW w \in Windows, Reload(w)
  PROVE  OwnInv'
<1> DEFINE own == {r \in requests : r.by = w}
<1>1. /\ requests' = {r \in requests : r.by # w} \cup Deafened(own)
      /\ answers' = {a \in answers : a.by # w}
      /\ page' = [page EXCEPT ![w] = NoPage] /\ kept' = kept
      /\ UNCHANGED <<server, copied>> /\ minted' = minted
  BY DEF Reload
<1>2. own \in SUBSET RequestTypes /\ own \subseteq requests
  BY DEF TypeInv, NetworkTypes
<1> HIDE DEF own
<1>3. \A d \in Deafened(own) : d.chain = "deaf" /\ \E c \in requests : Alike(d, c)
  BY <1>2, DeafenedAreDeaf, DeafenedAreAlike
<1>4. Listened(w)' = {} /\ Due(w)' = {}
  BY <1>1, <1>3 DEF Listened, Due
<1>5. \A v \in Windows \ {w} : Listened(v)' \subseteq Listened(v) /\ Due(v)' \subseteq Due(v)
  BY <1>1, <1>3 DEF Listened, Due
<1>6. PICK k \in KeptTypes : k = kept[w]
  BY OwnAreTyped
<1>7. kept' = [kept EXCEPT ![w] = k] /\ k.session = kept[w].session
  BY <1>1, <1>6 DEF TypeInv, WindowTypes
<1>8. PICK x : x = NoPage
  OBVIOUS
<1>9. Changes(x, k) /\ Shows(x, k)
  BY <1>8, NoPageIsEmpty DEF Changes, Shows
<1>10. Own(k) => GoesOn(kept[w], k, minted) /\ (Accepted(k) => Drafted(k))
  <2>1. GoesOn(kept[w], k, minted)
    BY <1>6 DEF GoesOn
  <2> QED
    BY <1>6, <2>1, OwnHas
<1>11. \A r \in requests' : \E c \in requests : Alike(r, c)
  <2>1. \A c \in requests : Alike(c, c)
    BY DEF Alike
  <2> QED
    BY <1>1, <1>3, <2>1
<1>12. page' = [page EXCEPT ![w] = x]
  BY <1>1, <1>8
<1> QED
  BY <1>1, <1>4, <1>5, <1>7, <1>9, <1>10, <1>11, <1>12, OwnStep

LEMMA DuplicateKeepsOwn ==
  ASSUME TypeInv, SoundInv, OwnInv, NEW w \in Windows, NEW v \in Windows, Duplicate(w, v)
  PROVE  OwnInv'
<1>1. /\ kept' = [kept EXCEPT ![v] = kept[w]] /\ page' = page /\ requests' = requests /\ answers' = answers
      /\ iterations' = iterations /\ minted' = minted /\ copied' = copied \cup {kept[w].session}
      /\ kept[v].session = 0
  BY DEF Duplicate, network, bounds, server
<1>2. /\ kept'[v] = kept[w] /\ \A u \in Windows : u # v => kept'[u] = kept[u]
  BY <1>1 DEF TypeInv, WindowTypes
<1>3. page[v].phase = "none"
  <2>1. PageSound(page[v], kept[v])
    BY OwnAreSound
  <2> QED
    BY <1>1, <2>1 DEF PageSound
<1>4. MintedBefore'
  <2>1. kept[w].session <= minted
    BY OwnAreSound DEF KeptSound
  <2> QED
    BY <1>1, <2>1 DEF OwnInv, MintedBefore
<1>5. ASSUME NEW u \in Windows
      PROVE  Changes(page[u], kept[u])'
  <2>1. CASE u = v
    BY <1>1, <1>3, <2>1 DEF Changes
  <2>2. CASE u # v
    <3>1. page'[u] = page[u] /\ kept'[u] = kept[u] /\ Changes(page[u], kept[u])
      BY <1>1, <1>2, <2>2, OwnHas
    <3>2. Changes(page'[u], kept'[u])
      BY <3>1
    <3> QED
      BY <3>2 DEF Changes, Standing, Current, Waits
  <2> QED
    BY <2>1, <2>2
<1>6. ASSUME NEW u \in Windows, Own(kept[u])'
      PROVE  OwnSound(u)'
  <2>1. kept'[u].session # 0 /\ kept'[u].session \notin copied'
    BY <1>6 DEF Own
  <2>2. u # v
    BY <1>1, <1>2, <2>1
  <2>3. kept'[u] = kept[u] /\ Own(kept[u])
    BY <1>1, <1>2, <2>1, <2>2 DEF Own
  <2>4. OwnSound(u)
    BY <2>3 DEF OwnInv
  <2>5. \A x \in Windows \ {u} : kept'[x].session # kept[u].session
    <3>1. kept'[v].session \in copied' /\ kept[u].session \notin copied'
      BY <1>1, <1>2, <2>1, <2>3
    <3> QED
      BY <1>2, <2>4, <3>1 DEF OwnSound
  <2>6. Listened(u)' = Listened(u) /\ Due(u)' = Due(u) /\ page'[u] = page[u]
    BY <1>1 DEF Listened, Due
  <2>7. /\ \A r \in requests' : r.kind = "save" => Under(kept[u], r)
        /\ \A i \in iterations' : Under(kept[u], i)
        /\ \A c \in Listened(u)' \cup Due(u)' : \A r \in c.then : r.from = kept[u].version
        /\ \A a \in Due(u)' : Accepts(kept[u], a) => Drafted(kept[u])
    BY <1>1, <2>4, <2>6 DEF OwnSound
  <2>8. iterations \subseteq iterations'
    BY <1>1
  <2> QED
    BY <2>3, <2>4, <2>5, <2>6, <2>7, <2>8, OthersStayOwn
<1> QED
  BY <1>4, <1>5, <1>6 DEF OwnInv

LEMMA LeaveKeepsOwn ==
  ASSUME TypeInv, TypeInv', SoundInv, OwnInv, NEW w \in Windows, Leave(w)
  PROVE  OwnInv'
<1> DEFINE p == page[w]  k == kept[w]  n == p.sequence + 1
           last == p.dirty /\ p.repeat = NoText /\ p.phase \in SavingPhases \cup {"claiming"}
           save == SaveCall(w, "gone", k, n, k.words)
           told == {"send"} \cup IF p.asking = "repeat" THEN {"ask"} ELSE {}
           behind == IF last THEN {save} ELSE {}
           Left(c) ==
             IF c.by # w \/ c.chain \in {"gone", "deaf"} THEN c
             ELSE IF c.chain \in told
             THEN [c EXCEPT !.chain = "gone", !.then = behind]
             ELSE [c EXCEPT !.chain = "deaf"]
           now == last /\ p.sending = "none"
           l == IF now THEN Sent(k, n) ELSE k
<1>0. k \in KeptTypes /\ n \in Nat /\ KeptSound(k, minted) /\ PageSound(p, k) /\ minted \in Nat
  BY OwnAreTyped, OwnAreSound
<1>1. /\ requests' = {Left(r) : r \in requests} \cup (IF now THEN {save} ELSE {})
      /\ answers' = {a \in {Left(b) : b \in answers} : a.chain # "deaf"}
      /\ kept' = [kept EXCEPT ![w] = l]
      /\ page' = [page EXCEPT ![w] = NoPage]
      /\ UNCHANGED <<server, copied>> /\ minted' = minted
      /\ p.phase # "none"
  BY DEF Leave
<1>2. k.session # 0
  BY <1>0, <1>1 DEF PageSound
<1>3. last => n = Last(k) + 1 /\ Last(k) \in Nat
  BY <1>0, LastIsANumber DEF PageSound, SavingPhases
<1>4. /\ save.by = w /\ save.chain = "gone" /\ save.kind = "save" /\ save.session = k.session
      /\ save.sequence = n /\ save.words = k.words /\ save.from = k.version /\ save.then = {}
  BY DEF SaveCall, Call
<1>5. /\ l \in KeptTypes /\ l.session = k.session /\ l.version = k.version
      /\ GoesOn(k, l, minted)
      /\ (Accepted(l) => Accepted(k) /\ l = k)
      /\ now => Under(l, save)
  <2>1. CASE now
    <3>1. l = Sent(k, n) /\ n = Last(k) + 1 /\ Last(k) \in Nat /\ k.answered \in Nat /\ k.answered <= Last(k)
      BY <1>0, <1>3, <2>1 DEF KeptSound, KeptTypes
    <3>2. l \in KeptTypes
      BY <1>0, <3>1, StoredIsKept
    <3>3. /\ l.session = k.session /\ l.words = k.words /\ l.version = k.version /\ l.answered = k.answered
      BY <1>0, <3>1 DEF Sent, KeptTypes
    <3> HIDE DEF l, save, now, n, k
    <3>4. Last(l) = n
      BY <1>0, <1>2, <3>1, SentIsSound
    <3>5. GoesOn(k, l, minted) /\ ~Accepted(l) /\ Under(l, save)
      BY <1>4, <3>1, <3>3, <3>4 DEF GoesOn, Accepted, Under
    <3> QED
      BY <3>2, <3>3, <3>5
  <2>2. CASE ~now
    BY <1>0, <2>2 DEF GoesOn
  <2> QED
    BY <2>1, <2>2
<1>6. behind \subseteq {save}
  OBVIOUS
<1>7. /\ \A c : c.by # w => Left(c) = c
      /\ \A c : \/ Left(c) = c
                \/ Left(c) = [c EXCEPT !.chain = "gone", !.then = behind]
                \/ Left(c) = [c EXCEPT !.chain = "deaf"]
  OBVIOUS
<1> HIDE DEF save, behind, l, now, last, told, Left
<1>8. \A c \in Listened(w) \cup Due(w) : c.then = {}
  BY <1>1, NothingFollows
<1>9. ASSUME NEW c \in requests
      PROVE  /\ Alike(Left(c), c) /\ Left(c).by = c.by
             /\ Left(c).chain = "deaf" \/ Left(c).then \subseteq behind \/ Left(c) = c
  <2>1. c \in RequestTypes
    BY DEF TypeInv, NetworkTypes
  <2>2. \A x : Alike(c, c) /\ Alike([c EXCEPT !.chain = "gone", !.then = x], c) /\ Alike([c EXCEPT !.chain = "deaf"], c)
    BY <2>1 DEF Alike, RequestTypes, CallTypes
  <2>3. /\ \A x : [c EXCEPT !.chain = "gone", !.then = x].by = c.by /\ [c EXCEPT !.chain = "gone", !.then = x].then = x
        /\ [c EXCEPT !.chain = "deaf"].by = c.by /\ [c EXCEPT !.chain = "deaf"].chain = "deaf"
    BY <2>1 DEF RequestTypes, CallTypes
  <2> QED
    BY <1>7, <2>2, <2>3
<1>10. ASSUME NEW c \in answers
       PROVE  /\ Left(c).session = c.session /\ Left(c).sequence = c.sequence
              /\ Left(c).result = c.result /\ Left(c).by = c.by
              /\ Left(c).chain = "deaf" \/ Left(c).then \subseteq behind \/ Left(c) = c
  <2>1. c \in AnswerTypes
    BY DEF TypeInv, NetworkTypes
  <2>2. \A x : LET d == [c EXCEPT !.chain = "gone", !.then = x] IN
               d.by = c.by /\ d.then = x /\ d.session = c.session /\ d.sequence = c.sequence /\ d.result = c.result
    BY <2>1 DEF AnswerTypes
  <2>3. LET d == [c EXCEPT !.chain = "deaf"] IN
        d.by = c.by /\ d.chain = "deaf" /\ d.session = c.session /\ d.sequence = c.sequence /\ d.result = c.result
    BY <2>1 DEF AnswerTypes
  <2>4. CASE Left(c) = c
    BY <2>4
  <2>5. CASE Left(c) = [c EXCEPT !.chain = "gone", !.then = behind]
    BY <2>2, <2>5
  <2>6. CASE Left(c) = [c EXCEPT !.chain = "deaf"]
    BY <2>3, <2>6
  <2> QED
    BY <1>7, <2>4, <2>5, <2>6
<1>11. ASSUME NEW c \in Listened(w)' \cup Due(w)', NEW r \in c.then
       PROVE  r.from = l.version
  <2>1. CASE c = save
    BY <1>4, <1>11, <2>1
  <2>2. CASE \E d \in requests \cup answers : c = Left(d)
    <3>1. PICK d \in requests \cup answers : c = Left(d)
      BY <2>2
    <3>2. d.by = c.by /\ (c.chain = "deaf" \/ c.then \subseteq behind \/ c = d)
      BY <1>9, <1>10, <3>1
    <3>3. c.by = w /\ c.chain # "deaf"
      BY <1>1 DEF Listened, Due
    <3>4. CASE c.then \subseteq behind
      BY <1>4, <1>5, <1>6, <1>11, <3>4
    <3>5. CASE c = d
      <4>1. d \in Listened(w) \cup Due(w)
        BY <3>1, <3>3, <3>5 DEF Listened, Due
      <4> QED
        BY <1>8, <1>11, <3>5, <4>1
    <3> QED
      BY <3>2, <3>3, <3>4, <3>5
  <2>3. c \in requests' \/ c \in answers'
    BY DEF Listened, Due
  <2> QED
    BY <1>1, <2>1, <2>2, <2>3
<1>12. ASSUME NEW r \in requests'
       PROVE  \/ \E c \in requests : Alike(r, c)
              \/ r.session = l.session /\ Under(l, r)
  <2>1. CASE now /\ r = save
    BY <1>4, <1>5, <2>1
  <2>2. CASE \E c \in requests : r = Left(c)
    BY <1>9, <2>2
  <2> QED
    BY <1>1, <2>1, <2>2
<1>13. ASSUME NEW a \in Due(w)'
       PROVE  \E c \in Due(w) : a.session = c.session /\ a.sequence = c.sequence /\ a.result = c.result
  <2>1. a \in answers' /\ a.by = w
    BY DEF Due
  <2>2. PICK c \in answers : a = Left(c)
    BY <1>1, <2>1
  <2> QED
    BY <1>10, <2>1, <2>2 DEF Due
<1>14. ASSUME NEW v \in Windows \ {w}
       PROVE  Listened(v)' \subseteq Listened(v) /\ Due(v)' \subseteq Due(v)
  <2>1. ASSUME NEW r \in requests', r.by = v
        PROVE  r \in requests
    <3>1. CASE \E c \in requests : r = Left(c)
      <4>1. PICK c \in requests : r = Left(c)
        BY <3>1
      <4> QED
        BY <1>7, <1>9, <2>1, <4>1
    <3>2. CASE r = save
      BY <1>4, <2>1, <3>2
    <3> QED
      BY <1>1, <3>1, <3>2
  <2>2. ASSUME NEW a \in answers', a.by = v
        PROVE  a \in answers
    <3>1. PICK c \in answers : a = Left(c)
      BY <1>1
    <3> QED
      BY <1>7, <1>10, <2>2, <3>1
  <2> QED
    BY <2>1, <2>2 DEF Listened, Due
<1>15. PICK x : x = NoPage
  OBVIOUS
<1>16. Changes(x, l) /\ Shows(x, l) /\ page' = [page EXCEPT ![w] = x]
  BY <1>1, <1>15, NoPageIsEmpty DEF Changes, Shows
<1>17. Own(l) => GoesOn(k, l, minted) /\ (Accepted(l) => Drafted(l))
  <2>1. Own(l) => Own(k)
    BY <1>5 DEF Own
  <2>2. Own(k) => (Accepted(k) => Drafted(k))
    BY OwnHas
  <2> QED
    BY <1>5, <2>1, <2>2
<1> QED
  BY <1>1, <1>5, <1>11, <1>12, <1>13, <1>14, <1>16, <1>17, OwnStep

(* A step no page takes, of the service or of the other author: what is    *)
(* kept by it is what a save under way says, and what it accepts it keeps. *)
Keeps(i, r) ==
  r.kind = "save" /\ i.session = r.session /\ i.sequence = r.sequence /\ i.from = r.from /\ i.words = r.words

LEMMA WorldStep ==
  ASSUME TypeInv, SoundInv, OwnInv, iterations \subseteq iterations',
         UNCHANGED <<kept, page, minted, copied>>, requests' \subseteq requests,
         \A i \in iterations' : i \in iterations \/ \E r \in requests : Keeps(i, r),
         \A w \in Windows : \A a \in Due(w)' :
           \/ a \in Due(w)
           \/ \E r \in Listened(w) :
                /\ a.session = r.session /\ a.sequence = r.sequence /\ a.then = r.then
                /\ a.result = "ok" /\ r.kind = "save" =>
                     \E i \in iterations' : i.session = r.session /\ i.sequence = r.sequence
  PROVE  OwnInv'
<1>1. MintedBefore'
  BY DEF OwnInv, MintedBefore, Keeps
<1>2. ASSUME NEW w \in Windows
      PROVE  Changes(page[w], kept[w])'
  <2>1. page'[w] = page[w] /\ kept'[w] = kept[w] /\ Changes(page[w], kept[w])
    BY OwnHas
  <2>2. Changes(page'[w], kept'[w])
    BY <2>1
  <2> QED
    BY <2>2 DEF Changes, Standing, Current, Waits
<1>3. ASSUME NEW w \in Windows, Own(kept[w])'
      PROVE  OwnSound(w)'
  <2>1. kept'[w] = kept[w] /\ page'[w] = page[w] /\ Own(kept[w])
    BY <1>3 DEF Own
  <2>2. PICK k \in KeptTypes : k = kept[w]
    BY OwnAreTyped
  <2>3. OwnSound(w)
    BY <2>1 DEF OwnInv
  <2>4. \A v \in Windows \ {w} : kept'[v].session # kept[w].session
    BY <2>3 DEF OwnSound
  <2>5. \A r \in requests : r.kind = "save" => Under(k, r)
    BY <2>2, <2>3 DEF OwnSound
  <2>6. ASSUME NEW i \in iterations'
        PROVE  Under(k, i)
    <3>1. CASE i \in iterations
      BY <2>2, <2>3, <3>1 DEF OwnSound
    <3>2. CASE \E r \in requests : Keeps(i, r)
      <4>1. PICK r \in requests : Keeps(i, r)
        BY <3>2
      <4>2. Under(k, r)
        BY <2>5, <4>1 DEF Keeps
      <4> QED
        BY <4>1, <4>2 DEF Under, Keeps, Saves
    <3> QED
      BY <3>1, <3>2
  <2>7. \A c \in Listened(w) \cup Due(w) : \A r \in c.then : r.from = k.version
    BY <2>2, <2>3 DEF OwnSound
  <2>8. Listened(w)' \subseteq Listened(w)
    BY DEF Listened
  <2>9. ASSUME NEW a \in Due(w)'
        PROVE  /\ \A r \in a.then : r.from = k.version
               /\ Accepts(k, a) => Drafted(k) \/ \E i \in iterations' :
                    i.session = k.session /\ i.sequence = Last(k) /\ i.from = k.version /\ i.words = k.words
    <3>1. CASE a \in Due(w)
      BY <2>2, <2>3, <2>7, <3>1 DEF OwnSound
    <3>2. CASE a \notin Due(w)
      <4>1. PICK r \in Listened(w) :
              /\ a.session = r.session /\ a.sequence = r.sequence /\ a.then = r.then
              /\ a.result = "ok" /\ r.kind = "save" =>
                   \E i \in iterations' : i.session = r.session /\ i.sequence = r.sequence
        BY <3>2
      <4>2. \A s \in a.then : s.from = k.version
        BY <2>7, <4>1
      <4>3. ASSUME Accepts(k, a)
            PROVE  \E i \in iterations' :
                     i.session = k.session /\ i.sequence = Last(k) /\ i.from = k.version /\ i.words = k.words
        <5>1. r.kind = "save"
          BY <4>1, <4>3, OwnAreSound DEF Accepts, RequestSound, Saves
        <5>2. PICK i \in iterations' : i.session = r.session /\ i.sequence = r.sequence
          BY <4>1, <4>3, <5>1 DEF Accepts
        <5>3. i.session = k.session /\ i.sequence = Last(k) /\ Saves(i) /\ Standing(k)
          BY <4>1, <4>3, <5>2 DEF Accepts, Saves
        <5> QED
          BY <2>6, <5>3 DEF Under
      <4> QED
        BY <4>2, <4>3
    <3> QED
      BY <3>1, <3>2
  <2>10. /\ \A r \in requests' : r.kind = "save" => Under(kept[w], r)
         /\ \A i \in iterations' : Under(kept[w], i)
         /\ \A c \in Listened(w)' \cup Due(w)' : \A r \in c.then : r.from = kept[w].version
    BY <2>2, <2>5, <2>6, <2>7, <2>8, <2>9
  <2>11. \A a \in Due(w)' : Accepts(kept[w], a) => Drafted(kept[w]) \/ \E i \in iterations' :
           /\ i.session = kept[w].session /\ i.sequence = Last(kept[w])
           /\ i.from = kept[w].version /\ i.words = kept[w].words
    BY <2>2, <2>9
  <2> QED
    BY <2>1, <2>3, <2>4, <2>10, <2>11, OthersStayOwn
<1> QED
  BY <1>1, <1>2, <1>3 DEF OwnInv

LEMMA AnsweredKeepsOwn ==
  ASSUME TypeInv, SoundInv, OwnInv, NEW r \in requests, NEW result, Answered(r, result),
         iterations \subseteq iterations', \A i \in iterations' : i \in iterations \/ Keeps(i, r),
         result = "ok" /\ r.kind = "save" =>
           \E i \in iterations' : i.session = r.session /\ i.sequence = r.sequence
  PROVE  OwnInv'
<1>0. PICK a : a = Answer(r, result)
  OBVIOUS
<1>1. /\ requests' = requests \ {r}
      /\ answers' = IF r.chain = "deaf" THEN answers ELSE answers \cup {a}
      /\ UNCHANGED <<kept, page, minted, copied>>
  BY <1>0 DEF Answered
<1>2. /\ a.by = r.by /\ a.session = r.session /\ a.sequence = r.sequence
      /\ a.then = r.then /\ a.result = result
  BY <1>0 DEF Answer
<1>3. ASSUME NEW w \in Windows, NEW d \in Due(w)', d \notin Due(w)
      PROVE  d = a /\ r \in Listened(w)
  BY <1>1, <1>2, <1>3 DEF Due, Listened
<1>4. requests' \subseteq requests /\ \A i \in iterations' : i \in iterations \/ \E s \in requests : Keeps(i, s)
  BY <1>1
<1>5. \A w \in Windows : \A d \in Due(w)' :
        \/ d \in Due(w)
        \/ \E s \in Listened(w) :
             /\ d.session = s.session /\ d.sequence = s.sequence /\ d.then = s.then
             /\ d.result = "ok" /\ s.kind = "save" =>
                  \E i \in iterations' : i.session = s.session /\ i.sequence = s.sequence
  BY <1>2, <1>3
<1> QED
  BY <1>1, <1>4, <1>5, WorldStep

LEMMA ServeKeepsOwn ==
  ASSUME TypeInv, SoundInv, OwnInv, NEW r \in requests, Serve(r) \/ RefuseCall(r)
  PROVE  OwnInv'
<1>1. CASE ServeSave(r)
  <2> DEFINE new == [session |-> r.session, sequence |-> r.sequence, from |-> r.from, words |-> r.words]
  <2>1. /\ iterations' = IF Judged(r) = "ok" /\ Above(r) THEN iterations \cup {new} ELSE iterations
        /\ r.kind = "save" /\ Answered(r, Judged(r))
    BY <1>1 DEF ServeSave
  <2>2. Keeps(new, r)
    BY <2>1 DEF Keeps
  <2>3. iterations \subseteq iterations' /\ \A i \in iterations' : i \in iterations \/ Keeps(i, r)
    BY <2>1, <2>2
  <2>4. ASSUME Judged(r) = "ok"
        PROVE  \E i \in iterations' : i.session = r.session /\ i.sequence = r.sequence
    <3>1. Above(r) \/ \E i \in IterationsOf(r.session) : i.sequence = r.sequence /\ i.words = r.words
      BY <2>4, Zenon DEF Judged, NotHeld
    <3>2. CASE Above(r)
      <4>1. new \in iterations' /\ new.session = r.session /\ new.sequence = r.sequence
        BY <2>1, <2>4, <3>2
      <4> QED
        BY <4>1
    <3>3. CASE \E i \in IterationsOf(r.session) : i.sequence = r.sequence /\ i.words = r.words
      BY <2>3, <3>3 DEF IterationsOf
    <3> QED
      BY <3>1, <3>2, <3>3
  <2> QED
    BY <2>1, <2>3, <2>4, AnsweredKeepsOwn
<1>2. CASE ServeClaim(r) \/ ServeCut(r)
  <2>1. r.kind # "save" /\ iterations' = iterations
    BY <1>2 DEF ServeClaim, ServeCut
  <2>2. \E result : Answered(r, result)
    BY <1>2, Zenon DEF ServeClaim, ServeCut
  <2> QED
    BY <2>1, <2>2, AnsweredKeepsOwn
<1>3. CASE RefuseCall(r)
  <2>1. iterations' = iterations /\ \E result : result # "ok" /\ Answered(r, result)
    BY <1>3 DEF RefuseCall, server
  <2> QED
    BY <2>1, AnsweredKeepsOwn
<1> QED
  BY <1>1, <1>2, <1>3 DEF Serve

LEMMA OthersKeepOwn ==
  ASSUME TypeInv, SoundInv, OwnInv, LapseLock \/ OtherClaims \/ OtherCuts \/ UNCHANGED vars
  PROVE  OwnInv'
<1>1. UNCHANGED <<iterations, requests, answers, kept, page, minted, copied>>
  BY DEF LapseLock, OtherClaims, OtherCuts, vars, network
<1>2. \A w \in Windows : Due(w)' = Due(w)
  BY <1>1 DEF Due
<1> QED
  BY <1>1, <1>2, WorldStep

LEMMA OwnInit ==
  ASSUME Init
  PROVE  OwnInv
<1>1. requests = {} /\ iterations = {} /\ copied = {} /\ \A w \in Windows : kept[w] = NothingKept /\ page[w] = NoPage
  BY DEF Init
<1>2. Changes(NoPage, NothingKept) /\ ~Own(NothingKept)
  BY NoPageIsEmpty DEF Changes, Own, NothingKept
<1> QED
  BY <1>1, <1>2 DEF OwnInv, MintedBefore

LEMMA OwnNext ==
  ASSUME ~ReopensEarly, TypeInv, TypeInv', SoundInv, SoundInv', OwnInv, [Next]_vars
  PROVE  OwnInv'
<1>1. ASSUME NEW w \in Windows, Author(w)
      PROVE  OwnInv'
  <2>1. CASE Finish(w, "cutting") \/ Finish(w, "releasing")
    BY <2>1, FinishKeepsOwn
  <2>2. CASE \E v \in Windows : Duplicate(w, v)
    BY <2>2, DuplicateKeepsOwn
  <2>3. CASE Open(w)
    BY <2>3, OpenReplayingKeepsOwn, OpenAfreshKeepsOwn DEF Open
  <2> QED
    BY <1>1, <2>1, <2>2, <2>3, TypeKeepsOwn, ClaimAgainKeepsOwn, LeaveKeepsOwn,
       ReloadKeepsOwn DEF Author
<1>2. ASSUME NEW w \in Windows, NEW o \in Outcomes(w, "send"), HearSave(w, o) \/ HearSaveReclaim(w, o)
      PROVE  OwnInv'
  BY <1>2, HearSaveKeepsOwn
<1>3. ASSUME NEW w \in Windows, NEW o \in Outcomes(w, "ask"),
             HearClaim(w, o) \/ HearRepeat(w, o) \/ HearCut(w, o) \/ HearFinishReclaim(w, o)
      PROVE  OwnInv'
  BY <1>3, HearClaimKeepsOwn, HearRepeatKeepsOwn, HearFinishKeepsOwn
<1>4. ASSUME NEW w \in Windows, Runs(w) \/ GiveUp(w)
      PROVE  OwnInv'
  <2>1. \A chain : GivesUp \in Outcomes(w, chain) /\ Hears(w, chain) \subseteq Outcomes(w, chain)
    BY DEF Outcomes
  <2>2. CASE Hear(w) \/ GiveUp(w)
    BY <1>2, <1>3, <2>1, <2>2, HearGoneKeepsOwn DEF Hear, GiveUp
  <2> QED
    BY <1>4, <2>2, FlushKeepsOwn, HearGoneKeepsOwn DEF Runs
<1> QED
  BY <1>1, <1>4, ServeKeepsOwn, OthersKeepOwn DEF Next

LEMMA OwnIsTyped ==
  ASSUME TypeInv, SoundInv, OwnInv, OneTextANumber
  PROVE  TypedIsWhatACutSays
<1>1. ASSUME NEW w \in Windows, ShownAsSaved(w), kept[w].session \notin copied,
             kept[w].words # page[w].base, kept[w].version = HeadNo
      PROVE  CutText(kept[w].session) = kept[w].words
  <2>1. PICK k \in KeptTypes : k = kept[w]
    BY OwnAreTyped
  <2>2. PICK p : p = page[w]
    OBVIOUS
  <2>3. p.phase = "editing" /\ p.save = "saved" /\ ~p.dirty /\ PageSound(p, k)
    BY <1>1, <2>1, <2>2, OwnAreSound DEF ShownAsSaved
  <2>4. k.session # 0 /\ p.repeat = NoText /\ ~Waits(p)
    BY <2>3 DEF PageSound, SavingPhases
  <2>5. OwnSound(w) /\ Shows(p, k)
    BY <1>1, <2>1, <2>2, <2>4, OwnHas DEF Own, OwnInv
  <2>6. PICK i \in iterations :
          i.session = k.session /\ i.sequence = Last(k) /\ i.from = k.version /\ i.words = k.words
    BY <1>1, <2>1, <2>2, <2>3, <2>4, <2>5 DEF Shows, Drafted
  <2>7. i \in Drafts(k.session)
    BY <1>1, <2>1, <2>6 DEF Drafts, IterationsOf
  <2>8. k.session \in Nat /\ Last(k) \in Nat
    BY LastIsANumber
  <2>9. PICK j \in Drafts(k.session) : LastOf(Drafts(k.session), j) /\ j.words = CutText(k.session)
    BY <2>7, <2>8, CutTextIsAText
  <2>10. j \in iterations /\ j.session = k.session /\ j.sequence \in Nat
    BY <2>9 DEF Drafts, IterationsOf, TypeInv, ServerTypes, IterationTypes
  <2>11. j.sequence <= Last(k)
    BY <2>1, <2>5, <2>10 DEF OwnSound, Under
  <2>12. j.sequence = i.sequence
    BY <2>6, <2>7, <2>8, <2>9, <2>10, <2>11 DEF LastOf
  <2>13. j.words = i.words
    BY <2>6, <2>10, <2>12 DEF OneTextANumber
  <2> QED
    BY <2>1, <2>6, <2>9, <2>13
<1> QED
  BY <1>1 DEF TypedIsWhatACutSays

(* A change a page shows as saved is what Save version would publish now:  *)
(* no older save overtook it, no newer was sent over it, and it was saved  *)
(* under the session and from the version the page cuts, whatever was      *)
(* lost, late, given up on or repeated.  Of a session no other tab took    *)
(* with it, and of pages opened once the last one's saves have gone.       *)
THEOREM CutSaysIt == ASSUME ~ReopensEarly PROVE Spec => []TypedIsWhatACutSays
<1>1. Spec => []TypeInv
  BY TypeInit, TypeNext, PTL DEF Spec
<1>2. TypeInv /\ TypeInv' /\ SoundInv /\ [Next]_vars => SoundInv'
  BY SoundNext
<1>3. Spec => []SoundInv
  BY <1>1, <1>2, SoundInit, PTL DEF Spec
<1>4. TypeInv /\ TypeInv' /\ SoundInv /\ SoundInv' /\ OwnInv /\ [Next]_vars => OwnInv'
  BY OwnNext
<1>5. Spec => []OwnInv
  BY <1>1, <1>3, <1>4, OwnInit, PTL DEF Spec
<1> QED
  BY <1>1, <1>3, <1>5, OneText, OwnIsTyped, PTL
=============================================================================
