------------------------------ MODULE OneWriter ------------------------------
(***************************************************************************)
(* What editing promises an author, whatever the requests and the order    *)
(* they arrive in: on each line of a component at most one writer at a     *)
(* time; a writer's draft is what they wrote last since the line's text    *)
(* last changed, and is theirs through losing the lock and having it       *)
(* again; and while anybody holds the line its text changes only to their  *)
(* own draft, or by their own act when they have none.                     *)
(***************************************************************************)
EXTENDS Naturals

CONSTANTS
  Principals, Sessions, Words, Lines,
  Nobody,    \* no writer
  NoText     \* the text of a line not begun

Writers == [principal : Principals, session : Sessions]

VARIABLES
  holder,    \* who may write on each line, or Nobody
  text,      \* what each line says, or NoText
  author,    \* whose version that is
  draft      \* each writer's draft on each line: none, or one

vars == <<holder, text, author, draft>>

NoDrafts == [w \in Writers |-> {}]

Init ==
  /\ holder = [l \in Lines |-> Nobody]
  /\ text \in [Lines -> Words \cup {NoText}]
  /\ author \in [Lines -> Principals]
  /\ draft = [l \in Lines |-> NoDrafts]

(* A line is begun with the words of the version it diverged from.         *)
Begin(l) ==
  /\ text[l] = NoText
  /\ \E t \in Words, p \in Principals :
       /\ text' = [text EXCEPT ![l] = t]
       /\ author' = [author EXCEPT ![l] = p]
  /\ UNCHANGED <<holder, draft>>

(* Held by nobody, or moved between the windows of one principal, or taken.*)
Hold(l, w) ==
  /\ text[l] # NoText
  /\ holder' = [holder EXCEPT ![l] = w]
  /\ UNCHANGED <<text, author, draft>>

(* Lapsed, released with nothing to cut, or dropped by a move.             *)
Free(freed) ==
  /\ holder' = [l \in Lines |-> IF l \in freed THEN Nobody ELSE holder[l]]
  /\ UNCHANGED <<text, author, draft>>

Write(l, t) ==
  /\ holder[l] # Nobody
  /\ draft' = [draft EXCEPT ![l][holder[l]] = {t}]
  /\ UNCHANGED <<holder, text, author>>

Say(l, t, p) ==
  /\ text' = [text EXCEPT ![l] = t]
  /\ author' = [author EXCEPT ![l] = p]
  /\ draft' = [draft EXCEPT ![l] = NoDrafts]

(* The holder's draft becomes the text, and the holder stays or leaves.    *)
Publish(l) ==
  /\ holder[l] # Nobody
  /\ \E t \in draft[l][holder[l]] : Say(l, t, holder[l].principal)
  /\ holder' \in {holder, [holder EXCEPT ![l] = Nobody]}

(* Any other new text: over nobody, or by a holder with nothing to lose.   *)
Replace(l, t, p) ==
  /\ text[l] # NoText
  /\ holder[l] # Nobody => holder[l].principal = p /\ draft[l][holder[l]] = {}
  /\ Say(l, t, p)
  /\ UNCHANGED holder

Next ==
  \/ \E freed \in SUBSET Lines : Free(freed)
  \/ \E l \in Lines :
       \/ Begin(l) \/ Publish(l)
       \/ \E w \in Writers : Hold(l, w)
       \/ \E t \in Words : Write(l, t) \/ \E p \in Principals : Replace(l, t, p)

Spec == Init /\ [][Next]_vars
=============================================================================
