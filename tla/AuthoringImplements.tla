-------------------------- MODULE AuthoringImplements -------------------------
(***************************************************************************)
(* The tables of Authoring read as the promise of OneWriter: a line's      *)
(* holder is its live lock's, its text its head's, and a writer's draft    *)
(* the iteration of theirs a cut of that line would promote.               *)
(***************************************************************************)
EXTENDS Authoring

CONSTANTS Nobody, NoText

(* Nobody is no writer, and having no text is saying nothing.              *)
ASSUME NoneAssumption == Nobody \notin Writers /\ NoText \notin Words

HolderOf(l) ==
  IF Live(l) THEN [principal |-> lock[l].holder, session |-> lock[l].session] ELSE Nobody
TextOf(l) == IF Begun(l) THEN WordsAt(HeadOf(l)) ELSE NoText
AuthorOf(l) ==
  IF Begun(l) THEN versions[HeadOf(l).line][HeadOf(l).no].author ELSE versions[Main][1].author
DraftOf(l) == [w \in Writers |-> {i.words : i \in LatestDrafts(w, l)}]

Promise == INSTANCE OneWriter WITH
  holder <- [l \in Lines |-> HolderOf(l)],
  text   <- [l \in Lines |-> TextOf(l)],
  author <- [l \in Lines |-> AuthorOf(l)],
  draft  <- [l \in Lines |-> DraftOf(l)]

(* Every step of the tables is a step of one writer at a time, or none:    *)
(* nobody's text is overtaken under a live lock, nobody's draft is lost by *)
(* a lapse, a take or the sweep, and only a draft is ever published.       *)
KeepsThePromise == Promise!Spec
=============================================================================
