------------------------------- MODULE Recovery -------------------------------
(***************************************************************************)
(* What a component offers its author to recover (recovery.ts): the newest *)
(* iteration of theirs on the line that the sweep keeps, unless a version  *)
(* at or after the one it was opened from holds exactly what it holds.     *)
(***************************************************************************)
EXTENDS Authoring

(* `(revision_no, version_no) >= ...` as the columns order the versions of *)
(* every line together: a line's are numbered by its ordinal, negated,     *)
(* below the main line's.  A bug to catch: the comparison the other way.   *)
AtMost(v, w)  == w.line < v.line \/ (v.line = w.line /\ v.no <= w.no)
AtLeast(v, w) == v.line < w.line \/ (v.line = w.line /\ v.no >= w.no)

Retained(p, l) == {i \in iterations : i.principal = p /\ i.line = l /\ ~PastItsWindow(i)}

(* The newest of them, whichever session saved it.                         *)
Newest(p, l) == {i \in Retained(p, l) : \A j \in Retained(p, l) : j.made <= i.made}

UnsavedWork(p, l) ==
  {i \in Newest(p, l) :
     ~\E k \in Lines : \E n \in 1..Len(versions[k]) :
        /\ AtLeast([line |-> k, no |-> n], i.openedFrom)
        /\ versions[k][n].words = i.words}

(* "So the author's own cut offers nothing, however many versions came     *)
(* after it" (recovery.ts:161-163).                                        *)
OwnCutOffersNothing ==
  \A p \in Principals, l \in Lines : \A i \in Newest(p, l) :
    (\E n \in 1..Len(versions[l]) :
       /\ i.session \in versions[l][n].cutBy /\ versions[l][n].author = p
       /\ i.openedFrom = Before(l, n) /\ i.words = versions[l][n].words)
      => UnsavedWork(p, l) = {}

(* And of every cut but a line's first that holds: what a session cut is   *)
(* what it saved last, so with its newest save from the version before, no *)
(* earlier one and no other line's is offered, whatever was cut, restored, *)
(* swept or taken since (recovery.ts:160-164).                             *)
LaterCutOffersNothing ==
  \A p \in Principals, l \in Lines : \A i \in Newest(p, l) :
    (\E n \in 2..Len(versions[l]) :
       /\ i.session \in versions[l][n].cutBy /\ versions[l][n].author = p
       /\ i.openedFrom = Before(l, n))
      => UnsavedWork(p, l) = {}
=============================================================================
