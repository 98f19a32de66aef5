------------------------------ MODULE MCAuthoring -----------------------------
(* Small instances of Authoring for TLC. *)
EXTENDS AuthoringImplements, Recovery, TLC

OnePolicy  == {[release |-> 2, take |-> 1, keep |-> 1]}
TwoPolicies == {[release |-> 3, take |-> 1, keep |-> 1], [release |-> 4, take |-> 2, keep |-> 1]}

(* Principals, sessions and words are alike to every definition. *)
Alike == Permutations(Principals) \cup Permutations(Sessions) \cup Permutations(Words)

(* Bound: the saves there are at one time.                                 *)
FewSaves == Cardinality(iterations) <= 3

(* Bounds: who there may be - two principals of one session id, or one     *)
(* principal of two - and the versions of both lines together. A line's    *)
(* third version, the restore of its first, is made and goes no further.   *)
Active == iterations \cup UNION {{a.by : a \in lock[l].taking} : l \in {k \in Lines : Live(k)}}
Held   == {lock[l] : l \in {k \in Lines : lock[k] # NoLock}}
Cuts   == UNION {{versions[l][n] : n \in DOMAIN versions[l]} : l \in Lines}
Few ==
  LET who == {i.principal : i \in Active} \cup {row.holder : row \in Held}
               \cup {v.author : v \in Cuts}
      ids == {i.session : i \in Active} \cup {row.session : row \in Held}
               \cup UNION {v.cutBy : v \in Cuts}
  IN  /\ Cardinality(who) + Cardinality(ids) <= 3
      /\ Len(versions[Main]) + Len(versions[1]) <= IF Cardinality(ids) = 2 THEN 2 ELSE 3
      /\ \A l \in Lines : Len(versions[l]) <= 2
=============================================================================
