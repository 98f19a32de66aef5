\* A line's own first cut, and what Recover offers after it.
SPECIFICATION Spec
CONSTANTS
  Principals = {p1}
  Sessions = {s1}
  Words = {w1, w2}
  LastLine = 1
  Policies <- OnePolicy
  Grace = 1
  AskLasts = 1
  MaxSequence = 2
  MaxVersions = 2
  MaxNow = 1
INVARIANTS OwnCutOffersNothing
