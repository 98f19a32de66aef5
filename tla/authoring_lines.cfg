\* Two authors of one session id, or one of two, on the main line and on another
\* that is begun, closed or a language's.
SPECIFICATION Spec
CONSTANTS
  Principals = {p1, p2}
  Sessions = {s1, s2}
  Words = {w1, w2}
  LastLine = 1
  Policies <- OnePolicy
  Grace = 1
  AskLasts = 1
  MaxSequence = 1
  MaxVersions = 3
  MaxNow = 1
  Nobody = Nobody
  NoText = NoText
SYMMETRY Alike
CONSTRAINT Few
INVARIANTS NothingGoneIsHeld LaterCutOffersNothing CutSaysWhatWasSavedLast
PROPERTIES KeptThroughItsWindow KeepsThePromise
