\* Two tabs, one perhaps a duplicate of the other, two texts and one trouble.
SPECIFICATION Spec
CONSTANTS
  Windows = {a, b}
  Nobody = Nobody
  Other = Other
  NoText = NoText
  Copies = TRUE
  ReopensEarly = FALSE
  MaxTexts = 2
  MaxSessions = 2
  MaxTroubles = 1
  MaxTurns = 0
SYMMETRY WindowsAlike
CONSTRAINT FewCalls
INVARIANTS SavedIsKept OneTextANumber
\* At its bounds an author has nothing left to do.
CHECK_DEADLOCK FALSE
