\* One tab, two texts, two troubles, and one turn of the lock or the service.
SPECIFICATION FairSpec
CONSTANTS
  Windows = {a}
  Nobody = Nobody
  Other = Other
  NoText = NoText
  Copies = FALSE
  ReopensEarly = FALSE
  MaxTexts = 2
  MaxSessions = 2
  MaxTroubles = 2
  MaxTurns = 1
INVARIANTS TypeOK TypedIsWhatACutSays
PROPERTIES EveryWaitEnds
\* At its bounds an author has nothing left to do.
CHECK_DEADLOCK FALSE
