\* Three requests with one key, for one act within its transaction and one after.
SPECIFICATION FairSpec
CONSTANTS
  Sends = {s1, s2, s3}
  Acts = {submit, create}
  WorksAfter = {create}
  Nothing = Nothing
INVARIANTS TypeOK DoneOnceADay
PROPERTIES EveryRequestIsAnswered
\* Every request sent is answered.
CHECK_DEADLOCK FALSE
