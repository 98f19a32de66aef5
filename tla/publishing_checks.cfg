\* One request whose checks may give up twice, two workers that never outlast
\* a lease, one sweep at a time and two troubles.
SPECIFICATION FairSpec
CONSTANTS
  Workers = {w1, w2}
  Kinds = {"publish", "check_pdf"}
  Subjects = {r1}
  MaxAttempts = 2
  Stalls = FALSE
  MaxJobs = 4
  MaxTroubles = 2
  Sweepers = {s1}
  CheckGiveUps = 2
INVARIANTS TypeOK OneOutcome OneCheckComing TriedSoOften ExclusiveRun
PROPERTIES CheckedOrLeft EveryJobEnds
