\* One request tried once by one worker, which may stop once.
SPECIFICATION FairSpec
CONSTANTS
  Workers = {w1}
  Kinds = {"publish", "check_pdf"}
  Subjects = {r1}
  MaxAttempts = 1
  Stalls = FALSE
  MaxJobs = 2
  MaxTroubles = 1
  Sweepers = {s1}
  CheckGiveUps = 1
PROPERTIES EveryRequestEnds
