\* One job, and two workers that may outlast a lease.
SPECIFICATION QueueSpec
CONSTANTS
  Workers = {w1, w2}
  Kinds = {publish}
  Subjects = {r1}
  MaxAttempts = 2
  Stalls = TRUE
  MaxJobs = 1
  MaxTroubles = 1
PROPERTIES EveryJobEnds
