\* A cohort of two rows and a report, run and run again by two workers.
SPECIFICATION Spec
CONSTANTS
  Workers = {w1, w2}
  Kinds = {"impact_report", "cohort"}
  Subjects = {1, 2}
  MaxAttempts = 2
  Stalls = FALSE
  MaxJobs = 2
  MaxTroubles = 1
  Cohorts = {c1}
  RowCount = 2
  Anything = Anything
  MaxReports = 1
SYMMETRY WorkersAlike
INVARIANTS TypeOK FinishedHasEnded HeardAtItsNextStep MadeOnce PendingIsWaitedFor
PROPERTIES EndsOnce
