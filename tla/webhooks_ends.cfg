\* Two deliveries, and two workers, the passes of one of which may outlast
\* their leases, with one trouble, over any number of days.
SPECIFICATION FairSpec
CONSTANTS
  Workers = {w1, w2}
  Day = 1
  FailingFor = 2
  Stallers = {w2}
  MaxDeliveries = 2
  MaxTroubles = 1
INVARIANTS TypeOK DoneIsNotSentAgain
PROPERTIES FencedByTheLease DisabledOnlyForFailing EveryDeliveryEnds
