\* Two mails beside a closing's notices and two workers whose passes keep to
\* their leases, with one trouble, behind a relay of the environment's own.
SPECIFICATION FairSpec
CONSTANTS
  Workers = {w1, w2}
  Stallers = {}
  Mails = {m1, m2}
  Settings <- OwnRelay
  Asked = {"notification"}
  MaxTroubles = 1
INVARIANTS TypeOK
PROPERTIES HeldWhileItIsSent EachRelayForItself EveryMailEnds
