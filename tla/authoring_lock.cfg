\* The lock alone over time: two policies, every ask, grace, lapse and take.
SPECIFICATION Spec
CONSTANTS
  Principals = {p1, p2}
  Sessions = {s1, s2}
  Words = {w1}
  LastLine = 0
  Policies <- TwoPolicies
  Grace = 1
  AskLasts = 1
  MaxSequence = 2
  MaxVersions = 1
  MaxNow = 4
  Nobody = Nobody
  NoText = NoText
SYMMETRY Alike
CONSTRAINT FewSaves
INVARIANTS TypeOK
PROPERTIES TakenOnlyFromTheIdle TheTakenAreTold KeepsThePromise
