SPECIFICATION FairSpec
CONSTANTS
  Obligations = {o1, o2}
  Place <- TwoCases
  FreeAgents = {f1, f2}
  Fa <- TwoSigned
  Players = {p1, p2}
  Signer = Signer
  Nobody = Nobody
  Protect = 1
  DueDays = 1
  RowCap = 3
  MaxDay = 2
  MaxActs = 1
  MaxTroubles = 1
  o1 = o1
  o2 = o2
  f1 = f1
  f2 = f2
INVARIANTS TypeOK PaidOnce ClosedOneWay WaitsForItsDecision SettledMeansPaid
PROPERTIES EventuallySettled
