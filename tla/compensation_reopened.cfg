SPECIFICATION Spec
CONSTANTS
  Obligations = {o1}
  Place <- OneCase
  FreeAgents = {f1}
  Fa <- OneSigned
  Players = {p1, p2}
  Signer = Signer
  Nobody = Nobody
  Protect = 1
  DueDays = 1
  RowCap = 3
  MaxDay = 2
  MaxActs = 1
  MaxTroubles = 0
  o1 = o1
  o2 = o2
  f1 = f1
  f2 = f2
INVARIANT EitherPlayerOrCash
