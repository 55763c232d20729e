SPECIFICATION Spec
CONSTANTS
  Saves = {sA, sB}
  NoSave = NoSave
  RingSize = 12
  Entered = TRUE
  Switchable = TRUE
  MaxDate = 3
  MaxLoads = 2
  MaxDefers = 1
SYMMETRY SaveSymmetry
INVARIANTS
  TypeOK
  OfferIsOfThisSave
PROPERTY FeedSpec
