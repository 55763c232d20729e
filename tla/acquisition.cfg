SPECIFICATION FairSpec
CONSTANTS
  Players = {p1, p2, p3}
  Sellers = {team}
  SellerOf <- OneTeam
  Clubs = {club}
  UserClubs = {mine}
  SeasonLimit = 2
  CooldownDays = 2
  PendingLimit = 1
  OpenDays <- EveryDay
  LastDay = 3
  MaxActs = 2
  team = team
INVARIANTS SalesAreRationed
PROPERTIES AuditedMeansAcquired RestingDayIsAudited
CHECK_DEADLOCK FALSE
