\* One user and much time: how the limit accumulates and is used up.
CONSTANTS
  alice = alice
  bob = bob
  Wrapper = wrapper
  Hub = hub
  NoLimit = noLimit
  ONE = 10
  Users <- OneUser
  Receivers = {}
  Spenders = {}
  Rates = {8, 20}
  Amounts = {1, 2}
  Endowment = 4
  LsdEndowment <- MCEndowment
  InitialGrants = {0}
  Expiries = {}
  MaxUint = 3
  Limits = {noLimit, 10}
  YEAR = 3
  TicksPerSecond = 2
  MaxTime = 7
SPECIFICATION Spec
INVARIANTS
  TypeOK
  CapRespected
  SpareNeverNegative
  RewardsNeverUnderflow
PROPERTIES
  ExtractionRecorded
  HarvestKeepsCover
