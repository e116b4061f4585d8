\* A mint while one LSD is worth four Luna.
CONSTANTS
  alice = alice
  bob = bob
  Wrapper = wrapper
  Hub = hub
  NoLimit = noLimit
  ONE = 10
  Users <- OneUser
  Receivers = {}
  Spenders = {}
  Rates = {10, 40}
  Amounts = {1, 2}
  Endowment = 4
  LsdEndowment <- MCEndowment
  InitialGrants = {0}
  Expiries = {}
  MaxUint = 8
  Limits = {5}
  YEAR = 2
  TicksPerSecond = 1
  MaxTime = 2
SPECIFICATION Spec
PROPERTY
  MintWithFollowsLunaRate
