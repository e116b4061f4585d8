\* A vault worth four times its supply.
CONSTANTS
  alice = alice
  bob = bob
  Wrapper = wrapper
  Hub = hub
  NoLimit = noLimit
  ONE = 10
  Users <- OneUser
  Receivers = {}
  Spenders = {}
  Rates = {10, 40}
  Amounts = {40}
  Endowment = 40
  LsdEndowment <- MCEndowment
  InitialGrants = {0}
  Expiries = {}
  MaxUint = 40
  Limits = {8}
  YEAR = 2
  TicksPerSecond = 1
  MaxTime = 2
SPECIFICATION Spec
PROPERTY
  ExpectedRateReached
