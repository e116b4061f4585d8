\* Two users, an allowance, unbacked initial tokens and one year of time:
\* the share of the vault behind each token.
CONSTANTS
  alice = alice
  bob = bob
  Wrapper = wrapper
  Hub = hub
  NoLimit = noLimit
  ONE = 10
  Users <- TwoUsers
  Receivers = {bob}
  Spenders = {bob}
  Rates = {8, 20}
  Amounts = {1, 3}
  Endowment = 5
  LsdEndowment <- MCEndowment
  InitialGrants = {0, 1}
  Expiries = {}
  MaxUint = 5
  Limits = {10}
  YEAR = 1
  TicksPerSecond = 1
  MaxTime = 1
SPECIFICATION Spec
PROPERTY
  ShareKept
