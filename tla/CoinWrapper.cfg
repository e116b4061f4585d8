\* Two users, allowances that may expire, three coins of the LSD and one
\* foreign coin; posted prices of zero, below, at and above one Luna, and one
\* too large for a Decimal.
CONSTANTS
  alice = alice
  bob = bob
  Wrapper = wrapper
  Hub = hub
  ONE = 10
  Users <- TwoUsers
  Receivers = {}
  Spenders = {bob}
  Rates = {0, 8, 10, 19, 40}
  Amounts = {1, 2}
  LsdEndowment <- MCEndowment
  InitialGrants = {0, 1}
  Expiries = {"later"}
  MaxUint = 3
  Denom = stride
  OtherDenoms = {uluna}
  MaxRate = 39
SPECIFICATION CoinSpec
INVARIANTS
  TypeOK
  OnlyDustIsStuck
  UpdateNeverBlocked
PROPERTIES
  VaultSpec
  ExcessIsHarvested
