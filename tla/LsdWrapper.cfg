\* Two users and the hub, four LSD, Decimals of one digit, and rates below,
\* at and above one Luna, and zero.
CONSTANTS
  alice = alice
  bob = bob
  Wrapper = wrapper
  Hub = hub
  ONE = 10
  Users <- MCUsers
  Receivers = {bob}
  Spenders = {bob}
  Rates <- MCRates
  Amounts = {1, 2}
  LsdEndowment <- MCEndowment
  InitialGrants = {0, 1}
  Expiries = {"never", "later"}
  MaxUint = 4
SPECIFICATION Spec
INVARIANTS
  TypeOK
  SupplyMatchesBalances
  EveryoneCanLeave
  RewardsNeverUnderflow
PROPERTIES
  VaultSpec
  SolvencyKept
  HarvestIsTight
  OnlyOwnerOrSpender
