\* The reward contract that sells the LSD itself, one exchange, and a known
\* token strangers may send.
CONSTANTS
  alice = alice
  admin = admin
  other = other
  custody = custody
  coin = coin
  token = token
  astroport = astroport
  phoenix = phoenix
  terraswap = terraswap
  Wrapper = wrapper
  Hub = hub
  Reward = reward
  Market = market
  Elsewhere = elsewhere
  None = none
  NoQuote = noQuote
  Lsd = lsdToken
  Stable = stable
  ONE = 10
  Users <- MCUsers
  MaxUint = 3
  Endowment = 3
  LsdEndowment <- MCEndowment
  Targets <- AnyTargets
  Custodies = {custody}
  Rates = {8, 19}
  Amounts = {2}
  Admins = {admin}
  Hubs <- HubOrAlice
  Natives <- CoinAndStable
  Cw20s = {token}
  Mute = {}
  KnownLists <- KnowsBothOrTwice
  DexAddresses = {astroport}
  Understands <- OnlyAstroport
  ExchangeUpdates <- Stay
  Quotes = {0, 1}
  DexCount = 1
  MaxHeld = 1
SPECIFICATION Spec
INVARIANTS
  TypeOK
  QueuedMessagesAccepted
  SalesDisjoint
PROPERTIES
  AtomicHarvest
  AtomicDistribution
  EveryTransactionEnds
