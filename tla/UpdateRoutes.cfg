\* Three exchanges whose addresses the owner may mix up, and one asset to sell.
CONSTANTS
  alice = alice
  admin = admin
  other = other
  custody = custody
  coin = coin
  token = token
  astroport = astroport
  phoenix = phoenix
  terraswap = terraswap
  Wrapper = wrapper
  Hub = hub
  Reward = reward
  Market = market
  Elsewhere = elsewhere
  None = none
  NoQuote = noQuote
  Lsd = lsdToken
  Stable = stable
  ONE = 10
  Users <- MCUsers
  MaxUint = 3
  Endowment = 3
  LsdEndowment <- MCEndowment
  Targets <- RightTargets
  Custodies = {custody}
  Rates = {8, 20}
  Amounts = {2}
  Admins = {admin}
  Hubs = {hub}
  Natives <- OnlyStable
  Cw20s = {token}
  Mute = {token}
  KnownLists <- KnowsLsdOrBoth
  DexAddresses = {astroport, phoenix, terraswap}
  Understands <- OneEach
  ExchangeUpdates <- Moves
  Quotes = {0, 1, 2}
  DexCount = 3
  MaxHeld = 0
SPECIFICATION Spec
INVARIANTS
  BestPriceTaken
  QueuedMessagesAccepted
PROPERTY
  NothingLeftBehind
