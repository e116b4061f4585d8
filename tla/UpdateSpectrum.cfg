\* The reward contract that unbonds from Spectrum and withdraws from a pair
\* with a native coin; there is no limit, and the farm loses nothing.
CONSTANTS
  alice = alice
  admin = admin
  custody = custody
  coin = coin
  token = token
  astroport = astroport
  Wrapper = wrapper
  Hub = hub
  Reward = reward
  Market = market
  None = none
  NoQuote = noQuote
  NoLimit = noLimit
  Lsd = lsdToken
  Lp = lpToken
  Stable = stable
  ONE = 10
  Users <- MCUsers
  Amounts = {2}
  MaxUint = 3
  Endowment = 3
  LsdEndowment <- MCEndowment
  Limits <- Unlimited
  YEAR = 1
  TicksPerSecond = 1
  MaxTime = 2
  TotalLp = 3
  MaxLp = 6
  Losses = {}
  Targets = {wrapper, reward}
  Admins = {admin}
  Hubs = {hub}
  Custodies = {custody}
  Natives <- CoinAndStable
  Cw20s = {token, lpToken}
  Mute = {}
  KnownLists <- KnowsToken
  PairAssets = {coin, token}
  DexAddresses = {astroport}
  Understands <- OnlyAstroport
  ExchangeUpdates <- Stay
  Quotes = {1}
  DexCount = 1
  Retrieval = "spectrum"
  MaxHeld = 1
SPECIFICATION Spec
INVARIANT
  QueuedMessagesAccepted
PROPERTY
  NothingLeftBehind
