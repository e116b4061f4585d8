\* The reward contract that unbonds amp LP and withdraws from the pair, with a
\* limit of a whole vault per year of one second.
CONSTANTS
  alice = alice
  admin = admin
  custody = custody
  coin = coin
  token = token
  astroport = astroport
  Wrapper = wrapper
  Hub = hub
  Reward = reward
  Market = market
  None = none
  NoQuote = noQuote
  NoLimit = noLimit
  Lsd = lsdToken
  Lp = lpToken
  Stable = stable
  ONE = 10
  Users <- MCUsers
  Amounts = {2}
  MaxUint = 3
  Endowment = 3
  LsdEndowment <- MCEndowment
  Limits = {10}
  YEAR = 1
  TicksPerSecond = 1
  MaxTime = 2
  TotalLp = 3
  MaxLp = 6
  Losses = {1}
  Targets = {wrapper, reward}
  Admins = {admin}
  Hubs = {hub}
  Custodies = {custody}
  Natives <- OnlyStable
  Cw20s = {token, lpToken}
  Mute = {}
  KnownLists <- KnowsToken
  PairAssets = {token, stable}
  DexAddresses = {astroport}
  Understands <- OnlyAstroport
  ExchangeUpdates <- Stay
  Quotes = {1}
  DexCount = 1
  Retrieval = "amp_lp"
  MaxHeld = 1
SPECIFICATION Spec
INVARIANTS
  TypeOK
  QueuedMessagesAccepted
  ClocksAgree
PROPERTIES
  AtomicDistribution
  NothingLeftBehind
  UpdateKeepsCover
  EveryTransactionEnds
