\* The contracts about prices, a scenario each: a vault over two collaterals
\* with different limits, a liquidator, a push price and a TWAP for each, and a
\* circuit breaker anyone may trip; the server's mirror of a vault under three
\* overlapping requests; an AMM pool that two users fill, trade in and empty;
\* its average price through a ring of two observations; the lending pool with
\* loans on two assets, and liquidations that sell collateral in that AMM pool.
SPECIFICATION MCSpec
CONSTANTS
    u1 = u1
    u2 = u2
    t1 = t1
    t2 = t2
    q = q
    r1 = r1
    r2 = r2
    r3 = r3
    Users <- MCUsers
    TokenOrder <- TwoTokens
    Configs <- MCConfigs
    Prices <- MCPrices
    TwapPrices = {2, 4}
    Scale = 2
    DivergenceBps = 500
    Deposits = {1, 2}
    SmtAmounts = {1, 2}
    Endowment = 2
    MaxVaults = 1
    VaultRequests <- MCRequests
    Collaterals = {t1, t2}
    MaxAmount = 1
    NoVault = NoVault
    NoConfig = NoConfig
    NoTwap = NoTwap
    Providers <- MCUsers
    Base = t1
    Quote = q
    Coins <- MCCoins
    FeeBps = 1000
    PriceScale = 8
    Amounts = {1, 2, 3, 4}
    Purse = 4
    Closings = {1, 2}
    MaxClock = 4
    RingSize = 2
    MinInterval = 1
    Windows <- MCWindows
    NoFeed = NoFeed
    NoPrice = NoPrice
    Assets = {t1, t2}
    AssetConfigs <- MCAssetConfigs
    AssetPrices = {4, 8}
    LendAmounts = {2}
    MinOutputs = {1}
    LendFunds = 4
    FlashFunds = 2
    FlashFeeBps = 5000
    LoanFees = {0}
    OtherPays = {0}
    NoAsset = NoAsset
    NoFlash = NoFlash
INVARIANTS
    TwapHolds
    BooksBalance
    
PROPERTIES
    SharesKeepTheirWorth
    LendingHolds
    OwnersAreSafe
SYMMETRY Symmetry
CHECK_DEADLOCK FALSE
