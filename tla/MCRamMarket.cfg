SPECIFICATION MCSpec
CONSTANTS
    N = 2
    Genesis = {1}
    InitRam = 16
    InitQuote = 12
    Supply = 4000
    TableSize = 40
    Word = 8
    Rates = {0, 3}
    RamSizes = {20}
    InitTokens = 9
    Payments = {1, 3, 6}
    Bytes = {2, 5}
    Managed = {0, 9}
    Gift = 2
    MaxStaked = 1
    MaxSlot = 3
    Payment = 6
    Amount = 3
CHECK_DEADLOCK FALSE
INVARIANTS RamAccounted SalesArePaid QuotaUsable
PROPERTIES MarketNeverLoses
