SPECIFICATION MCSpec
CONSTANTS
    N = 2
    B1 = 0
    Day = 1
    Buckets = 1
    EndOfDays = 99
    RexRatio = 2
    InitTotalRent = 1
    LoanTerm = 1
    RunMax = 2
    MaxLoans = 1
    MaxTime = 2
    LastRent = 1
    InitOwn = 1
    InitFund = 3
    InitStake = 1
    Lenders = {1}
    Renters = {2}
    Savers = {1}
    Votes = {TRUE, FALSE}
    RexChoices = {"all", "rest", "unit"}
    Deposits = {1}
    Purchases = {}
    MarketPurchases = {1, 2, 3}
    AccountPurchases = {3}
    Unstakings = {0, 1}
    LoanPayments = {1}
    LoanFunds = {0, 1}
    RentSettings = {2}
    FeeAmounts = {1}
    ExecMax = {1}
INVARIANTS PoolMatchesTables SharesHaveValue RexAccountBacked NamebidsWaitForLenders RowsAddUp
INVARIANTS WeightIsBacked HoldersVote MaintenanceNeverFails
PROPERTIES RexPriceNeverFalls OrdersServed
