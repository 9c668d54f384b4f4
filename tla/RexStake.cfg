SPECIFICATION Spec
CONSTANTS
    N = 2
    B1 = 0
    Day = 1
    Buckets = 1
    EndOfDays = 99
    RexRatio = 10000
    InitTotalRent = 1
    LoanTerm = 1
    RunMax = 2
    MaxLoans = 1
    MaxTime = 2
    LastRent = 1
    InitOwn = 1
    InitFund = 0
    InitStake = 2
    Lenders = {1}
    Renters = {}
    Savers = {}
    Votes = {TRUE}
    RexChoices = {"all"}
    Deposits = {}
    Purchases = {}
    Unstakings = {0,1}
    LoanPayments = {}
    LoanFunds = {0,1}
    RentSettings = {}
    FeeAmounts = {1}
    ExecMax = {1}
INVARIANTS VoteStakeIsInVote
