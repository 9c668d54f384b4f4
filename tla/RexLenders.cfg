SPECIFICATION Spec
CONSTANTS
    N = 2
    B1 = 0
    Day = 1
    Buckets = 1
    EndOfDays = 99
    RexRatio = 2
    InitTotalRent = 2
    LoanTerm = 2
    RunMax = 2
    MaxLoans = 2
    MaxTime = 3
    LastRent = 1
    InitOwn = 0
    InitFund = 6
    InitStake = 0
    Lenders = {1,2}
    Renters = {2}
    Savers = {}
    Votes = {TRUE}
    RexChoices = {"all","half"}
    Deposits = {}
    Purchases = {6}
    Unstakings = {}
    LoanPayments = {1}
    LoanFunds = {0,1,2}
    RentSettings = {}
    FeeAmounts = {}
    ExecMax = {1}
PROPERTIES NoLoanOvertakesOrder StakeFollowsRex
