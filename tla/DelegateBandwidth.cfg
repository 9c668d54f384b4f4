SPECIFICATION Spec
CONSTANTS
    N = 2
    Amounts = {0, 1}
    InitOwn = 0
    RefundDelay = 1
    MaxTime = 3
    Limits = {3}
    B1 = 1
    B1Stake = 2
    B1Period = 4
INVARIANTS StakeBacked TablesAgree  B1Vests DeferredNotEarly
PROPERTY RefundsWait
