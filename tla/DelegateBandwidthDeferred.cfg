SPECIFICATION Spec
CONSTANTS
    N = 2
    Amounts = {0, 1}
    InitOwn = 2
    RefundDelay = 2
    MaxTime = 3
    Limits = {}
    B1 = 0
    B1Stake = 0
    B1Period = 1
INVARIANT RefundScheduled
