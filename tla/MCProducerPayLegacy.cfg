SPECIFICATION MCSpec
CONSTANTS
    Voters = {v1, v2, v3}
    Nobody = nobody
    ProducerCount = 2
    Stakes <- Changes
    MaxStake = 1
    InitStake = 1
    Legacy = {1}
    VoteFactor <- Doubling
    MinActivated = 1
    PayDays = 3
    MaxTime = 5
    MaxSchedule = 1
    ClaimDays = 1
    DailyIssue = 23
    MinVotePay = 2
    MaxUnpaid = 2
    ProxyTime = 2
    ProxyProducers = {1}
    SharesRegTime = 2
    BlocksRegTime = 3
    BlocksVoteTime = 1
SYMMETRY VoterSymmetry
CHECK_DEADLOCK FALSE
INVARIANT VotesCountedOnce
