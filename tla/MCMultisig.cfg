SPECIFICATION MCSpec
CONSTANTS
    Actors = {1, 2}
    Proposers = {1, 2}
    Trxs <- TwoTrxs
    Required <- Needs
    Expiration <- Expires
    Requests <- UpToTwice
    MaxTime = 3
INVARIANTS ApprovalsComplete ApprovalsMatch
PROPERTY ActsOnConsent
