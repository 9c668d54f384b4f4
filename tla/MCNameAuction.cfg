SPECIFICATION FairSpec
CONSTANTS
    NameCount = 2
    BidderCount = 2
    Bids <- BidsOnNames
    InitOwn = 24
    Day = 1
    Wait = 1
INVARIANTS NamesBacked BiddersMadeWhole RefundUnderWay
PROPERTIES WinnerKeepsName AuctionsClose
