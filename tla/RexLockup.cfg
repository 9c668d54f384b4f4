SPECIFICATION Spec
CONSTANTS
    Day = 2
    Buckets = 3
    EndOfDays = 99
    MaxTime = 10
    Amounts = {1, 2}
    MaxRex = 5
PROPERTY ImplementsVesting
