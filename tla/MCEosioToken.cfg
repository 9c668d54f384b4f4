SPECIFICATION Spec
CONSTANTS
    N = 3
    Existing <- MCExisting
    Self = 1
    Symbols = {CORE}
    Amounts <- MCAmounts
INVARIANTS SupplyIsSumOfBalances Solvent
PROPERTIES OwnersAuthorise IssuerControlsSupply
