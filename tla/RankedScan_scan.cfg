SPECIFICATION Spec
CONSTANTS
    Queries = {1, 2}
    Extends <- Typed
    Ceiling = 600
    Bonus = 600
    MaxSearches = 2
    Setups <- AllSetups
INVARIANTS
    ResultIsTheRanking
    KeptForNarrowing
CHECK_DEADLOCK FALSE
