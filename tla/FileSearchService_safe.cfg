SPECIFICATION Spec
CONSTANTS
    t1 = t1
    NoText = NoText
    Texts <- OneText
    Extends <- OneExtends
    BuildGen = 2
    Completes = {FALSE}
    Bounds <- SafetyBounds
INVARIANTS
    RestingPanelIsFresh
    AppRowsMatchCatalogue
    DetailsMatchRows
    SignalsAreHeard
