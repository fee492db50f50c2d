SPECIFICATION FairSpec
CONSTANTS
    t1 = t1
    NoText = NoText
    Texts <- OneText
    Extends <- OneExtends
    BuildGen = 2
    Completes = {FALSE}
    Bounds <- LiveBounds
PROPERTIES
    StopReturns
    RequestsAreServed
