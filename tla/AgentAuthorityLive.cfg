SPECIFICATION FairSpec
CONSTANTS
    p1 = p1
    p2 = p2
    NoPlane = NoPlane
    Plane = {p1, p2}
    MaxEvents = 1
    MaxQueue = 1
CHECK_DEADLOCK FALSE
INVARIANTS
    TypeOK
    TermsApart
    
PROPERTIES
    CommitsInOrder
    ClosedForEver
    SealsWithoutAgent
    ImplementsTerms
    AgentReturns
    DisposalEnds
