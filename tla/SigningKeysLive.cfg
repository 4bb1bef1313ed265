SPECIFICATION FairSpec
CONSTANTS
    b1 = b1
    b2 = b2
    r1 = r1
    r2 = r2
    Owner = {b1, b2}
    Rotation = {r1, r2}
    Nobody = Nobody
    Somebody = Somebody
    Unstaged = {r1}
    Late = {r1, r2}
    MaxKey = 3
    MaxFaults = 1
CHECK_DEADLOCK FALSE
INVARIANTS
    TypeOK
    
    OrphansAreKnown
PROPERTIES
    ImplementsRing
    IssuerSigns
