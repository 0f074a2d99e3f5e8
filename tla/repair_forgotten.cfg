SPECIFICATION Spec
CONSTANTS
    b1 = b1
    b2 = b2
    s1 = s1
    s2 = s2
    Beverages <- MCBeverages
    Signatures <- MCSignatures
    NoBeverage = nobeverage
    NoSignature = nosignature
    NoFrame = noframe
    NoTable = notable
    Traffic <- MCTraffic
    OldStores <- MCOldStores
INVARIANTS
    IssueUntilRelearned
