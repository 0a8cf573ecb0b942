\* Four peers join in any order; the manager's sleeps suffice or are too short.
SPECIFICATION FairSpec
CONSTANTS
    p1 = p1
    p2 = p2
    p3 = p3
    p4 = p4
    Peer <- Four
    nchilds = 2
INVARIANTS
    CompleteTree
    ViewsAgree
    RegisteredOnce
    StartsComplete
PROPERTIES
    EveryPeerStarts
