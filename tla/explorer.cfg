\* Four jobs, three machines, five instances, both orders of exploration.
SPECIFICATION Spec
CONSTANTS
    Size = 4
    nbMachines = 3
    Instances <- MCInstances
    Strategies = {"d", "b"}
    best = 99999
    costv = 9999999
INVARIANTS
    TypeOK
    NothingLost
    NoScheduleTwice
    LeavesAccounted
    BoundAdmissible
    JohnsonOptimal
    RanksDiffer
    TreeStaysSmall
CHECK_DEADLOCK FALSE
