\* Two nodes, the two-way search tree: safety and refinement.
SPECIFICATION FairSpec
CONSTANTS
    N = 2
    Parent <- Pair
    Task <- WideTask
    RootTask = "r"
    Branch <- WideBranch
    Bound <- WideBound
    Opt <- WideOpt
    Below <- WideBelow
    Unsolved = 5
    BetterInit = {0, 1}
INVARIANTS
    TypeOK
    TerminationSound
    OneHolder
    FinishedIsExact
PROPERTIES
    ImplementsFairPool
