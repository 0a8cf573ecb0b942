\* Three nodes in a line: votes pass through an inner node, the search ends.
SPECIFICATION FairSpec
CONSTANTS
    N = 3
    Parent <- Chain
    Task <- TwigTask
    RootTask = "r"
    Branch <- TwigBranch
    Bound <- TwigBound
    Opt <- TwigOpt
    Below <- TwigBelow
    Unsolved = 2
    BetterInit = {0}
INVARIANTS
    RequestAccounting
    ThiefHasNoWork
    VoteAccounting
    PositiveVotesAreDeep
PROPERTIES
    EveryNodeFinishes
