\* Three nodes: the vote ends the search while work is left.
SPECIFICATION Spec
CONSTANTS
    N = 3
    Parent <- Star
    Task <- TinyTask
    RootTask = "r"
    Branch <- TinyBranch
    Bound <- TinyBound
    Opt <- TinyOpt
    Below <- TinyBelow
    Unsolved = 2
    BetterInit = {0}
INVARIANTS
    TerminationSound
