\* Three nodes, two children under the root: requests and subproblems are conserved.
SPECIFICATION Spec
CONSTANTS
    N = 3
    Parent <- Star
    Task <- TinyTask
    RootTask = "r"
    Branch <- TinyBranch
    Bound <- TinyBound
    Opt <- TinyOpt
    Below <- TinyBelow
    Unsolved = 2
    BetterInit = {0}
PROPERTIES
    ImplementsPool
