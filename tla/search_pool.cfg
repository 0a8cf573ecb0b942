\* The abstract search on a flowshop instance.
SPECIFICATION Spec
CONSTANTS
    Task <- MCTask
    RootTask <- MCRoot
    Branch <- MCBranch
    Bound <- MCBound
    Opt <- MCOpt
    Unsolved = 99
INVARIANTS
    OptimumInReach
    Exact
CHECK_DEADLOCK FALSE
