\* Four jobs, three machines, a ring of two slots whose pools hold two families.
SPECIFICATION GpuSpec
CONSTANTS
    Size = 4
    nbMachines = 3
    Instances <- MCInstances
    Strategies = {"d"}
    best = 99999
    costv = 9999999
    pool_size = 14
    MAX_SIZE_INPUTQUEUE_TO_GPU = 2
    cpu_operation = 0
INVARIANTS
    GpuTypeOK
    BoundsBelong
    GpuNothingLost
    GpuLeavesAccounted
    DeviceBoundAgrees
CHECK_DEADLOCK FALSE
