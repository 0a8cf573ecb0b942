\* Three jobs, two machines, with a CPU peer that shares its pool.
SPECIFICATION MixedSpec
CONSTANTS
    Size = 3
    nbMachines = 2
    Instances <- MCThreeJobs
    Strategies = {"d"}
    best = 99999
    costv = 9999999
    pool_size = 8
    MAX_SIZE_INPUTQUEUE_TO_GPU = 2
    cpu_operation = 0
INVARIANTS
    GpuNothingLost
CHECK_DEADLOCK FALSE
