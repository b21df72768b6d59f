CONSTANTS
    Listing <- MCListing
    CpuNum = 12
    Id = {0, 1, 2, 99}
    Governor = {userspace, performance, fake}
    Available = {userspace, performance}
    Userspace = userspace
    THOUSAND = 2
    Limit = {2, 5}
    Freq = {3, 4}
    MaxTargets = 2
    None = None
SPECIFICATION Spec
INVARIANTS
    TypeOK
    UniformUnlessMixed
    SuccessIsForAllPolicies
    ReadsHoldForAll
    SuccessSetsFrequencies
    FrequenciesAreTrue
