CONSTANTS
    Chunk = 3
    Lengths <- MCLengths
    HostSizes <- MCHostSizes
    Following <- MCFollowing
SPECIFICATION Spec
INVARIANTS TypeOK SuccessIsWhole NothingLost
PROPERTIES StopsInTime Returns
CHECK_DEADLOCK FALSE
