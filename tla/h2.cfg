CONSTANTS
    BdpLimit = 8
    FirstWindow = 3
    Requests = {r1}
    Window = 2
    Size = 2
    MaxChunks = 1
    Plans <- MCPlans
SPECIFICATION FairSpec
CHECK_DEADLOCK FALSE
INVARIANTS EndIsWhole BodiesKeepConn
PROPERTIES ConnLossSettles KeepAliveSettles PipesGoOn
