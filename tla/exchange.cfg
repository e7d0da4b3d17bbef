SPECIFICATION Spec
CONSTANTS
    U64Max = 7
    Radix = 2
    Requests <- MCRequests
    Responses <- MCResponses
    Peers <- MCPeers
    Sizes = {1, 2}
    MaxBytes = 3
CHECK_DEADLOCK FALSE
INVARIANTS ReadAsWritten NoFalseError KeepAliveAgreed
PROPERTIES Concludes
