SPECIFICATION Spec
CONSTANTS
    ByteBase = 2
    IdSpace = 3
    AddressSpace = 8
    maximum_payload_size = 2
    memory_capacity = 4
    read_only_last = 0
    read_write_last = 2
    identity <- MCIdentity
    version_address = 0
    Policies <- MCPolicies
    Diagnostic <- MCDiagnostic
    ReadAttempts <- MCReadAttempts
    Reads <- MCReads
    Writes <- MCWrites
    MaxOperations = 3
    MaxFaults = 2
    MaxTrace = 2
INVARIANTS
    TypeOK
    CallFollowsFaultScript
    MemoryMatchesResult
    MetricsExplainCall
    RetriesRepeatTheRequest
CHECK_DEADLOCK FALSE
