SPECIFICATION Spec
CONSTANTS
    ByteBase = 2
    IdSpace = 4
    AddressSpace = 4
    maximum_payload_size = 2
    memory_capacity = 3
    read_only_last = 0
    read_write_last = 2
    identity <- MCIdentity
    version_address = 0
    Policies <- MCPolicies
    Diagnostic <- MCDiagnostic
    ReadAttempts <- MCReadAttempts
    Reads <- MCReads
    Writes <- MCWrites
    MaxOperations = 3
INVARIANTS
    TypeOK
    SuccessfulReadsAreFresh
    WritesApplyAtMostOnce
    IdsStandForOneRequest
    AnswersAreTrue
    WriteReportsAreTrue
PROPERTY
    TakesServiceSteps
CHECK_DEADLOCK FALSE
