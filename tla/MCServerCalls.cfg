SPECIFICATION Spec
CONSTANTS
    ByteBase = 2
    IdSpace = 3
    AddressSpace = 8
    maximum_payload_size = 2
    memory_capacity = 6
    read_only_last = 1
    read_write_last = 3
    identity <- MCIdentity
    version_address = 1
    Policies <- MCPolicies
    Diagnostic <- MCDiagnostic
    Wires <- MCWires
INVARIANTS
    TypeOK
    ProtectedBytesKeepTheirValue
    AnsweredExactlyWhenDecodable
    AcceptedFramesAreStable
    StatusMatchesIntervalArithmetic
    EffectMatchesAnswer
