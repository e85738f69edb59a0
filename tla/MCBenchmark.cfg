SPECIFICATION Spec
CONSTANTS
    ByteBase = 256
    IdSpace = 1024
    AddressSpace = 1024
    maximum_payload_size = 256
    memory_capacity = 192
    read_only_last = 99
    read_write_last = 159
    identity <- MCIdentity
    version_address = 64
    Policies <- MCPolicies
    Diagnostic <- MCDiagnostic
    samples = 2
    operations_per_sample = 200
INVARIANT ChecksumCountsServedReads
\* The benchmark ends.
CHECK_DEADLOCK FALSE
