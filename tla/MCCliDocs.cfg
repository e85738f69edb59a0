\* The claim of docs/cli.md about exit code 2.
\* The sizes of the source.  AddressSpace stands for 2^32: see Number.
SPECIFICATION Spec
CONSTANTS
    ByteBase = 256
    IdSpace = 65536
    AddressSpace = 1048576
    maximum_payload_size = 256
    memory_capacity = 4096
    read_only_last = 255
    read_write_last = 2047
    identity <- MCIdentity
    version_address = 64
    Policies <- MCPolicies
    Diagnostic <- MCDiagnostic
    ReadAttempts <- MCReadAttempts
    CommandLines <- MCCommandLines
    NumberMeaning <- MCNumbers
    PayloadMeaning <- MCPayloads
INVARIANT MissingOptInExitsTwo
