\* The real sizes; request IDs and addresses are pairs of 16-bit halves and do
\* not use IdSpace and AddressSpace.
CONSTANTS
    ByteBase = 256
    IdSpace = 65536
    AddressSpace = 65536
    maximum_payload_size = 256
    Sent <- MCSent
    Masks = {1, 2, 4, 8, 16, 32, 64, 128, 255}
    EdgeLength = 12
SPECIFICATION LineSpec
\* A line that has carried its frame is at rest.
CHECK_DEADLOCK FALSE
INVARIANT DecodedAsSent
INVARIANT DamageIsDetected
INVARIANT TwoBitsAreDetected
INVARIANT AcceptedBytesAreCanonical
INVARIANT HexTextIsExact
INVARIANT LayoutIsTheDocumentedOne
INVARIANT FieldsStandForBytes
