------------------------------ MODULE CodecCalls ------------------------------
(***************************************************************************)
(* encode() and decode() at the two ends of a line.  A sender encodes a    *)
(* frame; the bytes may be damaged once on the way, or laid out otherwise  *)
(* by a peer that is not this program; the receiver decodes what arrives.  *)
(* fuzz/codec_fuzzer.cpp and tests/test_properties.cpp drive the codec in  *)
(* the same way with random vectors.  The codec keeps no state, so a line  *)
(* carries one frame.                                                      *)
(***************************************************************************)
EXTENDS WireCodec

CONSTANTS
    Sent,        \* the frames the sender may give to encode()
    Masks,       \* the bits of one byte that may be inverted
    EdgeLength   \* damage strikes the first and the last EdgeLength bytes

ASSUME CodecConstants ==
    /\ Sent \subseteq ByteFrame
    /\ Masks \subseteq Octet \ {0}
    /\ EdgeLength \in Nat

VARIABLES
    line,     \* "idle", "sent", "decoded"
    frame,    \* the frame encode() was given
    bytes,    \* the vector on the line
    damage,   \* what happened to it on the way (history)
    decoded   \* the DecodeResult; the frame is <<>> if there is none

lineVars == <<line, frame, bytes, damage, decoded>>

NoFrame == <<>>

LineInit ==
    /\ line = "idle"
    /\ frame = NoFrame
    /\ bytes = <<>>
    /\ damage = "none"
    /\ decoded = [error |-> "none", frame |-> NoFrame]

Encode == \E f \in Sent :
    /\ line = "idle"
    /\ EncodeError(f) = "none"
    /\ line' = "sent"
    /\ frame' = f
    /\ bytes' = LayOut(f)
    /\ UNCHANGED <<damage, decoded>>

Decode ==
    /\ line = "sent"
    /\ line' = "decoded"
    /\ LET error == DecodeErrorOf(bytes)
       IN decoded' = [error |-> error,
                      frame |-> IF error = "none" THEN FrameOf(bytes) ELSE NoFrame]
    /\ UNCHANGED <<frame, bytes, damage>>

-----------------------------------------------------------------------------
Struck == {i \in DOMAIN bytes : i <= EdgeLength \/ i > Len(bytes) - EdgeLength}

Inverted(vector, i, mask) ==
    [vector EXCEPT ![i] = ByteAt(SymDiff(OnesOf(@), OnesOf(mask)), 0)]

Damage(vector, kind) ==
    /\ line = "sent" /\ damage = "none"
    /\ bytes' = vector
    /\ damage' = kind
    /\ UNCHANGED <<line, frame, decoded>>

FlipByte == \E i \in Struck, mask \in Masks :
    Damage(Inverted(bytes, i, mask), "inverted")

\* The lowest or the highest bit of one byte and any bit of a later one, in a
\* vector of at most 2 * EdgeLength bytes, to keep the number of pairs small.
FlipTwoBits == \E i, j \in Struck, one \in {1, 128},
                  other \in {1, 2, 4, 8, 16, 32, 64, 128} :
    /\ i < j /\ Len(bytes) <= 2 * EdgeLength
    /\ Damage(Inverted(Inverted(bytes, i, one), j, other), "two_bits")

SwapBytes == \E i \in Struck \ {1} :
    /\ bytes[i - 1] # bytes[i]
    /\ Damage([bytes EXCEPT ![i - 1] = bytes[i], ![i] = bytes[i - 1]], "swapped")

Truncate == \E i \in Struck : Damage(SubSeq(bytes, 1, i - 1), "truncated")

Extend == \E byte \in {0, 255} : Damage(Append(bytes, byte), "extended")

Join == Damage(bytes \o bytes, "joined")

\* One byte of the header differs from what encode() writes, and the checksum
\* is right: an invalid version, opcode, flag, reserved byte, length or status.
PeerRewrites == \E i \in 1 .. header_size, mask \in Masks :
    line = "sent" /\
    Damage(Sealed(Inverted(SubSeq(bytes, 1, Len(bytes) - checksum_size), i, mask)),
           "rewritten")

LineNext ==
    \/ Encode
    \/ FlipByte
    \/ FlipTwoBits
    \/ SwapBytes
    \/ Truncate
    \/ Extend
    \/ Join
    \/ PeerRewrites
    \/ Decode

LineSpec == LineInit /\ [][LineNext]_lineVars

-----------------------------------------------------------------------------
\* What encode() sends, decode() accepts, and finds in it the frame that was
\* sent: every offset, width and byte order agrees in the two functions.
DecodedAsSent ==
    line = "decoded" /\ damage = "none" => decoded = [error |-> "none", frame |-> frame]

\* A change of the bytes on the way (any bits of one byte inverted, two adjacent
\* bytes exchanged, a vector cut short, with a byte appended or sent twice) is
\* never decoded as a frame: the size check and the CRC leave no gap between
\* what each of them covers.
DamageIsDetected ==
    line = "decoded" /\ damage \in {"inverted", "swapped", "truncated", "extended", "joined"}
        => decoded.error # "none"

\* Nor are two bits inverted in different bytes of a vector of at most
\* 2 * EdgeLength bytes, the first of them the lowest or the highest bit of its
\* byte: the register crc32() shifts keeps them apart.
TwoBitsAreDetected ==
    line = "decoded" /\ damage = "two_bits" => decoded.error # "none"

\* The assertion of the fuzzer, in its strongest form: whatever arrives, if
\* decode() accepts it then encode() turns the decoded frame into exactly the
\* bytes that arrived, so no two vectors stand for the same frame.
AcceptedBytesAreCanonical ==
    decoded.frame # NoFrame =>
        EncodeError(decoded.frame) = "none" /\ LayOut(decoded.frame) = bytes

\* The field level stands for the byte level: the field record of Frames is what
\* decode() finds in the bytes of encode(), and the two response faults of the
\* loopback (last byte dropped, lowest bit of the last byte inverted) get the
\* same error from decode() on fields as on bytes.
FieldsStandForBytes ==
    line = "sent" /\ damage = "none" =>
        LET fields == EncodedBytes(frame)
        IN /\ WireOf(bytes) = fields
           /\ DecodeErrorOf(Front(bytes)) = DecodeError(DropLastByte(fields))
           /\ DecodeErrorOf(Inverted(bytes, Len(bytes), 1)) =
                  DecodeError(FlipChecksumBit(fields))

Upper(char) == IF hex_nibble(char) > 9 THEN UpperDigits[hex_nibble(char) - 9] ELSE char

\* bytes_from_hex() reads the text of bytes_to_hex() back, in either case, and
\* refuses a text of more than a frame, of odd length or with any other
\* character: no input is consumed in part.
HexTextIsExact ==
    line = "sent" =>
        LET text == bytes_to_hex(bytes)
            shouted == [i \in DOMAIN text |-> Upper(text[i])]
        IN /\ IsHex(text) <=> Len(bytes) <= maximum_frame_size
           /\ IsHex(shouted) <=> IsHex(text)
           /\ bytes_from_hex(text) = bytes /\ bytes_from_hex(shouted) = bytes
           /\ bytes # <<>> => /\ ~IsHex(Tail(text))
                              /\ ~IsHex([text EXCEPT ![Len(text)] = "g"])
=============================================================================
