------------------------------ MODULE WireCodec ------------------------------
(***************************************************************************)
(* The bytes of a frame: the layout, the checksum and the hexadecimal      *)
(* text of src/codec.cpp, over real bytes (ByteBase = 256).                *)
(*                                                                         *)
(* A std::uint32_t is a pair of 16-bit halves, high half first: TLC's own  *)
(* integers end at 2^31 - 1.  A frame has, beside the fields of Frames,    *)
(* the number on the wire of its status (code), of which status is the     *)
(* name.  A character is a string.                                         *)
(***************************************************************************)
EXTENDS Frames, SequencesExt

ASSUME ByteHasEightBits == ByteBase = 256

magic == <<\h49, \h4D>>
maximum_frame_size == header_size + maximum_payload_size + checksum_size

OpcodeValue == [read_request |-> 1, write_request |-> 2, data_response |-> \h81,
                write_acknowledgement |-> \h82, error_response |-> \hFF]

StatusValue == [ok |-> 0, bad_request |-> 1, out_of_range |-> 2,
                write_disabled |-> 3, access_denied |-> 4, internal_error |-> 5]

\* The enumerator with this value.
Named(values, v) ==
    IF \E name \in DOMAIN values : values[name] = v
    THEN CHOOSE name \in DOMAIN values : values[name] = v
    ELSE "unassigned"

-----------------------------------------------------------------------------
Octet == 0 .. 255
Half == {v \in Nat : v < 65536}

\* struct Frame, with the number of its status.
ByteFrame ==
    {f \in [version : Octet, opcode : OpcodeByte, flags : Octet,
            request_id : Half \X Half, address : Half \X Half,
            status : StatusWord, code : Half, payload : Seq(Octet)] :
        f.status = Named(StatusValue, f.code)}

append_u16(v) == <<v \div 256, v % 256>>
append_u32(v) == append_u16(v[1]) \o append_u16(v[2])

\* Mutant: the low byte comes first.
read_u16_LittleEndian(bytes, offset) == bytes[offset + 2] * 256 + bytes[offset + 1]

read_u16(bytes, offset) == bytes[offset + 1] * 256 + bytes[offset + 2]
read_u32(bytes, offset) == <<read_u16(bytes, offset), read_u16(bytes, offset + 2)>>

-----------------------------------------------------------------------------
(***************************************************************************)
(* The checksum.  A machine word is the set of the positions of its ones:  *)
(* exclusive or is the symmetric difference.                               *)
(***************************************************************************)
Word == SUBSET (0 .. 31)

\* 0xEDB88320
Polynomial == {5, 8, 9, 15, 19, 20, 21, 23, 24, 26, 27, 29, 30, 31}

Weight == <<1, 2, 4, 8, 16, 32, 64, 128>>

\* The ones of a byte, and the byte at position k of a word.
OnesOf(byte) == {k \in 0 .. 7 : (byte \div Weight[k + 1]) % 2 = 1}

ByteAt(word, k) ==
    LET One(j) == IF k + j \in word THEN Weight[j + 1] ELSE 0
    IN One(0) + One(1) + One(2) + One(3) + One(4) + One(5) + One(6) + One(7)

\* One turn of the inner loop of crc32(): shift right, and subtract the
\* polynomial if a one was shifted out.
CrcBit(crc) ==
    LET shifted == {k - 1 : k \in crc \ {0}}
    IN IF 0 \in crc THEN SymDiff(shifted, Polynomial) ELSE shifted

\* Mutant: the inner loop makes a turn too few.
CrcByte_SevenTurns(crc, byte) ==
    CrcBit(CrcBit(CrcBit(CrcBit(CrcBit(CrcBit(CrcBit(SymDiff(crc, OnesOf(byte)))))))))

\* One turn of the outer loop.
CrcByte(crc, byte) ==
    CrcBit(CrcBit(CrcBit(CrcBit(CrcBit(CrcBit(CrcBit(CrcBit(
        SymDiff(crc, OnesOf(byte))))))))))

\* The outer loop from byte i on: what it makes of the variable crc.
CrcFrom(bytes) ==
    LET Loop[i \in 1 .. Len(bytes) + 1] == [crc \in Word |->
            IF i > Len(bytes) THEN crc ELSE Loop[i + 1][CrcByte(crc, bytes[i])]]
    IN Loop

Halves(word) == <<ByteAt(word, 24) * 256 + ByteAt(word, 16),
                  ByteAt(word, 8) * 256 + ByteAt(word, 0)>>

\* Mutant: the final complement is forgotten.
crc32_NotInverted(bytes) == Halves(CrcFrom(bytes)[1][0 .. 31])

crc32(bytes) == Halves((0 .. 31) \ CrcFrom(bytes)[1][0 .. 31])

-----------------------------------------------------------------------------
Sealed(bytes) == bytes \o append_u32(crc32(bytes))

Header(frame) ==
    magic \o <<frame.version, OpcodeValue[frame.opcode], frame.flags, 0>>
    \o append_u32(frame.request_id) \o append_u32(frame.address)
    \o append_u16(Len(frame.payload)) \o append_u16(frame.code)

\* The bytes encode() returns when EncodeError(frame) is "none".
LayOut(frame) == Sealed(Header(frame) \o frame.payload)

\* The fields decode() finds.  Nothing is read from a vector shorter than a
\* header, and payload and checksum only from one of exactly the right size.
WireOf(bytes) ==
    LET payload_size == read_u16(bytes, 14)
        complete == Len(bytes) = header_size + payload_size + checksum_size
        covered == Len(bytes) - checksum_size
    IN IF Len(bytes) < header_size THEN [EmptyWire EXCEPT !.size = Len(bytes)]
       ELSE [size |-> Len(bytes), magic |-> SubSeq(bytes, 1, 2) = magic,
             version |-> bytes[3], opcode |-> Named(OpcodeValue, bytes[4]),
             flags |-> bytes[5], reserved |-> bytes[6],
             request_id |-> read_u32(bytes, 6), address |-> read_u32(bytes, 10),
             payload_size |-> payload_size,
             status |-> Named(StatusValue, read_u16(bytes, 16)),
             payload |-> IF complete THEN SubSeq(bytes, header_size + 1, covered)
                         ELSE <<>>,
             checksum |-> complete /\ read_u32(bytes, covered) =
                                          crc32(SubSeq(bytes, 1, covered))]

\* Mutant: bytes after the end of the frame are not looked at.
DecodeErrorOf_TrailingAccepted(bytes) ==
    LET size == header_size + read_u16(bytes, 14) + checksum_size
    IN DecodeError(WireOf(IF Len(bytes) > header_size /\ Len(bytes) > size
                          THEN SubSeq(bytes, 1, size) ELSE bytes))

\* Mutant: the reserved byte is not looked at.
DecodeErrorOf_ReservedIgnored(bytes) ==
    DecodeError([WireOf(bytes) EXCEPT !.reserved = 0])

\* decode(): its error, and its frame when that is "none".
DecodeErrorOf(bytes) == DecodeError(WireOf(bytes))

\* Mutant: the offsets of request ID and address are exchanged.
FrameOf_IdForAddress(bytes) ==
    LET frame == DecodedFrame(WireOf(bytes))
    IN [version |-> frame.version, opcode |-> frame.opcode, flags |-> frame.flags,
        request_id |-> frame.address, address |-> frame.request_id,
        status |-> frame.status, code |-> read_u16(bytes, 16), payload |-> frame.payload]

FrameOf(bytes) ==
    LET frame == DecodedFrame(WireOf(bytes))
    IN [version |-> frame.version, opcode |-> frame.opcode, flags |-> frame.flags,
        request_id |-> frame.request_id, address |-> frame.address,
        status |-> frame.status, code |-> read_u16(bytes, 16), payload |-> frame.payload]

-----------------------------------------------------------------------------
digits == <<"0", "1", "2", "3", "4", "5", "6", "7", "8", "9",
            "a", "b", "c", "d", "e", "f">>
UpperDigits == <<"A", "B", "C", "D", "E", "F">>

NotADigit == 16

\* hex_nibble(); NotADigit stands for std::nullopt.
hex_nibble(char) ==
    IF \E i \in DOMAIN digits : digits[i] = char
    THEN (CHOOSE i \in DOMAIN digits : digits[i] = char) - 1
    ELSE IF \E i \in DOMAIN UpperDigits : UpperDigits[i] = char
    THEN (CHOOSE i \in DOMAIN UpperDigits : UpperDigits[i] = char) + 9
    ELSE NotADigit

bytes_to_hex(bytes) ==
    [k \in 1 .. 2 * Len(bytes) |->
        LET byte == bytes[(k + 1) \div 2]
        IN digits[1 + IF k % 2 = 1 THEN byte \div 16 ELSE byte % 16]]

\* Mutant: a last odd digit is left out of account.
IsHex_OddAccepted(text) ==
    /\ Len(text) \div 2 <= maximum_frame_size
    /\ \A i \in DOMAIN text : hex_nibble(text[i]) # NotADigit

\* bytes_from_hex(): does it return bytes, and which.
IsHex(text) ==
    /\ Len(text) % 2 = 0
    /\ Len(text) \div 2 <= maximum_frame_size
    /\ \A i \in DOMAIN text : hex_nibble(text[i]) # NotADigit

bytes_from_hex(text) ==
    [i \in 1 .. Len(text) \div 2 |->
        hex_nibble(text[2 * i - 1]) * 16 + hex_nibble(text[2 * i])]
=============================================================================
