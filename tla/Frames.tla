------------------------------- MODULE Frames -------------------------------
(***************************************************************************)
(* The IMLP/1 frame: include/imlp/types.hpp and the rules of src/codec.cpp.*)
(*                                                                         *)
(* A byte vector is represented by the fields the decoder finds in it (a   *)
(* Wire): the size of the vector, what the fixed header holds, the payload *)
(* bytes, and whether the trailing CRC-32 equals the CRC-32 of what        *)
(* precedes it.  The validation rules, their order and their error codes   *)
(* are those of the code.                                                  *)
(***************************************************************************)
EXTENDS Integers, Sequences

CONSTANTS
    ByteBase,              \* number of values of a std::byte: 256
    IdSpace,               \* number of values of a request ID: 2^32
    AddressSpace,          \* number of values of an address: 2^32
    maximum_payload_size   \* 256

ASSUME FrameConstants ==
    /\ ByteBase \in Nat /\ ByteBase > 1
    /\ IdSpace \in Nat /\ IdSpace > 1
    /\ AddressSpace \in Nat /\ AddressSpace > 1
    /\ maximum_payload_size \in Nat /\ maximum_payload_size > 1
    \* A payload length is a std::uint16_t on the wire: two bytes.
    /\ maximum_payload_size < ByteBase * ByteBase

Byte == 0 .. ByteBase - 1
RequestId == 0 .. IdSpace - 1
Address == 0 .. AddressSpace - 1

protocol_version == 1
response_flag == 1
header_size == 18
checksum_size == 4

RequestOpcode == {"read_request", "write_request"}
ResponseOpcode == {"data_response", "write_acknowledgement", "error_response"}
Opcode == RequestOpcode \cup ResponseOpcode

\* "unassigned" stands for the opcode bytes that no enumerator names; "unassigned"
\* as a status stands for the nonzero 16-bit values that no enumerator names.
OpcodeByte == Opcode \cup {"unassigned"}

Status == {"ok", "bad_request", "out_of_range", "write_disabled",
           "access_denied", "internal_error"}
StatusWord == Status \cup {"unassigned"}

CodecError == {"none", "truncated", "bad_magic", "unsupported_version",
               "unsupported_opcode", "unsupported_flags", "nonzero_reserved",
               "payload_too_large", "length_mismatch", "checksum_mismatch",
               "invalid_semantics"}

Frame == [version : Nat, opcode : OpcodeByte, flags : Nat,
          request_id : RequestId, address : Address,
          status : StatusWord, payload : Seq(Byte)]

-----------------------------------------------------------------------------
(***************************************************************************)
(* Byte vectors.  payload_size is the length field of the header; payload  *)
(* is what stands between header and checksum, so in a vector of exactly   *)
(* the size the header announces it has exactly payload_size bytes.        *)
(***************************************************************************)
WireFields == [size : Nat, magic : BOOLEAN, version : Nat,
               opcode : OpcodeByte, flags : Nat, reserved : Nat,
               request_id : RequestId, address : Address,
               payload_size : Nat, status : StatusWord,
               payload : Seq(Byte), checksum : BOOLEAN]

ExpectedSize(w) == header_size + w.payload_size + checksum_size

Wire == {w \in WireFields :
            w.size = ExpectedSize(w) => Len(w.payload) = w.payload_size}

\* The empty vector: every decoder stops at its size.
EmptyWire == [size |-> 0, magic |-> FALSE, version |-> 0,
              opcode |-> "unassigned", flags |-> 0, reserved |-> 0,
              request_id |-> 0, address |-> 0, payload_size |-> 0,
              status |-> "ok", payload |-> <<>>, checksum |-> FALSE]

\* response.pop_back(): one byte is missing at the end.
DropLastByte(w) == [w EXCEPT !.size = @ - 1]

\* response.back() ^= 0x01: the last byte belongs to the checksum.
FlipChecksumBit(w) == [w EXCEPT !.checksum = ~@]

-----------------------------------------------------------------------------
is_supported_opcode(opcode) == opcode \in Opcode

IsResponse(flags) == flags % 2 = response_flag
HasUnknownFlags(flags) == flags \div 2 # 0

has_valid_semantics(frame) ==
    /\ IsResponse(frame.flags) <=> frame.opcode \in ResponseOpcode
    /\ ~HasUnknownFlags(frame.flags)
    /\ CASE frame.opcode = "read_request" ->
                frame.status = "ok" /\ Len(frame.payload) = 2
         [] frame.opcode = "write_request" ->
                frame.status = "ok" /\ frame.payload # <<>>
         [] frame.opcode = "data_response" -> frame.status = "ok"
         [] frame.opcode = "write_acknowledgement" ->
                frame.status = "ok" /\ frame.payload = <<>>
         [] frame.opcode = "error_response" -> frame.status # "ok"
         [] OTHER -> FALSE

\* Mutant: a payload of the maximum size is refused.
EncodeError_OffByOne(frame) ==
    IF frame.version # protocol_version THEN "unsupported_version"
    ELSE IF ~is_supported_opcode(frame.opcode) THEN "unsupported_opcode"
    ELSE IF Len(frame.payload) >= maximum_payload_size THEN "payload_too_large"
    ELSE IF ~has_valid_semantics(frame) THEN "invalid_semantics"
    ELSE "none"

\* encode(): the error it returns, and the bytes it returns when there is none.
EncodeError(frame) ==
    IF frame.version # protocol_version THEN "unsupported_version"
    ELSE IF ~is_supported_opcode(frame.opcode) THEN "unsupported_opcode"
    ELSE IF Len(frame.payload) > maximum_payload_size THEN "payload_too_large"
    ELSE IF ~has_valid_semantics(frame) THEN "invalid_semantics"
    ELSE "none"

EncodedBytes(frame) ==
    [size |-> header_size + Len(frame.payload) + checksum_size,
     magic |-> TRUE, version |-> frame.version, opcode |-> frame.opcode,
     flags |-> frame.flags, reserved |-> 0, request_id |-> frame.request_id,
     address |-> frame.address, payload_size |-> Len(frame.payload),
     status |-> frame.status, payload |-> frame.payload, checksum |-> TRUE]

\* decode(): the frame it builds from the fields, and the error it returns.
DecodedFrame(w) ==
    [version |-> protocol_version, opcode |-> w.opcode, flags |-> w.flags,
     request_id |-> w.request_id, address |-> w.address,
     status |-> w.status, payload |-> w.payload]

DecodeError(w) ==
    IF w.size < header_size THEN "truncated"
    ELSE IF ~w.magic THEN "bad_magic"
    ELSE IF w.version # protocol_version THEN "unsupported_version"
    ELSE IF ~is_supported_opcode(w.opcode) THEN "unsupported_opcode"
    ELSE IF HasUnknownFlags(w.flags) THEN "unsupported_flags"
    ELSE IF w.reserved # 0 THEN "nonzero_reserved"
    ELSE IF w.payload_size > maximum_payload_size THEN "payload_too_large"
    ELSE IF w.size < ExpectedSize(w) THEN "truncated"
    ELSE IF w.size # ExpectedSize(w) THEN "length_mismatch"
    ELSE IF ~w.checksum THEN "checksum_mismatch"
    ELSE IF ~has_valid_semantics(DecodedFrame(w)) THEN "invalid_semantics"
    ELSE "none"

Decodes(w) == DecodeError(w) = "none"

-----------------------------------------------------------------------------
\* The two-byte big-endian length a read request carries, and its reading.
LengthPayload(length) ==
    <<(length \div ByteBase) % ByteBase, length % ByteBase>>

LengthField(payload) == payload[1] * ByteBase + payload[2]
=============================================================================
