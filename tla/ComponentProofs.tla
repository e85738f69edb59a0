-------------------------- MODULE ComponentProofs --------------------------
(***************************************************************************)
(* What one operation of the server, of the loopback transport or of the   *)
(* client returns and preserves, whatever the component is composed into:  *)
(* the lemmas that the proofs about every composition rest on.             *)
(***************************************************************************)
EXTENDS Client, LoopbackTransport, TLAPS

(***************************************************************************)
(* One call of handle(), for every size of memory, payload and address     *)
(* space, every policy and every request.                                  *)
(***************************************************************************)
\* The array the constructor fills has the type of the memory.
LEMMA InitialMemoryType == InitialMemory \in Memory
<1> SUFFICES ASSUME NEW a \in Location
             PROVE  (IF a = version_address THEN protocol_version
                     ELSE IF a < Len(identity) THEN identity[a + 1]
                     ELSE 0) \in Byte
    BY DEF InitialMemory, Memory
<1>1. CASE a = version_address
    BY <1>1, FrameConstants DEF protocol_version, Byte
<1>2. CASE a # version_address /\ a < Len(identity)
    <2>1. a + 1 \in 1 .. Len(identity)
        BY <1>2, MemoryConstants DEF Location
    <2> QED BY <1>2, <2>1, MemoryConstants
<1>3. CASE a # version_address /\ ~(a < Len(identity))
    BY <1>3, FrameConstants DEF Byte
<1> QED BY <1>1, <1>2, <1>3

\* Copying bytes into the array leaves an array of bytes.
LEMMA WrittenType ==
    ASSUME NEW m \in Memory, NEW address \in Address, NEW data \in Seq(Byte)
    PROVE  Written(m, address, data) \in Memory
<1> SUFFICES ASSUME NEW a \in Location
             PROVE  (IF a >= address /\ a < address + Len(data)
                     THEN data[a - address + 1] ELSE m[a]) \in Byte
    BY DEF Written, Memory
<1>1. CASE a >= address /\ a < address + Len(data)
    <2>1. a - address + 1 \in 1 .. Len(data)
        BY <1>1, MemoryConstants, FrameConstants DEF Location, Address
    <2> QED BY <1>1, <2>1
<1>2. CASE ~(a >= address /\ a < address + Len(data))
    BY <1>2 DEF Memory
<1> QED BY <1>1, <1>2

\* A successful read copies out as many bytes as were asked for.
LEMMA ReadBytesType ==
    ASSUME NEW m \in Memory, NEW address \in Address, NEW length \in Nat,
           ReadStatus(address, length) = "ok"
    PROVE  /\ ReadBytes(m, address, length) \in Seq(Byte)
           /\ Len(ReadBytes(m, address, length)) = length
           /\ length <= maximum_payload_size
           /\ \A i \in 1 .. length :
                 /\ address + i - 1 \in Location
                 /\ address + i - 1 <= read_write_last
                 /\ ReadBytes(m, address, length)[i] = m[address + i - 1]
<1>1. RangeAccepted(address, length)
    BY DEF ReadStatus
<1>2. \A offset \in 0 .. length - 1 : access_for(address + offset) # "denied"
    BY <1>1 DEF ReadStatus
<1>3. ASSUME NEW i \in 1 .. length
      PROVE  address + i - 1 \in Location /\ address + i - 1 <= read_write_last
    <2>1. address + i - 1 \in Location
        BY <1>1, MemoryConstants, FrameConstants
        DEF RangeAccepted, range_fits, Location, Address
    <2>2. i - 1 \in 0 .. length - 1
        OBVIOUS
    <2>3. access_for(address + (i - 1)) # "denied"
        BY <1>2, <2>2
    <2>4. address + (i - 1) = address + i - 1
        BY DEF Address
    <2> QED BY <2>1, <2>3, <2>4, MemoryConstants DEF access_for, Address
<1>4. \A i \in 1 .. length : m[address + i - 1] \in Byte
    BY <1>3 DEF Memory
<1>5. ReadBytes(m, address, length) \in [1 .. length -> Byte]
    BY <1>4 DEF ReadBytes
<1>6. /\ ReadBytes(m, address, length) \in Seq(Byte)
      /\ Len(ReadBytes(m, address, length)) = length
    BY <1>5
<1> QED BY <1>1, <1>3, <1>6 DEF RangeAccepted, ReadBytes

\* A diagnostic text always fits a frame.
LEMMA TextPayloadType ==
    ASSUME NEW name \in DiagnosticName
    PROVE  /\ text_payload(name) \in Seq(Byte)
           /\ Len(text_payload(name)) <= maximum_payload_size
<1>1. Diagnostic[name] \in Seq(Byte)
    BY ServerConstants
<1>2. CASE Len(Diagnostic[name]) <= maximum_payload_size
    BY <1>1, <1>2 DEF text_payload
<1>3. CASE ~(Len(Diagnostic[name]) <= maximum_payload_size)
    BY <1>1, <1>3, FrameConstants DEF text_payload
<1> QED BY <1>2, <1>3

-----------------------------------------------------------------------------
\* The payload of a read request is its length, as a natural number.
LEMMA LengthFieldType ==
    ASSUME NEW payload \in Seq(Byte), Len(payload) = 2
    PROVE  LengthField(payload) \in Nat
<1>1. payload[1] \in Byte /\ payload[2] \in Byte
    OBVIOUS
<1>2. payload[1] \in Nat /\ payload[2] \in Nat
    BY <1>1, FrameConstants DEF Byte
<1> QED BY <1>2, FrameConstants DEF LengthField

\* A request that decodes holds a frame whose payload has a legal length.
LEMMA DecodedRequest ==
    ASSUME NEW w \in Wire, Decodes(w)
    PROVE  /\ DecodedFrame(w) \in Frame
           /\ has_valid_semantics(DecodedFrame(w))
           /\ w.opcode \in Opcode
           /\ Len(w.payload) = w.payload_size
           /\ Len(w.payload) <= maximum_payload_size
<1>1. /\ w.size = ExpectedSize(w) /\ w.payload_size <= maximum_payload_size
      /\ is_supported_opcode(w.opcode) /\ has_valid_semantics(DecodedFrame(w))
    <2>1. w.payload_size \in Nat
        BY DEF Wire, WireFields
    <2>2. /\ ~(w.payload_size > maximum_payload_size) /\ w.size = ExpectedSize(w)
          /\ is_supported_opcode(w.opcode) /\ has_valid_semantics(DecodedFrame(w))
        BY Zenon DEF Decodes, DecodeError
    <2> QED BY <2>1, <2>2, FrameConstants
<1>2. w \in WireFields /\ Len(w.payload) = w.payload_size
    BY <1>1 DEF Wire
<1>3. DecodedFrame(w) \in Frame
    BY <1>2 DEF DecodedFrame, Frame, WireFields, protocol_version
<1> QED BY <1>1, <1>2, <1>3 DEF is_supported_opcode

\* encode() makes a byte vector that decode() accepts, with the same fields.
LEMMA EncodedBytesType ==
    ASSUME NEW frame \in Frame
    PROVE  /\ EncodedBytes(frame) \in Wire
           /\ EncodeError(frame) = "none" =>
                 /\ Decodes(EncodedBytes(frame))
                 /\ DecodedFrame(EncodedBytes(frame)) = frame
<1> DEFINE w == EncodedBytes(frame)
<1>1. Len(frame.payload) \in Nat
    BY DEF Frame
<1>2. w \in WireFields /\ w.size = ExpectedSize(w) /\ Len(w.payload) = w.payload_size
    BY <1>1 DEF EncodedBytes, WireFields, Frame, ExpectedSize, header_size, checksum_size
<1>3. w \in Wire
    BY <1>2 DEF Wire
<1>4. ASSUME EncodeError(frame) = "none"
      PROVE  Decodes(w) /\ DecodedFrame(w) = frame
    <2>1. /\ frame.version = protocol_version /\ is_supported_opcode(frame.opcode)
          /\ ~(Len(frame.payload) > maximum_payload_size)
          /\ has_valid_semantics(frame)
        BY <1>4 DEF EncodeError
    <2>2. DecodedFrame(w) = frame
        BY <2>1 DEF DecodedFrame, EncodedBytes, Frame
    <2>3. ~HasUnknownFlags(frame.flags)
        BY <2>1 DEF has_valid_semantics
    <2>4. /\ ~(w.size < header_size) /\ w.magic /\ w.version = protocol_version
          /\ is_supported_opcode(w.opcode) /\ ~HasUnknownFlags(w.flags)
          /\ w.reserved = 0 /\ ~(w.payload_size > maximum_payload_size)
          /\ w.checksum
        BY <1>1, <2>1, <2>3 DEF EncodedBytes, header_size, checksum_size
    <2>5. ~(w.size < ExpectedSize(w))
        BY <1>2 DEF WireFields
    <2>6. Decodes(w)
        BY <1>2, <2>1, <2>2, <2>4, <2>5 DEF Decodes, DecodeError
    <2> QED BY <2>2, <2>6
<1> QED BY <1>3, <1>4

\* A vector of the announced size stays a byte vector without its last byte.
LEMMA DropLastByteType ==
    ASSUME NEW w \in Wire, w.size = ExpectedSize(w)
    PROVE  DropLastByte(w) \in Wire
<1>1. w.size \in Nat /\ w.payload_size \in Nat /\ w \in WireFields
    BY DEF Wire, WireFields
<1>2. /\ w.size - 1 \in Nat /\ w.size - 1 # ExpectedSize(w)
    BY <1>1 DEF ExpectedSize, header_size, checksum_size
<1>3. /\ DropLastByte(w) \in WireFields /\ DropLastByte(w).size = w.size - 1
      /\ DropLastByte(w).payload_size = w.payload_size
    BY <1>1, <1>2 DEF DropLastByte, WireFields
<1> QED BY <1>2, <1>3 DEF Wire, ExpectedSize

\* So does any vector with its last bit flipped.
LEMMA FlipChecksumBitType ==
    ASSUME NEW w \in Wire
    PROVE  FlipChecksumBit(w) \in Wire
BY DEF FlipChecksumBit, Wire, WireFields, ExpectedSize

\* The decoder refuses a damaged vector, each kind of damage under its own name.
LEMMA DamageIsRefused ==
    ASSUME NEW w \in Wire, Decodes(w)
    PROVE  /\ DecodeError(DropLastByte(w)) = "truncated"
           /\ DecodeError(FlipChecksumBit(w)) = "checksum_mismatch"
<1>1. /\ w.magic /\ w.version = protocol_version /\ is_supported_opcode(w.opcode)
      /\ ~HasUnknownFlags(w.flags) /\ w.reserved = 0 /\ w.checksum
      /\ ~(w.payload_size > maximum_payload_size) /\ ~(w.size < header_size)
      /\ ~(w.size < ExpectedSize(w)) /\ w.size = ExpectedSize(w)
    BY Zenon DEF Decodes, DecodeError
<1>2. w.size \in Nat /\ w.payload_size \in Nat /\ w \in WireFields
    BY DEF Wire, WireFields
<1>3. DecodeError(DropLastByte(w)) = "truncated"
    <2> DEFINE d == DropLastByte(w)
    <2>1. /\ d.size = w.size - 1 /\ d.payload_size = w.payload_size
          /\ d.magic = w.magic /\ d.version = w.version /\ d.opcode = w.opcode
          /\ d.flags = w.flags /\ d.reserved = w.reserved
        BY <1>2 DEF DropLastByte, WireFields
    <2>2. d.size < ExpectedSize(d)
        BY <1>1, <1>2, <2>1 DEF ExpectedSize, header_size, checksum_size
    <2> HIDE DEF d
    <2> QED BY <1>1, <2>1, <2>2, Zenon DEF DecodeError, d
<1>4. DecodeError(FlipChecksumBit(w)) = "checksum_mismatch"
    <2> DEFINE d == FlipChecksumBit(w)
    <2>1. /\ d.size = w.size /\ d.payload_size = w.payload_size
          /\ d.magic = w.magic /\ d.version = w.version /\ d.opcode = w.opcode
          /\ d.flags = w.flags /\ d.reserved = w.reserved /\ ~d.checksum
        BY <1>1, <1>2 DEF FlipChecksumBit, WireFields
    <2>2. ExpectedSize(d) = ExpectedSize(w)
        BY <2>1 DEF ExpectedSize
    <2> HIDE DEF d
    <2> QED BY <1>1, <2>1, <2>2, Zenon DEF DecodeError, d
<1> QED BY <1>3, <1>4

\* The empty vector is a byte vector.
LEMMA EmptyWireType == EmptyWire \in Wire
BY FrameConstants DEF EmptyWire, Wire, WireFields, OpcodeByte, StatusWord, Status,
   RequestId, Address, ExpectedSize, header_size, checksum_size

-----------------------------------------------------------------------------
(***************************************************************************)
(* What handle() decides is always something encode() accepts: the branch  *)
(* "response_encoding_failed" of make_response() is never taken.           *)
(***************************************************************************)
GoodVerdict(v) ==
    /\ v.opcode \in ResponseOpcode
    /\ v.status \in Status
    /\ v.payload \in Seq(Byte)
    /\ Len(v.payload) <= maximum_payload_size
    /\ v.detail \in VerdictDetail
    /\ v.opcode = "error_response" <=> v.status # "ok"
    /\ v.opcode = "write_acknowledgement" => v.payload = <<>>

\* An error verdict with a diagnostic text is one that encode() accepts.
LEMMA ErrorVerdict ==
    ASSUME NEW status \in Status \ {"ok"}, NEW name \in DiagnosticName
    PROVE  GoodVerdict(Verdict("error_response", status, text_payload(name), name))
BY TextPayloadType, SMTT(20) DEF GoodVerdict, Verdict, ResponseOpcode, VerdictDetail

\* The verdict on a read.
LEMMA ReadVerdictGood ==
    ASSUME memory \in Memory, NEW request \in Frame, Len(request.payload) = 2
    PROVE  GoodVerdict(ReadVerdict(request))
<1> DEFINE length == LengthField(request.payload)
           status == ReadStatus(request.address, length)
<1>1. length \in Nat /\ request.address \in Address
    BY LengthFieldType DEF Frame
<1>2. CASE status = "ok"
    <2>1. /\ ReadBytes(memory, request.address, length) \in Seq(Byte)
          /\ Len(ReadBytes(memory, request.address, length)) <= maximum_payload_size
        BY <1>1, <1>2, ReadBytesType
    <2>2. ReadVerdict(request) =
            Verdict("data_response", "ok",
                    ReadBytes(memory, request.address, length), "read_ok")
        BY <1>2 DEF ReadVerdict
    <2> HIDE DEF length
    <2> QED BY <2>1, <2>2 DEF GoodVerdict, Verdict, ResponseOpcode, Status, VerdictDetail
<1>3. CASE status # "ok"
    <2>1. status \in Status \ {"ok"}
        BY <1>3 DEF ReadStatus, Status
    <2>2. ReadVerdict(request) =
            Verdict("error_response", status, text_payload("read_rejected"),
                    "read_rejected")
        BY <1>3 DEF ReadVerdict
    <2>3. "read_rejected" \in DiagnosticName
        BY DEF DiagnosticName
    <2> HIDE DEF status
    <2> QED BY <2>1, <2>2, <2>3, ErrorVerdict
<1> QED BY <1>2, <1>3

\* The verdict on a write.
LEMMA WriteVerdictGood ==
    ASSUME NEW request \in Frame
    PROVE  GoodVerdict(WriteVerdict(request))
<1> DEFINE status == WriteStatus(request.address, request.payload)
<1>1. status \in Status
    BY DEF WriteStatus, Status
<1>2. /\ "write_disabled" \in DiagnosticName
      /\ "outside_write_allowlist" \in DiagnosticName
      /\ "memory_write_rejected" \in DiagnosticName
      /\ "write_disabled" \in Status \ {"ok"}
      /\ "access_denied" \in Status \ {"ok"}
    BY DEF DiagnosticName, Status
<1>3. GoodVerdict(Verdict("write_acknowledgement", "ok", <<>>, "write_ok"))
    BY FrameConstants DEF GoodVerdict, Verdict, ResponseOpcode, Status, VerdictDetail
<1>4. \/ WriteVerdict(request) = Verdict("error_response", "write_disabled",
                text_payload("write_disabled"), "write_disabled")
      \/ WriteVerdict(request) = Verdict("error_response", "access_denied",
                text_payload("outside_write_allowlist"), "outside_write_allowlist")
      \/ /\ status # "ok"
         /\ WriteVerdict(request) = Verdict("error_response", status,
                text_payload("memory_write_rejected"), "memory_write_rejected")
      \/ WriteVerdict(request) =
                Verdict("write_acknowledgement", "ok", <<>>, "write_ok")
    BY DEF WriteVerdict
<1> HIDE DEF status
<1> QED BY <1>1, <1>2, <1>3, <1>4, ErrorVerdict

\* The verdict on any frame that decodes.
LEMMA RequestVerdictGood ==
    ASSUME memory \in Memory, NEW request \in Frame, has_valid_semantics(request)
    PROVE  GoodVerdict(RequestVerdict(request))
<1>1. CASE request.opcode = "read_request"
    <2>1. Len(request.payload) = 2
        BY <1>1 DEF has_valid_semantics
    <2> QED BY <1>1, <2>1, ReadVerdictGood DEF RequestVerdict
<1>2. CASE request.opcode = "write_request"
    BY <1>2, WriteVerdictGood DEF RequestVerdict
<1>3. CASE request.opcode \notin {"read_request", "write_request"}
    <2>1. /\ "request_opcode_required" \in DiagnosticName
          /\ "bad_request" \in Status \ {"ok"}
        BY DEF DiagnosticName, Status
    <2>2. RequestVerdict(request) = Verdict("error_response", "bad_request",
                text_payload("request_opcode_required"), "request_opcode_required")
        BY <1>3 DEF RequestVerdict
    <2> QED BY <2>1, <2>2, ErrorVerdict
<1> QED BY <1>1, <1>2, <1>3

\* A frame built from a good verdict is one encode() accepts.
LEMMA ResponseEncodes ==
    ASSUME NEW request \in Frame, NEW v, GoodVerdict(v)
    PROVE  /\ ResponseFrame(request, v) \in Frame
           /\ EncodeError(ResponseFrame(request, v)) = "none"
<1> DEFINE f == ResponseFrame(request, v)
<1>1. f \in Frame
    BY DEF ResponseFrame, GoodVerdict, Frame, OpcodeByte, Opcode, StatusWord,
           response_flag, protocol_version
<1>2. IsResponse(f.flags) /\ ~HasUnknownFlags(f.flags)
    BY DEF ResponseFrame, IsResponse, HasUnknownFlags, response_flag
<1>3. has_valid_semantics(f)
    BY <1>2 DEF has_valid_semantics, ResponseFrame, GoodVerdict, ResponseOpcode
<1>4. Len(f.payload) \in Nat /\ Len(f.payload) <= maximum_payload_size
    BY DEF ResponseFrame, GoodVerdict
<1>5. f.version = protocol_version /\ is_supported_opcode(f.opcode)
    BY DEF ResponseFrame, GoodVerdict, is_supported_opcode, Opcode
<1> HIDE DEF f
<1> QED BY <1>1, <1>3, <1>4, <1>5, FrameConstants DEF EncodeError, f

-----------------------------------------------------------------------------
\* handle() answers a request that decodes with the frame of its verdict, and
\* the answer decodes to that frame.
LEMMA HandledDecodable ==
    ASSUME memory \in Memory, NEW w \in Wire, Decodes(w)
    PROVE  LET v == RequestVerdict(DecodedFrame(w))
               f == ResponseFrame(DecodedFrame(w), v)
           IN /\ GoodVerdict(v)
              /\ Handled(w) = HandleResult(EncodedBytes(f), TRUE, w.request_id,
                                           v.status, v.detail)
              /\ EncodedBytes(f) \in Wire
              /\ Decodes(EncodedBytes(f))
              /\ DecodedFrame(EncodedBytes(f)) = f
<1> DEFINE r == DecodedFrame(w)
           v == RequestVerdict(r)
           f == ResponseFrame(r, v)
<1>1. r \in Frame /\ has_valid_semantics(r)
    BY DecodedRequest
<1>2. GoodVerdict(v)
    BY <1>1, RequestVerdictGood
<1>3. f \in Frame /\ EncodeError(f) = "none"
    BY <1>1, <1>2, ResponseEncodes
<1>4. r.request_id = w.request_id
    BY DEF DecodedFrame
<1>5. Handled(w) = HandleResult(EncodedBytes(f), TRUE, w.request_id, v.status, v.detail)
    BY <1>3, <1>4 DEF Handled, make_response
<1>6. /\ EncodedBytes(f) \in Wire /\ Decodes(EncodedBytes(f))
      /\ DecodedFrame(EncodedBytes(f)) = f
    BY <1>3, EncodedBytesType
<1> QED BY <1>2, <1>5, <1>6

\* The answer to a request that decodes has its ID and address; what it says is
\* the verdict.
LEMMA AnswerFields ==
    ASSUME memory \in Memory, NEW w \in Wire, Decodes(w)
    PROVE  LET answer == Handled(w).response
               v == RequestVerdict(DecodedFrame(w))
           IN /\ answer \in Wire /\ Decodes(answer)
              /\ answer.request_id = w.request_id /\ answer.address = w.address
              /\ answer.opcode = v.opcode /\ answer.payload = v.payload
              /\ answer.status = v.status
<1> DEFINE r == DecodedFrame(w)
           v == RequestVerdict(r)
           f == ResponseFrame(r, v)
<1>1. /\ Handled(w).response = EncodedBytes(f)
      /\ EncodedBytes(f) \in Wire /\ Decodes(EncodedBytes(f))
    BY HandledDecodable DEF HandleResult
<1>2. /\ f.request_id = w.request_id /\ f.address = w.address
      /\ f.opcode = v.opcode /\ f.payload = v.payload /\ f.status = v.status
    BY DEF ResponseFrame, DecodedFrame
<1> HIDE DEF v, f
<1>3. /\ EncodedBytes(f).request_id = f.request_id /\ EncodedBytes(f).address = f.address
      /\ EncodedBytes(f).opcode = f.opcode /\ EncodedBytes(f).payload = f.payload
      /\ EncodedBytes(f).status = f.status
    BY DEF EncodedBytes
<1> QED BY <1>1, <1>2, <1>3 DEF v

\* A data response carries the bytes that are in memory.
LEMMA ReadAnswer ==
    ASSUME memory \in Memory, NEW w \in Wire, Decodes(w), w.opcode = "read_request",
           Handled(w).response.opcode = "data_response"
    PROVE  Handled(w).response.payload =
               ReadBytes(memory, w.address, LengthField(w.payload))
<1> DEFINE v == RequestVerdict(DecodedFrame(w))
<1>1. v.opcode = "data_response" /\ Handled(w).response.payload = v.payload
    BY AnswerFields
<1>2. v = ReadVerdict(DecodedFrame(w))
    BY DEF RequestVerdict, DecodedFrame
<1>3. /\ DecodedFrame(w).payload = w.payload /\ DecodedFrame(w).address = w.address
    BY DEF DecodedFrame
<1>4. v.payload = ReadBytes(memory, w.address, LengthField(w.payload))
    BY <1>1, <1>2, <1>3 DEF ReadVerdict, Verdict
<1> QED BY <1>1, <1>4

\* A write is acknowledged exactly if it is applied; otherwise it is refused.
LEMMA WriteAnswer ==
    ASSUME memory \in Memory, NEW w \in Wire, Decodes(w), w.opcode = "write_request"
    PROVE  Handled(w).response.opcode =
               IF Applies(w) THEN "write_acknowledgement" ELSE "error_response"
<1> DEFINE v == RequestVerdict(DecodedFrame(w))
<1>1. Handled(w).response.opcode = v.opcode
    BY AnswerFields
<1>2. v = WriteVerdict(DecodedFrame(w))
    BY DEF RequestVerdict, DecodedFrame
<1>3. v.opcode = IF v.detail = "write_ok" THEN "write_acknowledgement"
                 ELSE "error_response"
    BY <1>2 DEF WriteVerdict, Verdict
<1> QED BY <1>1, <1>2, <1>3 DEF Applies

\* A read is answered with data of the length asked for or with an error, and an
\* acknowledgement carries nothing.
LEMMA AnswerLength ==
    ASSUME memory \in Memory, NEW w \in Wire, Decodes(w)
    PROVE  LET answer == Handled(w).response
           IN /\ w.opcode = "read_request" =>
                    /\ answer.opcode \in {"data_response", "error_response"}
                    /\ answer.opcode = "data_response" =>
                          Len(answer.payload) = LengthField(w.payload)
              /\ answer.opcode = "write_acknowledgement" => Len(answer.payload) = 0
<1> DEFINE v == RequestVerdict(DecodedFrame(w))
           answer == Handled(w).response
<1>1. answer.opcode = v.opcode /\ answer.payload = v.payload /\ Decodes(answer)
      /\ answer \in Wire
    BY AnswerFields
<1>2. ASSUME w.opcode = "read_request"
      PROVE  /\ v.opcode \in {"data_response", "error_response"}
             /\ v.opcode = "data_response" => Len(v.payload) = LengthField(w.payload)
    <2> DEFINE length == LengthField(w.payload)
    <2>1. v = ReadVerdict(DecodedFrame(w))
        BY <1>2 DEF RequestVerdict, DecodedFrame
    <2>2. DecodedFrame(w).payload = w.payload /\ DecodedFrame(w).address = w.address
        BY DEF DecodedFrame
    <2>3. w.address \in Address /\ length \in Nat
        <3>1. has_valid_semantics(DecodedFrame(w)) /\ DecodedFrame(w).opcode = "read_request"
            BY <1>2, DecodedRequest DEF DecodedFrame
        <3>2. Len(w.payload) = 2 /\ w.payload \in Seq(Byte) /\ w.address \in Address
            BY <2>2, <3>1 DEF has_valid_semantics, Wire, WireFields
        <3> QED BY <3>2, LengthFieldType
    <2> HIDE DEF length
    <2>4. CASE ReadStatus(w.address, length) = "ok"
        <3>1. v.opcode = "data_response" /\ v.payload = ReadBytes(memory, w.address, length)
            BY <2>1, <2>2, <2>4 DEF ReadVerdict, Verdict, length
        <3>2. Len(ReadBytes(memory, w.address, length)) = length
            BY <2>3, <2>4, ReadBytesType
        <3> QED BY <3>1, <3>2 DEF length
    <2>5. CASE ReadStatus(w.address, length) # "ok"
        <3>1. v.opcode = "error_response"
            BY <2>1, <2>2, <2>5 DEF ReadVerdict, Verdict, length
        <3> QED BY <3>1
    <2> QED BY <2>4, <2>5
<1>3. ASSUME answer.opcode = "write_acknowledgement"
      PROVE  Len(answer.payload) = 0
    <2>1. has_valid_semantics(DecodedFrame(answer))
        BY <1>1, DecodedRequest
    <2>2. /\ DecodedFrame(answer).opcode = "write_acknowledgement"
          /\ DecodedFrame(answer).payload = answer.payload
        BY <1>3 DEF DecodedFrame
    <2>3. answer.payload = <<>>
        BY <2>1, <2>2 DEF has_valid_semantics
    <2> QED BY <2>3
<1> QED BY <1>1, <1>2, <1>3

\* What handle() returns has its type.
LEMMA HandledType ==
    ASSUME memory \in Memory, NEW w \in Wire
    PROVE  Handled(w) \in HandleResults
<1>1. CASE Decodes(w)
    <2> DEFINE v == RequestVerdict(DecodedFrame(w))
               bytes == EncodedBytes(ResponseFrame(DecodedFrame(w), v))
    <2>1. /\ GoodVerdict(v) /\ bytes \in Wire
          /\ Handled(w) = HandleResult(bytes, TRUE, w.request_id, v.status, v.detail)
        BY <1>1, HandledDecodable
    <2>2. w.request_id \in RequestId
        BY DEF Wire, WireFields
    <2>3. v.status \in Status /\ v.detail \in Detail
        BY <2>1 DEF GoodVerdict, Detail
    <2> HIDE DEF v, bytes
    <2> QED BY <2>1, <2>2, <2>3 DEF HandleResult, HandleResults
<1>2. CASE ~Decodes(w)
    <2>1. DecodeError(w) \in Detail
        BY DEF DecodeError, Detail, CodecError
    <2>2. 0 \in RequestId /\ "bad_request" \in Status
        BY FrameConstants DEF RequestId, Status
    <2> QED BY <1>2, <2>1, <2>2, EmptyWireType DEF Handled, HandleResult, HandleResults
<1> QED BY <1>1, <1>2

-----------------------------------------------------------------------------
\* An accepted write lies inside both the allowlist and the read/write region.
LEMMA AppliedWriteIsWritable ==
    ASSUME policy \in ServerPolicy, NEW w \in Wire, Applies(w), NEW a \in Location,
           a >= w.address, a < w.address + Len(w.payload)
    PROVE  a \in Writable
<1> DEFINE n == Len(w.payload)
<1>1. /\ policy.writes_enabled
      /\ write_is_allowed(w.address, n)
      /\ WriteStatus(w.address, w.payload) = "ok"
    BY DEF Applies, WriteVerdict, Verdict, DecodedFrame
<1>2. /\ w.address \in Nat /\ n \in Nat /\ a \in Nat
      /\ policy.write_allow_begin \in Nat /\ policy.write_allow_end \in Nat
    BY MemoryConstants, FrameConstants
    DEF Wire, WireFields, ServerPolicy, Address, Location
<1>3. policy.write_allow_begin <= a /\ a <= policy.write_allow_end
    BY <1>1, <1>2 DEF write_is_allowed
<1>4. access_for(a) = "read_write"
    <2>1. \A offset \in 0 .. n - 1 : access_for(w.address + offset) = "read_write"
        BY <1>1 DEF WriteStatus
    <2>2. a - w.address \in 0 .. n - 1 /\ w.address + (a - w.address) = a
        BY <1>2
    <2> QED BY <2>1, <2>2
<1>5. read_only_last < a /\ a <= read_write_last
    BY <1>2, <1>4, MemoryConstants DEF access_for
<1> QED BY <1>1, <1>3, <1>5 DEF Writable

\* All of it.
LEMMA AppliedInterval ==
    ASSUME policy \in ServerPolicy, NEW w \in Wire, Applies(w)
    PROVE  w.address .. w.address + Len(w.payload) - 1 \subseteq Writable
<1>1. RangeAccepted(w.address, Len(w.payload))
    BY DEF Applies, WriteVerdict, Verdict, DecodedFrame, WriteStatus
<1>2. w.address \in Nat /\ Len(w.payload) \in Nat
    BY FrameConstants DEF Wire, WireFields, Address
<1> SUFFICES ASSUME NEW a \in w.address .. w.address + Len(w.payload) - 1
             PROVE  a \in Writable
    OBVIOUS
<1>3. a \in Location /\ a >= w.address /\ a < w.address + Len(w.payload)
    BY <1>1, <1>2, MemoryConstants DEF RangeAccepted, range_fits, Location
<1> QED BY <1>3, AppliedWriteIsWritable

\* And a write to writable locations only is applied: the server has no other
\* reason to refuse one.
LEMMA WritableIsApplied ==
    ASSUME policy \in ServerPolicy, NEW w \in Wire, Decodes(w),
           w.opcode = "write_request",
           w.address .. w.address + Len(w.payload) - 1 \subseteq Writable
    PROVE  Applies(w)
<1> DEFINE n == Len(w.payload)
<1>1. /\ w.address \in Nat /\ n \in Nat
      /\ policy.write_allow_begin \in Nat /\ policy.write_allow_end \in Nat
    BY FrameConstants DEF Wire, WireFields, ServerPolicy, Address
<1>2. n # 0 /\ n <= maximum_payload_size
    <2>1. has_valid_semantics(DecodedFrame(w)) /\ n = w.payload_size
        BY DecodedRequest
    <2>2. DecodedFrame(w).opcode = "write_request" /\ DecodedFrame(w).payload = w.payload
        BY DEF DecodedFrame
    <2>3. w.payload # <<>> /\ w.payload \in Seq(Byte)
        BY <2>1, <2>2 DEF has_valid_semantics, Wire, WireFields
    <2>4. ~(w.payload_size > maximum_payload_size)
        BY Zenon DEF Decodes, DecodeError
    <2> QED BY <1>1, <2>1, <2>3, <2>4, FrameConstants
<1>3. \A offset \in 0 .. n - 1 : w.address + offset \in Writable
    BY <1>1
<1>4. w.address \in Writable /\ w.address + (n - 1) \in Writable
    <2>1. 0 \in 0 .. n - 1 /\ n - 1 \in 0 .. n - 1 /\ w.address + 0 = w.address
        BY <1>1, <1>2
    <2> QED BY <1>3, <2>1
<1> HIDE DEF n
<1>5. policy.writes_enabled /\ write_is_allowed(w.address, n)
    BY <1>1, <1>2, <1>4 DEF Writable, write_is_allowed
<1>6. RangeAccepted(w.address, n)
    BY <1>1, <1>2, <1>4, MemoryConstants DEF Writable, Location, RangeAccepted, range_fits
<1>7. \A offset \in 0 .. n - 1 : access_for(w.address + offset) = "read_write"
    <2> SUFFICES ASSUME NEW a \in Writable PROVE access_for(a) = "read_write"
        BY <1>3
    <2> QED BY MemoryConstants DEF Writable, Location, access_for
<1>8. WriteStatus(w.address, w.payload) = "ok"
    BY <1>6, <1>7 DEF WriteStatus, n
<1> QED BY <1>5, <1>8 DEF Applies, WriteVerdict, Verdict, DecodedFrame, n

\* One call of handle() keeps the memory an array of bytes and leaves every
\* protected byte alone.
LEMMA HandlePreservesProtected ==
    ASSUME policy \in ServerPolicy, memory \in Memory, NEW w \in Wire,
           ProtectedBytesKeepTheirValue, Handle(w)
    PROVE  memory' \in Memory /\ ProtectedBytesKeepTheirValue'
<1>1. CASE Applies(w)
    <2>1. memory' = Written(memory, w.address, w.payload) /\ policy' = policy
        BY <1>1 DEF Handle, MemoryAfter
    <2>2. w.address \in Address /\ w.payload \in Seq(Byte)
        BY DEF Wire, WireFields
    <2>3. memory' \in Memory
        BY <2>1, <2>2, WrittenType
    <2>4. ASSUME NEW a \in Location \ Writable
          PROVE  memory'[a] = InitialMemory[a]
        <3>1. ~(a >= w.address /\ a < w.address + Len(w.payload))
            BY <1>1, AppliedWriteIsWritable
        <3>2. memory'[a] = memory[a]
            BY <2>1, <3>1 DEF Written
        <3> QED BY <3>2 DEF ProtectedBytesKeepTheirValue
    <2>5. Writable' = Writable
        BY <2>1 DEF Writable
    <2> QED BY <2>3, <2>4, <2>5 DEF ProtectedBytesKeepTheirValue
<1>2. CASE ~Applies(w)
    BY <1>2 DEF Handle, MemoryAfter, ProtectedBytesKeepTheirValue, Writable
<1> QED BY <1>1, <1>2

-----------------------------------------------------------------------------
(***************************************************************************)
(* The loopback transport.                                                 *)
(***************************************************************************)
\* The server answers nothing at all, or a vector of the size it announces.
LEMMA AnswerSize ==
    ASSUME memory \in Memory, NEW w \in Wire
    PROVE  LET answer == Handled(w).response
           IN /\ answer \in Wire
              /\ answer.size # 0 => answer.size = ExpectedSize(answer)
<1>1. CASE Decodes(w)
    <2> DEFINE f == ResponseFrame(DecodedFrame(w), RequestVerdict(DecodedFrame(w)))
    <2>1. Handled(w).response = EncodedBytes(f) /\ EncodedBytes(f) \in Wire
        BY <1>1, HandledDecodable DEF HandleResult
    <2>2. EncodedBytes(f).size = ExpectedSize(EncodedBytes(f))
        BY DEF EncodedBytes, ExpectedSize
    <2> HIDE DEF f
    <2> QED BY <2>1, <2>2
<1>2. CASE ~Decodes(w)
    <2>1. Handled(w).response = EmptyWire
        BY <1>2 DEF Handled, HandleResult
    <2> QED BY <2>1, EmptyWireType DEF EmptyWire
<1> QED BY <1>1, <1>2

\* The detail of the event of a request that decodes.
LEMMA DetailOfDecodable ==
    ASSUME memory \in Memory, NEW w \in Wire, Handled(w).event.request_decoded
    PROVE  Handled(w).event.detail \in Outcome
<1>1. Decodes(w)
    BY DEF Handled, HandleResult
<1> DEFINE v == RequestVerdict(DecodedFrame(w))
<1>2. v.detail \in VerdictDetail /\ Handled(w).event.detail = v.detail
    BY <1>1, HandledDecodable DEF HandleResult, GoodVerdict
<1> QED BY <1>2 DEF Outcome

\* A response fault makes a byte vector of a byte vector.
LEMMA DistortedType ==
    ASSUME NEW fault, NEW w \in Wire, w.size # 0 => w.size = ExpectedSize(w)
    PROVE  Distorted(fault, w) \in Wire
<1>1. ASSUME w.size # 0
      PROVE  DropLastByte(w) \in Wire
    BY <1>1, DropLastByteType
<1>2. FlipChecksumBit(w) \in Wire
    BY FlipChecksumBitType
<1>3. WithWrongRequestId(w) \in Wire
    <2> DEFINE f == [DecodedFrame(w) EXCEPT !.request_id = (@ + 1) % IdSpace]
    <2>1. CASE Decodes(w)
        <3>1. DecodedFrame(w) \in Frame
            BY <2>1, DecodedRequest
        <3>2. DecodedFrame(w).request_id + 1 \in Nat
            BY <3>1, FrameConstants DEF Frame, RequestId
        <3>3. (DecodedFrame(w).request_id + 1) % IdSpace \in RequestId
            BY <3>2, FrameConstants DEF RequestId
        <3>4. f \in Frame
            BY <3>1, <3>3 DEF Frame
        <3>5. EncodedBytes(f) \in Wire
            BY <3>4, EncodedBytesType
        <3> QED BY <3>5 DEF WithWrongRequestId
    <2>2. CASE ~Decodes(w)
        BY <2>2 DEF WithWrongRequestId
    <2> QED BY <2>1, <2>2
<1> QED BY <1>1, <1>2, <1>3 DEF Distorted

\* ++request_id gives another ID, also where it wraps, and an answer that
\* encode() accepts again.
LEMMA WrongRequestIdDecodes ==
    ASSUME NEW w \in Wire, Decodes(w)
    PROVE  /\ Decodes(WithWrongRequestId(w))
           /\ WithWrongRequestId(w).request_id # w.request_id
<1> DEFINE id == (w.request_id + 1) % IdSpace
           f == [DecodedFrame(w) EXCEPT !.request_id = (@ + 1) % IdSpace]
<1>1. DecodedFrame(w) \in Frame /\ has_valid_semantics(DecodedFrame(w))
      /\ w.opcode \in Opcode /\ Len(w.payload) = w.payload_size
    BY DecodedRequest
<1>2. w.request_id \in RequestId /\ DecodedFrame(w).request_id = w.request_id
    BY DEF Wire, WireFields, DecodedFrame
<1>3. id \in RequestId /\ id # w.request_id
    BY <1>2, FrameConstants DEF RequestId
<1>4. /\ f \in Frame /\ f.request_id = id /\ f.version = protocol_version
      /\ f.opcode = w.opcode /\ f.flags = w.flags /\ f.status = w.status
      /\ f.payload = w.payload
    BY <1>1, <1>2, <1>3 DEF Frame, DecodedFrame
<1>5. has_valid_semantics(f)
    BY <1>1, <1>4 DEF has_valid_semantics, DecodedFrame
<1>6. ~(Len(w.payload) > maximum_payload_size)
    <2>1. ~(w.payload_size > maximum_payload_size)
        BY Zenon DEF Decodes, DecodeError
    <2> QED BY <1>1, <2>1
<1> HIDE DEF f, id
<1>7. EncodeError(f) = "none"
    BY <1>1, <1>4, <1>5, <1>6 DEF EncodeError, is_supported_opcode
<1>8. WithWrongRequestId(w) = EncodedBytes(f)
    BY <1>7 DEF WithWrongRequestId, f
<1>9. Decodes(EncodedBytes(f)) /\ EncodedBytes(f).request_id = id
    BY <1>4, <1>7, EncodedBytesType DEF EncodedBytes
<1> QED BY <1>3, <1>8, <1>9

\* What each response fault makes of an honest answer.
LEMMA DistortedAnswer ==
    ASSUME NEW w \in Wire, Decodes(w)
    PROVE  /\ DecodeError(Distorted("truncate_response", w)) = "truncated"
           /\ DecodeError(Distorted("corrupt_response", w)) = "checksum_mismatch"
           /\ Decodes(Distorted("wrong_request_id", w))
           /\ Distorted("wrong_request_id", w).request_id # w.request_id
           /\ \A fault : fault \notin {"truncate_response", "corrupt_response",
                                      "wrong_request_id"} => Distorted(fault, w) = w
<1>1. w.size # 0
    <2>1. w.size \in Nat /\ ~(w.size < header_size)
        BY Zenon DEF Decodes, DecodeError, Wire, WireFields
    <2> QED BY <2>1 DEF header_size
<1> QED BY <1>1, DamageIsRefused, WrongRequestIdDecodes DEF Distorted

\* The two records of an exchange keep the trace a sequence of records.
LEMMA RecordExchangeType ==
    ASSUME trace \in Seq(TraceRecord), next_sequence \in Nat,
           NEW request \in Wire, NEW response \in Wire, NEW outcome \in Outcome,
           RecordExchange(request, outcome, response)
    PROVE  trace' \in Seq(TraceRecord) /\ next_sequence' \in Nat
<1> DEFINE r1 == [sequence |-> next_sequence, direction |-> "client_to_server",
                  outcome |-> "sent", bytes |-> request]
           r2 == [sequence |-> next_sequence + 1, direction |-> "server_to_client",
                  outcome |-> outcome, bytes |-> response]
<1>1. r1 \in TraceRecord /\ r2 \in TraceRecord
    BY DEF TraceRecord, Outcome
<1>2. trace' = trace \o <<r1, r2>> /\ next_sequence' = next_sequence + 2
    BY DEF RecordExchange
<1> HIDE DEF r1, r2
<1>3. <<r1, r2>> \in Seq(TraceRecord)
    BY <1>1
<1> QED BY <1>2, <1>3

\* What is left of the script is a script.
LEMMA RemainingFaultsType ==
    ASSUME faults \in Seq(TransportFault)
    PROVE  RemainingFaults \in Seq(TransportFault)
BY DEF RemainingFaults

\* Every way in which exchange() returns keeps the transport, the server and
\* the protection of its memory as they should be.
LEMMA ExchangeType ==
    ASSUME LoopbackTypeOK, ProtectedBytesKeepTheirValue,
           NEW request \in Wire, NEW deadline \in Int, Exchange(request, deadline)
    PROVE  LoopbackTypeOK' /\ ProtectedBytesKeepTheirValue'
<1> USE DEF LoopbackTypeOK, TransportTypeOK
<1>1. CASE ExchangeNotConnected(request, deadline)
    <2>1. reply' \in TransportReplies
        BY <1>1, EmptyWireType
        DEF ExchangeNotConnected, TransportReply, TransportReplies, TransportError
    <2> QED BY <1>1, <2>1 DEF ExchangeNotConnected, ProtectedBytesKeepTheirValue, Writable
<1>2. ASSUME NEW outcome \in {"deadline_expired", "timeout", "disconnected"},
             RecordExchange(request, outcome, EmptyWire),
             NEW error \in TransportError,
             reply' = TransportReply(error, EmptyWire),
             connected' \in BOOLEAN, faults' \in Seq(TransportFault),
             UNCHANGED <<policy, memory>>
      PROVE  LoopbackTypeOK' /\ ProtectedBytesKeepTheirValue'
    <2>1. outcome \in Outcome
        BY DEF Outcome
    <2>2. trace' \in Seq(TraceRecord) /\ next_sequence' \in Nat
        BY <1>2, <2>1, EmptyWireType, RecordExchangeType
    <2>3. reply' \in TransportReplies
        BY <1>2, EmptyWireType DEF TransportReply, TransportReplies
    <2> QED BY <1>2, <2>2, <2>3 DEF ProtectedBytesKeepTheirValue, Writable
<1>3. CASE ExchangeDeadlineExpired(request, deadline)
    BY <1>2, <1>3 DEF ExchangeDeadlineExpired, TransportError
<1>4. CASE ExchangeTimesOut(request, deadline)
    BY <1>2, <1>4, RemainingFaultsType DEF ExchangeTimesOut, TransportError
<1>5. CASE ExchangeDisconnects(request, deadline)
    BY <1>2, <1>5, RemainingFaultsType DEF ExchangeDisconnects, TransportError
<1>6. CASE ExchangeIsServed(request, deadline)
    <2> DEFINE handled == Handled(request)
               response == Distorted(NextFault, handled.response)
               outcome == IF handled.event.request_decoded THEN handled.event.detail
                          ELSE "rejected"
    <2>1. response \in Wire
        BY AnswerSize, DistortedType
    <2>2. outcome \in Outcome
        BY DetailOfDecodable DEF Outcome
    <2>3. /\ RecordExchange(request, outcome, response)
          /\ reply' = TransportReply("none", response)
          /\ Handle(request) /\ faults' = RemainingFaults /\ connected' = connected
        BY <1>6 DEF ExchangeIsServed
    <2> HIDE DEF response, outcome
    <2>4. trace' \in Seq(TraceRecord) /\ next_sequence' \in Nat
        BY <2>1, <2>2, <2>3, RecordExchangeType
    <2>5. reply' \in TransportReplies
        BY <2>1, <2>3 DEF TransportReply, TransportReplies, TransportError
    <2>6. memory' \in Memory /\ ProtectedBytesKeepTheirValue' /\ policy' \in ServerPolicy
        BY <2>3, HandlePreservesProtected DEF Handle
    <2>7. faults' \in Seq(TransportFault) /\ connected' \in BOOLEAN
        BY <2>3, RemainingFaultsType
    <2> QED BY <2>4, <2>5, <2>6, <2>7
<1> QED BY <1>1, <1>3, <1>4, <1>5, <1>6 DEF Exchange

-----------------------------------------------------------------------------
(***************************************************************************)
(* The steps of a client call, over any transport.                         *)
(***************************************************************************)
\* The remainder is a digit.
LEMMA RemainderIsDigit ==
    ASSUME NEW a \in Nat, NEW b \in Nat, b > 0
    PROVE  a % b \in 0 .. b - 1
OBVIOUS

\* The quotient is a natural number.
LEMMA QuotientIsNatural ==
    ASSUME NEW a \in Nat, NEW b \in Nat, b > 0
    PROVE  a \div b \in Nat
OBVIOUS

\* The two bytes of a length field are bytes.
LEMMA LengthPayloadType ==
    ASSUME NEW length \in Nat
    PROVE  LengthPayload(length) \in Seq(Byte) /\ Len(LengthPayload(length)) = 2
<1>1. length \div ByteBase \in Nat
    BY QuotientIsNatural, FrameConstants
<1>2. (length \div ByteBase) % ByteBase \in Byte /\ length % ByteBase \in Byte
    BY <1>1, RemainderIsDigit, FrameConstants DEF Byte
<1> QED BY <1>2 DEF LengthPayload

\* A length that fits two bytes is read back as it was written.
LEMMA LengthRoundTrip ==
    ASSUME NEW length \in Nat, length < ByteBase * ByteBase
    PROVE  LengthField(LengthPayload(length)) = length
<1> DEFINE high == length \div ByteBase
           low == length % ByteBase
<1>1. ByteBase \in Nat /\ ByteBase > 0
    BY FrameConstants
<1>2. high \in Nat /\ low \in Nat /\ length = ByteBase * high + low /\ high < ByteBase
    BY <1>1
<1>3. high % ByteBase = high
    BY <1>1, <1>2
<1>4. LengthField(LengthPayload(length)) = (high % ByteBase) * ByteBase + low
    BY DEF LengthField, LengthPayload
<1> HIDE DEF high, low
<1> QED BY <1>1, <1>2, <1>3, <1>4

\* allocate_request_id() never yields zero.
LEMMA IdAfterType ==
    ASSUME NEW id \in RequestId
    PROVE  IdAfter(id) \in RequestId \ {0}
<1>1. id + 1 \in Nat
    BY FrameConstants DEF RequestId
<1>2. (id + 1) % IdSpace \in 0 .. IdSpace - 1
    BY <1>1, RemainderIsDigit, FrameConstants
<1> QED BY <1>2, FrameConstants DEF IdAfter, RequestId

-----------------------------------------------------------------------------
\* A request frame of the client is a frame.
LEMMA RequestFrameType ==
    ASSUME NEW opcode \in RequestOpcode, NEW id \in RequestId, NEW address \in Address,
           NEW payload \in Seq(Byte)
    PROVE  RequestFrame(opcode, id, address, payload) \in Frame
BY DEF RequestFrame, Frame, OpcodeByte, Opcode, StatusWord, Status, protocol_version

\* encode() accepts the request of a read or write whose arguments are valid.
LEMMA RequestEncodes ==
    ASSUME NEW opcode \in RequestOpcode, NEW id \in RequestId, NEW address \in Address,
           NEW payload \in Seq(Byte), Len(payload) \in 1 .. maximum_payload_size,
           opcode = "read_request" => Len(payload) = 2
    PROVE  EncodeError(RequestFrame(opcode, id, address, payload)) = "none"
<1> DEFINE f == RequestFrame(opcode, id, address, payload)
<1>1. /\ f.version = protocol_version /\ f.opcode = opcode /\ f.flags = 0
      /\ f.status = "ok" /\ f.payload = payload
    BY DEF RequestFrame
<1>2. ~IsResponse(0) /\ ~HasUnknownFlags(0)
    BY DEF IsResponse, HasUnknownFlags, response_flag
<1>3. opcode \notin ResponseOpcode /\ opcode \in {"read_request", "write_request"}
    BY DEF RequestOpcode, ResponseOpcode
<1>4. payload # <<>>
    OBVIOUS
<1> HIDE DEF f
<1>5. has_valid_semantics(f)
    BY <1>1, <1>2, <1>3, <1>4 DEF has_valid_semantics
<1>6. is_supported_opcode(f.opcode) /\ ~(Len(f.payload) > maximum_payload_size)
    BY <1>1, FrameConstants DEF is_supported_opcode, Opcode
<1> QED BY <1>1, <1>5, <1>6 DEF EncodeError, f

\* A result without remote status and data is a result.
LEMMA FailureType ==
    ASSUME NEW error \in ClientError, NEW id \in RequestId, NEW attempts \in Nat
    PROVE  Failure(error, id, attempts) \in OperationResults
BY DEF Failure, OperationResults, StatusWord, Status

\* What read() and write() do after their arguments passed.
LEMMA SubmitType ==
    ASSUME ClientTypeOK, NEW request \in Frame, NEW length \in Nat, NEW deadline \in Int,
           Submit(request, length, deadline)
    PROVE  /\ call' \in Calls /\ result' \in OperationResults
           /\ pc' \in {"idle", "attempt", "exchange", "reply"}
<1>1. call' \in Calls
    BY DEF Submit, Calls
<1>2. request.request_id \in RequestId /\ "encoding_failed" \in ClientError
    BY DEF Frame, ClientError
<1>3. Failure("encoding_failed", request.request_id, 0) \in OperationResults
    BY <1>2, FailureType
<1> QED BY <1>1, <1>3 DEF Submit, Return, ClientTypeOK

\* Refusing the arguments of a call.
LEMMA RejectArgumentsType ==
    ASSUME ClientTypeOK, RejectArguments
    PROVE  /\ call' \in Calls /\ result' \in OperationResults
           /\ pc' \in {"idle", "attempt", "exchange", "reply"}
<1>1. "invalid_argument" \in ClientError /\ next_request_id \in RequestId
    BY DEF ClientError, ClientTypeOK
<1>2. Failure("invalid_argument", next_request_id, 0) \in OperationResults
    BY <1>1, FailureType
<1> QED BY <1>2 DEF RejectArguments, Return, ClientTypeOK

\* Counting an operation and allocating its request ID.
LEMMA BeginCallType ==
    ASSUME ClientTypeOK, BeginCall
    PROVE  metrics' \in ClientMetrics /\ next_request_id' \in RequestId \ {0}
<1>1. next_request_id' \in RequestId \ {0}
    BY IdAfterType DEF BeginCall, ClientTypeOK
<1>2. metrics' \in ClientMetrics
    BY DEF BeginCall, ClientTypeOK, ClientMetrics
<1> QED BY <1>1, <1>2

\* Client::read up to its first attempt.
LEMMA ReadType ==
    ASSUME ClientTypeOK, NEW address \in Address, NEW length \in Nat, NEW deadline \in Int,
           Read(address, length, deadline)
    PROVE  ClientTypeOK'
<1> DEFINE f == RequestFrame("read_request", next_request_id, address,
                             LengthPayload(length))
<1>1. f \in Frame
    BY RequestFrameType, LengthPayloadType DEF RequestOpcode, ClientTypeOK
<1>2. BeginCall /\ maximum_read_attempts' = maximum_read_attempts
    BY DEF Read
<1>3. RejectArguments \/ Submit(f, length, deadline)
    BY Zenon DEF Read
<1> HIDE DEF f
<1>4. /\ call' \in Calls /\ result' \in OperationResults
      /\ pc' \in {"idle", "attempt", "exchange", "reply"}
    BY <1>1, <1>3, SubmitType, RejectArgumentsType
<1> QED BY <1>2, <1>4, BeginCallType DEF ClientTypeOK

\* Client::write up to its attempt.
LEMMA WriteType ==
    ASSUME ClientTypeOK, NEW address \in Address, NEW data \in Seq(Byte),
           NEW deadline \in Int, Write(address, data, deadline)
    PROVE  ClientTypeOK'
<1> DEFINE f == RequestFrame("write_request", next_request_id, address, data)
<1>1. f \in Frame
    BY RequestFrameType DEF RequestOpcode, ClientTypeOK
<1>2. BeginCall /\ maximum_read_attempts' = maximum_read_attempts
    BY DEF Write
<1>3. RejectArguments \/ Submit(f, 0, deadline)
    BY Zenon DEF Write
<1> HIDE DEF f
<1>4. /\ call' \in Calls /\ result' \in OperationResults
      /\ pc' \in {"idle", "attempt", "exchange", "reply"}
    BY <1>1, <1>3, SubmitType, RejectArgumentsType
<1> QED BY <1>2, <1>4, BeginCallType DEF ClientTypeOK

\* ensure_connected() and what follows it.
LEMMA AttemptType ==
    ASSUME ClientTypeOK, TransportTypeOK, NEW connects \in BOOLEAN, Attempt(connects)
    PROVE  ClientTypeOK' /\ TransportTypeOK'
<1>1. call.request.request_id \in RequestId /\ call.attempt \in Nat
    BY DEF ClientTypeOK, Calls, Frame
<1>2. "disconnected" \in ClientError /\ "connect_failed" \in ClientError
    BY DEF ClientError
<1>3. /\ Failure("disconnected", call.request.request_id, maximum_read_attempts)
            \in OperationResults
      /\ Failure("connect_failed", call.request.request_id, call.attempt)
            \in OperationResults
    BY <1>1, <1>2, FailureType DEF ClientTypeOK
<1>4. \A m \in ClientMetrics :
        /\ [m EXCEPT !.transport_attempts = @ + 1] \in ClientMetrics
        /\ [m EXCEPT !.reconnects = @ + 1] \in ClientMetrics
    BY DEF ClientMetrics
<1>5. [metrics EXCEPT !.reconnects = @ + 1, !.transport_attempts = @ + 1]
        \in ClientMetrics
    <2> DEFINE m == [metrics EXCEPT !.reconnects = @ + 1]
    <2>1. m \in ClientMetrics
        BY <1>4 DEF ClientTypeOK
    <2>2. [metrics EXCEPT !.reconnects = @ + 1, !.transport_attempts = @ + 1]
            = [m EXCEPT !.transport_attempts = @ + 1]
        BY DEF ClientTypeOK, ClientMetrics
    <2> QED BY <1>4, <2>1, <2>2
<1> QED BY <1>3, <1>4, <1>5 DEF Attempt, Return, ClientTypeOK, TransportTypeOK

\* Validating any bytes gives a result.
LEMMA ValidatedType ==
    ASSUME ClientTypeOK, NEW w \in Wire
    PROVE  Validated(w) \in OperationResults
<1>1. call.request.request_id \in RequestId /\ call.attempt \in Nat
    BY DEF ClientTypeOK, Calls, Frame
<1>2. DecodedFrame(w).status \in StatusWord /\ DecodedFrame(w).payload \in Seq(Byte)
    BY DEF DecodedFrame, Wire, WireFields
<1>3. Failure("malformed_response", call.request.request_id, call.attempt)
        \in OperationResults
    BY <1>1, FailureType DEF ClientError
<1>4. <<>> \in Seq(Byte)
    OBVIOUS
<1>5. \A error \in ClientError, data \in Seq(Byte) :
        [error |-> error, remote_status |-> DecodedFrame(w).status,
         request_id |-> call.request.request_id,
         attempts |-> call.attempt, data |-> data] \in OperationResults
    BY <1>1, <1>2 DEF OperationResults
<1> QED BY <1>2, <1>3, <1>4, <1>5 DEF Validated, ClientError

\* What the result of validating an answer says about the answer: success and
\* a remote error are only reported for a correlated answer that decodes.
LEMMA ValidatedMeans ==
    ASSUME NEW w
    PROVE  LET r == Validated(w)
           IN /\ r.request_id = call.request.request_id
              /\ r.attempts = call.attempt
              /\ r.error \in {"none", "remote_error"} \cup ProtocolError
              /\ r.error \in {"none", "remote_error"} =>
                    /\ Decodes(w)
                    /\ w.request_id = call.request.request_id
                    /\ w.address = call.request.address
                    /\ r.data = w.payload
              /\ r.error = "none" =>
                    w.opcode = ExpectedOpcode /\ Len(w.payload) = call.expected_length
              /\ r.error = "remote_error" => w.opcode = "error_response"
<1>1. /\ DecodedFrame(w).request_id = w.request_id /\ DecodedFrame(w).address = w.address
      /\ DecodedFrame(w).opcode = w.opcode /\ DecodedFrame(w).payload = w.payload
    BY DEF DecodedFrame
<1> QED BY <1>1 DEF Validated, Failure, Correlates, ProtocolError

\* The three ways in which the client goes on after exchange().
LEMMA ConcludeType ==
    ASSUME ClientTypeOK, TransportTypeOK, AcceptReply \/ Retry \/ GiveUp
    PROVE  ClientTypeOK' /\ TransportTypeOK'
<1>1. CASE AcceptReply
    <2>1. Validated(reply.bytes) \in OperationResults
        BY ValidatedType DEF TransportTypeOK, TransportReplies
    <2>2. [metrics EXCEPT !.protocol_errors = @ + 1] \in ClientMetrics
        BY DEF ClientTypeOK, ClientMetrics
    <2> QED BY <1>1, <2>1, <2>2 DEF AcceptReply, Return, ClientTypeOK, TransportTypeOK
<1>2. MetricsAfterFailure \in ClientMetrics
    BY DEF MetricsAfterFailure, ClientTypeOK, ClientMetrics
<1>3. CASE Retry
    <2>1. [MetricsAfterFailure EXCEPT !.retries = @ + 1] \in ClientMetrics
        BY <1>2 DEF ClientMetrics
    <2>2. [call EXCEPT !.attempt = @ + 1] \in Calls
        BY DEF ClientTypeOK, Calls
    <2> QED BY <1>3, <2>1, <2>2 DEF Retry, ClientTypeOK, TransportTypeOK
<1>4. CASE GiveUp
    <2>1. call.request.request_id \in RequestId /\ call.attempt \in Nat
        BY DEF ClientTypeOK, Calls, Frame
    <2>2. FailureOfReply \in OperationResults
        BY <2>1, FailureType DEF FailureOfReply, ClientError
    <2> QED BY <1>2, <1>4, <2>2 DEF GiveUp, Return, ClientTypeOK, TransportTypeOK
<1> QED BY <1>1, <1>3, <1>4

\* The constructor leaves a client of the right type.
LEMMA ClientInitType == ClientInit => ClientTypeOK
<1> SUFFICES ASSUME ClientInit PROVE ClientTypeOK
    OBVIOUS
<1>1. 0 \in RequestId /\ 1 \in RequestId /\ 0 \in Address
    BY FrameConstants DEF RequestId, Address
<1>2. call \in Calls
    <2>1. <<>> \in Seq(Byte) /\ "read_request" \in RequestOpcode
        BY DEF RequestOpcode
    <2>2. RequestFrame("read_request", 0, 0, <<>>) \in Frame
        BY <1>1, <2>1, RequestFrameType
    <2>3. call = [request |-> RequestFrame("read_request", 0, 0, <<>>),
                  expected_length |-> 0, deadline |-> 0, attempt |-> 0]
        BY DEF ClientInit
    <2> QED BY <2>2, <2>3 DEF Calls
<1>3. result \in OperationResults
    BY <1>1, FailureType DEF ClientInit, ClientError
<1>4. metrics \in ClientMetrics
    BY DEF ClientInit, ClientMetrics
<1>5. maximum_read_attempts \in Nat \ {0}
    BY ClientConstants DEF ClientInit, EffectiveAttempts
<1> QED BY <1>1, <1>2, <1>3, <1>4, <1>5 DEF ClientInit, ClientTypeOK
=============================================================================
