------------------------------ MODULE Benchmark ------------------------------
(***************************************************************************)
(* The measuring loop of apps/benchmark_main.cpp: samples batches of       *)
(* operations_per_sample reads handed to one server.  Clocks and the       *)
(* printed report are left out.                                            *)
(***************************************************************************)
EXTENDS MemoryServer

CONSTANTS
    samples,                 \* 5
    operations_per_sample    \* 50'000

ASSUME BenchmarkConstants ==
    /\ samples \in Nat \ {0} /\ operations_per_sample \in Nat
    /\ operations_per_sample < IdSpace

\* Sixteen bytes from any of the addresses 0 .. 127 can be asked for, carried
\* and read (in the code a byte has 256 values, a payload up to 256 bytes and
\* the readable regions end at 0x07FF).
ASSUME BenchmarkReadsFit ==
    /\ 16 < ByteBase /\ 16 <= maximum_payload_size
    /\ 127 + 15 <= read_write_last

VARIABLES
    sample,     \* batches completed
    index,      \* operations of the running batch completed
    checksum,   \* request IDs and payload sizes of all answers
    failed      \* run_sample() returned -1.0, and main() leaves with 1

vars == <<policy, memory, sample, index, checksum, failed>>

\* Mutant: the address runs on into the denied region.
BatchAddress_NotWrapped(i) == i

BatchAddress(i) == i % 128

BatchRequest(i) ==
    [version |-> protocol_version, opcode |-> "read_request", flags |-> 0,
     request_id |-> i + 1, address |-> BatchAddress(i), status |-> "ok",
     payload |-> <<0, 16>>]

Init ==
    /\ ServerInit
    /\ sample = 0 /\ index = 0 /\ checksum = 0
    /\ failed = FALSE

\* An answer that decodes counts, also one that reports an error.
Operate ==
    /\ ~failed /\ sample < samples /\ index < operations_per_sample
    /\ LET request == BatchRequest(index)
           response == Handled(EncodedBytes(request)).response
       IN IF EncodeError(request) # "none" \/ ~Decodes(response)
          THEN failed' = TRUE /\ UNCHANGED <<index, checksum>>
          ELSE /\ index' = index + 1
               /\ checksum' = checksum + response.request_id + Len(response.payload)
               /\ UNCHANGED failed
    /\ Handle(EncodedBytes(BatchRequest(index)))
    /\ UNCHANGED sample

FinishSample ==
    /\ ~failed /\ sample < samples /\ index = operations_per_sample
    /\ sample' = sample + 1
    /\ index' = 0
    /\ UNCHANGED <<policy, memory, checksum, failed>>

Next == Operate \/ FinishSample

Spec == Init /\ [][Next]_vars

-----------------------------------------------------------------------------
\* Safety: no operation fails, and the checksum is at every moment the sum of
\* the request IDs and of sixteen bytes per operation.  An error response would
\* pass the benchmark's own validation; that every read was served in full is
\* seen in the checksum only (run_sample).
ChecksumCountsServedReads ==
    LET Batch(n) == (n * (n + 1)) \div 2 + 16 * n
    IN ~failed /\ checksum = sample * Batch(operations_per_sample) + Batch(index)
=============================================================================
