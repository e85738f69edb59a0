# IMLP/1 workbench: TLA+ models, model checking and proofs

This directory verifies the protocol laboratory of this repository: the frame
codec down to its bytes, the memory map, the memory server, the loopback
transport with its fault script, the client with its retry and correlation
rules, the command line over all of them, and the benchmark's loop.
`PROJECT.json` is the index: components, runs, mutants, the map from each
definition to the lines it models, hazards and theorems. Source paths below are
relative to the repository.

## 1. Inventory

| Component | Code | State | Operations | What makes it correct |
| --- | --- | --- | --- | --- |
| Frame codec | `src/codec.cpp`, `types.hpp` | none | `encode`, `decode`, CRC, hex | same limits both ways; nothing partly accepted |
| Memory map | `src/memory_map.cpp` | 4096 bytes, three regions | `read`, `write` | intervals decided exactly, validated before copying |
| Memory server | `src/server.cpp` | policy (fixed), memory map | `handle` | every decodable request answered; refused means no effect |
| Loopback transport | `src/transport.cpp` | connection, fault queue, trace, sequence | `connect`, `close`, `exchange`, `push_fault`, `clear_trace` | faults strike at a known point and are detectable; trace complete |
| Client | `src/client.cpp` | options, next request ID, metrics | `read`, `write` | reads retried within a bound, writes never; answers correlated; reports true |
| Command line | `apps/cli_main.cpp` | none | `inspect`, `encode-read`, `read`, `write`, `demo` | exit codes as documented; writes only with opt-in |
| Benchmark, fuzzer | `apps/benchmark_main.cpp`, `fuzz/` | none | loop over `handle`; round-trip assertion | their assertions never fail |

Interaction: the program has one thread and no callbacks. `Client` calls
`ITransport::exchange`, `LoopbackTransport` calls `MemoryServer::handle`, and
everything shared travels as byte vectors. Only the server holds data that
outlives a call; nothing is persisted, so there is no recovery to model.

What is hard to test: arithmetic at the ends of address ranges and at the wrap
of the 32-bit request ID; the order of policy check, write and fault inside one
exchange; sequences of calls that start from whatever the last failure left
(connection, fault queue, counters); and, behind the `ITransport` boundary the
client is written for, late and repeated answers. The hazards in `PROJECT.json`
list them by line with the properties that would catch them.

## 2. Modules

```
Frames <- MemoryMap <- MemoryServer <-+- ServerCalls        (server driven directly)
   ^                                  |
Transport <-------- LoopbackTransport +- LoopbackCalls      (transport driven directly)
   ^                                  |
Client <------------------------------+- Workbench          (client + loopback + server)
                     RemoteTransport -+- RemoteWorkbench    (client + network + server)

Frames <- WireCodec <- CodecCalls                           (codec on real bytes)
WireCodec, Client, LoopbackTransport <- Cli                 (command line over everything)
MemoryServer <- Benchmark                                   (the measured loop)
RemoteWorkbench <- RemoteRefinement -- implements --> MemoryService
```

* `Frames`: a byte vector is represented by the fields `decode` finds in it (a
  `Wire`): its size, the header fields, the payload, and whether the trailing
  checksum is right. `EncodeError`/`EncodedBytes` and
  `DecodeError`/`DecodedFrame` are the two results of `encode` and `decode`,
  with the checks in the order of the code. `consumed` of a decode result is
  left out: nothing reads it. "Checksum is right" stands for the comparison
  of CRC-32 values, so an error pattern that the CRC misses is not represented;
  the faults of the code (drop a byte, flip a bit) are always detected.
* `WireCodec`: the same functions over real bytes: offsets, big-endian integers,
  the bitwise CRC-32 loop, and hexadecimal text. TLC's integers end below 2^31,
  so a `std::uint32_t` is a pair of 16-bit halves. `WireOf` turns a vector into
  the `Wire` that `Frames` starts from; the property `FieldsStandForBytes` is
  what justifies that start, and it is proved. The register of `crc32` is the set
  of the positions of its ones: a shift moves the positions, exclusive or is the
  symmetric difference. A loop is a recursive function of the place in the
  vector.
* `CodecCalls` puts `encode` and `decode` at the two ends of a line that damages
  a vector at most once, or of a peer that lays a header out otherwise and seals
  it with a right checksum. The line and the peer are external. Its
  specification is `LineSpec`, so that a module can talk about the line beside
  another specification.
* `MemoryMap`, `MemoryServer`: `range_fits`, `access_for`, `write_is_allowed`,
  `text_payload`, `make_response` keep their names. `handle` is an atomic step
  (`Handle`, `Handled`, `MemoryAfter`), as it runs to completion in one thread.
* `Transport` has what `ITransport` shows. `LoopbackTransport` has one action
  per way `exchange` returns, and one for each other operation. The trace keeps
  every record.
* `Client` splits a call where the transport acts: `idle`, `attempt`,
  `exchange`, `reply`. `Attempt` is the head of the loop with
  `ensure_connected`; `AcceptReply`, `Retry` and `GiveUp` are what follows
  `exchange`. `detail` texts are left out.
* `RemoteTransport` is an environment, not code of the repository: connections
  fail and drop at any time; a request may be handled late (even after the
  client gave up) or never, but not twice; an answer may be lost, delayed past
  later calls, delivered again, cut or corrupted. It is marked external.
  Requests under way form a set: the copies of a retried read count as one while
  they travel together, which a read cannot tell; a write is sent once.
* `MemoryService` is the abstract specification of the whole: a memory, one call
  at a time (`Ask`, `Return`), writes that are carried out at most once or
  dropped, perhaps after their call has returned, but not after the user was
  told "not done". `RemoteRefinement` has the refinement mapping: the outstanding
  writes are those unsent or under way; `remote_error` and `connect_failed` are
  "not done", success is "done", everything else is "unknown".
* `Cli`: an argument word is a sequence of characters; `parse_u32` and
  `bytes_from_hex` read it as the code does. `read`, `write` and `demo` become
  lists of statements (construct server, transport and client; push a fault;
  call the client; print), executed in order while the client's steps run
  between them. An address too large for TLC is represented by the last address
  (`Number`), which the client and the map treat alike; `encode-read` keeps all
  32 bits. What a word means is given a second time, as a table, for the
  properties only (`NumberMeaning`, `PayloadMeaning`).
* `Benchmark`: the loop of `run_sample` and `main` over `MemoryServer`.
* `Workbench` and `RemoteWorkbench` compose; they add history variables
  (`issued`, `before`; `seen`, `applications`) that no action reads.
* `MC...` give the constants their small values. Operators named `X_Something`
  with a comment `Mutant:` are wrong variants of `X`; for every checked property
  one of them is known to violate it.
* `...Proofs` hold lemmas and theorems. `ComponentProofs` has the lemmas about
  one operation of the server, the loopback transport or the client that the
  proofs about each composition share.

## 3. Runs

| Run | Checks | Instance |
| --- | --- | --- |
| `server_calls` | `TypeOK`, `ProtectedBytesKeepTheirValue`, `AnsweredExactlyWhenDecodable`, `AcceptedFramesAreStable`, `StatusMatchesIntervalArithmetic`, `EffectMatchesAnswer` | 6 bytes, 8 addresses, 5 policies, every read and write of every length up to one too many, every combination of opcode, flags and status, every single damage of a vector; no depth bound |
| `loopback_calls` | `TypeOK`, `TraceIsPairedAndNumbered`, `RequestFaultsStrikeBeforeTheServer`, `ResponseFaultsAreDetectable`, `FaultsAwaitTheirExchange` | 4 bytes, 6 vectors, 2 deadlines, `MaxFaults = 2`, `MaxExchanges = 2` |
| `workbench` | `TypeOK`, `CallFollowsFaultScript`, `MemoryMatchesResult`, `MetricsExplainCall`, `RetriesRepeatTheRequest` | 4 bytes, 3 policies, 0 or 2 read attempts, `MaxOperations = 3`, `MaxFaults = 2`, `MaxTrace = 2` |
| `remote_workbench` | `TypeOK`, `SuccessfulReadsAreFresh`, `WritesApplyAtMostOnce`, `IdsStandForOneRequest`, `WriteReportsAreTrue`, `AnswersAreTrue`, `TakesServiceSteps` | 3 bytes, 2 read attempts, `MaxOperations = 3` |
| `remote_liveness` | `EveryCallReturns`, `ImplementsService` | the same with `MaxOperations = 2` |
| `codec_calls` | `DecodedAsSent`, `FieldsStandForBytes`, `DamageIsDetected`, `TwoBitsAreDetected`, `AcceptedBytesAreCanonical`, `HexTextIsExact`, `LayoutIsTheDocumentedOne` | real sizes; a frame of every opcode, extreme fields, 256 and 257 bytes of payload; every single bit, the lowest or highest bit of one byte with any bit of a later one, swapped bytes, every cut, an appended byte, a doubled frame, every single bit of a header under a right checksum |
| `cli` | `ExitCodeTellsWhatHappened`, `WritesNeedOptIn`, `VectorsInspectAsEncoded`, `InspectShowsTheVector`, `DemoShowsEveryScenario` | real sizes; every pair of 20 numeric words, 9 payload words, 3 confirmations, 13 texts to inspect, wrong numbers of words |
| `benchmark` | `ChecksumCountsServedReads` | 2 samples of 200 operations on 192 bytes |
| `cli_documented_exit` | `MissingOptInExitsTwo`, expected to be violated | as `cli` |

Why the bounds are enough. Sizes are scaled with their relations kept:
`maximum_payload_size = ByteBase` as in the code (256 and 256), so the longest
length needs the high byte of the length field; the address space is larger
than the map; every region has a border inside a legal interval. With
`IdSpace = 3` request IDs wrap and skip zero within three calls. Two faults
exhaust two attempts, and a fault pushed between calls reaches the next one.
Three remote calls suffice for a write that is late behind a read that is
retried behind another write. `MaxTrace` makes the user clear the trace between
calls, so a trace holds one call; longer traces are the business of
`loopback_calls`. In
`codec_calls` a frame has at most 24 bytes, all of which are struck, except the
one with a full payload, where `EdgeLength = 12` picks the first and the last
twelve. The numeric words lie at and around 0, the payload limit, the regions'
borders, the end of the map and 2^32. The benchmark's batch is longer than the
readable part of its map, so that an address that failed to wrap would be
refused. Deadlock checking is off where the bound on operations, the end of
the line's only frame or the end of the benchmark ends every behaviour; it is on
in `cli`: no command gets stuck before it exits.

Fairness (only in `RemoteWorkbench`): weak fairness of the client's own steps
and of the return of `exchange`. The client is sequential code without waits of
its own, and `exchange` takes a deadline. Nothing is assumed of the user, the
network or the server: with all requests lost every call still returns.

What the runs show. All properties hold. In particular a read fails only if the
script has as many failures as the read has attempts; the connection is closed
after a call exactly if its last exchange failed in the transport (an
undecodable or uncorrelated answer leaves it open); a write whose answer was
spoiled has been applied as a whole, and one that reports a timeout over the
loopback has not; over a network a timeout says nothing, but success, a remote
error and a failed connect are all truthful.

What `loopback_calls` says of the fault script (each exchange takes its own
fault and leaves the rest, an expired one takes none) needs no client: the client
never passes a deadline that has expired. That protected bytes keep their value
is checked and proved where requests are arbitrary, in `server_calls`; behind the
transport and the client memory changes by the same `Handle` only.

Over the network the whole implements `MemoryService`. On bytes, no two vectors
decode to the same frame, and none of the damages passes. On the command line,
exit code, memory and output follow from the meaning of the words alone, and
`inspect` shows enough of a vector to lay it out again; only an error response
whose status has no name is shown as `unknown` without its number.

One disagreement between code and documents: `docs/cli.md:14` gives exit code 2
to a "missing write opt-in", and its example of one is `imlp-cli write 0x100
deadbeef`. `main` calls `run_write` only with all three words present
(`apps/cli_main.cpp:217`), so the example leaves with 1 and the usage text; the
run `cli_documented_exit` shows it. No write happens in either case.

## 4. Proofs

Checked by TLAPS for every value of the constants that satisfies the named
assumptions (`FrameConstants`, `MemoryConstants`, `ServerConstants`,
`WiresConstant`, `ClientConstants`, `WorkbenchConstants`,
`RemoteWorkbenchConstants`, `LoopbackCallsConstants`, `BenchmarkConstants`,
`BenchmarkReadsFit`, `ByteHasEightBits`, `CodecConstants`, `CliConstants`), hence
for the real sizes too. The last three only give types: a byte has eight bits,
the sender's frames have the fields of `struct Frame`, a command line is a
sequence of words. TLC evaluates every
assumption, and the parts of the inductive invariants that are named properties
are checked by the runs as well.

* `ComponentProofs`: lemmas about the operators. `EncodedBytesType` is the round
  trip of the codec rules; `HandledDecodable` shows that whatever `handle`
  decides can be encoded, so the branch `response_encoding_failed` is never
  taken; `ReadAnswer`, `WriteAnswer` and `AnswerFields` say what an answer
  carries, and `DamageIsRefused` that a cut or corrupted vector does not decode.
  `DistortedAnswer` is about the loopback's response faults: the ID after the
  answer's own, wrapped, is never the answer's own. `ValidatedMeans` says what
  the client knows of an answer it accepts. For the client's types the inductive
  invariant must also say that the request of a running call can be encoded:
  else nothing is known about what the server is handed.
* `ServerCallsProofs`: all six properties of `server_calls`. The inductive
  invariant is `ServerInvariant` = `TypeOK` and `ProtectedBytesKeepTheirValue`;
  the other four relate the last call to its result and follow, for each call,
  from the lemmas (`ServerFramesAreStable` from the typing alone). The exactness
  of the status (`ServerDecidesExactly`) compares the scans of the code with
  interval inclusion over unbounded integers.
* `LoopbackCallsProofs`: all five properties of `loopback_calls`. Their
  conjunction with the protection of memory is inductive. The history variable
  `last` keeps the script that the last exchange met, so that
  `FaultsAwaitTheirExchange` can say what must still be in front of the queue
  (`ExchangeLeavesScript`, `ScriptIsKept`).
* `WorkbenchProofs`: all five properties of `workbench`. The four about a call
  that has returned say nothing while it runs, so they are not inductive.
  `CallInvariant` is what holds at each control state of a running call:
  the request is the one issued; every earlier attempt met a request fault, and
  the script is short of just the faults met; what `exchange` returned is what
  its fault makes of the server's answer; the memory has changed just if a
  permitted write was answered; the counters stand at the attempt's number.
  `LaboratoryInvariant` adds that every trace record is older than the next
  number, and the four properties, which are kept between two calls. The number
  of failures at the script's start is a `CHOOSE`; that it exists is shown
  without induction over the script, from the least element of a set of
  naturals (`LeastNatural`, from the well-foundedness of `<`).
* `RemoteWorkbenchProofs`: types, `IdsStandForOneRequest`,
  `WritesApplyAtMostOnce`, `AnswersAreTrue`, then the reports and the
  refinement. At-most-once is not inductive: it needs that a write still to be
  sent, or still on its way, has not been applied yet, that two requests with
  one ID are the same request, and that IDs are not used up
  (`MaxOperations < IdSpace`); `IdsStandForOneRequest` states this.
  `SuccessfulReadsAreFresh` and `WriteReportsAreTrue` need to know about the
  answers before one of them is accepted: `AnswersAreTrue` says that those with
  the ID of the running call carry bytes seen in memory during the call, or the
  final fate of its write. The refinement (`TakesServiceSteps`) is proved step
  by step: an initial state maps to an initial state; a call maps to `Ask`, a
  return to `Return`, a write handled by the server to `CarryOut` or, if it is
  refused, to `Drop`, a write whose connection fails before it is sent to `Drop`,
  everything else to a stutter. The return of a call with a result is a legal `Return` because of
  the two report properties.
* `BenchmarkProofs`: `ChecksumCountsServedReads` for every number of samples and
  operations. The invariant adds the loop's types; each operation is an instance
  of `ReadAnswer`. `BenchmarkReadsFit` says that the constants written into the
  benchmark (sixteen bytes, addresses up to 127) fit the map, as they do in the
  code.

* `CodecCallsProofs`: five properties of `codec_calls`, for every frame, every
  payload and every place a damage may strike, in five stages.
  1. The CRC. One turn of the inner loop maps different registers to different
     registers (the polynomial has bit 31, so the top bit tells whether a one was
     shifted out: `CrcBitInjective`); hence so do eight turns (`CrcByteInjective`)
     and the outer loop over any vector (`CrcLoopInjective`). Two vectors of the
     same length that differ in one byte therefore have different checksums
     (`OneByteDiffers`). For two adjacent bytes exchanged the two registers must
     be followed through eight turns: a difference within the low eight bits
     has reached the top byte by then, where the next byte cannot cancel it
     (`DifferenceReachesTop`), and stands below the top byte too
     (`DifferenceReachesBottom`), which catches an exchange of the last covered
     byte with the first, most significant, byte of the checksum.
  2. The layout. `HeaderBytes` gives each of the eighteen bytes of a header, and
     `LaidOut` the round trip; `AcceptableIsLaidOut` is the converse, for any
     vector of bytes whatever: one that `decode` accepts is the layout of what it
     found in it.
  3. Damage. An altered byte may lie in the covered part or in the checksum, an
     exchange may straddle the border between them (`OneByteIsDetected`,
     `ExchangeIsDetected`); in every other case the vector is too short for a
     header, or its size does not fit the length field, which the damage has left
     alone (`OtherSizeIsDetected`).
  4. `LineInv`, the inductive invariant: the vector holds bytes, undamaged it is
     the layout of the frame sent, and damaged in a detectable way `decode`
     refuses it. The properties speak of the end of the line only and need it.
  5. Hexadecimal text: `Digits` and `ReadText`, digit by digit.
* `CliProofs`: two properties of `cli` for every list of words. `OptInInv` must
  speak of the statements still to be executed: unless the words ask for writes,
  none of them constructs a server that accepts writes. `InspectInv` says that
  an inspection that ended well has printed what `FrameOf` finds in the bytes of
  the text; that this determines the bytes is `AcceptableIsLaidOut`.

Induction over the bytes of a vector and over the turns of its loop is done on
the set of the places where the claim holds (`UpInduction`, `DownInduction`,
`CrcLoop`): its complement has a least element, because `<` is well-founded on
the naturals (`LeastElement`). This needs no theorem with an operator parameter.

Only model-checked:

* `EveryCallReturns` and the liveness half of `ImplementsService`: liveness under
  fairness is outside the prover's reach.
* `TwoBitsAreDetected`: it depends on the order of the polynomial, that is, on
  the register after each of some hundred shifts of one given word; the provers
  do not compute that.
* `LayoutIsTheDocumentedOne`: it compares the model with given vectors and the
  CRC with its published check values, which again means to compute them.
* `ExitCodeTellsWhatHappened` and `VectorsInspectAsEncoded`: they compare the
  code's reading of a word with a table of meanings (`NumberMeaning`,
  `PayloadMeaning`) that is given for the words of the instance only.
* `DemoShowsEveryScenario`: one execution of a fixed program, which TLC runs.

## 5. Not modelled

The wording and layout of printed lines and `detail` texts; clocks, the median
and the report of the benchmark; `DecodeResult::consumed` and
`transport_error_name`, which nothing in the program uses; `memory()` and
`metrics()`, which only show state; the tests, the repository scripts and CI.
An allocation failure (`std::bad_alloc`) is not represented.

## 6. Plan

All components are modelled, and every safety property of the runs that the
prover can reach is proved. What is left:

1. Action properties worth a theorem of their own: the metrics of the client
   never go back, a record of the trace is never changed.
2. A definition of what a numeric word means that does not follow the code, so
   that `ExitCodeTellsWhatHappened` can be stated for every word.

## 7. Running

`tlc -workers 2 -config MCWorkbench.cfg MCWorkbench` and likewise for the other
runs (each takes less than a minute or two); `tlapm WorkbenchProofs.tla` and
likewise for the other proof modules.
