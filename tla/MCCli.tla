-------------------------------- MODULE MCCli --------------------------------
(***************************************************************************)
(* The command line with the real memory map and payload limit, started    *)
(* with every pair of numeric words below and every shape of command.      *)
(***************************************************************************)
EXTENDS Cli

\* "IMLP/1 synthetic memory simulator"
MCIdentity == <<73, 77, 76, 80, 47, 49, 32, 115, 121, 110, 116, 104, 101, 116, 105,
                99, 32, 109, 101, 109, 111, 114, 121, 32, 115, 105, 109, 117, 108,
                97, 116, 111, 114>>

MCPolicies == {[writes_enabled |-> enabled, write_allow_begin |-> \h100,
                write_allow_end |-> \h7FF] : enabled \in BOOLEAN}

MCDiagnostic == [name \in DiagnosticName |-> <<0>>]

MCReadAttempts == {2}

\* Numeric words, at and around the limits of the map, of a payload and of 32
\* bits, and words that docs/cli.md calls invalid.
MCNumbers ==
    <<"0">> :> <<0, 0>> @@ <<"1">> :> <<0, 1>> @@ <<"0", "0", "7">> :> <<0, 7>>
    @@ <<"2", "5", "5">> :> <<0, 255>> @@ <<"0", "x", "1", "0", "0">> :> <<0, 256>>
    @@ <<"2", "5", "7">> :> <<0, 257>> @@ <<"0", "x", "7", "F", "f">> :> <<0, 2047>>
    @@ <<"2", "0", "4", "8">> :> <<0, 2048>> @@ <<"4", "0", "9", "5">> :> <<0, 4095>>
    @@ <<"6", "5", "7", "9", "2">> :> <<1, 256>>
    @@ <<"4", "2", "9", "4", "9", "6", "7", "2", "9", "5">> :> <<65535, 65535>>
    @@ <<"4", "2", "9", "4", "9", "6", "7", "2", "9", "6">> :> NoValue
    @@ <<"0", "x", "f", "f", "f", "f", "f", "f", "f", "f">> :> <<65535, 65535>>
    @@ <<"0", "x", "1", "0", "0", "0", "0", "0", "0", "0", "1">> :> NoValue
    @@ <<>> :> NoValue @@ <<"0", "x">> :> NoValue @@ <<"-", "1">> :> NoValue
    @@ <<"1", "a">> :> NoValue @@ <<"1", " ">> :> NoValue
    @@ <<"0", "X", "1">> :> NoValue

Nines(n) == [i \in 1 .. n |-> "9"]

\* Payload words: both cases, the empty word, an odd one, one that is not
\* hexadecimal, a full payload, one byte more, a full frame and one byte more.
MCPayloads ==
    <<"d", "e", "a", "d">> :> <<222, 173>> @@ <<"D", "E", "A", "d">> :> <<222, 173>>
    @@ <<>> :> NoValue @@ <<"1", "2", "3">> :> NoValue @@ <<"1", "g">> :> NoValue
    @@ Nines(512) :> [i \in 1 .. 256 |-> 153] @@ Nines(514) :> [i \in 1 .. 257 |-> 153]
    @@ Nines(556) :> [i \in 1 .. 278 |-> 153] @@ Nines(558) :> NoValue

Confirmations == {<<"--allow-writes">>, <<"--force">>, <<>>}

\* A read vector, and error responses with this status, which may have no name.
Vector == LayOut(ReadVector(<<0, 256>>, 4))

Refusal(code) == LayOut([ReadVector(<<1, 256>>, 4) EXCEPT !.opcode = "error_response",
                            !.flags = 1, !.code = code])

MCCommandLines ==
    {<<<<command>>, a, n>> : command \in {"read", "encode-read"},
                             a \in DOMAIN MCNumbers, n \in DOMAIN MCNumbers}
    \cup {<<<<"write">>, a, p, c>> : a \in DOMAIN MCNumbers,
                                     p \in DOMAIN MCPayloads, c \in Confirmations}
    \cup {<<<<"inspect">>, text>> :
             text \in DOMAIN MCPayloads \cup
                {bytes_to_hex(Vector), bytes_to_hex(Refusal(4)),
                 bytes_to_hex(Refusal(77)), bytes_to_hex([Vector EXCEPT ![20] = 5])}}
    \cup {<<>>, <<<<"demo">>>>, <<<<"demo">>, <<"now">>>>, <<<<"help">>>>,
          <<<<"read">>, <<"0">>>>,
          <<<<"write">>, <<"0", "x", "1", "0", "0">>, <<"d", "e", "a", "d">>>>}
=============================================================================
