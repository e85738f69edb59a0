--------------------------- MODULE RemoteTransport ---------------------------
(***************************************************************************)
(* An ITransport that reaches the server over an unreliable network.  The  *)
(* repository has no such adapter (its interface, its retry rules and its  *)
(* correlation checks are written for one): this module is the             *)
(* environment those rules are meant for, taken from how src/client.cpp    *)
(* uses ITransport.                                                        *)
(*                                                                         *)
(* connect() may fail and a connection may drop at any time.  A request    *)
(* is handled late, after the client has given up, or never, but not twice *)
(* (a damaged one is not answered, as if it were lost).  An answer may be  *)
(* lost, delayed past any number of later calls, delivered again or        *)
(* damaged.  exchange() returns within its deadline.                       *)
(***************************************************************************)
EXTENDS Transport, MemoryServer

VARIABLES
    awaiting,    \* exchange() has sent its request and has not returned
    requests,    \* requests the network may still deliver; copies of a retried
                 \* read that are on the way together count as one
    answers      \* answers the network may (again) deliver

networkVars == <<awaiting, requests, answers>>

RemoteInit ==
    /\ TransportInit
    /\ awaiting = FALSE
    /\ requests = {}
    /\ answers = {}

\* exchange() finds the connection open and sends.
RemoteSends(request) ==
    /\ ~awaiting
    /\ connected
    /\ requests' = requests \cup {request}
    /\ awaiting' = TRUE
    /\ UNCHANGED <<connected, reply, answers>>

\* exchange() finds that the connection is gone.
RemoteRefuses ==
    /\ ~awaiting
    /\ ~connected
    /\ reply' = TransportReply("not_connected", EmptyWire)
    /\ UNCHANGED <<connected, awaiting, requests, answers>>

\* exchange() returns an answer, perhaps of an earlier exchange.
RemoteDelivers ==
    /\ awaiting
    /\ \E w \in answers :
          \E bytes \in {w, DropLastByte(w), FlipChecksumBit(w)} :
              reply' = TransportReply("none", bytes)
    /\ awaiting' = FALSE
    /\ UNCHANGED <<connected, requests, answers>>

\* exchange() reaches its deadline, or notices that the connection is lost.
RemoteFails ==
    /\ awaiting
    /\ \/ /\ reply' = TransportReply("timeout", EmptyWire)
          /\ UNCHANGED connected
       \/ /\ reply' = TransportReply("disconnected", EmptyWire)
          /\ connected' = FALSE
    /\ awaiting' = FALSE
    /\ UNCHANGED <<requests, answers>>

\* The network delivers a request: the server handles it once and answers.
RemoteServes(request) ==
    /\ request \in requests
    /\ Handle(request)
    /\ requests' = requests \ {request}
    /\ answers' = answers \cup {Handled(request).response}
    /\ UNCHANGED <<connected, reply, awaiting>>

\* The connection drops while nobody looks.
RemoteDrops ==
    /\ connected
    /\ ~awaiting
    /\ connected' = FALSE
    /\ UNCHANGED <<reply, awaiting, requests, answers>>

RemoteTypeOK ==
    /\ TransportTypeOK
    /\ awaiting \in BOOLEAN
    /\ requests \subseteq Wire
    /\ answers \subseteq Wire
    /\ policy \in ServerPolicy
    /\ memory \in Memory
=============================================================================
