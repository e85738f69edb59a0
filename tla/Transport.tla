------------------------------ MODULE Transport ------------------------------
(***************************************************************************)
(* The ITransport boundary of include/imlp/transport.hpp: a connection     *)
(* flag, and the TransportReply of the last exchange().                    *)
(***************************************************************************)
EXTENDS Frames

TransportError == {"none", "not_connected", "timeout", "disconnected"}

VARIABLES
    connected,   \* ITransport::connected()
    reply        \* the TransportReply of the last exchange

transportVars == <<connected, reply>>

TransportReply(error, bytes) == [error |-> error, bytes |-> bytes]

TransportReplies == [error : TransportError, bytes : Wire]

TransportTypeOK ==
    /\ connected \in BOOLEAN
    /\ reply \in TransportReplies

TransportInit ==
    /\ connected = FALSE
    /\ reply = TransportReply("none", EmptyWire)
=============================================================================
