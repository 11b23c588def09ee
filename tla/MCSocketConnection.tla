------------------------- MODULE MCSocketConnection -------------------------
(* An input queue that can be low, ok, high and full; one reply.             *)
EXTENDS SocketConnection
=============================================================================
