--------------------------- MODULE MCSocketIoClient ---------------------------
(* Instances of SocketIoClient for TLC: the timer and the thread that closes. *)
EXTENDS SocketIoClient
==============================================================================
