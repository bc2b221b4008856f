------------------------------ MODULE MCNetlink ------------------------------
(***************************************************************************)
(* Netlink for TLC: a buffer that holds more than either request, refusals *)
(* with the first and last error number, and two datagrams, losses or      *)
(* joins that nobody asked for in the whole exchange.                      *)
(***************************************************************************)
EXTENDS Netlink

=============================================================================
