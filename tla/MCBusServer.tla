----------------------------- MODULE MCBusServer -----------------------------
(* A small instance of BusServer for TLC. *)
EXTENDS BusServer, TLC
==============================================================================
