--------------------------- MODULE MCIntrospection ----------------------------
(* A small instance of Introspection for TLC. *)
EXTENDS Introspection, TLC
===============================================================================
