------------------------- MODULE MCParallelDelivery --------------------------
(* A small instance of ParallelDelivery for TLC. *)
EXTENDS ParallelDelivery, TLC

CONSTANTS h1, h2, f1

MCHandlers == {h1, h2}
MCFilters == {f1}

\* f1 rejects the second event, and h2 the method of the first one.
MCPasses == ((MCHandlers \cup MCFilters) \X Events) \ {<<f1, 2>>, <<h2, 1>>}
==============================================================================
