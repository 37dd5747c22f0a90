--------------------------- MODULE MCPriceAlerts ----------------------------
(* Small instances of PriceAlerts.                                         *)
EXTENDS PriceAlerts

\* Every alert fires at 2, and may be created at 1.
MCLevel == [a \in Alert |-> 2]
=============================================================================
