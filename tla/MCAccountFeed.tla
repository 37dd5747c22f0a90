--------------------------- MODULE MCAccountFeed ---------------------------
(* A small instance of AccountFeed.                                        *)
EXTENDS AccountFeed

CONSTANT o1
=============================================================================
