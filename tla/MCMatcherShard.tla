--------------------------- MODULE MCMatcherShard ---------------------------
(* Small instances of MatcherShard.                                        *)
EXTENDS MatcherShard

MCTrail == [unit |-> "AMOUNT", size |-> 1]
=============================================================================
