--------------------------- MODULE MCMatcherFills ---------------------------
(* Small instances of MatcherFills.                                        *)
EXTENDS MatcherFills, TLC

CONSTANTS c1, c2, f1, f2, u1

OneUser  == (f1 :> u1) @@ (f2 :> u1)

\* One request and two faults, or two requests and none.
MCMaxFaults == 0 :> 2 @@ 1 :> 2 @@ 2 :> 0
=============================================================================
