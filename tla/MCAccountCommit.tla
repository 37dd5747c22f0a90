-------------------------- MODULE MCAccountCommit ---------------------------
(* Bounded instances of AccountCommit for TLC.  Two processes: "api" and   *)
(* "other", a second API instance or the job worker.                       *)
EXTENDS AccountCommit

ServedByOther == {"b1", "b2", "s1"}
MCOrderOf == [r \in Fills |-> IF r = "g1" THEN "b1" ELSE "a1"]
MCHome == [r \in Reqs |-> IF r \in ServedByOther THEN "other" ELSE "api"]
\* Every keyed action asks for the same order, sent again to another process.
MCClientOrderId == [r \in Keyed |-> "b1"]
=============================================================================
