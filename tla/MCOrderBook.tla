---- MODULE MCOrderBook ----
(* OrderBook on small sets of ids, versions and prices. *)
EXTENDS OrderBook, TLC

MCTrail == {[unit |-> "AMOUNT", size |-> 2], [unit |-> "PERCENT", size |-> 1]}

NoOrderYet == \A o \in OrderId : versions[o] = None
NoStopYet  == \A s \in StopId : versions[s] = None
NoAlertYet == \A a \in AlertId : placed[a] = 0

\* Orders and alerts need fewer placements than a stop, which every tick may place again.
Few == \A i \in OrderId \cup AlertId : placed[i] <= 2

\* A book holds orders, or stops, or alerts: what a tick does to one kind reads and writes
\* nothing of the others, but for the order it names them in.
MCNext ==
  \/ NoStopYet /\ NoAlertYet /\ OrdersChange /\ Few'
  \/ NoOrderYet /\ NoAlertYet /\ StopsChange
  \/ NoOrderYet /\ NoStopYet /\ AlertsChange /\ Few'
  \/ \E ltp \in Price : Tick(ltp)

MCSpec == Init /\ [][MCNext]_vars
====
