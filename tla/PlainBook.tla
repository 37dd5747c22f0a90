------------------------------ MODULE PlainBook ------------------------------
(***************************************************************************)
(* What one instrument's order book promises (orderBook.ts), with no heaps *)
(* to search: a tick looks at every resting order, stop and alert, and     *)
(* moves each stop as stepTrailingStop does; a change applies only when    *)
(* its version is newer than the one held, or puts back what a tick took   *)
(* off at that same version.                                               *)
(***************************************************************************)
EXTENDS TrailingStop

CONSTANTS
  OrderId, StopId, AlertId,
  Version,   \* account versions
  Price      \* prices, in paise

VARIABLES
  orders,    \* resting LIMIT orders: version, side and price, or None
  stops,     \* live trailing stops: version and state, or None
  alerts,    \* active price alerts: condition and price, or None
  versions,  \* the newest version seen per order and stop, and whether a tick took it off
  out        \* the last tick, if it is the last change, and what it returned

vars == <<orders, stops, alerts, versions, out>>

Quiet == [ltp |-> None, crossed |-> {}, triggered |-> {}, moved |-> {}, fired |-> {}]

Crosses(o, ltp) == IF o.side = "BUY" THEN ltp <= o.price ELSE ltp >= o.price
Fires(a, ltp)   == IF a.condition = "ABOVE" THEN ltp >= a.price ELSE ltp <= a.price

Newer(id, version) == versions[id] # None => version > versions[id].version
\* A tick took it off at this version, so it may be put back.
Crossed(id, version) == versions[id] = [version |-> version, crossed |-> TRUE]

Init ==
  /\ orders = [o \in OrderId |-> None]
  /\ stops = [s \in StopId |-> None]
  /\ alerts = [a \in AlertId |-> None]
  /\ versions = [i \in OrderId \cup StopId |-> None]
  /\ out = Quiet

\* A change of version puts an order on the book, moves it or takes it off.
SetOrder(id, version, order) ==
  /\ Newer(id, version) \/ (order # None /\ Crossed(id, version))
  /\ order # None => order.version = version
  /\ orders' = [orders EXCEPT ![id] = order]
  /\ versions' = [versions EXCEPT ![id] = [version |-> version, crossed |-> FALSE]]
  /\ out' = Quiet
  /\ UNCHANGED <<stops, alerts>>

SetStop(id, version, stop) ==
  /\ Newer(id, version) \/ Crossed(id, version)
  /\ stop # None => stop.version = version /\ stop.state.status \in {"ARMED", "TRAILING"}
  /\ stops' = [stops EXCEPT ![id] = stop]
  /\ versions' = [versions EXCEPT ![id] = [version |-> version, crossed |-> FALSE]]
  /\ out' = Quiet
  /\ UNCHANGED <<orders, alerts>>

SetAlert(id, alert) ==
  /\ alerts[id] = None \/ alert = None
  /\ alerts' = [alerts EXCEPT ![id] = alert]
  /\ out' = Quiet
  /\ UNCHANGED <<orders, stops, versions>>

\* A tick, for every order, stop and alert on the book.
Tick(ltp) ==
  LET crossed   == {o \in OrderId : orders[o] # None /\ Crosses(orders[o], ltp)}
      triggered == {s \in StopId : stops[s] # None /\ Triggers(stops[s].state, ltp)}
      fired     == {a \in AlertId : alerts[a] # None /\ Fires(alerts[a], ltp)}
      stepped   == [s \in {s \in StopId : stops[s] # None} |->
                     [stops[s] EXCEPT !.state = StepTrailingStop(@, ltp)]]
      moved     == {s \in DOMAIN stepped \ triggered : stepped[s] # stops[s]}
  IN /\ orders' = [o \in OrderId |-> IF o \in crossed THEN None ELSE orders[o]]
     /\ stops' = [s \in StopId |->
          IF s \in DOMAIN stepped \ triggered THEN stepped[s] ELSE None]
     /\ alerts' = [a \in AlertId |-> IF a \in fired THEN None ELSE alerts[a]]
     /\ versions' = [i \in OrderId \cup StopId |->
          IF i \in crossed \cup triggered THEN [versions[i] EXCEPT !.crossed = TRUE] ELSE versions[i]]
     /\ out' = [ltp |-> ltp, crossed |-> {<<o, orders[o]>> : o \in crossed}, fired |-> fired,
                triggered |-> {<<s, stepped[s]>> : s \in triggered},
                moved |-> {<<s, stepped[s]>> : s \in moved}]

Next ==
  \/ \E o \in OrderId, v \in Version : SetOrder(o, v, orders'[o])
  \/ \E s \in StopId, v \in Version : SetStop(s, v, stops'[s])
  \/ \E a \in AlertId : SetAlert(a, alerts'[a])
  \/ \E ltp \in Price : Tick(ltp)

Spec == Init /\ [][Next]_vars
=============================================================================
