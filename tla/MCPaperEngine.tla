---- MODULE MCPaperEngine ----
(* PaperEngine on small sets of orders, stops and prices. *)
EXTENDS PaperEngine, TLC

MCOrderId == 1 .. 9

Draft(side, type, product, qty, price) ==
  [side |-> side, type |-> type, product |-> product, qty |-> qty, price |-> price, validity |-> "DAY"]
Ioc(d) == [d EXCEPT !.validity = "IOC"]
StopParam(trail, activation, exitType, offset) ==
  [trail |-> trail, activation |-> activation, exitType |-> exitType, offset |-> offset]
Amount(n) == [unit |-> "AMOUNT", size |-> n]

\* Intraday longs and shorts with trailing stops.
IntradayDrafts ==
  {Draft("BUY", "MARKET", "INTRADAY", 2, None), Draft("SELL", "LIMIT", "INTRADAY", 3, 4)}
IntradayStops == {StopParam(Amount(2), 8, "LIMIT", 0)}
NoChange == {}

\* Delivery: partial fills, holdings sold from, AMOs, changed orders, a stop a user drags.
DeliveryDrafts ==
  {Draft("BUY", "LIMIT", "DELIVERY", 3, 4), Draft("SELL", "LIMIT", "DELIVERY", 2, 8),
   Draft("SELL", "MARKET", "INTRADAY", 2, None)}
DeliveryChanges == {[qty |-> 2, type |-> "MARKET", price |-> None],
                    [qty |-> 4, type |-> "LIMIT", price |-> 12]}
DeliveryStops == {StopParam(Amount(2), None, "MARKET", None)}
====
