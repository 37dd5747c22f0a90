----------------------------- MODULE PaperEngine -----------------------------
(***************************************************************************)
(* One user's paper-trading engine in one instrument                       *)
(* (packages/paperEngine/src/paperEngine.ts): orders, trailing stops,      *)
(* positions, holdings and funds.  A call runs to its end before the next; *)
(* it first catches up with the session events that are due and matches    *)
(* what the price crosses.  A call that throws ends the behaviour.         *)
(*                                                                         *)
(* Time is a count of session events: 9:15 is event 1, 15:20 event 2,      *)
(* 15:30 event 3, the next trading day's 9:15 event 4.  A repeated         *)
(* clientOrderId, a malformed request and one refused before anything is   *)
(* stored change nothing but what every call's sync does: they are Sync.   *)
(*                                                                         *)
(* CancelledAlone, CancelledCapped, SellableOf, LotKept, FollowSameSide,   *)
(* Uncovered and RunLatest are not part of it: each is a bug the           *)
(* definition after it could have had, for the mutation runs.              *)
(***************************************************************************)
EXTENDS TrailingStop, PositionMath, FundsLedger, Sequences

CONSTANTS
  Circuit,      \* the prices inside the day's circuit band
  Price,        \* the prices ticks come at
  Drafts,       \* what users ask for: side, type, product, qty, price, validity
  Changes,      \* what they change an order to: qty, type, price
  StopParams,   \* trailing stops they ask for: trail, activation, exitType, offset
  StopPrices,   \* where they drag a stop to
  HeldQty, HeldCost,   \* the holding carried in
  Cap,          \* the most shares a LIMIT order fills per tick, or None
  AlwaysOpen,   \* marketHours
  MinTrail, MaxTrail,  \* TRAILING_STOP_LIMITS, in basis points
  Replay,       \* how many session events before the clock a tick's own time may be
  MaxOrders, MaxStops, MaxClock   \* bounds on orders and stops asked for, and on time

Sides    == {"BUY", "SELL"}
Products == {"INTRADAY", "DELIVERY"}
Params   == [trail : Trails, activation : Nat \cup {None}, exitType : {"MARKET", "LIMIT"},
             offset : Nat \cup {None}]

ASSUME EngineAssumption ==
  /\ Price \subseteq Circuit /\ Circuit \subseteq Nat \ {0}
  /\ Drafts \subseteq [side : Sides, type : {"MARKET", "LIMIT"}, product : Products,
                       qty : Nat \ {0}, price : Nat \cup {None}, validity : {"DAY", "IOC"}]
  /\ Changes \subseteq [qty : Nat \ {0}, type : {"MARKET", "LIMIT"}, price : Nat \cup {None}]
  /\ \A d \in Drafts \cup Changes : (d.type = "MARKET") = (d.price = None)
  /\ StopParams \subseteq Params
  /\ \A p \in StopParams : (p.exitType = "MARKET") = (p.offset = None)
  /\ StopPrices \subseteq Nat \ {0}
  /\ HeldQty \in Nat /\ HeldCost \in Nat /\ (HeldQty = 0) = (HeldCost = 0)
  /\ Cap \in Nat \ {0} \/ Cap = None
  /\ AlwaysOpen \in BOOLEAN /\ MinTrail \in Nat /\ MaxTrail \in Nat
  /\ Replay \in Nat /\ MaxOrders \in Nat /\ MaxStops \in Nat /\ MaxClock \in Nat
  /\ 1 .. MaxOrders \subseteq OrderId

VARIABLES
  engine,   \* the engine's fields, and why it threw
  ltp,      \* the price ctx.ltp() gives, or None
  clock     \* session events up to now

vars == <<engine, ltp, clock>>

-----------------------------------------------------------------------------
(* Orders and stops, numbered in the order they were placed.               *)

Live(o)       == o.status \in {"AMO", "OPEN"}
Active(s)     == s.status \in {"PENDING_ENTRY", "ARMED", "TRAILING", "TRIGGERED"}
Protecting(s) == s.status \in {"ARMED", "TRAILING", "TRIGGERED"}

Net(e, product) == e.books[product].netQty
DirectionOf(net) == IF net > 0 THEN "LONG" ELSE "SHORT"
Opens(net, direction) == net # 0 /\ DirectionOf(net) = direction

OpenAt(time)     == AlwaysOpen \/ time % 3 # 0
IntradayAt(time) == AlwaysOpen \/ time % 3 = 1

\* A throw: the call ends there, and nothing is modelled after it.
Broken(e, why) == [e EXCEPT !.broken = IF @ = "" THEN why ELSE @]

LiveOrders(e)        == {i \in DOMAIN e.orders : Live(e.orders[i])}
OpenOrders(e)        == {i \in DOMAIN e.orders : e.orders[i].status = "OPEN"}
OrdersIn(e, product) == {i \in DOMAIN e.orders : e.orders[i].product = product}
StopsOn(e, product)  == {t \in DOMAIN e.stops : e.stops[t].product = product}

Cancelled(record) == [record EXCEPT !.status = "CANCELLED"]
\* The whole of the sequence made: SubSeq only makes it a tuple for TLC, whose EXCEPT needs one.
CancelIn(s, I) == SubSeq([i \in 1 .. Len(s) |-> IF i \in I THEN Cancelled(s[i]) ELSE s[i]], 1, Len(s))
EndOrders(e, I) == [e EXCEPT !.orders = CancelIn(@, I)]
EndStops(e, T)  == [e EXCEPT !.stops = CancelIn(@, T)]

\* #entryClosed: the stops attached to entry orders that ended.
EntryClosed(e, I) ==
  EndStops(e, {t \in DOMAIN e.stops : e.stops[t].entry \in I /\ e.stops[t].status = "PENDING_ENTRY"})

CancelledAlone(e, I) == EndOrders([e EXCEPT !.funds = ReleaseAll(@, I), !.capped = @ \ I], I)
CancelledCapped(e, I) == EntryClosed(EndOrders([e EXCEPT !.funds = ReleaseAll(@, I)], I), I)
\* #cancel, of each of these live orders: the stop whose exit it is ends with it.
ExitEnded(e, I) ==
  EndStops(e, {t \in DOMAIN e.stops : e.stops[t].exit \in I /\ e.stops[t].status = "TRIGGERED"})
CancelOrders(e, I) ==
  ExitEnded(EntryClosed(EndOrders([e EXCEPT !.funds = ReleaseAll(@, I), !.capped = @ \ I], I), I), I)

\* #cancelStop, of each of these stops: a working exit is cancelled with it.
CancelStops(e, T) ==
  LET active == {t \in T : Active(e.stops[t])}
  IN  CancelOrders(EndStops(e, active), {i \in LiveOrders(e) : \E t \in active : e.stops[t].exit = i})

\* #protectingStops.
ProtectingStops(e, product) == {t \in StopsOn(e, product) : Protecting(e.stops[t])}

-----------------------------------------------------------------------------
(* The rules an order must pass, with the cash and the shares it may use.  *)

ValueAt(d, now) == IF d.price = None THEN now.ltp ELSE d.price

ValidateOrder(d, now, cash, sellable) ==
  /\ d.product = "INTRADAY" => IntradayAt(now.at)
  /\ ValueAt(d, now) # None
  /\ d.price # None => d.price \in Circuit
  /\ IF d.side = "SELL" THEN d.product = "DELIVERY" => d.qty <= sellable
     ELSE d.qty * ValueAt(d, now) <= cash

BlockAmount(d, now) == IF d.side = "SELL" THEN 0 ELSE d.qty * ValueAt(d, now)

Owned(e) == e.holding.qty + Most(0, Net(e, "DELIVERY"))

DeliverySells(e) ==
  {i \in LiveOrders(e) \cap OrdersIn(e, "DELIVERY") : e.orders[i].side = "SELL"}
Left(o) == o.qty - o.filled
Unfilled(e, I) ==
  SumTo([i \in 1 .. Len(e.orders) |-> IF i \in I THEN Left(e.orders[i]) ELSE 0], Len(e.orders))

SellableOf(e, but) == Owned(e)
\* #sellableQty: what the other live sells leave.
SellableQty(e, but) == Owned(e) - Unfilled(e, DeliverySells(e) \ {but})

NewOrder(d, status, exit) ==
  [side |-> d.side, type |-> d.type, product |-> d.product, qty |-> d.qty, price |-> d.price,
   filled |-> 0, status |-> status, exit |-> exit]

NewStop(p, product, direction, entry) ==
  [status |-> "PENDING_ENTRY", direction |-> direction, trail |-> p.trail,
   activation |-> p.activation, watermark |-> None, stop |-> None, product |-> product,
   exitType |-> p.exitType, offset |-> p.offset, qty |-> 0, entry |-> entry, exit |-> None]

\* previewTrailingStop and validateTrailingStop.
PreviewStop(p, direction, price) ==
  LET armed == ArmedState(direction, p.trail, p.activation)
  IN  StopFromWatermark(direction, p.trail,
        IF Activates(armed, price) THEN price ELSE p.activation)
ValidateTrailingStop(p, direction, price) ==
  /\ IF p.trail.unit = "AMOUNT"
       THEN p.trail.size \in TickSize .. (price * MaxTrail) \div BasisPoints
       ELSE p.trail.size \in MinTrail .. MaxTrail /\ price * p.trail.size >= TickSize * BasisPoints
  /\ p.exitType = "LIMIT" /\ direction = "LONG" =>
       PreviewStop(p, direction, price) - p.offset >= TickSize

-----------------------------------------------------------------------------
(* Fills.                                                                  *)

ClosableQty(e, o) ==
  IF o.side = "SELL" THEN Most(0, Net(e, o.product)) ELSE Most(0, -Net(e, o.product))

\* The cash of a fill.  A resting BUY gives back its block in proportion to the shares filled.
Settled(e, i, qty, price, forced) ==
  LET o       == e.orders[i]
      left    == o.qty - o.filled
      held    == BlockedFor(e.funds, i)
      release == IF qty = left THEN held ELSE MulDivRound(held, qty, left)
  IN  CASE o.side = "SELL" -> [e EXCEPT !.funds = SettleSell(@, qty * price)]
        [] o.side = "BUY" /\ forced -> [e EXCEPT !.funds = SettleForcedBuy(@, i, qty * price)]
        [] o.side = "BUY" /\ ~forced ->
             IF CanSettleBuy(e.funds, qty * price, release)
               THEN [e EXCEPT !.funds = SettleBuy(@, i, qty * price, release)]
               ELSE Broken(e, "FUNDS")

LotKept(e, qty, price) == [e EXCEPT !.salesPnl = @ + qty * price - e.holding.cost]
SellFromHoldings(e, qty, price) ==
  LET cost == MulDivRound(e.holding.cost, qty, e.holding.qty)
  IN  IF e.holding.qty < qty THEN Broken(e, "HOLDINGS")
      ELSE [e EXCEPT !.holding = [qty |-> @.qty - qty, cost |-> @.cost - cost],
                     !.salesPnl = @ + qty * price - cost]

\* The shares of a fill: a delivery sell takes today's first, then those in the holdings.
Booked(e, i, qty, price) ==
  LET o     == e.orders[i]
      today == IF o.side = "SELL" /\ o.product = "DELIVERY"
                 THEN Least(qty, Most(0, Net(e, "DELIVERY"))) ELSE qty
      traded == IF today = 0 THEN e
                ELSE [e EXCEPT !.books[o.product] = ApplyTrade(@, o.side, today, price)]
  IN  IF qty > today THEN SellFromHoldings(traded, qty - today, price) ELSE traded

FollowSameSide(e, t, net) ==
  IF Opens(net, e.stops[t].direction) THEN [e EXCEPT !.stops[t].qty = Abs(net)] ELSE e
\* #followPosition: the open quantity, EXECUTED by its exit, or CANCELLED.
FollowPosition(e, t, net) ==
  LET s    == e.stops[t]
      sold == s.exit # None /\ e.orders[s.exit].filled > 0
      done == s.exit # None /\ e.orders[s.exit].status = "EXECUTED"
      executed == [e EXCEPT !.stops[t].status = "EXECUTED",
                            !.stops[t].qty = IF Opens(net, s.direction) THEN Abs(net) ELSE 0]
  IN  CASE Opens(net, s.direction) /\ ~done -> [e EXCEPT !.stops[t].qty = Abs(net)]
        [] ~(Opens(net, s.direction) /\ ~done) /\ sold ->
             CancelOrders(executed, {s.exit} \cap LiveOrders(e))
        [] ~(Opens(net, s.direction) /\ ~done) /\ ~sold ->
             CancelStops([e EXCEPT !.stops[t].qty = 0], {t})
FollowIf(held, e, t, net) == IF held THEN FollowPosition(e, t, net) ELSE e

\* An attached stop starts from the price of the first fill that opens its position.
Arm(e, t, net, price) ==
  [CancelStops(e, ProtectingStops(e, e.stops[t].product)) EXCEPT !.stops[t] =
     StepTrailingStop([@ EXCEPT !.status = "ARMED", !.qty = Abs(net)], price)]
ArmIf(mine, e, t, net, price) == IF mine THEN Arm(e, t, net, price) ELSE e

\* #coverDeliverySells: the user's sells that no longer fit, oldest kept first.
Uncovered(e) == e
CoverDeliverySells(e) ==
  LET Keep(d, i) ==
        IF i \notin DeliverySells(e) \/ e.orders[i].exit THEN d
        ELSE IF Left(e.orders[i]) <= d.sellable THEN [d EXCEPT !.sellable = @ - Left(e.orders[i])]
        ELSE [d EXCEPT !.over = @ \cup {i}]
      kept[i \in 0 .. Len(e.orders)] ==
        IF i = 0 THEN [over |-> {}, sellable |-> Owned(e)] ELSE Keep(kept[i - 1], i)
  IN  CancelOrders(e, kept[Len(e.orders)].over)

CoveredIf(sold, e) == IF sold THEN CoverDeliverySells(e) ELSE e

\* Every protecting stop of the product, in the order they were placed.
StopsFollow(e, product, net) ==
  LET held == ProtectingStops(e, product)
      followed[t \in 0 .. Len(e.stops)] ==
        IF t = 0 THEN e ELSE FollowIf(t \in held, followed[t - 1], t, net)
  IN  followed[Len(e.stops)]

\* The exits that have nothing left to close are cancelled.
IdleExitsEnd(e, product) ==
  CancelOrders(e, {x \in LiveOrders(e) \cap OrdersIn(e, product) :
                     e.orders[x].exit /\ ClosableQty(e, e.orders[x]) = 0})

\* #afterFill.
AfterFill(e, i, price) ==
  LET o    == e.orders[i]
      net  == Net(e, o.product)
      mine == {t \in DOMAIN e.stops : /\ e.stops[t].entry = i /\ e.stops[t].status = "PENDING_ENTRY"
                                      /\ Opens(net, e.stops[t].direction)}
      armed[t \in 0 .. Len(e.stops)] ==
        IF t = 0 THEN e ELSE ArmIf(t \in mine, armed[t - 1], t, net, price)
      done  == IF o.status = "EXECUTED" THEN {i} ELSE {}
      sold  == o.product = "DELIVERY" /\ o.side = "SELL" /\ o.exit
  IN  CoveredIf(sold, EntryClosed(IdleExitsEnd(
        StopsFollow(armed[Len(e.stops)], o.product, net), o.product), done))

Filled(e, i, qty, price) ==
  LET o      == e.orders[i]
      last   == qty = Left(o)
      filled == [o EXCEPT !.filled = @ + qty, !.status = IF last THEN "EXECUTED" ELSE @]
  IN  IF e.broken # "" THEN e
      ELSE AfterFill([e EXCEPT !.orders[i] = filled, !.capped = IF last THEN @ \ {i} ELSE @], i, price)

\* #execute.  An exit never takes the position past flat.
Execute(e, i, fillQty, price, squareOff) ==
  LET o    == e.orders[i]
      qty  == IF o.exit THEN Least(fillQty, ClosableQty(e, o)) ELSE fillQty
  IN  IF qty = 0 THEN CancelOrders(e, {i})
      ELSE Filled(Booked(Settled(e, i, qty, price, squareOff \/ o.exit), i, qty, price),
                  i, qty, price)

\* matchFill: a LIMIT order fills at its limit, or at the better price when it has just arrived.
Match(e, i, now, onArrival) ==
  LET o       == e.orders[i]
      limit   == o.type = "LIMIT"
      capped  == limit /\ Cap # None
      crosses == ~limit \/ (IF o.side = "BUY" THEN now.ltp <= o.price ELSE now.ltp >= o.price)
      qty     == IF capped THEN Least(o.qty - o.filled, Cap) ELSE o.qty - o.filled
      price   == IF limit /\ ~onArrival THEN o.price ELSE now.ltp
      marked  == IF capped THEN [e EXCEPT !.capped = @ \cup {i}] ELSE e
  IN  IF now.ltp # None /\ ~(capped /\ i \in e.capped) /\ crosses
        THEN Execute(marked, i, qty, price, FALSE) ELSE e

-----------------------------------------------------------------------------
(* What the engine places itself, and the clock.                           *)

\* #placeExit: past the cash and holdings checks, but not the others.  The new order is the last.
PlaceExit(e, d, now) ==
  LET ok == /\ d.price # None => d.price >= TickSize
            /\ ValidateOrder(d, now, d.qty * ValueAt(d, now), d.qty)
  IN  [e EXCEPT !.orders = Append(@, NewOrder(d,
         IF ~ok THEN "REJECTED" ELSE IF OpenAt(now.at) THEN "OPEN" ELSE "AMO", TRUE))]

MatchLast(e, now) ==
  IF e.orders[Len(e.orders)].status = "OPEN" THEN Match(e, Len(e.orders), now, TRUE) ELSE e

\* #triggerStop: one exit for the protected quantity; a refused one leaves the stop REJECTED.
TriggerStop(e, t, now) ==
  LET s    == e.stops[t]
      long == s.direction = "LONG"
      d    == [side |-> IF long THEN "SELL" ELSE "BUY", type |-> s.exitType,
               product |-> s.product, qty |-> s.qty,
               price |-> IF s.exitType = "MARKET" THEN None
                         ELSE IF long THEN s.stop - s.offset ELSE s.stop + s.offset]
      placed == PlaceExit(e, d, now)
      exit   == Len(placed.orders)
  IN  IF placed.orders[exit].status = "REJECTED"
        THEN [placed EXCEPT !.stops[t].exit = exit, !.stops[t].status = "REJECTED"]
        ELSE MatchLast([placed EXCEPT !.stops[t].exit = exit], now)

StepStop(e, t, now) ==
  LET stepped == StepTrailingStop(e.stops[t], now.ltp)
      moved   == [e EXCEPT !.stops[t] = stepped]
  IN  IF stepped.status = "TRIGGERED" THEN TriggerStop(moved, t, now) ELSE moved

\* #reblock.  The rules were checked with the free cash and this block.
Reblock(e, i, amount) ==
  LET held == BlockedFor(e.funds, i)
  IN  CASE amount > held ->
             IF CanBlock(e.funds, amount - held)
               THEN [e EXCEPT !.funds = Block(@, i, amount - held)] ELSE Broken(e, "FUNDS")
        [] amount < held -> [e EXCEPT !.funds = Release(@, i, held - amount)]
        [] amount = held -> e

\* 9:15.  Every AMO is checked again.  An exit is only checked as PlaceExit does.
ReleaseAmo(e, i, now) ==
  LET o    == e.orders[i]
      cash == e.funds.available + BlockedFor(e.funds, i)
      ok   == IF o.exit THEN ValidateOrder(o, now, o.qty * ValueAt(o, now), o.qty)
              ELSE ValidateOrder(o, now, cash, SellableQty(e, i))
      kept == IF o.exit THEN e ELSE Reblock(e, i, BlockAmount(o, now))
      rejected == [e EXCEPT !.funds = ReleaseAll(@, {i}), !.orders[i].status = "REJECTED"]
  IN  IF ok THEN Match([kept EXCEPT !.orders[i].status = "OPEN"], i, now, TRUE)
      ELSE EntryClosed(rejected, {i})

ReleaseAt(e, i, now) ==
  IF e.broken = "" /\ e.orders[i].status = "AMO" THEN ReleaseAmo(e, i, now) ELSE e
ReleaseAmos(e, now) ==
  LET released[i \in 0 .. Len(e.orders)] ==
        IF i = 0 THEN e ELSE ReleaseAt(released[i - 1], i, now)
  IN  released[Len(e.orders)]

OnTick(price) == Most(TickSize, ((2 * price + TickSize) \div (2 * TickSize)) * TickSize)

\* Its part that closes the open position, whatever the cash.
ClosePositionOnly(e, now) ==
  LET book == e.books["INTRADAY"]
      d == [side |-> IF book.netQty > 0 THEN "SELL" ELSE "BUY", type |-> "MARKET",
            product |-> "INTRADAY", qty |-> Abs(book.netQty), price |-> None]
      placed == [e EXCEPT !.orders = Append(@, NewOrder(d, "OPEN", FALSE))]
      price  == IF now.ltp = None THEN OnTick(AveragePrice(book)) ELSE now.ltp
  IN  IF book.netQty = 0 THEN e ELSE Execute(placed, Len(placed.orders), d.qty, price, TRUE)

\* 15:20.
StopsEnded(e, product)   == CancelStops(e, StopsOn(e, product))
CancelOpenIn(e, product) == CancelOrders(e, OpenOrders(e) \cap OrdersIn(e, product))
SquareOffIntraday(e, now) ==
  ClosePositionOnly(CancelOpenIn(StopsEnded(e, "INTRADAY"), "INTRADAY"), now)

\* 15:30.  Day orders end, delivery buys become holdings, and a new day of positions starts.
CancelOpen(e) == CancelOrders(e, OpenOrders(e))
NewDay(e) ==
  LET book == e.books["DELIVERY"]
  IN  [e EXCEPT
        !.holding = IF book.netQty > 0 THEN [qty |-> @.qty + book.netQty,
                                             cost |-> @.cost + book.openCost] ELSE @,
        !.pastPnl = @ + e.salesPnl + e.books["INTRADAY"].realisedPnl + book.realisedPnl,
        !.salesPnl = 0,
        !.books = [p \in Products |-> EmptyPosition]]
CloseDay(e, now) == NewDay(CancelOpen(StopsEnded(SquareOffIntraday(e, now), "DELIVERY")))

RunEvent(e, now) ==
  CASE e.broken # "" -> e
    [] e.broken = "" /\ now.at % 3 = 1 -> ReleaseAmos(e, now)
    [] e.broken = "" /\ now.at % 3 = 2 -> SquareOffIntraday(e, now)
    [] e.broken = "" /\ now.at % 3 = 0 -> CloseDay(e, now)

RunLatest(e, now) == [IF now.at > e.synced THEN RunEvent(e, now) ELSE e EXCEPT !.synced = now.at]
\* #runSchedule.  A clock that went back is followed, and its events run again.
RunSchedule(e, now) ==
  LET ran[at \in 0 .. now.at] ==
        IF at <= e.synced THEN e ELSE RunEvent(ran[at - 1], [now EXCEPT !.at = at])
  IN  [ran[now.at] EXCEPT !.synced = now.at]

\* sync(): the events that are due, every OPEN order, every stop.
MatchAt(e, i, now) ==
  IF e.broken = "" /\ e.orders[i].status = "OPEN" THEN Match(e, i, now, FALSE) ELSE e
MatchOpen(e, now) ==
  LET matched[i \in 0 .. Len(e.orders)] == IF i = 0 THEN e ELSE MatchAt(matched[i - 1], i, now)
  IN  matched[Len(e.orders)]

StepAt(e, t, now) ==
  IF e.broken = "" /\ now.ltp # None /\ e.stops[t].status \in {"ARMED", "TRAILING"}
    THEN StepStop(e, t, now) ELSE e
StepStops(e, now) ==
  LET moved[t \in 0 .. Len(e.stops)] == IF t = 0 THEN e ELSE StepAt(moved[t - 1], t, now)
  IN  moved[Len(e.stops)]

Sync(e, now) == StepStops(MatchOpen(RunSchedule(e, now), now), now)

-----------------------------------------------------------------------------
(* What users ask for.  Each runs after the sync of its call.              *)

KeptUnlessIoc(e, i, ioc) ==
  IF ioc /\ e.orders[i].status = "OPEN" THEN CancelOrders(e, {i}) ELSE e
Placed(e, d, params, now) ==
  LET ok   == ValidateOrder(d, now, e.funds.available, SellableQty(e, 0))
      ioc  == d.validity = "IOC"
      i    == Len(e.orders) + 1
      side == IF d.side = "BUY" THEN "LONG" ELSE "SHORT"
      status == IF ~ok THEN "REJECTED" ELSE IF OpenAt(now.at) THEN "OPEN" ELSE "AMO"
      stored == [e EXCEPT !.orders = Append(@, NewOrder(d, status, FALSE)),
                          !.funds = IF ok THEN Block(@, i, BlockAmount(d, now)) ELSE @,
                          !.stops = IF ok /\ params # None
                            THEN Append(@, NewStop(params, d.product, side, i)) ELSE @]
  IN  IF \/ i \notin OrderId   \* OrderId bounds the orders
         \/ ok /\ ioc /\ ~OpenAt(now.at)
         \/ ok /\ params # None /\ ~ValidateTrailingStop(params, side,
                                      IF now.ltp = None THEN d.price ELSE now.ltp)
        THEN e
      ELSE KeptUnlessIoc(MatchLast(stored, now), i, ioc)

\* modify(): checked again for the shares still to fill, with the cash it already has blocked.
Modified(e, i, change, now) ==
  LET o == e.orders[i]
      d == [side |-> o.side, type |-> change.type, product |-> o.product,
            qty |-> change.qty - o.filled, price |-> change.price]
      cash == e.funds.available + BlockedFor(e.funds, i)
      kept == [Reblock(e, i, BlockAmount(d, now)) EXCEPT
                !.orders[i] = [@ EXCEPT !.type = d.type, !.qty = change.qty, !.price = d.price]]
  IN  IF ~Live(o) \/ change.qty <= o.filled \/ ~ValidateOrder(d, now, cash, SellableQty(e, i))
        THEN e
      ELSE IF o.status = "OPEN" THEN Match(kept, i, now, TRUE) ELSE kept

\* placeTrailingStop(): it replaces the position's stop and starts from the price.
StopPlaced(e, product, params, now) ==
  LET net == Net(e, product)
      fresh == [NewStop(params, product, DirectionOf(net), None) EXCEPT
                 !.status = "ARMED", !.qty = Abs(net)]
      replaced == CancelStops(e, ProtectingStops(e, product))
  IN  IF net = 0 \/ now.ltp = None \/ ~ValidateTrailingStop(params, DirectionOf(net), now.ltp) THEN e
      ELSE [replaced EXCEPT !.stops = Append(@, StepTrailingStop(fresh, now.ltp))]

\* The trail a change gives: as asked, or what a dragged stop price is from the watermark.
Reference(s) == IF s.status = "TRAILING" THEN s.watermark ELSE s.activation
Dragged(s, price) ==
  [unit |-> "AMOUNT",
   size |-> IF s.direction = "LONG" THEN Reference(s) - price ELSE price - Reference(s)]

\* modifyTrailingStop().  A stop price on the wrong side of the reference throws, and changes nothing.
StopModified(e, t, params, dragTo, now) ==
  LET s     == [e.stops[t] EXCEPT !.activation = params.activation]
      trail == IF dragTo = None THEN params.trail ELSE Dragged(s, dragTo)
      stop  == IF s.status = "TRAILING" THEN StopFromWatermark(s.direction, trail, s.watermark)
               ELSE s.stop
      allowed == /\ dragTo # None => /\ ~Reached(s.direction, now.ltp, dragTo)
                                     /\ Reference(s) # None
                                     /\ Dragged(s, dragTo).size > 0
                 /\ ValidateTrailingStop([params EXCEPT !.trail = trail], s.direction, now.ltp)
                 /\ s.status = "TRAILING" => ~Reached(s.direction, now.ltp, stop)
  IN  IF s.status \in {"PENDING_ENTRY", "ARMED", "TRAILING"} /\ now.ltp # None /\ allowed
        THEN [e EXCEPT !.stops[t] = [s EXCEPT !.trail = trail, !.stop = stop,
                !.exitType = params.exitType, !.offset = params.offset]]
        ELSE e

\* closePosition(): its stop, the working orders, then a reduce-only MARKET exit.
PositionClosed(e, product, now) ==
  LET net == Net(e, product)
      unprotected == CancelStops(e, ProtectingStops(e, product))
      alone == CancelOrders(unprotected, LiveOrders(unprotected) \cap OrdersIn(e, product))
      d == [side |-> IF net > 0 THEN "SELL" ELSE "BUY", type |-> "MARKET", product |-> product,
            qty |-> Abs(net), price |-> None]
  IN  IF net = 0 THEN e ELSE MatchLast(PlaceExit(alone, d, now), now)

\* reset().
Emptied(e) ==
  LET alone == LET unprotected == CancelStops(e, DOMAIN e.stops)
            IN  CancelOrders(unprotected, LiveOrders(unprotected))
  IN  IF ~CanReset(alone.funds) THEN Broken(alone, "RESET")
      ELSE [alone EXCEPT !.funds = Reset(@), !.orders = <<>>, !.stops = <<>>, !.capped = {},
              !.books = [p \in Products |-> EmptyPosition], !.holding = [qty |-> 0, cost |-> 0],
              !.salesPnl = 0, !.pastPnl = 0, !.carried = [qty |-> 0, cost |-> 0]]

-----------------------------------------------------------------------------
Init ==
  /\ engine = [orders |-> <<>>, stops |-> <<>>, books |-> [p \in Products |-> EmptyPosition],
               holding |-> [qty |-> HeldQty, cost |-> HeldCost],
               carried |-> [qty |-> HeldQty, cost |-> HeldCost],
               salesPnl |-> 0, pastPnl |-> 0, funds |-> OpeningCredit, capped |-> {},
               synced |-> 0, broken |-> ""]
  /\ ltp = None
  /\ clock = 0

\* A price comes in: ctx.ltp() and ctx.tick().
Tick ==
  /\ engine.broken = ""
  /\ \E p \in Price : ltp' = p
  /\ engine' = [engine EXCEPT !.capped = {}]
  /\ UNCHANGED clock

Elapse ==
  /\ engine.broken = "" /\ clock < MaxClock
  /\ clock' = clock + 1
  /\ UNCHANGED <<engine, ltp>>

\* A call, at the clock: sync(), then what was asked.  The exits it places may pass MaxOrders.
Call(Does(_, _)) ==
  LET now == [ltp |-> ltp, at |-> clock]
  IN  /\ engine.broken = ""
      /\ \E e \in {Sync(engine, now)} : engine' = IF e.broken # "" THEN e ELSE Does(e, now)
      /\ Len(engine'.orders) <= Cardinality(OrderId)
      /\ UNCHANGED <<ltp, clock>>

\* The desk syncs an engine at a tick's own time, which may be behind the clock.
SyncAt ==
  /\ engine.broken = ""
  /\ \E at \in Most(0, clock - Replay) .. clock : engine' = Sync(engine, [ltp |-> ltp, at |-> at])
  /\ Len(engine'.orders) <= Cardinality(OrderId)
  /\ UNCHANGED <<ltp, clock>>

Place ==
  /\ Len(engine.orders) < MaxOrders
  /\ \E d \in Drafts : Call(LAMBDA e, now : Placed(e, d, None, now))

PlaceWithStop ==
  /\ Len(engine.orders) < MaxOrders /\ Len(engine.stops) < MaxStops
  /\ \E d \in Drafts, p \in StopParams : Call(LAMBDA e, now : Placed(e, d, p, now))

Modify ==
  \E i \in DOMAIN engine.orders, c \in Changes : Call(LAMBDA e, now : Modified(e, i, c, now))

CancelOrder ==
  \E i \in DOMAIN engine.orders :
    Call(LAMBDA e, now : CancelOrders(e, {i} \cap LiveOrders(e)))

PlaceTrailingStop ==
  /\ Len(engine.stops) < MaxStops
  /\ \E product \in Products, p \in StopParams :
       Call(LAMBDA e, now : StopPlaced(e, product, p, now))

ModifyTrailingStop ==
  \E t \in DOMAIN engine.stops, p \in StopParams, price \in StopPrices \cup {None} :
    Call(LAMBDA e, now : StopModified(e, t, p, price, now))

CancelTrailingStop ==
  \E t \in DOMAIN engine.stops : Call(LAMBDA e, now : CancelStops(e, {t}))

ClosePosition ==
  /\ Len(engine.orders) < MaxOrders
  /\ \E product \in Products : Call(LAMBDA e, now : PositionClosed(e, product, now))

ResetAccount == Call(LAMBDA e, now : Emptied(e))

Next ==
  \/ Tick \/ Elapse \/ SyncAt
  \/ Place \/ PlaceWithStop \/ Modify \/ CancelOrder
  \/ PlaceTrailingStop \/ ModifyTrailingStop \/ CancelTrailingStop
  \/ ClosePosition \/ ResetAccount

Spec == Init /\ [][Next]_vars

-----------------------------------------------------------------------------
Amounts(Value(_)) == SumTo([i \in 1 .. Len(engine.orders) |-> Value(i)], Len(engine.orders))

Sound == engine.broken = ""

\* Every field of the engine holds a value of its kind.
TypeOK ==
  /\ engine.broken \in {"", "FUNDS", "HOLDINGS", "RESET"}
  /\ engine.funds \in Ledgers
  /\ engine.books \in [Products -> Books]
  /\ engine.holding \in [qty : Nat, cost : Nat]
  /\ engine.capped \subseteq {i \in DOMAIN engine.orders : Live(engine.orders[i])}
  /\ \A i \in DOMAIN engine.orders :
       /\ engine.orders[i].status \in {"AMO", "OPEN", "EXECUTED", "CANCELLED", "REJECTED"}
       /\ engine.orders[i].filled \in 0 .. engine.orders[i].qty
       /\ (engine.orders[i].filled = engine.orders[i].qty) = (engine.orders[i].status = "EXECUTED")

\* Cash is blocked exactly for what live BUY orders may still cost: a LIMIT order's block is its
\* unfilled shares at its limit, an exit (which a modify may block for) never has more than that,
\* nothing else has any, and the ledger's total is their sum.
BlocksCoverBuys ==
  Sound =>
    /\ engine.funds.blocked = Amounts(LAMBDA i : engine.funds.blocks[i])
    /\ \A i \in DOMAIN engine.orders :
         LET o == engine.orders[i]
             worth == IF o.price = None THEN 0 ELSE (o.qty - o.filled) * o.price
         IN  CASE ~(Live(o) /\ o.side = "BUY") -> engine.funds.blocks[i] = 0
               [] Live(o) /\ o.side = "BUY" /\ o.type = "LIMIT" ->
                    engine.funds.blocks[i] \in IF o.exit THEN 0 .. worth ELSE {worth}
               [] OTHER -> engine.funds.blocks[i] >= 0

\* No paisa is made or lost: through partial fills, averages rounded to the paisa, forced buys,
\* the square-off and the close, what the account has is what it opened with plus the P&L it shows.
MoneyAddsUp ==
  Sound =>
    engine.funds.available + engine.funds.blocked + engine.holding.cost
      + SignedCost(engine.books["INTRADAY"]) + SignedCost(engine.books["DELIVERY"])
    = OpeningBalance + engine.carried.cost + engine.pastPnl + engine.salesPnl
      + engine.books["INTRADAY"].realisedPnl + engine.books["DELIVERY"].realisedPnl

\* No share is made or lost across sells out of holdings, exits, the square-off and the close.
SharesAddUp ==
  LET bought(product) == Amounts(LAMBDA i :
        IF engine.orders[i].product # product THEN 0
        ELSE IF engine.orders[i].side = "BUY" THEN engine.orders[i].filled
        ELSE -engine.orders[i].filled)
  IN  Sound => /\ engine.holding.qty + Net(engine, "DELIVERY") = engine.carried.qty + bought("DELIVERY")
               /\ Net(engine, "INTRADAY") = bought("INTRADAY")

\* The user's live delivery sells never ask for more than the account has, although an exit is
\* placed without that check, so none is ever sold uncovered.
SellsAreCovered ==
  Sound => Unfilled(engine, {i \in DeliverySells(engine) : ~engine.orders[i].exit}) <= Owned(engine) /\ Net(engine, "DELIVERY") >= 0

\* A call throws only where a debit balance, which a forced buy leaves, meets a resting BUY: never
\* for shares, for an illegal change of an order's status, or for a block that a reset finds.
OnlyDebitBreaks ==
  ~Sound => engine.broken = "FUNDS" /\ engine.funds.available < 0

\* At most one stop protects a position, it stands on the position's side, and it protects exactly
\* the open quantity, through replacements, partial fills, flips, exits and the session's events.
StopsFollowPositions ==
  Sound => \A t \in DOMAIN engine.stops :
    LET s == engine.stops[t] IN
    Protecting(s) => /\ Opens(Net(engine, s.product), s.direction)
                     /\ s.qty = Abs(Net(engine, s.product))
                     /\ \A u \in DOMAIN engine.stops :
                          engine.stops[u].product = s.product /\ Protecting(engine.stops[u]) => u = t

\* A stop and its order end together: a stop is triggered exactly while its exit works, and waits
\* for its entry only while that is live and has not opened the position.
StopsEndWithOrders ==
  Sound => \A t \in DOMAIN engine.stops :
    LET s == engine.stops[t] IN
    /\ s.exit # None => (s.status = "TRIGGERED") = Live(engine.orders[s.exit])
    /\ s.status = "TRIGGERED" => s.exit # None
    /\ s.status = "PENDING_ENTRY" => Live(engine.orders[s.entry])

\* Once caught up: from 15:20 to the next session nothing intraday is left, after 15:30 nothing but
\* AMOs waits and in a session none does, however late the events run and whatever they set off.
NothingOvernight ==
  Sound /\ ~AlwaysOpen /\ engine.synced = clock =>
    /\ engine.synced % 3 # 1 =>
         /\ Net(engine, "INTRADAY") = 0
         /\ \A i \in DOMAIN engine.orders :
              engine.orders[i].product = "INTRADAY" => ~Live(engine.orders[i])
         /\ \A t \in DOMAIN engine.stops : engine.stops[t].product = "INTRADAY" => ~Active(engine.stops[t])
    /\ \A i \in DOMAIN engine.orders :
         engine.orders[i].status # IF engine.synced % 3 = 0 THEN "OPEN" ELSE "AMO"
=============================================================================
