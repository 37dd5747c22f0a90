--------------------------- MODULE OrderBookProofs ---------------------------
(***************************************************************************)
(* The order book for every set of orders, stops, alerts, versions, prices *)
(* and trails: what rests on it is indexed, ticks only tighten stops, and  *)
(* it does what PlainBook, which has no heaps, does.                       *)
(*                                                                         *)
(* An index is told apart from its stale entries by sequence numbers, so   *)
(* the inductive invariant adds to RestingIsIndexed that no entry is newer *)
(* than its id's last placement; and that stops stand at the stop price of *)
(* their watermark, which is what makes an entry's key say enough.         *)
(*                                                                         *)
(* First come the facts of trailingStop.ts that the heaps rely on and the  *)
(* code's comments state: what stepTrailingStop guarantees of every stop   *)
(* at every price, whatever the tick size and the trail.                   *)
(***************************************************************************)
EXTENDS OrderBook, TLAPS

Prices == Nat \ {0}

\* A stop that trails stands at the stop its trail gives at its watermark.
AtWatermark(s) ==
  s.status = "TRAILING" =>
    /\ s.watermark \in Prices
    /\ s.stop = StopFromWatermark(s.direction, s.trail, s.watermark)

-----------------------------------------------------------------------------
(* Division: \div rounds down, so it keeps an order and undoes a product.  *)

LEMMA DivBounds ==
  ASSUME NEW x \in Int, NEW n \in Nat \ {0}
  PROVE  /\ x \div n \in Int
         /\ (x \div n) * n <= x
         /\ x < (x \div n) * n + n
  OBVIOUS

LEMMA ProductOrder ==
  ASSUME NEW a \in Int, NEW b \in Int, NEW n \in Nat \ {0}, a < b
  PROVE  a * n < b * n
  OBVIOUS

LEMMA DivMonotone ==
  ASSUME NEW x \in Int, NEW y \in Int, NEW n \in Nat \ {0}, x <= y
  PROVE  x \div n <= y \div n
  OBVIOUS

LEMMA DivBelow ==
  ASSUME NEW x \in Int, NEW y \in Int, NEW n \in Nat \ {0}, x < y * n
  PROVE  x \div n < y
  OBVIOUS

LEMMA DivAbove ==
  ASSUME NEW x \in Int, NEW y \in Int, NEW n \in Nat \ {0}, y * n <= x
  PROVE  y <= x \div n
  OBVIOUS

LEMMA FloorBelow ==
  ASSUME NEW x \in Int
  PROVE  FloorToTick(x) \in Int /\ FloorToTick(x) <= x
  BY TrailAssumption, DivBounds DEF FloorToTick

LEMMA CeilAbove ==
  ASSUME NEW x \in Int
  PROVE  CeilToTick(x) \in Int /\ x <= CeilToTick(x)
<1>1. /\ (x + TickSize - 1) \div TickSize \in Int
      /\ x + TickSize - 1 < ((x + TickSize - 1) \div TickSize) * TickSize + TickSize
  BY TrailAssumption, DivBounds
<1>2. ((x + TickSize - 1) \div TickSize) * TickSize \in Int
  BY <1>1, TrailAssumption
<1> QED BY <1>1, <1>2, TrailAssumption DEF CeilToTick

-----------------------------------------------------------------------------
(* The stop a trail gives.                                                 *)

\* The share of a price below it, and the share of a price above it, each strictly.
LEMMA ShareBelow ==
  ASSUME NEW w \in Prices, NEW size \in 1 .. BasisPoints - 1
  PROVE  /\ (w * (BasisPoints + -size) + 0) \div BasisPoints \in Int
         /\ (w * (BasisPoints + -size) + 0) \div BasisPoints < w
<1> DEFINE x == w * (BasisPoints + -size) + 0
<1>1. x \in Int /\ x < w * BasisPoints
  <2>1. (BasisPoints + -size) * w < BasisPoints * w
    BY ProductOrder, TrailAssumption DEF Prices
  <2> QED BY <2>1, TrailAssumption DEF Prices
<1>2. x \div BasisPoints < w
  BY <1>1, DivBelow, TrailAssumption DEF Prices
<1> QED BY <1>1, <1>2, DivBounds, TrailAssumption

LEMMA ShareAbove ==
  ASSUME NEW w \in Prices, NEW size \in 1 .. BasisPoints - 1
  PROVE  /\ (w * (BasisPoints + size) + (BasisPoints - 1)) \div BasisPoints \in Int
         /\ w < (w * (BasisPoints + size) + (BasisPoints - 1)) \div BasisPoints
<1> DEFINE x == w * (BasisPoints + size) + (BasisPoints - 1)
<1>1. x \in Int /\ (w + 1) * BasisPoints <= x
  <2>1. BasisPoints * w < (BasisPoints + size) * w
    BY ProductOrder, TrailAssumption DEF Prices
  <2>2. w * (BasisPoints + size) \in Int /\ w * BasisPoints \in Int
    BY TrailAssumption DEF Prices
  <2> QED BY <2>1, <2>2, TrailAssumption DEF Prices
<1>2. w + 1 <= x \div BasisPoints
  BY <1>1, DivAbove, TrailAssumption DEF Prices
<1>3. x \div BasisPoints \in Int
  BY <1>1, DivBounds, TrailAssumption
<1> QED BY <1>2, <1>3 DEF Prices

\* "on the tick and on the safe side": the stop is strictly below a long position's price and
\* strictly above a short one's, so the price that sets it never triggers it.
THEOREM StopIsSafe ==
  ASSUME NEW d \in Directions, NEW t \in Trails, NEW w \in Prices
  PROVE  /\ StopFromWatermark(d, t, w) \in Int
         /\ ~Reached(d, w, StopFromWatermark(d, t, w))
<1>1. w \in Int /\ w > 0 BY DEF Prices
<1>2. CASE t.unit = "AMOUNT"
  <2>1. t.size \in Nat \ {0} BY <1>2 DEF Trails
  <2>2. CASE d = "LONG"
    <3>1. StopFromWatermark(d, t, w) = FloorToTick(w + -t.size)
      BY <1>2, <2>2 DEF StopFromWatermark
    <3> QED BY <1>1, <2>1, <2>2, <3>1, FloorBelow DEF Reached
  <2>3. CASE d = "SHORT"
    <3>1. StopFromWatermark(d, t, w) = CeilToTick(w + t.size)
      BY <1>2, <2>3 DEF StopFromWatermark
    <3> QED BY <1>1, <2>1, <2>3, <3>1, CeilAbove DEF Reached
  <2> QED BY <2>2, <2>3 DEF Directions
<1>3. CASE t.unit = "PERCENT"
  <2>1. t.size \in 1 .. BasisPoints - 1 BY <1>3 DEF Trails
  <2>2. CASE d = "LONG"
    <3>1. StopFromWatermark(d, t, w) =
            FloorToTick((w * (BasisPoints + -t.size) + 0) \div BasisPoints)
      BY <1>3, <2>2 DEF StopFromWatermark
    <3> QED BY <1>1, <2>1, <2>2, <3>1, ShareBelow, FloorBelow DEF Reached
  <2>3. CASE d = "SHORT"
    <3>1. StopFromWatermark(d, t, w) =
            CeilToTick((w * (BasisPoints + t.size) + (BasisPoints - 1)) \div BasisPoints)
      BY <1>3, <2>3 DEF StopFromWatermark
    <3> QED BY <1>1, <2>1, <2>3, <3>1, ShareAbove, CeilAbove DEF Reached
  <2> QED BY <2>2, <2>3 DEF Directions
<1> QED BY <1>2, <1>3 DEF Trails

\* A stop its trail gives follows the price: the higher the watermark, the higher the stop.
LEMMA StopFollows ==
  ASSUME NEW d \in Directions, NEW t \in Trails, NEW v \in Prices, NEW w \in Prices, v <= w
  PROVE  StopFromWatermark(d, t, v) <= StopFromWatermark(d, t, w)
<1>1. v \in Int /\ w \in Int BY DEF Prices
<1>2. \A x \in Int, y \in Int : x <= y =>
        FloorToTick(x) <= FloorToTick(y) /\ CeilToTick(x) <= CeilToTick(y)
  <2> SUFFICES ASSUME NEW x \in Int, NEW y \in Int, x <= y
               PROVE  FloorToTick(x) <= FloorToTick(y) /\ CeilToTick(x) <= CeilToTick(y)
    OBVIOUS
  <2>1. /\ x \div TickSize <= y \div TickSize
        /\ (x + TickSize - 1) \div TickSize <= (y + TickSize - 1) \div TickSize
    BY DivMonotone, TrailAssumption
  <2>2. /\ x \div TickSize \in Int /\ y \div TickSize \in Int
        /\ (x + TickSize - 1) \div TickSize \in Int /\ (y + TickSize - 1) \div TickSize \in Int
    BY DivBounds, TrailAssumption
  <2>3. \A a \in Int, b \in Int : a <= b => a * TickSize <= b * TickSize
    BY ProductOrder, TrailAssumption
  <2> QED BY <2>1, <2>2, <2>3 DEF FloorToTick, CeilToTick
<1>3. CASE t.unit = "AMOUNT"
  <2>1. t.size \in Nat \ {0} BY <1>3 DEF Trails
  <2>2. CASE d = "LONG"
    <3>1. \A p \in Prices : StopFromWatermark(d, t, p) = FloorToTick(p + -t.size)
      BY <1>3, <2>2 DEF StopFromWatermark
    <3> QED BY <1>1, <1>2, <2>1, <3>1
  <2>3. CASE d = "SHORT"
    <3>1. \A p \in Prices : StopFromWatermark(d, t, p) = CeilToTick(p + t.size)
      BY <1>3, <2>3 DEF StopFromWatermark
    <3> QED BY <1>1, <1>2, <2>1, <3>1
  <2> QED BY <2>2, <2>3 DEF Directions
<1>4. CASE t.unit = "PERCENT"
  <2>1. t.size \in 1 .. BasisPoints - 1 BY <1>4 DEF Trails
  <2>2. \A n \in Nat \ {0}, r \in Int :
          /\ (v * n + r) \div BasisPoints <= (w * n + r) \div BasisPoints
          /\ (v * n + r) \div BasisPoints \in Int /\ (w * n + r) \div BasisPoints \in Int
    <3> SUFFICES ASSUME NEW n \in Nat \ {0}, NEW r \in Int
                 PROVE  /\ (v * n + r) \div BasisPoints <= (w * n + r) \div BasisPoints
                        /\ (v * n + r) \div BasisPoints \in Int
                        /\ (w * n + r) \div BasisPoints \in Int
      OBVIOUS
    <3>1. v * n <= w * n /\ v * n \in Int /\ w * n \in Int BY <1>1, ProductOrder
    <3> QED BY <3>1, DivMonotone, DivBounds, TrailAssumption
  <2>3. /\ BasisPoints + -t.size \in Nat \ {0} /\ BasisPoints + t.size \in Nat \ {0}
        /\ BasisPoints - 1 \in Int
    BY <2>1, TrailAssumption
  <2>4. CASE d = "LONG"
    <3>1. \A p \in Prices : StopFromWatermark(d, t, p) =
            FloorToTick((p * (BasisPoints + -t.size) + 0) \div BasisPoints)
      BY <1>4, <2>4 DEF StopFromWatermark
    <3> DEFINE n        == BasisPoints + -t.size
               share(p) == (p * n + 0) \div BasisPoints
    <3>2. share(v) <= share(w) /\ share(v) \in Int /\ share(w) \in Int
      <4>1. n \in Nat \ {0} BY <2>3
      <4> HIDE DEF n
      <4> QED BY <2>2, <4>1
    <3> HIDE DEF share
    <3>3. FloorToTick(share(v)) <= FloorToTick(share(w)) BY <1>2, <3>2
    <3> QED BY <3>1, <3>3 DEF share, n
  <2>5. CASE d = "SHORT"
    <3>1. \A p \in Prices : StopFromWatermark(d, t, p) =
            CeilToTick((p * (BasisPoints + t.size) + (BasisPoints - 1)) \div BasisPoints)
      BY <1>4, <2>5 DEF StopFromWatermark
    <3> QED BY <1>2, <2>2, <2>3, <3>1
  <2> QED BY <2>4, <2>5 DEF Directions
<1> QED BY <1>3, <1>4 DEF Trails

-----------------------------------------------------------------------------
(* A step.                                                                 *)

\* A trailing stop's ratchet: the better watermark, and the stop its trail gives there.
LEMMA RatchetIs ==
  ASSUME NEW s \in Stops, s.status = "TRAILING", AtWatermark(s), NEW ltp \in Prices
  PROVE  LET best == Better(s.direction, s.watermark, ltp) IN
         /\ best \in Prices
         /\ Ratcheted(s, ltp) =
              [s EXCEPT !.watermark = best, !.stop = StopFromWatermark(s.direction, s.trail, best)]
<1> DEFINE best  == Better(s.direction, s.watermark, ltp)
           at(w) == StopFromWatermark(s.direction, s.trail, w)
<1>1. s.watermark \in Prices /\ s.stop = at(s.watermark) BY DEF AtWatermark
<1>2. s.direction \in Directions /\ s.trail \in Trails BY DEF Stops
<1>3. best \in Prices BY <1>1 DEF Better
<1>4. at(s.watermark) \in Int /\ at(best) \in Int BY <1>1, <1>2, <1>3, StopIsSafe
<1>5. Better(s.direction, at(s.watermark), at(best)) = at(best)
  <2>1. CASE s.direction = "LONG"
    <3>1. s.watermark <= best BY <1>1, <2>1 DEF Better, Prices
    <3>2. at(s.watermark) <= at(best) BY <1>1, <1>2, <1>3, <3>1, StopFollows
    <3> QED BY <1>4, <2>1, <3>2 DEF Better
  <2>2. CASE s.direction = "SHORT"
    <3>1. best <= s.watermark BY <1>1, <2>2 DEF Better, Prices
    <3>2. at(best) <= at(s.watermark) BY <1>1, <1>2, <1>3, <3>1, StopFollows
    <3> QED BY <1>4, <2>2, <3>2 DEF Better
  <2> QED BY <1>2, <2>1, <2>2 DEF Directions
<1> HIDE DEF best, at
<1>6. Ratcheted(s, ltp) = [s EXCEPT !.watermark = best, !.stop = at(best)]
  BY <1>1, <1>5 DEF Ratcheted, best, at
<1> QED BY <1>3, <1>6 DEF best, at

\* What the order book's heaps rest on: a trailing stop triggers exactly when the price is at or
\* through the stop it stands at, and otherwise moves exactly when the price is a better watermark.
THEOREM IndexIsSound ==
  ASSUME NEW s \in Stops, s.status = "TRAILING", AtWatermark(s), NEW ltp \in Prices
  PROVE  /\ Triggers(s, ltp) <=> Reached(s.direction, ltp, s.stop)
         /\ Reached(s.direction, ltp, s.stop) => Better(s.direction, s.watermark, ltp) = s.watermark
         /\ Better(s.direction, s.watermark, ltp) = s.watermark =>
              StepTrailingStop(s, ltp) =
                IF Triggers(s, ltp) THEN [s EXCEPT !.status = "TRIGGERED"] ELSE s
<1> DEFINE d    == s.direction
           best == Better(d, s.watermark, ltp)
           at(w) == StopFromWatermark(d, s.trail, w)
<1>1. s.watermark \in Prices /\ s.stop = at(s.watermark) BY DEF AtWatermark
<1>2. d \in Directions /\ s.trail \in Trails BY DEF Stops
<1>3. best \in Prices /\ Ratcheted(s, ltp) = [s EXCEPT !.watermark = best, !.stop = at(best)]
  BY RatchetIs
<1>4. /\ at(s.watermark) \in Int /\ ~Reached(d, s.watermark, at(s.watermark))
      /\ at(ltp) \in Int /\ ~Reached(d, ltp, at(ltp))
  BY <1>1, <1>2, StopIsSafe
<1>5. Reached(d, ltp, s.stop) => best = s.watermark
  BY <1>1, <1>2, <1>4 DEF Better, Reached, Directions, Prices
<1>6. best # s.watermark => best = ltp BY DEF Better
<1> HIDE DEF best, at
<1>7. StepTrailingStop(s, ltp) = IF Reached(d, ltp, at(best))
        THEN [s EXCEPT !.watermark = best, !.stop = at(best), !.status = "TRIGGERED"]
        ELSE [s EXCEPT !.watermark = best, !.stop = at(best)]
  <2>1. Ratcheted(s, ltp).stop = at(best) BY <1>3 DEF Stops
  <2>2. [Ratcheted(s, ltp) EXCEPT !.status = "TRIGGERED"] =
          [s EXCEPT !.watermark = best, !.stop = at(best), !.status = "TRIGGERED"]
    BY <1>3
  <2> QED BY <1>3, <2>1, <2>2 DEF StepTrailingStop
<1>8. Triggers(s, ltp) <=> Reached(d, ltp, at(best)) BY <1>7 DEF Triggers, Stops
<1>9. best = s.watermark =>
        /\ at(best) = s.stop
        /\ [s EXCEPT !.watermark = best, !.stop = at(best)] = s
        /\ [s EXCEPT !.watermark = best, !.stop = at(best), !.status = "TRIGGERED"] =
             [s EXCEPT !.status = "TRIGGERED"]
  BY <1>1 DEF Stops, at
<1>10. Triggers(s, ltp) <=> Reached(d, ltp, s.stop)
  <2>1. CASE best = s.watermark BY <1>8, <1>9, <2>1
  <2>2. CASE best # s.watermark
    <3>1. best = ltp BY <1>6, <2>2
    <3>2. ~Reached(d, ltp, at(best)) BY <1>4, <3>1 DEF at
    <3> QED BY <1>5, <1>8, <2>2, <3>2
  <2> QED BY <2>1, <2>2
<1> QED BY <1>5, <1>7, <1>8, <1>9, <1>10 DEF best

\* A step keeps a stop at the stop of its watermark, never leaves it on the wrong side of the price
\* without triggering it, and never moves its stop price against the position.
THEOREM StepIsSafe ==
  ASSUME NEW s \in Stops, AtWatermark(s), NEW ltp \in Prices
  PROVE  LET next == StepTrailingStop(s, ltp) IN
         /\ next \in Stops /\ AtWatermark(next) /\ next.direction = s.direction
         /\ next.status = "TRAILING" /\ s.status \in {"ARMED", "TRAILING"} =>
              /\ ~Reached(s.direction, ltp, next.stop)
              /\ Better(s.direction, next.watermark, ltp) = next.watermark
         /\ next.status = "TRAILING" /\ s.status = "TRAILING" =>
              Better(s.direction, s.stop, next.stop) = next.stop
<1> DEFINE d    == s.direction
           next == StepTrailingStop(s, ltp)
           at(w) == StopFromWatermark(d, s.trail, w)
<1>1. d \in Directions /\ s.trail \in Trails BY DEF Stops
<1>2. at(ltp) \in Int /\ ~Reached(d, ltp, at(ltp)) BY <1>1, StopIsSafe
<1>3. Better(d, ltp, ltp) = ltp BY DEF Better
<1>4. CASE s.status = "ARMED" /\ Activates(s, ltp)
  <2>1. next = [s EXCEPT !.status = "TRAILING", !.watermark = ltp, !.stop = at(ltp)]
    BY <1>4 DEF StepTrailingStop, Activated
  <2> QED BY <1>2, <1>3, <1>4, <2>1 DEF Stops, Statuses, AtWatermark, Prices
<1>5. CASE s.status = "TRAILING"
  <2> DEFINE best == Better(d, s.watermark, ltp)
  <2>1. s.watermark \in Prices /\ s.stop = at(s.watermark) BY <1>5 DEF AtWatermark
  <2>2. at(s.watermark) \in Int BY <1>1, <2>1, StopIsSafe
  <2>3. best \in Prices /\ Ratcheted(s, ltp) = [s EXCEPT !.watermark = best, !.stop = at(best)]
    BY <1>5, RatchetIs
  <2>4. at(best) \in Int BY <1>1, <2>3, StopIsSafe
  <2>5. Better(d, best, ltp) = best BY <1>1, <2>1 DEF Better, Prices, Directions
  <2>6. Better(d, s.stop, at(best)) = at(best)
    <3>1. CASE d = "LONG"
      <4>1. s.watermark <= best BY <2>1, <3>1 DEF Better, Prices
      <4>2. at(s.watermark) <= at(best) BY <1>1, <2>1, <2>3, <4>1, StopFollows
      <4> QED BY <2>1, <2>2, <2>4, <3>1, <4>2 DEF Better
    <3>2. CASE d = "SHORT"
      <4>1. best <= s.watermark BY <2>1, <3>2 DEF Better, Prices
      <4>2. at(best) <= at(s.watermark) BY <1>1, <2>1, <2>3, <4>1, StopFollows
      <4> QED BY <2>1, <2>2, <2>4, <3>2, <4>2 DEF Better
    <3> QED BY <1>1, <3>1, <3>2 DEF Directions
  <2> HIDE DEF best, at
  <2>7. Ratcheted(s, ltp).stop = at(best) BY <2>3 DEF Stops
  <2>8. CASE Reached(d, ltp, at(best))
    <3>1. next = [s EXCEPT !.watermark = best, !.stop = at(best), !.status = "TRIGGERED"]
      BY <1>5, <2>3, <2>7, <2>8 DEF StepTrailingStop
    <3> QED BY <2>3, <2>4, <3>1 DEF Stops, Statuses, AtWatermark, Prices
  <2>9. CASE ~Reached(d, ltp, at(best))
    <3>1. next = [s EXCEPT !.watermark = best, !.stop = at(best)]
      BY <1>5, <2>3, <2>7, <2>9 DEF StepTrailingStop
    <3>2. next \in Stops /\ next.direction = d /\ next.trail = s.trail /\ next.watermark = best
          /\ next.stop = at(best)
      BY <2>3, <2>4, <3>1 DEF Stops, Prices
    <3> QED BY <2>3, <2>5, <2>6, <2>9, <3>2 DEF AtWatermark, at
  <2> QED BY <2>8, <2>9
<1>6. CASE s.status # "TRAILING" /\ ~(s.status = "ARMED" /\ Activates(s, ltp))
  <2>1. next = s BY <1>6 DEF StepTrailingStop
  <2> QED BY <1>6, <2>1 DEF Stops
<1> QED BY <1>4, <1>5, <1>6

-----------------------------------------------------------------------------
(* The book and its invariant.                                             *)

OrderHeaps == {"buys", "sells"}
AlertHeaps == {"above", "below"}
Holds(h) == IF h \in OrderHeaps THEN OrderId ELSE IF h \in AlertHeaps THEN AlertId ELSE StopId

AnyEntry == [id : Ids, seq : Nat \ {0}, key : Int]
LiveState(state) == state \in Stops /\ state.status \in {"ARMED", "TRAILING"} /\ AtWatermark(state)

\* No entry is newer than its id's last placement, and each is in a heap of its own kind.
Fresh(hs, seqs) ==
  \A h \in Heaps : \A e \in hs[h] : e.seq <= seqs[e.id] /\ e.id \in Holds(h)

Marked == \A s \in StopId : stops[s] # None => AtWatermark(stops[s].state)

\* What rests on the book has a version.
Versioned == /\ \A o \in OrderId : orders[o] # None => versions[o] # None
             /\ \A s \in StopId : stops[s] # None => versions[s] # None

IInv == TypeOK /\ RestingIsIndexed /\ Marked /\ Versioned /\ Fresh(heaps, placed)

Hits(keys, h, ltp) == \E k \in keys : k[1] = h /\ Acts(h, k[2], ltp)

-----------------------------------------------------------------------------
(* Heaps and keys.                                                         *)

LEMMA InKeys ==
  ASSUME NEW hs, NEW seq, NEW id, NEW h, NEW x
  PROVE  <<h, x>> \in KeysOf(hs, seq, id) <=>
           h \in Heaps /\ \E e \in hs[h] : e.id = id /\ e.seq = seq /\ e.key = x
  BY DEF KeysOf

LEMMA KeysArePairs ==
  ASSUME NEW hs, NEW seq, NEW id, NEW k \in KeysOf(hs, seq, id)
  PROVE  k = <<k[1], k[2]>> /\ k[1] \in Heaps
  BY DEF KeysOf

\* Two heaps with the same entries of an id's sequence number hold it at the same keys.
LEMMA SameKeys ==
  ASSUME NEW hs, NEW gs, NEW seq, NEW id,
         \A h \in Heaps : \A e : e.id = id /\ e.seq = seq => (e \in gs[h] <=> e \in hs[h])
  PROVE  KeysOf(gs, seq, id) = KeysOf(hs, seq, id)
  BY DEF KeysOf

LEMMA PriceType == Price \subseteq Prices /\ Price \subseteq Int /\ \A p \in Price : p < Infinity
  BY BookAssumption DEF Prices

LEMMA OrderKeysType ==
  ASSUME NEW o \in BookOrders
  PROVE  /\ \A k \in OrderKeys(o) : k = <<k[1], k[2]>> /\ k[1] \in OrderHeaps /\ k[2] \in Int
<1>1. o.price \in Int BY PriceType DEF BookOrders
<1>2. \A k \in OrderKeys(o) : k[2] = o.price /\ k[1] \in OrderHeaps /\ k = <<k[1], k[2]>>
  BY DEF OrderKeys, OrderHeaps
<1> QED BY <1>1, <1>2

LEMMA AlertKeysType ==
  ASSUME NEW a \in BookAlerts
  PROVE  \A k \in AlertKeys(a) : k = <<k[1], k[2]>> /\ k[1] \in AlertHeaps /\ k[2] \in Int
<1>1. a.price \in Int BY PriceType DEF BookAlerts
<1>2. \A k \in AlertKeys(a) : k[2] = a.price /\ k[1] \in AlertHeaps /\ k = <<k[1], k[2]>>
  BY DEF AlertKeys, AlertHeaps
<1> QED BY <1>1, <1>2

LEMMA StopKeysType ==
  ASSUME NEW state, LiveState(state)
  PROVE  \A k \in StopKeys(state) :
           k = <<k[1], k[2]>> /\ k[1] \in Heaps \ (OrderHeaps \cup AlertHeaps) /\ k[2] \in Int
<1>1. CASE state.status = "ARMED"
  <2>1. state.activation \in Nat \cup {None} BY DEF LiveState, Stops
  <2> QED BY <1>1, <2>1, BookAssumption
          DEF StopKeys, Heaps, HighFirst, LowFirst, OrderHeaps, AlertHeaps
<1>2. CASE state.status = "TRAILING"
  <2>1. state.watermark \in Int /\ state.stop \in Int
    <3>1. state.watermark \in Prices /\ state.direction \in Directions /\ state.trail \in Trails
          /\ state.stop = StopFromWatermark(state.direction, state.trail, state.watermark)
      BY <1>2 DEF LiveState, AtWatermark, Stops
    <3> QED BY <3>1, StopIsSafe DEF Prices
  <2> QED BY <1>2, <2>1 DEF StopKeys, Heaps, HighFirst, LowFirst, OrderHeaps, AlertHeaps
<1> QED BY <1>1, <1>2 DEF LiveState

\* A placement under a new sequence number indexes the id at its keys, and disturbs no other entry.
LEMMA PushIndexes ==
  ASSUME NEW hs, NEW id, NEW seq, NEW keys,
         \A k \in keys : k = <<k[1], k[2]>> /\ k[1] \in Heaps,
         \A h \in Heaps : \A e \in hs[h] : e.id = id => e.seq # seq
  PROVE  /\ KeysOf(Pushed(hs, id, seq, keys), seq, id) = keys
         /\ \A i, n : <<i, n>> # <<id, seq>> =>
              KeysOf(Pushed(hs, id, seq, keys), n, i) = KeysOf(hs, n, i)
<1> DEFINE gs == Pushed(hs, id, seq, keys)
<1>1. \A h \in Heaps : gs[h] = hs[h] \cup Entries(id, seq, keys, h) BY DEF Pushed
<1>2. \A h, e : e \in Entries(id, seq, keys, h) => e.id = id /\ e.seq = seq BY DEF Entries
<1>3. \A h, x : <<h, x>> \in KeysOf(gs, seq, id) <=> <<h, x>> \in keys
  <2> SUFFICES ASSUME NEW h, NEW x
               PROVE  <<h, x>> \in KeysOf(gs, seq, id) <=> <<h, x>> \in keys
    OBVIOUS
  <2>1. <<h, x>> \in KeysOf(gs, seq, id) <=>
          h \in Heaps /\ \E e \in gs[h] : e.id = id /\ e.seq = seq /\ e.key = x
    BY InKeys
  <2>2. ASSUME h \in Heaps
        PROVE  (\E e \in gs[h] : e.id = id /\ e.seq = seq /\ e.key = x) <=>
                 \E e \in Entries(id, seq, keys, h) : e.key = x
    BY <1>1, <1>2, <2>2
  <2>3. ASSUME h \in Heaps
        PROVE  (\E e \in Entries(id, seq, keys, h) : e.key = x) <=> <<h, x>> \in keys
    <3>1. ASSUME NEW e \in Entries(id, seq, keys, h), e.key = x
          PROVE  <<h, x>> \in keys
      <4>1. PICK k \in keys : k[1] = h /\ k[2] = x BY <3>1 DEF Entries
      <4>2. k = <<k[1], k[2]>> OBVIOUS
      <4> QED BY <4>1, <4>2
    <3>2. ASSUME <<h, x>> \in keys
          PROVE  \E e \in Entries(id, seq, keys, h) : e.key = x
      <4> DEFINE e == [id |-> id, seq |-> seq, key |-> x]
      <4>1. <<h, x>>[1] = h /\ <<h, x>>[2] = x OBVIOUS
      <4>2. e \in Entries(id, seq, keys, h) BY <3>2, <4>1 DEF Entries
      <4> QED BY <4>2
    <3> QED BY <3>1, <3>2
  <2>4. <<h, x>> \in keys => h \in Heaps OBVIOUS
  <2> QED BY <2>1, <2>2, <2>3, <2>4
<1>4. KeysOf(gs, seq, id) = keys
  <2>1. \A k \in KeysOf(gs, seq, id) : k = <<k[1], k[2]>> BY KeysArePairs
  <2> QED BY <1>3, <2>1
<1>5. ASSUME NEW i, NEW n, <<i, n>> # <<id, seq>>
      PROVE  KeysOf(gs, n, i) = KeysOf(hs, n, i)
  BY <1>1, <1>2, <1>5, SameKeys
<1> QED BY <1>4, <1>5

\* What a tick hits in a heap: exactly those that rest there at a key it acts on.
LEMMA HitIs ==
  ASSUME NEW hs, NEW h \in Heaps, NEW held, NEW seqs, NEW ltp, NEW S,
         \A e \in hs[h] : e.id \in S
  PROVE  \A i : i \in Hit(hs[h], h, held, seqs, ltp) <=>
                 i \in S /\ held[i] # None /\ Hits(KeysOf(hs, seqs[i], i), h, ltp)
<1>1. ASSUME NEW i
      PROVE  i \in Hit(hs[h], h, held, seqs, ltp) <=>
               i \in S /\ held[i] # None /\ Hits(KeysOf(hs, seqs[i], i), h, ltp)
  <2>1. i \in Hit(hs[h], h, held, seqs, ltp) <=>
          \E e \in hs[h] : e.id = i /\ held[i] # None /\ e.seq = seqs[i] /\ Acts(h, e.key, ltp)
    BY DEF Hit, Live
  <2>2. ASSUME NEW e \in hs[h], e.id = i, e.seq = seqs[i], Acts(h, e.key, ltp)
        PROVE  Hits(KeysOf(hs, seqs[i], i), h, ltp)
    <3>1. <<h, e.key>> \in KeysOf(hs, seqs[i], i) BY <2>2, InKeys
    <3> QED BY <2>2, <3>1 DEF Hits
  <2>3. ASSUME Hits(KeysOf(hs, seqs[i], i), h, ltp)
        PROVE  \E e \in hs[h] : e.id = i /\ e.seq = seqs[i] /\ Acts(h, e.key, ltp)
    <3>1. PICK k \in KeysOf(hs, seqs[i], i) : k[1] = h /\ Acts(h, k[2], ltp) BY <2>3 DEF Hits
    <3>2. <<h, k[2]>> \in KeysOf(hs, seqs[i], i) BY <3>1, KeysArePairs
    <3>3. PICK e \in hs[h] : e.id = i /\ e.seq = seqs[i] /\ e.key = k[2] BY <3>2, InKeys
    <3> QED BY <3>1, <3>3
  <2> QED BY <2>1, <2>2, <2>3
<1> QED BY <1>1

\* Draining takes off only entries, and never one that rests on the book and waits.
LEMMA DrainKeeps ==
  ASSUME NEW heap \in SUBSET AnyEntry, NEW h \in Heaps, NEW held, NEW seqs, NEW ltp
  PROVE  /\ Drained(heap, h, held, seqs, ltp) \subseteq heap
         /\ \A e \in heap : Live(held, seqs, e) /\ ~Acts(h, e.key, ltp) =>
                              e \in Drained(heap, h, held, seqs, ltp)
<1>1. \A e \in heap : ~Ahead(h, e, e) BY DEF Ahead, AnyEntry
<1> QED BY <1>1 DEF Drained

-----------------------------------------------------------------------------
(* Stops and the keys they wait at.                                        *)

StopHeaps == Heaps \ (OrderHeaps \cup AlertHeaps)


\* Which keys of the stop heaps a tick acts on.
LEMMA ActsIs ==
  ASSUME NEW key, NEW ltp
  PROVE  /\ Acts("longStops", key, ltp) <=> ltp <= key
         /\ Acts("shortStops", key, ltp) <=> ltp >= key
         /\ Acts("longMarks", key, ltp) <=> ltp > key
         /\ Acts("shortMarks", key, ltp) <=> ltp < key
         /\ Acts("longArmed", key, ltp) <=> ltp >= key
         /\ Acts("shortArmed", key, ltp) <=> ltp <= key
  BY DEF Acts, HighFirst, LowFirst

\* A tick that acts on a stop's key is one that would activate it, trigger it or ratchet it.
LEMMA HitsIs ==
  ASSUME NEW state, LiveState(state), NEW ltp \in Prices, ltp < Infinity
  PROVE  /\ state.status = "ARMED" =>
              ((\E h \in StopHeaps : Hits(StopKeys(state), h, ltp)) <=> Activates(state, ltp))
         /\ state.status = "TRAILING" =>
              ((\E h \in StopHeaps : Hits(StopKeys(state), h, ltp)) <=>
                 \/ Reached(state.direction, ltp, state.stop)
                 \/ Better(state.direction, state.watermark, ltp) # state.watermark)
<1>1. state \in Stops /\ state.direction \in Directions BY DEF LiveState, Stops
<1>2. /\ "longArmed" \in StopHeaps /\ "shortArmed" \in StopHeaps /\ "longStops" \in StopHeaps
      /\ "shortStops" \in StopHeaps /\ "longMarks" \in StopHeaps /\ "shortMarks" \in StopHeaps
  BY DEF StopHeaps, Heaps, HighFirst, LowFirst, OrderHeaps, AlertHeaps
<1>3. ASSUME state.status = "ARMED"
      PROVE  (\E h \in StopHeaps : Hits(StopKeys(state), h, ltp)) <=> Activates(state, ltp)
  <2>1. state.activation \in Nat \cup {None} BY <1>1 DEF Stops
  <2> DEFINE long == state.direction = "LONG"
             key  == IF state.activation # None THEN state.activation
                     ELSE IF long THEN 0 ELSE Infinity
             heap == IF long THEN "longArmed" ELSE "shortArmed"
  <2>2. StopKeys(state) = {<<heap, key>>} BY <1>3 DEF StopKeys
  <2>3. heap \in StopHeaps BY <1>2
  <2>4. (\E h \in StopHeaps : Hits(StopKeys(state), h, ltp)) <=> Acts(heap, key, ltp)
    BY <2>2, <2>3 DEF Hits
  <2>5. Acts(heap, key, ltp) <=> IF long THEN ltp >= key ELSE ltp <= key BY ActsIs
  <2>6. ltp >= 0 /\ ltp <= Infinity BY BookAssumption DEF Prices
  <2>7. None \notin Int BY TrailAssumption
  <2> QED BY <2>1, <2>4, <2>5, <2>6, <2>7 DEF Activates
<1>4. ASSUME state.status = "TRAILING"
      PROVE  (\E h \in StopHeaps : Hits(StopKeys(state), h, ltp)) <=>
                 \/ Reached(state.direction, ltp, state.stop)
                 \/ Better(state.direction, state.watermark, ltp) # state.watermark
  <2>1. state.watermark \in Prices BY <1>4 DEF LiveState, AtWatermark
  <2> DEFINE long == state.direction = "LONG"
             at   == IF long THEN "longStops" ELSE "shortStops"
             mark == IF long THEN "longMarks" ELSE "shortMarks"
  <2>2. StopKeys(state) = {<<at, state.stop>>, <<mark, state.watermark>>} BY <1>4 DEF StopKeys
  <2>3. at \in StopHeaps /\ mark \in StopHeaps BY <1>2
  <2>4. (\E h \in StopHeaps : Hits(StopKeys(state), h, ltp)) <=>
          Acts(at, state.stop, ltp) \/ Acts(mark, state.watermark, ltp)
    BY <2>2, <2>3 DEF Hits
  <2>5. Acts(at, state.stop, ltp) <=> Reached(state.direction, ltp, state.stop)
    BY <1>1, ActsIs DEF Reached, Directions
  <2>6. Acts(mark, state.watermark, ltp) <=>
          Better(state.direction, state.watermark, ltp) # state.watermark
    BY <1>1, <2>1, ActsIs DEF Better, Directions, Prices
  <2> QED BY <2>4, <2>5, <2>6
<1> QED BY <1>3, <1>4

\* A tick that hits no key of a stop leaves it as it is; one that hits a key changes or triggers it,
\* and then hits none of the keys it waits at next.
LEMMA HitsSayEnough ==
  ASSUME NEW state, LiveState(state), NEW ltp \in Prices, ltp < Infinity
  PROVE  LET next == StepTrailingStop(state, ltp)
             hit  == \E h \in StopHeaps : Hits(StopKeys(state), h, ltp)
         IN  /\ ~hit => next = state /\ ~Triggers(state, ltp)
             /\ hit /\ ~Triggers(state, ltp) =>
                  /\ next # state /\ LiveState(next)
                  /\ \A h \in StopHeaps : ~Hits(StopKeys(next), h, ltp)
<1> DEFINE next == StepTrailingStop(state, ltp)
           hit  == \E h \in StopHeaps : Hits(StopKeys(state), h, ltp)
<1>1. state \in Stops /\ AtWatermark(state) BY DEF LiveState
<1>2. /\ next \in Stops /\ AtWatermark(next) /\ next.direction = state.direction
      /\ next.status = "TRAILING" =>
           /\ ~Reached(next.direction, ltp, next.stop)
           /\ Better(next.direction, next.watermark, ltp) = next.watermark
  BY <1>1, StepIsSafe DEF LiveState
<1>3. next.status = "TRAILING" =>
        LiveState(next) /\ \A h \in StopHeaps : ~Hits(StopKeys(next), h, ltp)
  <2>1. next.status = "TRAILING" => LiveState(next) BY <1>2 DEF LiveState
  <2> QED BY <1>2, <2>1, HitsIs
<1>4. CASE state.status = "ARMED"
  <2>1. hit <=> Activates(state, ltp) BY <1>4, HitsIs
  <2>2. ~Triggers(state, ltp) BY <1>4 DEF Triggers
  <2>3. Activates(state, ltp) => next.status = "TRAILING"
    BY <1>1, <1>4 DEF StepTrailingStop, Activated, Stops
  <2>4. ~Activates(state, ltp) => next = state BY <1>4 DEF StepTrailingStop
  <2> QED BY <1>3, <1>4, <2>1, <2>2, <2>3, <2>4
<1>5. CASE state.status = "TRAILING"
  <2>1. hit <=> \/ Reached(state.direction, ltp, state.stop)
                \/ Better(state.direction, state.watermark, ltp) # state.watermark
    BY <1>5, HitsIs
  <2>2. /\ Triggers(state, ltp) <=> Reached(state.direction, ltp, state.stop)
        /\ Better(state.direction, state.watermark, ltp) = state.watermark =>
             next = IF Triggers(state, ltp) THEN [state EXCEPT !.status = "TRIGGERED"] ELSE state
    BY <1>1, <1>5, IndexIsSound
  <2>3. ~Triggers(state, ltp) => next.status = "TRAILING"
    <3>1. Ratcheted(state, ltp).status = "TRAILING" BY <1>1, <1>5 DEF Ratcheted, Stops
    <3> QED BY <1>5, <3>1 DEF Triggers, StepTrailingStop
  <2>4. next = state => Better(state.direction, state.watermark, ltp) = state.watermark
    BY <1>2, <1>5
  <2> QED BY <1>3, <2>1, <2>2, <2>3, <2>4
<1> QED BY <1>4, <1>5 DEF LiveState

-----------------------------------------------------------------------------
(* One pass over a stop heap.                                              *)

PassInv(b) ==
  /\ b.stops \in [StopId -> HeldStops \cup {None}]
  /\ \A s \in StopId : b.stops[s] # None => LiveState(b.stops[s].state)
  /\ b.placed \in [Ids -> Nat]
  /\ b.heaps \in [Heaps -> SUBSET AnyEntry]
  /\ Fresh(b.heaps, b.placed)
  /\ \A s \in StopId : b.stops[s] # None =>
       KeysOf(b.heaps, b.placed[s], s) = StopKeys(b.stops[s].state)

Stepped(stop, ltp) == [stop EXCEPT !.state = StepTrailingStop(@, ltp)]
HitBy(b, h, ltp)   == {s \in StopId : b.stops[s] # None /\ Hits(StopKeys(b.stops[s].state), h, ltp)}
MovedBy(b, h, ltp) == {s \in HitBy(b, h, ltp) : ~Triggers(b.stops[s].state, ltp)}

PassHeaps(b, h, ltp) ==
  [g \in Heaps |->
     (IF g = h THEN Drained(b.heaps[h], h, b.stops, b.placed, ltp) ELSE b.heaps[g]) \cup
     UNION {Entries(s, b.placed[s] + 1, StopKeys(Stepped(b.stops[s], ltp).state), g)
              : s \in MovedBy(b, h, ltp)}]

PassResult(b, h, ltp) ==
  LET hit == HitBy(b, h, ltp)
      moved == MovedBy(b, h, ltp)
  IN  [stops |-> [s \in StopId |->
         IF s \in hit \ moved THEN None
         ELSE IF s \in moved THEN Stepped(b.stops[s], ltp) ELSE b.stops[s]],
       placed |-> [i \in Ids |-> IF i \in moved THEN b.placed[i] + 1 ELSE b.placed[i]],
       heaps |-> PassHeaps(b, h, ltp),
       triggered |-> b.triggered \cup {<<s, Stepped(b.stops[s], ltp)>> : s \in hit \ moved},
       moved |-> b.moved \cup {<<s, Stepped(b.stops[s], ltp)>> : s \in moved}]

\* What the pass finds in the heap is every stop with a key it acts on.
LEMMA PassIs ==
  ASSUME NEW b, PassInv(b), NEW h \in StopHeaps, NEW ltp
  PROVE  StopPass(b, h, ltp) = PassResult(b, h, ltp)
<1> DEFINE hit == Hit(b.heaps[h], h, b.stops, b.placed, ltp)
           stepped == [s \in hit |-> [b.stops[s] EXCEPT !.state = StepTrailingStop(@, ltp)]]
           triggered == {s \in hit : Triggers(b.stops[s].state, ltp)}
           moved == hit \ triggered
<1>1. h \in Heaps /\ \A e \in b.heaps[h] : e.id \in StopId
  BY DEF StopHeaps, PassInv, Fresh, Holds
<1>2. hit = HitBy(b, h, ltp)
  <2>1. \A i : i \in Hit(b.heaps[h], h, b.stops, b.placed, ltp) <=>
          i \in StopId /\ b.stops[i] # None /\ Hits(KeysOf(b.heaps, b.placed[i], i), h, ltp)
    BY <1>1, HitIs
  <2>2. \A i : i \in hit <=> i \in HitBy(b, h, ltp) BY <2>1 DEF PassInv, HitBy
  <2> QED BY <2>2
<1>3. moved = MovedBy(b, h, ltp) /\ triggered = HitBy(b, h, ltp) \ MovedBy(b, h, ltp)
  BY <1>2 DEF MovedBy
<1>4. \A s \in hit : stepped[s] = Stepped(b.stops[s], ltp) BY DEF Stepped
<1>5. StopPass(b, h, ltp) =
        [stops |-> [s \in StopId |->
           IF s \in triggered THEN None ELSE IF s \in moved THEN stepped[s] ELSE b.stops[s]],
         placed |-> [i \in Ids |-> IF i \in moved THEN b.placed[i] + 1 ELSE b.placed[i]],
         heaps |-> [g \in Heaps |->
           (IF g = h THEN Drained(b.heaps[h], h, b.stops, b.placed, ltp) ELSE b.heaps[g]) \cup
           UNION {Entries(s, b.placed[s] + 1, StopKeys(stepped[s].state), g) : s \in moved}],
         triggered |-> b.triggered \cup {<<s, stepped[s]>> : s \in triggered},
         moved |-> b.moved \cup {<<s, stepped[s]>> : s \in moved}]
  BY DEF StopPass
<1> HIDE DEF hit, stepped, triggered, moved
<1>6. moved \subseteq hit /\ triggered \subseteq hit BY DEF moved, triggered
<1>7. \A g : {Entries(s, b.placed[s] + 1, StopKeys(stepped[s].state), g) : s \in moved} =
        {Entries(s, b.placed[s] + 1, StopKeys(Stepped(b.stops[s], ltp).state), g) : s \in moved}
  BY <1>4, <1>6
<1>8. /\ {<<s, stepped[s]>> : s \in triggered} = {<<s, Stepped(b.stops[s], ltp)>> : s \in triggered}
      /\ {<<s, stepped[s]>> : s \in moved} = {<<s, Stepped(b.stops[s], ltp)>> : s \in moved}
  BY <1>4, <1>6
<1>9. [s \in StopId |->
           IF s \in triggered THEN None ELSE IF s \in moved THEN stepped[s] ELSE b.stops[s]] =
      [s \in StopId |->
           IF s \in triggered THEN None
           ELSE IF s \in moved THEN Stepped(b.stops[s], ltp) ELSE b.stops[s]]
  BY <1>4, <1>6
<1>10. [g \in Heaps |->
           (IF g = h THEN Drained(b.heaps[h], h, b.stops, b.placed, ltp) ELSE b.heaps[g]) \cup
           UNION {Entries(s, b.placed[s] + 1, StopKeys(stepped[s].state), g) : s \in moved}] =
       PassHeaps(b, h, ltp)
  BY <1>3, <1>7, Zenon DEF PassHeaps
<1>11. HitBy(b, h, ltp) \ MovedBy(b, h, ltp) = triggered BY <1>3
<1> QED BY <1>3, <1>5, <1>8, <1>9, <1>10, <1>11 DEF PassResult

\* A stop that a pass moves stays a live stop of the book.
LEMMA MovedIsLive ==
  ASSUME NEW b, PassInv(b), NEW h \in StopHeaps, NEW ltp \in Prices, ltp < Infinity,
         NEW s \in MovedBy(b, h, ltp)
  PROVE  /\ s \in StopId /\ s \in Ids /\ b.stops[s] # None
         /\ Stepped(b.stops[s], ltp) \in HeldStops /\ Stepped(b.stops[s], ltp) # None
         /\ Stepped(b.stops[s], ltp).state = StepTrailingStop(b.stops[s].state, ltp)
         /\ LiveState(Stepped(b.stops[s], ltp).state)
<1>1. /\ s \in StopId /\ b.stops[s] # None /\ ~Triggers(b.stops[s].state, ltp)
      /\ Hits(StopKeys(b.stops[s].state), h, ltp)
  BY DEF MovedBy, HitBy
<1>2. b.stops[s] \in HeldStops /\ LiveState(b.stops[s].state) BY <1>1 DEF PassInv
<1>3. LiveState(StepTrailingStop(b.stops[s].state, ltp)) BY <1>1, <1>2, HitsSayEnough
<1>4. Stepped(b.stops[s], ltp).state = StepTrailingStop(b.stops[s].state, ltp)
  BY <1>2 DEF Stepped, HeldStops
<1>5. Stepped(b.stops[s], ltp) \in HeldStops
  BY <1>2, <1>3 DEF Stepped, HeldStops, LiveState
<1>6. None \notin HeldStops BY BookAssumption
<1> QED BY <1>1, <1>3, <1>4, <1>5, <1>6 DEF Ids

LEMMA PassKeeps ==
  ASSUME NEW b, PassInv(b), NEW h \in StopHeaps, NEW ltp \in Prices, ltp < Infinity
  PROVE  LET c == StopPass(b, h, ltp) IN
         /\ PassInv(c)
         /\ \A i \in Ids \ StopId : c.placed[i] = b.placed[i]
         /\ \A g \in Heaps \ StopHeaps : c.heaps[g] = b.heaps[g]
<1> DEFINE c == StopPass(b, h, ltp)
           moved == MovedBy(b, h, ltp)
           next(s) == Stepped(b.stops[s], ltp)
           left(g) == IF g = h THEN Drained(b.heaps[h], h, b.stops, b.placed, ltp) ELSE b.heaps[g]
           keys(s) == StopKeys(next(s).state)
<1>1. /\ c.stops = [s \in StopId |->
              IF s \in HitBy(b, h, ltp) \ moved THEN None ELSE IF s \in moved THEN next(s) ELSE b.stops[s]]
      /\ c.placed = [i \in Ids |-> IF i \in moved THEN b.placed[i] + 1 ELSE b.placed[i]]
      /\ c.heaps = [g \in Heaps |-> left(g) \cup
                      UNION {Entries(s, b.placed[s] + 1, keys(s), g) : s \in moved}]
  <2>1. c = PassResult(b, h, ltp) BY PassIs
  <2>2. c.stops = [s \in StopId |->
          IF s \in HitBy(b, h, ltp) \ moved THEN None ELSE IF s \in moved THEN next(s) ELSE b.stops[s]]
    BY <2>1 DEF PassResult
  <2>3. c.placed = [i \in Ids |-> IF i \in moved THEN b.placed[i] + 1 ELSE b.placed[i]]
    BY <2>1 DEF PassResult
  <2>4. c.heaps = [g \in Heaps |-> left(g) \cup
                     UNION {Entries(s, b.placed[s] + 1, keys(s), g) : s \in moved}]
    <3>1. c.heaps = PassHeaps(b, h, ltp) BY <2>1 DEF PassResult
    <3> QED BY <3>1 DEF PassHeaps
  <2> QED BY <2>2, <2>3, <2>4
<1>2. \A s \in moved : /\ s \in StopId /\ s \in Ids /\ next(s) \in HeldStops /\ next(s) # None
                       /\ LiveState(next(s).state)
  BY MovedIsLive
<1>3. h \in Heaps /\ StopHeaps \subseteq Heaps BY DEF StopHeaps
<1>4. /\ \A g \in Heaps : left(g) \subseteq b.heaps[g]
      /\ \A e \in b.heaps[h] : Live(b.stops, b.placed, e) /\ ~Acts(h, e.key, ltp) => e \in left(h)
  BY <1>3, DrainKeeps DEF PassInv
<1>5. \A s \in moved : \A k \in keys(s) : k = <<k[1], k[2]>> /\ k[1] \in StopHeaps /\ k[2] \in Int
  BY <1>2, StopKeysType DEF StopHeaps
<1> HIDE DEF c, moved, next, left, keys
<1>6. \A g \in Heaps : \A e : e \in c.heaps[g] <=>
        \/ e \in left(g)
        \/ \E s \in moved : e \in Entries(s, b.placed[s] + 1, keys(s), g)
  BY <1>1
<1>7. \A s \in moved, g \in Heaps : \A e \in Entries(s, b.placed[s] + 1, keys(s), g) :
        e.id = s /\ e.seq = b.placed[s] + 1 /\ e \in AnyEntry /\ g \in StopHeaps
  <2> SUFFICES ASSUME NEW s \in moved, NEW g \in Heaps,
                      NEW e \in Entries(s, b.placed[s] + 1, keys(s), g)
               PROVE  e.id = s /\ e.seq = b.placed[s] + 1 /\ e \in AnyEntry /\ g \in StopHeaps
    OBVIOUS
  <2>1. PICK k \in keys(s) : k[1] = g /\ e = [id |-> s, seq |-> b.placed[s] + 1, key |-> k[2]]
    BY DEF Entries
  <2>2. b.placed[s] + 1 \in Nat \ {0} BY <1>2 DEF PassInv
  <2> QED BY <1>2, <1>5, <2>1, <2>2 DEF AnyEntry
<1>8. c.stops \in [StopId -> HeldStops \cup {None}]
  BY <1>1, <1>2 DEF PassInv
<1>9. \A s \in StopId : c.stops[s] # None => LiveState(c.stops[s].state)
  BY <1>1, <1>2 DEF PassInv
<1>10. c.placed \in [Ids -> Nat] /\ \A i \in Ids : c.placed[i] >= b.placed[i]
  BY <1>1 DEF PassInv
<1>11. c.heaps \in [Heaps -> SUBSET AnyEntry]
  <2>1. \A g \in Heaps : c.heaps[g] \subseteq AnyEntry BY <1>4, <1>6, <1>7 DEF PassInv
  <2>2. c.heaps = [g \in Heaps |-> c.heaps[g]] BY <1>1
  <2> QED BY <2>1, <2>2
<1>12. Fresh(c.heaps, c.placed)
  <2> SUFFICES ASSUME NEW g \in Heaps, NEW e \in c.heaps[g]
               PROVE  e.seq <= c.placed[e.id] /\ e.id \in Holds(g)
    BY DEF Fresh
  <2>1. CASE e \in left(g)
    <3>1. e \in AnyEntry /\ e.seq <= b.placed[e.id] /\ e.id \in Holds(g)
      BY <1>4, <2>1 DEF PassInv, Fresh
    <3>2. e.id \in Ids /\ e.seq \in Nat BY <3>1 DEF AnyEntry
    <3> QED BY <1>10, <3>1, <3>2 DEF PassInv
  <2>2. CASE \E s \in moved : e \in Entries(s, b.placed[s] + 1, keys(s), g)
    <3>1. PICK s \in moved : e \in Entries(s, b.placed[s] + 1, keys(s), g) BY <2>2
    <3>2. e.id = s /\ e.seq = b.placed[s] + 1 /\ g \in StopHeaps BY <1>7, <3>1
    <3>3. c.placed[s] = b.placed[s] + 1 /\ c.placed[s] \in Nat BY <1>1, <1>2, <1>10
    <3> QED BY <1>2, <3>2, <3>3 DEF Holds, StopHeaps
  <2> QED BY <1>6, <2>1, <2>2
<1>13. ASSUME NEW s \in StopId, c.stops[s] # None
       PROVE  KeysOf(c.heaps, c.placed[s], s) = StopKeys(c.stops[s].state)
  <2>0. s \in Ids /\ b.placed[s] \in Nat BY DEF PassInv, Ids
  <2>1. CASE s \in moved
    <3>1. c.placed[s] = b.placed[s] + 1 /\ c.stops[s] = next(s) BY <1>1, <1>2, <2>1 DEF moved, MovedBy
    <3>2. \A g \in Heaps : \A e : e.id = s /\ e.seq = c.placed[s] =>
            (e \in c.heaps[g] <=> e \in Pushed([f \in Heaps |-> {}], s, b.placed[s] + 1, keys(s))[g])
      <4> SUFFICES ASSUME NEW g \in Heaps, NEW e, e.id = s, e.seq = c.placed[s]
                   PROVE  e \in c.heaps[g] <=> e \in Entries(s, b.placed[s] + 1, keys(s), g)
        BY DEF Pushed
      <4>1. e \notin left(g)
        <5>1. ASSUME e \in b.heaps[g] PROVE FALSE
          <6>1. e.seq <= b.placed[s] BY <5>1 DEF PassInv, Fresh
          <6> QED BY <2>0, <3>1, <6>1
        <5> QED BY <1>4, <5>1
      <4>2. \A r \in moved : e \in Entries(r, b.placed[r] + 1, keys(r), g) => r = s BY <1>7
      <4> QED BY <1>6, <2>1, <4>1, <4>2
    <3>3. KeysOf(Pushed([f \in Heaps |-> {}], s, b.placed[s] + 1, keys(s)), c.placed[s], s) = keys(s)
      <4>1. \A k \in keys(s) : k = <<k[1], k[2]>> /\ k[1] \in Heaps BY <1>3, <1>5, <2>1
      <4>2. \A g \in Heaps : \A e \in [f \in Heaps |-> {}][g] : e.id = s => e.seq # b.placed[s] + 1
        OBVIOUS
      <4> QED BY <3>1, <4>1, <4>2, PushIndexes
    <3>4. KeysOf(c.heaps, c.placed[s], s) = keys(s) BY <3>2, <3>3, SameKeys
    <3> QED BY <3>1, <3>4 DEF keys
  <2>2. CASE s \notin moved
    <3>1. c.placed[s] = b.placed[s] /\ c.stops[s] = b.stops[s] /\ s \notin HitBy(b, h, ltp)
      BY <1>1, <1>13, <2>0, <2>2
    <3>2. \A g \in Heaps : \A e : e.id = s /\ e.seq = b.placed[s] =>
            (e \in c.heaps[g] <=> e \in b.heaps[g])
      <4> SUFFICES ASSUME NEW g \in Heaps, NEW e, e.id = s, e.seq = b.placed[s]
                   PROVE  e \in c.heaps[g] <=> e \in b.heaps[g]
        OBVIOUS
      <4>1. \A r \in moved : e \notin Entries(r, b.placed[r] + 1, keys(r), g) BY <1>7, <2>2
      <4>2. e \in b.heaps[g] => e \in left(g)
        <5>1. CASE g # h BY <5>1 DEF left
        <5>2. CASE g = h
          <6> SUFFICES ASSUME e \in b.heaps[h] PROVE e \in left(h) BY <5>2
          <6>1. <<h, e.key>> \in StopKeys(b.stops[s].state)
            <7>1. <<h, e.key>> \in KeysOf(b.heaps, b.placed[s], s) BY <1>3, InKeys
            <7> QED BY <1>13, <3>1, <7>1 DEF PassInv
          <6>2. ~Acts(h, e.key, ltp) BY <1>13, <3>1, <6>1 DEF HitBy, Hits
          <6>3. Live(b.stops, b.placed, e) BY <1>13, <3>1 DEF Live
          <6> QED BY <1>4, <6>2, <6>3
        <5> QED BY <5>1, <5>2
      <4> QED BY <1>4, <1>6, <4>1, <4>2
    <3>3. KeysOf(c.heaps, b.placed[s], s) = KeysOf(b.heaps, b.placed[s], s) BY <3>2, SameKeys
    <3> QED BY <1>13, <3>1, <3>3 DEF PassInv
  <2> QED BY <2>1, <2>2
<1>14. \A i \in Ids \ StopId : c.placed[i] = b.placed[i] BY <1>1, <1>2
<1>15. \A g \in Heaps \ StopHeaps : c.heaps[g] = b.heaps[g]
  <2> SUFFICES ASSUME NEW g \in Heaps \ StopHeaps PROVE c.heaps[g] = b.heaps[g] OBVIOUS
  <2>1. left(g) = b.heaps[g] BY DEF left
  <2>2. \A e : e \in c.heaps[g] <=> e \in b.heaps[g] BY <1>6, <1>7, <2>1
  <2> QED BY <1>1, <2>2
<1> QED BY <1>8, <1>9, <1>10, <1>11, <1>12, <1>13, <1>14, <1>15 DEF PassInv, c

-----------------------------------------------------------------------------
(* The six passes together step every stop once.                           *)

\* The stops on the book that a tick acts on in some of the heaps, and those of them it triggers.
Acted(ltp, done) ==
  {s \in StopId : stops[s] # None /\ \E h \in done : Hits(StopKeys(stops[s].state), h, ltp)}
ActedOff(ltp, done) == {s \in Acted(ltp, done) : Triggers(stops[s].state, ltp)}

\* After the passes over some heaps: what they acted on has been stepped once, the rest is as it was.
Outcome(b, ltp, done) ==
  LET acted == Acted(ltp, done)  off == ActedOff(ltp, done) IN
  /\ b.stops = [s \in StopId |->
       IF s \in off THEN None ELSE IF s \in acted THEN Stepped(stops[s], ltp) ELSE stops[s]]
  /\ b.triggered = {<<s, Stepped(stops[s], ltp)>> : s \in off}
  /\ b.moved = {<<s, Stepped(stops[s], ltp)>> : s \in acted \ off}

LEMMA StandingIsFine ==
  ASSUME IInv
  PROVE  /\ PassInv(Standing)
         /\ \A s \in StopId : stops[s] # None => stops[s] \in HeldStops /\ LiveState(stops[s].state)
<1>1. \A s \in StopId : stops[s] # None => stops[s] \in HeldStops /\ LiveState(stops[s].state)
  BY DEF IInv, TypeOK, Marked, LiveState, HeldStops
<1>2. placed \in [Ids -> Nat] BY BookAssumption DEF IInv, TypeOK
<1>3. Entry \subseteq AnyEntry BY DEF Entry, AnyEntry
<1>4. heaps \in [Heaps -> SUBSET AnyEntry] BY <1>3 DEF IInv, TypeOK
<1>5. stops \in [StopId -> HeldStops \cup {None}] BY DEF IInv, TypeOK
<1>6. Fresh(heaps, placed) BY DEF IInv
<1>7. \A s \in StopId : stops[s] # None => KeysOf(heaps, placed[s], s) = StopKeys(stops[s].state)
  BY DEF IInv, RestingIsIndexed
<1> QED BY <1>1, <1>2, <1>4, <1>5, <1>6, <1>7 DEF PassInv, Standing

LEMMA PassOutcome ==
  ASSUME IInv, NEW b, PassInv(b), NEW h \in StopHeaps, NEW ltp \in Prices, ltp < Infinity,
         NEW done \in SUBSET StopHeaps, Outcome(b, ltp, done)
  PROVE  Outcome(StopPass(b, h, ltp), ltp, done \cup {h})
<1> DEFINE c == StopPass(b, h, ltp)
           now == done \cup {h}
           next(s) == Stepped(stops[s], ltp)
           moved == MovedBy(b, h, ltp)
           off == HitBy(b, h, ltp) \ moved
<1>1. \A s \in StopId : stops[s] # None => stops[s] \in HeldStops /\ LiveState(stops[s].state)
  BY StandingIsFine
<1>2. \A s \in StopId : b.stops[s] =
        IF s \in ActedOff(ltp, done) THEN None
        ELSE IF s \in Acted(ltp, done) THEN next(s) ELSE stops[s]
  BY DEF Outcome
<1>3. \A s \in Acted(ltp, done) \ ActedOff(ltp, done) :
        \A g \in StopHeaps : ~Hits(StopKeys(next(s).state), g, ltp)
  <2> SUFFICES ASSUME NEW s \in Acted(ltp, done), ~Triggers(stops[s].state, ltp)
               PROVE  \A g \in StopHeaps : ~Hits(StopKeys(next(s).state), g, ltp)
    BY DEF ActedOff
  <2>1. /\ s \in StopId /\ stops[s] # None
        /\ \E g \in StopHeaps : Hits(StopKeys(stops[s].state), g, ltp)
    BY DEF Acted
  <2>2. next(s).state = StepTrailingStop(stops[s].state, ltp) BY <1>1, <2>1 DEF Stepped, HeldStops
  <2> QED BY <1>1, <2>1, <2>2, HitsSayEnough
<1>4. \A s : s \in HitBy(b, h, ltp) <=> s \in Acted(ltp, now) /\ s \notin Acted(ltp, done)
  <2> SUFFICES ASSUME NEW s \in StopId
               PROVE  s \in HitBy(b, h, ltp) <=> s \in Acted(ltp, now) /\ s \notin Acted(ltp, done)
    BY DEF HitBy, Acted
  <2>1. CASE s \in Acted(ltp, done)
    BY <1>2, <1>3, <2>1 DEF HitBy, ActedOff
  <2>2. CASE s \notin Acted(ltp, done)
    <3>1. b.stops[s] = stops[s] BY <1>2, <2>2 DEF ActedOff
    <3> QED BY <2>2, <3>1 DEF HitBy, Acted
  <2> QED BY <2>1, <2>2
<1>5. \A s \in HitBy(b, h, ltp) : b.stops[s] = stops[s] /\ Stepped(b.stops[s], ltp) = next(s)
  BY <1>2, <1>4 DEF ActedOff, HitBy
<1>6. /\ \A s : s \in moved <=> s \in HitBy(b, h, ltp) /\ ~Triggers(stops[s].state, ltp)
      /\ \A s : s \in off <=> s \in HitBy(b, h, ltp) /\ Triggers(stops[s].state, ltp)
  BY <1>5 DEF MovedBy
<1>7. \A s : s \in Acted(ltp, done) => s \in Acted(ltp, now) BY DEF Acted
<1>8. /\ \A s : s \in ActedOff(ltp, now) <=> s \in ActedOff(ltp, done) \/ s \in off
      /\ \A s : s \in Acted(ltp, now) \ ActedOff(ltp, now) <=>
                  s \in Acted(ltp, done) \ ActedOff(ltp, done) \/ s \in moved
  BY <1>4, <1>6, <1>7 DEF ActedOff
<1>9. /\ c.stops = [s \in StopId |->
              IF s \in off THEN None ELSE IF s \in moved THEN Stepped(b.stops[s], ltp) ELSE b.stops[s]]
      /\ c.triggered = b.triggered \cup {<<s, Stepped(b.stops[s], ltp)>> : s \in off}
      /\ c.moved = b.moved \cup {<<s, Stepped(b.stops[s], ltp)>> : s \in moved}
  <2>1. /\ StopPass(b, h, ltp).stops = [s \in StopId |->
              IF s \in HitBy(b, h, ltp) \ MovedBy(b, h, ltp) THEN None
              ELSE IF s \in MovedBy(b, h, ltp) THEN Stepped(b.stops[s], ltp) ELSE b.stops[s]]
        /\ StopPass(b, h, ltp).triggered = b.triggered \cup
              {<<s, Stepped(b.stops[s], ltp)>> : s \in HitBy(b, h, ltp) \ MovedBy(b, h, ltp)}
        /\ StopPass(b, h, ltp).moved = b.moved \cup
              {<<s, Stepped(b.stops[s], ltp)>> : s \in MovedBy(b, h, ltp)}
    BY PassIs DEF PassResult
  <2> QED BY <2>1
<1>10. off \subseteq HitBy(b, h, ltp) /\ moved \subseteq HitBy(b, h, ltp) BY <1>6
<1> HIDE DEF c, now, next, moved, off
<1>11. c.stops = [s \in StopId |-> IF s \in ActedOff(ltp, now) THEN None
                                   ELSE IF s \in Acted(ltp, now) THEN next(s) ELSE stops[s]]
  <2>1. \A s \in StopId : c.stops[s] = IF s \in ActedOff(ltp, now) THEN None
                                   ELSE IF s \in Acted(ltp, now) THEN next(s) ELSE stops[s]
    <3> SUFFICES ASSUME NEW s \in StopId
                 PROVE  c.stops[s] = IF s \in ActedOff(ltp, now) THEN None
                                     ELSE IF s \in Acted(ltp, now) THEN next(s) ELSE stops[s]
      OBVIOUS
    <3>1. CASE s \in HitBy(b, h, ltp)
      <4>1. s \in Acted(ltp, now) /\ s \notin Acted(ltp, done) BY <1>4, <3>1
      <4>2. s \in ActedOff(ltp, now) <=> s \in off BY <1>8, <4>1 DEF ActedOff
      <4>3. s \in off \/ s \in moved BY <1>6, <3>1
      <4> QED BY <1>5, <1>6, <1>9, <3>1, <4>1, <4>2, <4>3
    <3>2. CASE s \notin HitBy(b, h, ltp)
      <4>1. s \notin off /\ s \notin moved BY <1>10, <3>2
      <4>2. c.stops[s] = b.stops[s] BY <1>9, <4>1
      <4>3. s \in ActedOff(ltp, now) <=> s \in ActedOff(ltp, done) BY <1>8, <4>1
      <4>4. s \in Acted(ltp, now) <=> s \in Acted(ltp, done) BY <1>4, <1>7, <3>2
      <4> QED BY <1>2, <4>2, <4>3, <4>4
    <3> QED BY <3>1, <3>2
  <2> QED BY <1>9, <2>1
<1>12. c.triggered = {<<s, next(s)>> : s \in ActedOff(ltp, now)}
  <2>1. b.triggered = {<<s, next(s)>> : s \in ActedOff(ltp, done)} BY Zenon DEF Outcome, next
  <2>2. {<<s, Stepped(b.stops[s], ltp)>> : s \in off} = {<<s, next(s)>> : s \in off}
    BY <1>5, <1>10
  <2> QED BY <1>8, <1>9, <2>1, <2>2
<1>13. c.moved = {<<s, next(s)>> : s \in Acted(ltp, now) \ ActedOff(ltp, now)}
  <2>1. b.moved = {<<s, next(s)>> : s \in Acted(ltp, done) \ ActedOff(ltp, done)}
    BY Zenon DEF Outcome, next
  <2>2. {<<s, Stepped(b.stops[s], ltp)>> : s \in moved} = {<<s, next(s)>> : s \in moved}
    BY <1>5, <1>10
  <2> QED BY <1>8, <1>9, <2>1, <2>2
<1> QED BY <1>11, <1>12, <1>13 DEF Outcome, c, now, next

\* A tick's six passes: the index stays sound, and every stop they act on has been stepped once.
LEMMA SixPasses ==
  ASSUME IInv, NEW ltp \in Prices, ltp < Infinity
  PROVE  /\ PassInv(StopsAfter(ltp)) /\ Outcome(StopsAfter(ltp), ltp, StopHeaps)
         /\ \A i \in Ids \ StopId : StopsAfter(ltp).placed[i] = placed[i]
         /\ \A g \in Heaps \ StopHeaps : StopsAfter(ltp).heaps[g] = heaps[g]
<1> DEFINE Good(b, done) ==
             /\ PassInv(b) /\ Outcome(b, ltp, done)
             /\ \A i \in Ids \ StopId : b.placed[i] = placed[i]
             /\ \A g \in Heaps \ StopHeaps : b.heaps[g] = heaps[g]
<1>1. Good(Standing, {})
  <2>1. Acted(ltp, {}) = {} /\ ActedOff(ltp, {}) = {} BY DEF Acted, ActedOff
  <2>2. stops = [s \in StopId |-> stops[s]] BY DEF IInv, TypeOK
  <2>3. /\ Standing.stops = stops /\ Standing.triggered = {} /\ Standing.moved = {}
        /\ Standing.placed = placed /\ Standing.heaps = heaps
    BY DEF Standing
  <2>4. Outcome(Standing, ltp, {}) BY <2>1, <2>2, <2>3 DEF Outcome
  <2> QED BY <2>3, <2>4, StandingIsFine
<1>2. ASSUME NEW b, NEW done \in SUBSET StopHeaps, Good(b, done), NEW h \in StopHeaps
      PROVE  Good(StopPass(b, h, ltp), done \cup {h})
  BY <1>2, PassKeeps, PassOutcome
<1>3. StopHeaps = {"longStops", "shortStops", "longMarks", "shortMarks", "longArmed", "shortArmed"}
  BY DEF StopHeaps, Heaps, HighFirst, LowFirst, OrderHeaps, AlertHeaps
<1> HIDE DEF Good
<1> DEFINE D1 == {} \cup {"longStops"}    D2 == D1 \cup {"shortStops"}
           D3 == D2 \cup {"longMarks"}    D4 == D3 \cup {"shortMarks"}
           D5 == D4 \cup {"longArmed"}    D6 == D5 \cup {"shortArmed"}
<1>4. /\ {} \subseteq StopHeaps /\ D1 \subseteq StopHeaps /\ D2 \subseteq StopHeaps
      /\ D3 \subseteq StopHeaps /\ D4 \subseteq StopHeaps /\ D5 \subseteq StopHeaps
      /\ D6 = StopHeaps
  BY <1>3
<1>5. Good(TriggersDone(ltp), D2)
  <2>1. Good(StopPass(Standing, "longStops", ltp), D1) BY <1>1, <1>2, <1>3, <1>4
  <2> HIDE DEF D1
  <2> QED BY <1>2, <1>3, <1>4, <2>1 DEF TriggersDone
<1> HIDE DEF D2
<1>6. Good(RatchetsDone(ltp), D4)
  <2>1. Good(StopPass(TriggersDone(ltp), "longMarks", ltp), D3) BY <1>2, <1>3, <1>4, <1>5
  <2> HIDE DEF D3
  <2> QED BY <1>2, <1>3, <1>4, <2>1 DEF RatchetsDone
<1> HIDE DEF D4
<1>7. Good(StopsAfter(ltp), D6)
  <2>1. Good(StopPass(RatchetsDone(ltp), "longArmed", ltp), D5) BY <1>2, <1>3, <1>4, <1>6
  <2> HIDE DEF D5
  <2> QED BY <1>2, <1>3, <1>4, <2>1 DEF StopsAfter
<1> QED BY <1>4, <1>7 DEF Good

-----------------------------------------------------------------------------
(* A tick over the whole book.                                             *)

\* What a tick crosses, triggers and fires is what looking at everything would find.
LEMMA TickFinds ==
  ASSUME IInv, NEW ltp \in Price
  PROVE  /\ \A h \in OrderHeaps : Hit(heaps[h], h, orders, placed, ltp) =
              {o \in OrderId : orders[o] # None /\ Hits(OrderKeys(orders[o]), h, ltp)}
         /\ \A h \in AlertHeaps : Hit(heaps[h], h, alerts, placed, ltp) =
              {a \in AlertId : alerts[a] # None /\ Hits(AlertKeys(alerts[a]), h, ltp)}
<1>1. ASSUME NEW h \in OrderHeaps
      PROVE  Hit(heaps[h], h, orders, placed, ltp) =
              {o \in OrderId : orders[o] # None /\ Hits(OrderKeys(orders[o]), h, ltp)}
  <2>1. h \in Heaps /\ \A e \in heaps[h] : e.id \in OrderId
    BY DEF OrderHeaps, Heaps, HighFirst, LowFirst, IInv, Fresh, Holds
  <2>2. \A i : i \in Hit(heaps[h], h, orders, placed, ltp) <=>
          i \in OrderId /\ orders[i] # None /\ Hits(KeysOf(heaps, placed[i], i), h, ltp)
    BY <2>1, HitIs
  <2> QED BY <2>2 DEF IInv, RestingIsIndexed
<1>2. ASSUME NEW h \in AlertHeaps
      PROVE  Hit(heaps[h], h, alerts, placed, ltp) =
              {a \in AlertId : alerts[a] # None /\ Hits(AlertKeys(alerts[a]), h, ltp)}
  <2>1. h \in Heaps /\ \A e \in heaps[h] : e.id \in AlertId
    BY DEF AlertHeaps, OrderHeaps, Heaps, HighFirst, LowFirst, IInv, Fresh, Holds
  <2>2. \A i : i \in Hit(heaps[h], h, alerts, placed, ltp) <=>
          i \in AlertId /\ alerts[i] # None /\ Hits(KeysOf(heaps, placed[i], i), h, ltp)
    BY <2>1, HitIs
  <2> QED BY <2>2 DEF IInv, RestingIsIndexed
<1> QED BY <1>1, <1>2

\* Every stop is stepped once: those a tick acts on in its passes, and the rest where they stand.
LEMMA AllStepped ==
  ASSUME IInv, NEW ltp \in Prices, ltp < Infinity
  PROVE  LET off == {s \in StopId : stops[s] # None /\ Triggers(stops[s].state, ltp)}
             next(s) == Stepped(stops[s], ltp)
             after == StopsAfter(ltp)
         IN  /\ after.stops = [s \in StopId |->
                   IF stops[s] = None \/ s \in off THEN None ELSE next(s)]
             /\ after.triggered = {<<s, next(s)>> : s \in off}
             /\ after.moved = {<<s, next(s)>> :
                   s \in {s \in StopId : stops[s] # None /\ s \notin off /\ next(s) # stops[s]}}
<1> DEFINE off == {s \in StopId : stops[s] # None /\ Triggers(stops[s].state, ltp)}
           next(s) == Stepped(stops[s], ltp)
           changed == {s \in StopId : stops[s] # None /\ s \notin off /\ next(s) # stops[s]}
           acted == Acted(ltp, StopHeaps)
           after == StopsAfter(ltp)
<1>1. /\ after.stops = [s \in StopId |-> IF s \in ActedOff(ltp, StopHeaps) THEN None
                          ELSE IF s \in acted THEN next(s) ELSE stops[s]]
      /\ after.triggered = {<<s, next(s)>> : s \in ActedOff(ltp, StopHeaps)}
      /\ after.moved = {<<s, next(s)>> : s \in acted \ ActedOff(ltp, StopHeaps)}
  BY SixPasses DEF Outcome
<1>2. \A s \in StopId : stops[s] # None =>
        /\ s \notin acted => next(s) = stops[s] /\ s \notin off
        /\ s \in acted /\ s \notin off => next(s) # stops[s]
  <2> SUFFICES ASSUME NEW s \in StopId, stops[s] # None
               PROVE  /\ s \notin acted => next(s) = stops[s] /\ s \notin off
                      /\ s \in acted /\ s \notin off => next(s) # stops[s]
    OBVIOUS
  <2>1. stops[s] \in HeldStops /\ LiveState(stops[s].state) BY StandingIsFine
  <2>2. next(s).state = StepTrailingStop(stops[s].state, ltp) BY <2>1 DEF Stepped, HeldStops
  <2>3. StepTrailingStop(stops[s].state, ltp) = stops[s].state => next(s) = stops[s]
    BY <2>1 DEF Stepped, HeldStops
  <2> QED BY <2>1, <2>2, <2>3, HitsSayEnough DEF Acted
<1>3. ActedOff(ltp, StopHeaps) = off BY <1>2 DEF ActedOff, Acted
<1>4. acted \ off = changed BY <1>2 DEF Acted
<1>5. \A s \in acted : s \in StopId /\ stops[s] # None BY DEF Acted
<1> HIDE DEF off, next, changed, acted, after
<1>6. after.stops = [s \in StopId |-> IF stops[s] = None \/ s \in off THEN None ELSE next(s)]
  <2>1. \A s \in StopId :
          (IF s \in off THEN None ELSE IF s \in acted THEN next(s) ELSE stops[s]) =
          (IF stops[s] = None \/ s \in off THEN None ELSE next(s))
    BY <1>2, <1>5
  <2> QED BY <1>1, <1>3, <2>1
<1>7. after.triggered = {<<s, next(s)>> : s \in off} BY <1>1, <1>3
<1>8. after.moved = {<<s, next(s)>> : s \in changed} BY <1>1, <1>3, <1>4
<1> QED BY <1>6, <1>7, <1>8, Zenon DEF off, next, changed, after

-----------------------------------------------------------------------------
(* The invariant.                                                          *)

LEMMA StopStatesAreFine ==
  ASSUME NEW state \in StopStates
  PROVE  state \in Stops /\ AtWatermark(state)
<1> DEFINE armed == {ArmedState(d, t, a) : d \in Directions, t \in Trail, a \in Price \cup {None}}
<1>1. \A s \in armed : s \in Stops /\ AtWatermark(s)
  <2> SUFFICES ASSUME NEW d \in Directions, NEW t \in Trail, NEW a \in Price \cup {None}
               PROVE  ArmedState(d, t, a) \in Stops /\ AtWatermark(ArmedState(d, t, a))
    OBVIOUS
  <2>1. t \in Trails BY BookAssumption
  <2>2. a \in Nat \cup {None} BY BookAssumption
  <2> QED BY <2>1, <2>2 DEF ArmedState, Stops, Statuses, AtWatermark
<1>2. \A s \in armed, p \in Price : Activated(s, p) \in Stops /\ AtWatermark(Activated(s, p))
  <2> SUFFICES ASSUME NEW s \in Stops, NEW p \in Price
               PROVE  Activated(s, p) \in Stops /\ AtWatermark(Activated(s, p))
    BY <1>1
  <2>1. s.direction \in Directions /\ s.trail \in Trails BY DEF Stops
  <2>2. p \in Prices /\ p \in Nat BY PriceType DEF Prices
  <2>3. StopFromWatermark(s.direction, s.trail, p) \in Int BY <2>1, <2>2, StopIsSafe
  <2> QED BY <2>2, <2>3 DEF Activated, Stops, Statuses, AtWatermark
<1>3. \A s \in armed : [s EXCEPT !.status = "ENDED"] \in Stops
                       /\ AtWatermark([s EXCEPT !.status = "ENDED"])
  BY <1>1 DEF Stops, Statuses, AtWatermark
<1>4. \/ state \in armed
      \/ \E s \in armed, p \in Price : state = Activated(s, p)
      \/ \E s \in armed : state = [s EXCEPT !.status = "ENDED"]
  BY DEF StopStates
<1> QED BY <1>1, <1>2, <1>3, <1>4

\* A placement keeps the heaps in order and puts the id at its keys.
LEMMA PlaceIndexes ==
  ASSUME IInv, NEW id \in Ids, NEW keys, Place(id, keys),
         \A k \in keys : k = <<k[1], k[2]>> /\ k[1] \in Heaps /\ k[2] \in Int /\ id \in Holds(k[1])
  PROVE  /\ placed' \in [Ids -> 0 .. MaxPlaced] /\ heaps' \in [Heaps -> SUBSET Entry]
         /\ Fresh(heaps', placed')
         /\ KeysOf(heaps', placed'[id], id) = keys
         /\ \A i \in Ids \ {id} : KeysOf(heaps', placed'[i], i) = KeysOf(heaps, placed[i], i)
<1>1. placed \in [Ids -> 0 .. MaxPlaced] /\ heaps \in [Heaps -> SUBSET Entry] /\ Fresh(heaps, placed)
  BY DEF IInv, TypeOK
<1>2. /\ placed[id] < MaxPlaced /\ placed' = [placed EXCEPT ![id] = @ + 1]
      /\ heaps' = Pushed(heaps, id, placed[id] + 1, keys)
  BY DEF Place
<1>3. /\ placed' \in [Ids -> 0 .. MaxPlaced] /\ placed'[id] = placed[id] + 1
      /\ placed'[id] \in 1 .. MaxPlaced /\ placed[id] \in Nat
      /\ \A i \in Ids \ {id} : placed'[i] = placed[i]
  BY <1>1, <1>2, BookAssumption
<1>4. \A h \in Heaps : \A e \in Entries(id, placed[id] + 1, keys, h) :
        e \in Entry /\ e.id = id /\ e.seq = placed'[id] /\ id \in Holds(h)
  BY <1>3 DEF Entries, Entry
<1>5. \A h \in Heaps : heaps'[h] = heaps[h] \cup Entries(id, placed[id] + 1, keys, h)
  BY <1>2 DEF Pushed
<1>6. heaps' \in [Heaps -> SUBSET Entry]
  <2>1. \A h \in Heaps : heaps'[h] \subseteq Entry BY <1>1, <1>4, <1>5
  <2>2. heaps' = [h \in Heaps |-> heaps'[h]] BY <1>2 DEF Pushed
  <2> QED BY <2>1, <2>2
<1>7. Fresh(heaps', placed')
  <2> SUFFICES ASSUME NEW h \in Heaps, NEW e \in heaps'[h]
               PROVE  e.seq <= placed'[e.id] /\ e.id \in Holds(h)
    BY DEF Fresh
  <2>1. CASE e \in heaps[h]
    <3>1. e.seq <= placed[e.id] /\ e.id \in Holds(h) /\ e.id \in Ids /\ e.seq \in Nat
      BY <1>1, <2>1 DEF Fresh, Entry
    <3> QED BY <1>3, <3>1
  <2>2. CASE e \in Entries(id, placed[id] + 1, keys, h) BY <1>3, <1>4, <2>2
  <2> QED BY <1>5, <2>1, <2>2
<1>8. \A h \in Heaps : \A e \in heaps[h] : e.id = id => e.seq # placed[id] + 1
  BY <1>1, <1>3 DEF Fresh, Entry
<1>9. \A k \in keys : k = <<k[1], k[2]>> /\ k[1] \in Heaps OBVIOUS
<1>10. /\ KeysOf(heaps', placed[id] + 1, id) = keys
       /\ \A i, n : <<i, n>> # <<id, placed[id] + 1>> => KeysOf(heaps', n, i) = KeysOf(heaps, n, i)
  BY <1>2, <1>8, <1>9, PushIndexes
<1>11. \A i \in Ids \ {id} : KeysOf(heaps', placed'[i], i) = KeysOf(heaps, placed[i], i)
  BY <1>3, <1>10
<1> QED BY <1>3, <1>6, <1>7, <1>10, <1>11

LEMMA InitIInv == Init => IInv
<1> SUFFICES ASSUME Init PROVE IInv OBVIOUS
<1> USE BookAssumption
<1>1. /\ \A h \in Heaps : heaps[h] = {}
      /\ \A o \in OrderId : orders[o] = None
      /\ \A s \in StopId : stops[s] = None
      /\ \A a \in AlertId : alerts[a] = None
  BY DEF Init
<1>2. TypeOK BY DEF Init, TypeOK
<1>3. RestingIsIndexed BY <1>1 DEF RestingIsIndexed
<1>4. Marked /\ Versioned /\ Fresh(heaps, placed) BY <1>1 DEF Marked, Versioned, Fresh
<1> QED BY <1>2, <1>3, <1>4 DEF IInv

LEMMA IdsApart ==
  /\ OrderId \subseteq Ids /\ StopId \subseteq Ids /\ AlertId \subseteq Ids
  /\ OrderId \cap StopId = {} /\ OrderId \cap AlertId = {} /\ StopId \cap AlertId = {}
  BY BookAssumption DEF Ids

LEMMA PutOrderKeeps ==
  ASSUME IInv, NEW id \in OrderId, NEW order \in BookOrders, PutOrder(id, order)
  PROVE  IInv'
<1> USE IdsApart
<1>1. /\ Seen(id, order.version) /\ orders' = [orders EXCEPT ![id] = order]
      /\ IF orders[id] # None /\ OrderKeys(orders[id]) = OrderKeys(order)
           THEN UNCHANGED <<heaps, placed>> ELSE Place(id, OrderKeys(order))
      /\ UNCHANGED <<stops, alerts>>
  BY DEF PutOrder
<1>2. \A k \in OrderKeys(order) :
        k = <<k[1], k[2]>> /\ k[1] \in Heaps /\ k[2] \in Int /\ id \in Holds(k[1])
  BY OrderKeysType DEF Holds, OrderHeaps, Heaps, HighFirst, LowFirst
<1>3. /\ placed' \in [Ids -> 0 .. MaxPlaced] /\ heaps' \in [Heaps -> SUBSET Entry]
      /\ Fresh(heaps', placed')
      /\ KeysOf(heaps', placed'[id], id) = OrderKeys(order)
      /\ \A i \in Ids \ {id} : KeysOf(heaps', placed'[i], i) = KeysOf(heaps, placed[i], i)
  <2>1. CASE UNCHANGED <<heaps, placed>> /\ orders[id] # None
             /\ OrderKeys(orders[id]) = OrderKeys(order)
    BY <2>1 DEF IInv, TypeOK, RestingIsIndexed
  <2>2. CASE Place(id, OrderKeys(order)) BY <1>2, <2>2, PlaceIndexes
  <2> QED BY <1>1, <2>1, <2>2
<1>4. orders'[id] = order /\ \A o \in OrderId \ {id} : orders'[o] = orders[o]
  BY <1>1 DEF IInv, TypeOK
<1>5. versions' = [versions EXCEPT ![id] = [version |-> order.version, crossed |-> FALSE]]
      /\ [version |-> order.version, crossed |-> FALSE] \in Versions
  BY <1>1 DEF Seen, BookOrders, Versions
<1>6. TypeOK' BY <1>1, <1>3, <1>5 DEF IInv, TypeOK
<1>7. RestingIsIndexed' BY <1>1, <1>3, <1>4 DEF IInv, RestingIsIndexed
<1>8. Marked' BY <1>1 DEF IInv, Marked
<1>9. Versioned' BY <1>1, <1>4, <1>5, BookAssumption DEF IInv, TypeOK, Versioned
<1> QED BY <1>3, <1>6, <1>7, <1>8, <1>9 DEF IInv

LEMMA PutStopKeeps ==
  ASSUME IInv, NEW id \in StopId, NEW stop \in BookStops, PutStop(id, stop)
  PROVE  IInv'
<1> USE IdsApart
<1>1. /\ Seen(id, stop.version) /\ UNCHANGED <<orders, alerts>>
      /\ IF stop.state.status \in {"ARMED", "TRAILING"}
           THEN stops' = [stops EXCEPT ![id] = stop] /\ Place(id, StopKeys(stop.state))
           ELSE stops' = [stops EXCEPT ![id] = None] /\ UNCHANGED <<heaps, placed>>
  BY DEF PutStop
<1>2. stop.state \in Stops /\ AtWatermark(stop.state) /\ stop.version \in Version
      /\ stop \in HeldStops
  BY StopStatesAreFine DEF BookStops, HeldStops
<1>3. stop # None BY <1>2, BookAssumption
<1>4. versions' = [versions EXCEPT ![id] = [version |-> stop.version, crossed |-> FALSE]]
      /\ [version |-> stop.version, crossed |-> FALSE] \in Versions
  BY <1>1, <1>2 DEF Seen, Versions
<1>5. CASE stop.state.status \in {"ARMED", "TRAILING"}
  <2>1. stops' = [stops EXCEPT ![id] = stop] /\ Place(id, StopKeys(stop.state)) BY <1>1, <1>5
  <2>2. \A k \in StopKeys(stop.state) :
          k = <<k[1], k[2]>> /\ k[1] \in Heaps /\ k[2] \in Int /\ id \in Holds(k[1])
    BY <1>2, <1>5, StopKeysType DEF Holds, LiveState
  <2>3. /\ placed' \in [Ids -> 0 .. MaxPlaced] /\ heaps' \in [Heaps -> SUBSET Entry]
        /\ Fresh(heaps', placed')
        /\ KeysOf(heaps', placed'[id], id) = StopKeys(stop.state)
        /\ \A i \in Ids \ {id} : KeysOf(heaps', placed'[i], i) = KeysOf(heaps, placed[i], i)
    BY <2>1, <2>2, PlaceIndexes
  <2>4. stops'[id] = stop /\ \A s \in StopId \ {id} : stops'[s] = stops[s]
    BY <2>1 DEF IInv, TypeOK
  <2>5. TypeOK' BY <1>1, <1>2, <1>4, <1>5, <2>1, <2>3, <2>4 DEF IInv, TypeOK
  <2>6. RestingIsIndexed' BY <1>1, <2>3, <2>4 DEF IInv, RestingIsIndexed
  <2>7. Marked' BY <1>2, <2>4 DEF IInv, Marked
  <2>8. Versioned' BY <1>1, <1>4, <2>4, BookAssumption DEF IInv, TypeOK, Versioned
  <2> QED BY <2>3, <2>5, <2>6, <2>7, <2>8 DEF IInv
<1>6. CASE stop.state.status \notin {"ARMED", "TRAILING"}
  <2>1. stops' = [stops EXCEPT ![id] = None] /\ UNCHANGED <<heaps, placed>> BY <1>1, <1>6
  <2>2. stops'[id] = None /\ \A s \in StopId \ {id} : stops'[s] = stops[s]
    BY <2>1 DEF IInv, TypeOK
  <2>3. TypeOK' BY <1>1, <1>4, <2>1, <2>2 DEF IInv, TypeOK
  <2>4. RestingIsIndexed' BY <1>1, <2>1, <2>2 DEF IInv, RestingIsIndexed
  <2>5. Marked' BY <2>2 DEF IInv, Marked
  <2>6. Versioned' BY <1>1, <1>4, <2>2, BookAssumption DEF IInv, TypeOK, Versioned
  <2>7. Fresh(heaps', placed') BY <2>1 DEF IInv
  <2> QED BY <2>3, <2>4, <2>5, <2>6, <2>7 DEF IInv
<1> QED BY <1>5, <1>6

LEMMA RemoveOrderKeeps ==
  ASSUME IInv, NEW id \in OrderId, NEW v \in Version, RemoveOrder(id, v)
  PROVE  IInv'
<1>1. /\ versions' = [versions EXCEPT ![id] = [version |-> v, crossed |-> FALSE]]
      /\ orders' = [orders EXCEPT ![id] = None] /\ UNCHANGED <<stops, alerts, heaps, placed>>
  BY DEF RemoveOrder, Seen
<1>2. [version |-> v, crossed |-> FALSE] \in Versions BY DEF Versions
<1>3. orders'[id] = None /\ \A o \in OrderId \ {id} : orders'[o] = orders[o]
  BY <1>1 DEF IInv, TypeOK
<1>4. TypeOK' BY <1>1, <1>2 DEF IInv, TypeOK
<1>5. RestingIsIndexed' BY <1>1, <1>3 DEF IInv, RestingIsIndexed
<1>6. Marked' BY <1>1 DEF IInv, Marked
<1>7. Versioned' BY <1>1, <1>2, <1>3, BookAssumption DEF IInv, TypeOK, Versioned
<1>8. Fresh(heaps', placed') BY <1>1 DEF IInv
<1> QED BY <1>4, <1>5, <1>6, <1>7, <1>8 DEF IInv

LEMMA RemoveStopKeeps ==
  ASSUME IInv, NEW id \in StopId, NEW v \in Version, RemoveStop(id, v)
  PROVE  IInv'
<1>1. /\ versions' = [versions EXCEPT ![id] = [version |-> v, crossed |-> FALSE]]
      /\ stops' = [stops EXCEPT ![id] = None] /\ UNCHANGED <<orders, alerts, heaps, placed>>
  BY DEF RemoveStop, Seen
<1>2. [version |-> v, crossed |-> FALSE] \in Versions BY DEF Versions
<1>3. stops'[id] = None /\ \A s \in StopId \ {id} : stops'[s] = stops[s]
  BY <1>1 DEF IInv, TypeOK
<1>4. TypeOK' BY <1>1, <1>2, <1>3 DEF IInv, TypeOK
<1>5. RestingIsIndexed' BY <1>1, <1>3 DEF IInv, RestingIsIndexed
<1>6. Marked' BY <1>1, <1>3 DEF IInv, Marked
<1>7. Versioned' BY <1>1, <1>2, <1>3, BookAssumption DEF IInv, TypeOK, Versioned
<1>8. Fresh(heaps', placed') BY <1>1 DEF IInv
<1> QED BY <1>4, <1>5, <1>6, <1>7, <1>8 DEF IInv

LEMMA AlertKeeps ==
  ASSUME IInv, NEW id \in AlertId, RemoveAlert(id) \/ \E a \in BookAlerts : AddAlert(id, a)
  PROVE  IInv'
<1> USE IdsApart
<1>1. CASE RemoveAlert(id)
  <2>1. alerts' = [alerts EXCEPT ![id] = None] /\ UNCHANGED <<orders, stops, versions, heaps, placed>>
    BY <1>1 DEF RemoveAlert
  <2>2. alerts'[id] = None /\ \A a \in AlertId \ {id} : alerts'[a] = alerts[a]
    BY <2>1 DEF IInv, TypeOK
  <2>3. TypeOK' BY <2>1 DEF IInv, TypeOK
  <2>4. RestingIsIndexed' BY <2>1, <2>2 DEF IInv, RestingIsIndexed
  <2>5. Marked' /\ Versioned' /\ Fresh(heaps', placed') BY <2>1 DEF IInv, Marked, Versioned
  <2> QED BY <2>3, <2>4, <2>5 DEF IInv
<1>2. ASSUME NEW a \in BookAlerts, AddAlert(id, a) PROVE IInv'
  <2>1. /\ alerts' = [alerts EXCEPT ![id] = a] /\ Place(id, AlertKeys(a))
        /\ UNCHANGED <<orders, stops, versions>>
    BY <1>2 DEF AddAlert
  <2>2. \A k \in AlertKeys(a) :
          k = <<k[1], k[2]>> /\ k[1] \in Heaps /\ k[2] \in Int /\ id \in Holds(k[1])
    BY AlertKeysType DEF Holds, OrderHeaps, AlertHeaps, Heaps, HighFirst, LowFirst
  <2>3. /\ placed' \in [Ids -> 0 .. MaxPlaced] /\ heaps' \in [Heaps -> SUBSET Entry]
        /\ Fresh(heaps', placed')
        /\ KeysOf(heaps', placed'[id], id) = AlertKeys(a)
        /\ \A i \in Ids \ {id} : KeysOf(heaps', placed'[i], i) = KeysOf(heaps, placed[i], i)
    BY <2>1, <2>2, PlaceIndexes
  <2>4. alerts'[id] = a /\ \A b \in AlertId \ {id} : alerts'[b] = alerts[b]
    BY <2>1 DEF IInv, TypeOK
  <2>5. TypeOK' BY <2>1, <2>3 DEF IInv, TypeOK
  <2>6. RestingIsIndexed' BY <2>1, <2>3, <2>4 DEF IInv, RestingIsIndexed
  <2>7. Marked' /\ Versioned' BY <2>1 DEF IInv, Marked, Versioned
  <2> QED BY <2>3, <2>5, <2>6, <2>7 DEF IInv
<1> QED BY <1>1, <1>2

\* Draining leaves the entries of what rests on the book and was not hit.
LEMMA DrainedEntry ==
  ASSUME NEW heap \in SUBSET AnyEntry, NEW h \in Heaps, NEW held, NEW seqs, NEW ltp, NEW e,
         held[e.id] # None, e.seq = seqs[e.id], e.id \notin Hit(heap, h, held, seqs, ltp)
  PROVE  e \in Drained(heap, h, held, seqs, ltp) <=> e \in heap
<1>1. /\ Drained(heap, h, held, seqs, ltp) \subseteq heap
      /\ \A f \in heap : Live(held, seqs, f) /\ ~Acts(h, f.key, ltp) =>
                           f \in Drained(heap, h, held, seqs, ltp)
  BY DrainKeeps
<1>2. e \in heap => Live(held, seqs, e) /\ ~Acts(h, e.key, ltp) BY DEF Live, Hit
<1> QED BY <1>1, <1>2

LEMMA TickKeeps ==
  ASSUME IInv, NEW ltp \in Price, Tick(ltp)
  PROVE  IInv'
<1> DEFINE after == StopsAfter(ltp)
           crossed == Hit(heaps["buys"], "buys", orders, placed, ltp)
                      \cup Hit(heaps["sells"], "sells", orders, placed, ltp)
           fired == Hit(heaps["above"], "above", alerts, placed, ltp)
                    \cup Hit(heaps["below"], "below", alerts, placed, ltp)
           triggered == {t[1] : t \in after.triggered}
           held(h) == IF h \in {"buys", "sells"} THEN orders ELSE alerts
<1> USE IdsApart
<1>1. /\ orders' = [o \in OrderId |-> IF o \in crossed THEN None ELSE orders[o]]
      /\ alerts' = [a \in AlertId |-> IF a \in fired THEN None ELSE alerts[a]]
      /\ stops' = after.stops
      /\ versions' = [i \in OrderId \cup StopId |->
            IF i \in crossed \cup triggered THEN [versions[i] EXCEPT !.crossed = TRUE] ELSE versions[i]]
      /\ placed' = after.placed
      /\ \A i \in Ids : placed'[i] <= MaxPlaced
      /\ heaps' = [h \in Heaps |-> IF h \in {"buys", "sells", "above", "below"}
            THEN Drained(heaps[h], h, held(h), placed, ltp) ELSE after.heaps[h]]
  BY DEF Tick
<1>2. ltp \in Prices /\ ltp < Infinity BY PriceType
<1>3. /\ PassInv(after) /\ Outcome(after, ltp, StopHeaps)
      /\ \A i \in Ids \ StopId : after.placed[i] = placed[i]
      /\ \A g \in Heaps \ StopHeaps : after.heaps[g] = heaps[g]
  BY <1>2, SixPasses
<1>4. \A s \in triggered : s \in StopId /\ stops[s] # None
  <2>1. after.triggered = {<<s, Stepped(stops[s], ltp)>> : s \in ActedOff(ltp, StopHeaps)}
    BY <1>3 DEF Outcome
  <2>2. \A s \in ActedOff(ltp, StopHeaps) : s \in StopId /\ stops[s] # None
    BY DEF ActedOff, Acted
  <2>3. \A t \in after.triggered : t[1] \in ActedOff(ltp, StopHeaps) BY <2>1
  <2> QED BY <2>2, <2>3
<1>5. \A o \in crossed : o \in OrderId /\ orders[o] # None
  BY TickFinds DEF OrderHeaps
<1> HIDE DEF after, crossed, fired, triggered, held
<1>6. /\ heaps \in [Heaps -> SUBSET AnyEntry] /\ Fresh(heaps, placed)
      /\ placed \in [Ids -> Nat]
  BY StandingIsFine DEF PassInv, Standing
<1>7. \A h \in Heaps : heaps'[h] \subseteq after.heaps[h]
  <2> SUFFICES ASSUME NEW h \in Heaps PROVE heaps'[h] \subseteq after.heaps[h] OBVIOUS
  <2>1. CASE h \in {"buys", "sells", "above", "below"}
    <3>1. heaps'[h] \subseteq heaps[h] BY <1>1, <1>6, <2>1, DrainKeeps
    <3>2. h \in Heaps \ StopHeaps BY <2>1 DEF StopHeaps, OrderHeaps, AlertHeaps
    <3> QED BY <1>3, <3>1, <3>2
  <2>2. CASE h \notin {"buys", "sells", "above", "below"} BY <1>1, <2>2
  <2> QED BY <2>1, <2>2
<1>8. Fresh(heaps', placed')
  BY <1>1, <1>3, <1>7 DEF PassInv, Fresh
<1>9. placed' \in [Ids -> 0 .. MaxPlaced]
  BY <1>1, <1>3, BookAssumption DEF PassInv
<1>10. heaps' \in [Heaps -> SUBSET Entry]
  <2>1. \A h \in Heaps : \A e \in heaps'[h] : e \in Entry
    <3> SUFFICES ASSUME NEW h \in Heaps, NEW e \in heaps'[h] PROVE e \in Entry OBVIOUS
    <3>1. e \in AnyEntry /\ e.seq <= placed'[e.id] BY <1>3, <1>7, <1>8 DEF PassInv, Fresh
    <3>2. e.seq \in 1 .. MaxPlaced BY <1>9, <3>1, BookAssumption DEF AnyEntry
    <3> QED BY <3>1, <3>2 DEF AnyEntry, Entry
  <2>2. heaps' = [h \in Heaps |-> heaps'[h]] BY <1>1
  <2> QED BY <2>1, <2>2
<1>11. versions' \in [OrderId \cup StopId -> Versions \cup {None}]
       /\ \A i \in OrderId \cup StopId : versions[i] # None => versions'[i] # None
  <2>1. \A i \in crossed \cup triggered : versions[i] \in Versions
    BY <1>4, <1>5 DEF IInv, TypeOK, Versioned
  <2>2. \A i \in crossed \cup triggered : [versions[i] EXCEPT !.crossed = TRUE] \in Versions
    BY <2>1 DEF Versions
  <2> QED BY <1>1, <2>2, BookAssumption DEF IInv, TypeOK
<1>12. TypeOK'
  <2>1. orders' \in [OrderId -> BookOrders \cup {None}] /\ alerts' \in [AlertId -> BookAlerts \cup {None}]
    BY <1>1 DEF IInv, TypeOK
  <2>2. stops' \in [StopId -> HeldStops \cup {None}]
        /\ \A s \in StopId : stops'[s] # None => stops'[s].state.status \in {"ARMED", "TRAILING"}
    BY <1>1, <1>3 DEF PassInv, LiveState
  <2> QED BY <1>9, <1>10, <1>11, <2>1, <2>2 DEF TypeOK
<1>13. ASSUME NEW o \in OrderId, orders'[o] # None
       PROVE  KeysOf(heaps', placed'[o], o) = OrderKeys(orders'[o])
  <2>1. orders'[o] = orders[o] /\ o \notin crossed BY <1>1, <1>13
  <2>2. placed'[o] = placed[o] BY <1>1, <1>3
  <2>3. \A h \in OrderHeaps : heaps'[h] = Drained(heaps[h], h, orders, placed, ltp)
    BY <1>1 DEF OrderHeaps, Heaps, HighFirst, LowFirst, held
  <2>4. \A h \in Heaps \ OrderHeaps : \A e \in heaps[h] \cup heaps'[h] : e.id \notin OrderId
    BY <1>6, <1>8 DEF Fresh, Holds
  <2>5. \A h \in OrderHeaps : o \notin Hit(heaps[h], h, orders, placed, ltp)
    BY <2>1 DEF crossed, OrderHeaps
  <2>6. KeysOf(heaps', placed[o], o) = KeysOf(heaps, placed[o], o)
    <3>1. ASSUME NEW h \in Heaps, NEW e, e.id = o, e.seq = placed[o]
          PROVE  e \in heaps'[h] <=> e \in heaps[h]
      <4>1. CASE h \in OrderHeaps
        <5>1. heaps[h] \in SUBSET AnyEntry /\ orders[o] # None BY <1>6, <1>13, <2>1
        <5>2. e \in Drained(heaps[h], h, orders, placed, ltp) <=> e \in heaps[h]
          BY <2>5, <3>1, <4>1, <5>1, DrainedEntry
        <5> QED BY <2>3, <4>1, <5>2
      <4>2. CASE h \notin OrderHeaps BY <2>4, <3>1, <4>2
      <4> QED BY <4>1, <4>2
    <3> QED BY <3>1, SameKeys
  <2> QED BY <1>13, <2>1, <2>2, <2>6 DEF IInv, RestingIsIndexed
<1>14. ASSUME NEW a \in AlertId, alerts'[a] # None
       PROVE  KeysOf(heaps', placed'[a], a) = AlertKeys(alerts'[a])
  <2>1. alerts'[a] = alerts[a] /\ a \notin fired BY <1>1, <1>14
  <2>2. placed'[a] = placed[a] BY <1>1, <1>3
  <2>3. \A h \in AlertHeaps : heaps'[h] = Drained(heaps[h], h, alerts, placed, ltp)
    BY <1>1 DEF AlertHeaps, Heaps, HighFirst, LowFirst, held
  <2>4. \A h \in Heaps \ AlertHeaps : \A e \in heaps[h] \cup heaps'[h] : e.id \notin AlertId
    BY <1>6, <1>8 DEF Fresh, Holds
  <2>5. \A h \in AlertHeaps : a \notin Hit(heaps[h], h, alerts, placed, ltp)
    BY <2>1 DEF fired, AlertHeaps
  <2>6. KeysOf(heaps', placed[a], a) = KeysOf(heaps, placed[a], a)
    <3>1. ASSUME NEW h \in Heaps, NEW e, e.id = a, e.seq = placed[a]
          PROVE  e \in heaps'[h] <=> e \in heaps[h]
      <4>1. CASE h \in AlertHeaps
        <5>1. heaps[h] \in SUBSET AnyEntry /\ alerts[a] # None BY <1>6, <1>14, <2>1
        <5>2. e \in Drained(heaps[h], h, alerts, placed, ltp) <=> e \in heaps[h]
          BY <2>5, <3>1, <4>1, <5>1, DrainedEntry
        <5> QED BY <2>3, <4>1, <5>2
      <4>2. CASE h \notin AlertHeaps BY <2>4, <3>1, <4>2
      <4> QED BY <4>1, <4>2
    <3> QED BY <3>1, SameKeys
  <2> QED BY <1>14, <2>1, <2>2, <2>6 DEF IInv, RestingIsIndexed
<1>15. ASSUME NEW s \in StopId, stops'[s] # None
       PROVE  KeysOf(heaps', placed'[s], s) = StopKeys(stops'[s].state)
  <2>1. KeysOf(after.heaps, after.placed[s], s) = StopKeys(after.stops[s].state)
    BY <1>1, <1>3, <1>15 DEF PassInv
  <2>2. \A h \in Heaps : \A e : e.id = s /\ e.seq = after.placed[s] =>
          (e \in heaps'[h] <=> e \in after.heaps[h])
    <3> SUFFICES ASSUME NEW h \in Heaps, NEW e, e.id = s
                 PROVE  e \in heaps'[h] <=> e \in after.heaps[h]
      OBVIOUS
    <3>1. CASE h \in StopHeaps
      BY <1>1, <3>1 DEF StopHeaps, OrderHeaps, AlertHeaps
    <3>2. CASE h \notin StopHeaps
      BY <1>3, <1>7, <3>2 DEF PassInv, Fresh, Holds, StopHeaps
    <3> QED BY <3>1, <3>2
  <2>3. KeysOf(heaps', after.placed[s], s) = KeysOf(after.heaps, after.placed[s], s)
    BY <2>2, SameKeys
  <2> QED BY <1>1, <2>1, <2>3
<1>16. Marked' BY <1>1, <1>3 DEF Marked, PassInv, LiveState
<1>17. Versioned'
  <2>1. \A s \in StopId : stops[s] = None => after.stops[s] = None
    BY <1>3 DEF Outcome, ActedOff, Acted
  <2>2. \A o \in OrderId : orders'[o] # None => orders[o] # None BY <1>1
  <2> QED BY <1>1, <1>11, <2>1, <2>2 DEF IInv, Versioned
<1>18. RestingIsIndexed' BY <1>13, <1>14, <1>15 DEF RestingIsIndexed
<1> QED BY <1>8, <1>12, <1>16, <1>17, <1>18 DEF IInv

LEMMA NextKeeps == IInv /\ [Next]_vars => IInv'
<1> SUFFICES ASSUME IInv, [Next]_vars PROVE IInv' OBVIOUS
<1>1. ASSUME NEW id \in OrderId, NEW o \in BookOrders, UpsertOrder(id, o) \/ RestoreOrder(id, o)
      PROVE  IInv'
  BY <1>1, PutOrderKeeps DEF UpsertOrder, RestoreOrder
<1>2. ASSUME NEW id \in OrderId, NEW v \in Version, RemoveOrder(id, v) PROVE IInv'
  BY <1>2, RemoveOrderKeeps
<1>3. ASSUME NEW id \in StopId, NEW s \in BookStops, UpsertStop(id, s) \/ RestoreStop(id, s)
      PROVE  IInv'
  BY <1>3, PutStopKeeps DEF UpsertStop, RestoreStop
<1>4. ASSUME NEW id \in StopId, NEW v \in Version, RemoveStop(id, v) PROVE IInv'
  BY <1>4, RemoveStopKeeps
<1>5. ASSUME NEW id \in AlertId, RemoveAlert(id) \/ \E a \in BookAlerts : AddAlert(id, a)
      PROVE  IInv'
  BY <1>5, AlertKeeps
<1>6. ASSUME NEW ltp \in Price, Tick(ltp) PROVE IInv'
  BY <1>6, TickKeeps
<1>7. CASE UNCHANGED vars
  <2>1. UNCHANGED <<orders, stops, alerts, versions, heaps, placed>> BY <1>7 DEF vars
  <2>2. TypeOK' BY <2>1 DEF IInv, TypeOK
  <2>3. RestingIsIndexed' BY <2>1 DEF IInv, RestingIsIndexed
  <2>4. Marked' /\ Versioned' /\ Fresh(heaps', placed') BY <2>1 DEF IInv, Marked, Versioned
  <2> QED BY <2>2, <2>3, <2>4 DEF IInv
<1> QED BY <1>1, <1>2, <1>3, <1>4, <1>5, <1>6, <1>7
  DEF Next, OrdersChange, StopsChange, AlertsChange

LEMMA BookInvariant == Spec => []IInv
  BY InitIInv, NextKeeps, PTL DEF Spec

-----------------------------------------------------------------------------
(* What follows from it.                                                   *)

\* orderBook.ts: the book's variables keep their types.
THEOREM BookIsTyped == Spec => []TypeOK
<1>1. IInv => TypeOK BY DEF IInv
<1> QED BY <1>1, BookInvariant, PTL

\* orderBook.ts #drain: whatever rests on the book is in its heaps at its own keys, and every other
\* entry is told apart as stale.
THEOREM BookIsIndexed == Spec => []RestingIsIndexed
<1>1. IInv => RestingIsIndexed BY DEF IInv
<1> QED BY <1>1, BookInvariant, PTL

\* trailingStop.ts: a tick leaves a trailing stop on the safe side of its price, or triggers it, and
\* never moves its stop price against the position.
THEOREM TicksTighten == Spec => TicksOnlyTighten
<1> DEFINE Tightens == \A ltp \in Price, s \in StopId :
       Tick(ltp) /\ stops'[s] # None /\ stops'[s].state.status = "TRAILING" =>
         LET before == stops[s].state  after == stops'[s].state IN
         /\ ~Reached(after.direction, ltp, after.stop)
         /\ before.status = "TRAILING" =>
              IF after.direction = "LONG" THEN after.stop >= before.stop
                                          ELSE after.stop <= before.stop
<1>1. IInv /\ [Next]_vars => [Tightens]_vars
  <2> SUFFICES ASSUME IInv, NEW ltp \in Price, NEW s \in StopId, Tick(ltp),
                      stops'[s] # None, stops'[s].state.status = "TRAILING"
               PROVE  LET before == stops[s].state  after == stops'[s].state IN
                      /\ ~Reached(after.direction, ltp, after.stop)
                      /\ before.status = "TRAILING" =>
                           IF after.direction = "LONG" THEN after.stop >= before.stop
                                                       ELSE after.stop <= before.stop
    OBVIOUS
  <2> DEFINE before == stops[s].state
             after == StepTrailingStop(before, ltp)
  <2>1. ltp \in Prices /\ ltp < Infinity BY PriceType
  <2>2. stops' = StopsAfter(ltp).stops BY DEF Tick
  <2>3. stops[s] # None /\ stops'[s] = Stepped(stops[s], ltp)
    BY <2>1, <2>2, AllStepped
  <2>4. stops[s] \in HeldStops /\ LiveState(before) BY <2>3, StandingIsFine
  <2>5. stops'[s].state = after BY <2>3, <2>4 DEF Stepped, HeldStops
  <2>6. before \in Stops /\ AtWatermark(before) /\ before.status \in {"ARMED", "TRAILING"}
        /\ before.direction \in Directions /\ before.trail \in Trails
    BY <2>4 DEF LiveState, Stops
  <2>7. /\ after.direction = before.direction /\ AtWatermark(after) /\ after \in Stops
        /\ ~Reached(before.direction, ltp, after.stop)
        /\ before.status = "TRAILING" => Better(before.direction, before.stop, after.stop) = after.stop
    BY <2>1, <2>5, <2>6, StepIsSafe
  <2>8. after.status = "TRAILING" BY <2>5
  <2>9. after.stop \in Int
    <3>1. /\ after.watermark \in Prices
          /\ after.stop = StopFromWatermark(after.direction, after.trail, after.watermark)
      BY <2>7, <2>8 DEF AtWatermark
    <3>2. after.direction \in Directions /\ after.trail \in Trails BY <2>7 DEF Stops
    <3> QED BY <3>1, <3>2, StopIsSafe
  <2>10. before.status = "TRAILING" => before.stop \in Int
    BY <2>6, StopIsSafe DEF AtWatermark
  <2> HIDE DEF before, after
  <2>11. before.status = "TRAILING" =>
           IF after.direction = "LONG" THEN after.stop >= before.stop ELSE after.stop <= before.stop
    BY <2>7, <2>9, <2>10 DEF Better
  <2> QED BY <2>5, <2>7, <2>11 DEF before
<1> QED BY <1>1, BookInvariant, PTL DEF Spec, TicksOnlyTighten

-----------------------------------------------------------------------------
(* The book implements the plain one.                                      *)

LEMMA SameSteps ==
  ASSUME NEW s, NEW ltp
  PROVE  /\ Plain!StepTrailingStop(s, ltp) = StepTrailingStop(s, ltp)
         /\ Plain!Triggers(s, ltp) <=> Triggers(s, ltp)
<1>1. \A x : Plain!FloorToTick(x) = FloorToTick(x) /\ Plain!CeilToTick(x) = CeilToTick(x)
  BY DEF Plain!FloorToTick, FloorToTick, Plain!CeilToTick, CeilToTick
<1>2. \A d, t, w : Plain!StopFromWatermark(d, t, w) = StopFromWatermark(d, t, w)
  BY <1>1, Zenon DEF Plain!StopFromWatermark, StopFromWatermark
<1>3. \A d, x, y : Plain!Better(d, x, y) = Better(d, x, y) BY DEF Plain!Better, Better
<1>4. \A d, x, y : Plain!Reached(d, x, y) <=> Reached(d, x, y) BY DEF Plain!Reached, Reached
<1>5. Plain!Activates(s, ltp) <=> Activates(s, ltp) BY DEF Plain!Activates, Activates
<1>6. Plain!Activated(s, ltp) = Activated(s, ltp) BY <1>2 DEF Plain!Activated, Activated
<1>7. Plain!Ratcheted(s, ltp) = Ratcheted(s, ltp) BY <1>2, <1>3 DEF Plain!Ratcheted, Ratcheted
<1>8. Plain!StepTrailingStop(s, ltp) = StepTrailingStop(s, ltp)
  BY <1>4, <1>5, <1>6, <1>7, Zenon DEF Plain!StepTrailingStop, StepTrailingStop
<1> QED BY <1>8 DEF Plain!Triggers, Triggers

\* A tick crosses and fires what looking at every order and alert would.
LEMMA AllLookedAt ==
  ASSUME IInv, NEW ltp \in Price
  PROVE  /\ Hit(heaps["buys"], "buys", orders, placed, ltp)
              \cup Hit(heaps["sells"], "sells", orders, placed, ltp) =
            {o \in OrderId : orders[o] # None /\ Plain!Crosses(orders[o], ltp)}
         /\ Hit(heaps["above"], "above", alerts, placed, ltp)
              \cup Hit(heaps["below"], "below", alerts, placed, ltp) =
            {a \in AlertId : alerts[a] # None /\ Plain!Fires(alerts[a], ltp)}
<1>1. \A key : /\ Acts("buys", key, ltp) <=> ltp <= key
               /\ Acts("sells", key, ltp) <=> ltp >= key
               /\ Acts("above", key, ltp) <=> ltp >= key
               /\ Acts("below", key, ltp) <=> ltp <= key
  BY DEF Acts, HighFirst, LowFirst
<1>2. \A o \in BookOrders :
        Hits(OrderKeys(o), "buys", ltp) \/ Hits(OrderKeys(o), "sells", ltp) <=> Plain!Crosses(o, ltp)
  <2> SUFFICES ASSUME NEW o \in BookOrders
               PROVE  Hits(OrderKeys(o), "buys", ltp) \/ Hits(OrderKeys(o), "sells", ltp)
                        <=> Plain!Crosses(o, ltp)
    OBVIOUS
  <2>1. \A h : Hits(OrderKeys(o), h, ltp) <=>
          h = (IF o.side = "BUY" THEN "buys" ELSE "sells") /\ Acts(h, o.price, ltp)
    BY DEF Hits, OrderKeys
  <2> QED BY <1>1, <2>1 DEF Plain!Crosses
<1>3. \A a \in BookAlerts :
        Hits(AlertKeys(a), "above", ltp) \/ Hits(AlertKeys(a), "below", ltp) <=> Plain!Fires(a, ltp)
  <2> SUFFICES ASSUME NEW a \in BookAlerts
               PROVE  Hits(AlertKeys(a), "above", ltp) \/ Hits(AlertKeys(a), "below", ltp)
                        <=> Plain!Fires(a, ltp)
    OBVIOUS
  <2>1. \A h : Hits(AlertKeys(a), h, ltp) <=>
          h = (IF a.condition = "ABOVE" THEN "above" ELSE "below") /\ Acts(h, a.price, ltp)
    BY DEF Hits, AlertKeys
  <2> QED BY <1>1, <2>1 DEF Plain!Fires
<1>4. /\ \A o \in OrderId : orders[o] # None => orders[o] \in BookOrders
      /\ \A a \in AlertId : alerts[a] # None => alerts[a] \in BookAlerts
  BY DEF IInv, TypeOK
<1>5. /\ Hit(heaps["buys"], "buys", orders, placed, ltp) =
           {o \in OrderId : orders[o] # None /\ Hits(OrderKeys(orders[o]), "buys", ltp)}
      /\ Hit(heaps["sells"], "sells", orders, placed, ltp) =
           {o \in OrderId : orders[o] # None /\ Hits(OrderKeys(orders[o]), "sells", ltp)}
      /\ Hit(heaps["above"], "above", alerts, placed, ltp) =
           {a \in AlertId : alerts[a] # None /\ Hits(AlertKeys(alerts[a]), "above", ltp)}
      /\ Hit(heaps["below"], "below", alerts, placed, ltp) =
           {a \in AlertId : alerts[a] # None /\ Hits(AlertKeys(alerts[a]), "below", ltp)}
  BY TickFinds DEF OrderHeaps, AlertHeaps
<1> QED BY <1>2, <1>3, <1>4, <1>5

LEMMA TickIsPlain ==
  ASSUME IInv, NEW ltp \in Price, Tick(ltp)
  PROVE  Plain!Tick(ltp)
<1> DEFINE crossed   == {o \in OrderId : orders[o] # None /\ Plain!Crosses(orders[o], ltp)}
           triggered == {s \in StopId : stops[s] # None /\ Plain!Triggers(stops[s].state, ltp)}
           fired     == {a \in AlertId : alerts[a] # None /\ Plain!Fires(alerts[a], ltp)}
           on        == {s \in StopId : stops[s] # None}
           stepped   == [s \in on |-> [stops[s] EXCEPT !.state = Plain!StepTrailingStop(@, ltp)]]
           moved     == {s \in DOMAIN stepped \ triggered : stepped[s] # stops[s]}
           after     == StopsAfter(ltp)
           off       == {s \in StopId : stops[s] # None /\ Triggers(stops[s].state, ltp)}
           next(s)   == Stepped(stops[s], ltp)
           changed   == {s \in StopId : stops[s] # None /\ s \notin off /\ next(s) # stops[s]}
<1>1. ltp \in Prices /\ ltp < Infinity BY PriceType
<1>2. /\ Hit(heaps["buys"], "buys", orders, placed, ltp)
           \cup Hit(heaps["sells"], "sells", orders, placed, ltp) = crossed
      /\ Hit(heaps["above"], "above", alerts, placed, ltp)
           \cup Hit(heaps["below"], "below", alerts, placed, ltp) = fired
  BY AllLookedAt
<1>3. /\ after.stops = [s \in StopId |-> IF stops[s] = None \/ s \in off THEN None ELSE next(s)]
      /\ after.triggered = {<<s, next(s)>> : s \in off}
      /\ after.moved = {<<s, next(s)>> : s \in changed}
  BY <1>1, AllStepped, Zenon
<1>4. triggered = off /\ \A s \in on : stepped[s] = next(s) BY SameSteps DEF Stepped
<1>5. DOMAIN stepped = on OBVIOUS
<1>6. moved = changed BY <1>4, <1>5
<1>7. /\ orders' = [o \in OrderId |-> IF o \in crossed THEN None ELSE orders[o]]
      /\ alerts' = [a \in AlertId |-> IF a \in fired THEN None ELSE alerts[a]]
      /\ stops' = after.stops
      /\ versions' = [i \in OrderId \cup StopId |->
            IF i \in crossed \cup {t[1] : t \in after.triggered}
              THEN [versions[i] EXCEPT !.crossed = TRUE] ELSE versions[i]]
      /\ out' = [ltp |-> ltp, crossed |-> {<<o, orders[o]>> : o \in crossed}, fired |-> fired,
                 triggered |-> after.triggered, moved |-> after.moved]
  BY <1>2, Zenon DEF Tick
<1> HIDE DEF crossed, triggered, fired, on, stepped, moved, after, off, next, changed
<1>8. {t[1] : t \in after.triggered} = triggered
  <2>1. \A t \in after.triggered : t[1] \in off BY <1>3
  <2>2. \A s \in off : <<s, next(s)>> \in after.triggered /\ <<s, next(s)>>[1] = s BY <1>3
  <2> QED BY <1>4, <2>1, <2>2
<1>9. off \subseteq on /\ changed \subseteq on BY DEF off, changed, on
<1>10. stops' = [s \in StopId |-> IF s \in DOMAIN stepped \ triggered THEN stepped[s] ELSE None]
  <2>1. \A s \in StopId : s \in on <=> stops[s] # None BY DEF on
  <2> QED BY <1>3, <1>4, <1>5, <1>7, <2>1
<1>11. /\ after.triggered = {<<s, stepped[s]>> : s \in triggered}
       /\ after.moved = {<<s, stepped[s]>> : s \in moved}
  <2>1. {<<s, stepped[s]>> : s \in triggered} = {<<s, next(s)>> : s \in off} BY <1>4, <1>9
  <2>2. {<<s, stepped[s]>> : s \in moved} = {<<s, next(s)>> : s \in changed} BY <1>4, <1>6, <1>9
  <2> QED BY <1>3, <2>1, <2>2
<1>12. /\ versions' = [i \in OrderId \cup StopId |->
             IF i \in crossed \cup triggered THEN [versions[i] EXCEPT !.crossed = TRUE] ELSE versions[i]]
       /\ out' = [ltp |-> ltp, crossed |-> {<<o, orders[o]>> : o \in crossed}, fired |-> fired,
                  triggered |-> {<<s, stepped[s]>> : s \in triggered},
                  moved |-> {<<s, stepped[s]>> : s \in moved}]
  BY <1>7, <1>8, <1>11
<1> QED
  BY <1>7, <1>10, <1>12, Zenon DEF Plain!Tick, crossed, triggered, fired, on, stepped, moved

\* orderBook.ts: "a tick leaves each stop exactly where stepping every stop would", crosses every
\* order its price crosses and fires every alert it reaches, though it reads only the heaps' tops.
THEOREM BookActsOnAll == Spec => ActsOnAll
<1>1. Init => Plain!Init BY DEF Init, Quiet, Plain!Init, Plain!Quiet
<1>2. IInv /\ [Next]_vars => [Plain!Next]_Plain!vars
  <2> SUFFICES ASSUME IInv, [Next]_vars PROVE [Plain!Next]_Plain!vars OBVIOUS
  <2>1. ASSUME NEW id \in OrderId, NEW o \in BookOrders, UpsertOrder(id, o) \/ RestoreOrder(id, o)
        PROVE  Plain!Next
    <3>1. /\ Seen(id, o.version) /\ orders' = [orders EXCEPT ![id] = o] /\ out' = Quiet
          /\ UNCHANGED <<stops, alerts>> /\ (Newer(id, o.version) \/ Crossed(id, o.version))
      BY <2>1 DEF UpsertOrder, RestoreOrder, PutOrder
    <3>2. orders'[id] = o /\ o # None /\ o.version \in Version
      BY <3>1, BookAssumption DEF IInv, TypeOK, BookOrders
    <3>3. Plain!SetOrder(id, o.version, orders'[id])
      BY <3>1, <3>2 DEF Plain!SetOrder, Seen, Newer, Crossed, Plain!Newer, Plain!Crossed, Quiet, Plain!Quiet
    <3> QED BY <3>2, <3>3 DEF Plain!Next
  <2>2. ASSUME NEW id \in OrderId, NEW v \in Version, RemoveOrder(id, v) PROVE Plain!Next
    <3>1. orders'[id] = None BY <2>2 DEF RemoveOrder, IInv, TypeOK
    <3>2. Plain!SetOrder(id, v, orders'[id])
      BY <2>2, <3>1 DEF RemoveOrder, Plain!SetOrder, Seen, Newer, Plain!Newer, Quiet, Plain!Quiet
    <3> QED BY <3>2 DEF Plain!Next
  <2>3. ASSUME NEW id \in StopId, NEW s \in BookStops, UpsertStop(id, s) \/ RestoreStop(id, s)
        PROVE  Plain!Next
    <3>1. /\ Seen(id, s.version) /\ out' = Quiet /\ UNCHANGED <<orders, alerts>>
          /\ Newer(id, s.version) \/ Crossed(id, s.version)
          /\ stops' = [stops EXCEPT ![id] =
               IF s.state.status \in {"ARMED", "TRAILING"} THEN s ELSE None]
      BY <2>3 DEF UpsertStop, RestoreStop, PutStop
    <3>2. /\ stops'[id] = IF s.state.status \in {"ARMED", "TRAILING"} THEN s ELSE None
          /\ s.version \in Version
      BY <3>1 DEF IInv, TypeOK, BookStops
    <3>3. Plain!SetStop(id, s.version, stops'[id])
      BY <3>1, <3>2 DEF Plain!SetStop, Seen, Newer, Crossed, Plain!Newer, Plain!Crossed, Quiet, Plain!Quiet
    <3> QED BY <3>2, <3>3 DEF Plain!Next
  <2>4. ASSUME NEW id \in StopId, NEW v \in Version, RemoveStop(id, v) PROVE Plain!Next
    <3>1. stops'[id] = None BY <2>4 DEF RemoveStop, IInv, TypeOK
    <3>2. Plain!SetStop(id, v, stops'[id])
      BY <2>4, <3>1 DEF RemoveStop, Plain!SetStop, Seen, Newer, Plain!Newer, Quiet, Plain!Quiet
    <3> QED BY <3>2 DEF Plain!Next
  <2>5. ASSUME NEW id \in AlertId, RemoveAlert(id) \/ \E a \in BookAlerts : AddAlert(id, a)
        PROVE  Plain!Next
    <3>1. \E a : /\ alerts' = [alerts EXCEPT ![id] = a] /\ out' = Quiet
                 /\ UNCHANGED <<orders, stops, versions>> /\ (alerts[id] = None \/ a = None)
      BY <2>5 DEF RemoveAlert, AddAlert
    <3>2. Plain!SetAlert(id, alerts'[id])
      BY <3>1 DEF IInv, TypeOK, Plain!SetAlert, Quiet, Plain!Quiet
    <3> QED BY <3>2 DEF Plain!Next
  <2>6. ASSUME NEW ltp \in Price, Tick(ltp) PROVE Plain!Next
    BY <2>6, TickIsPlain DEF Plain!Next
  <2>7. CASE UNCHANGED vars BY <2>7 DEF vars, Plain!vars
  <2> QED BY <2>1, <2>2, <2>3, <2>4, <2>5, <2>6, <2>7
    DEF Next, OrdersChange, StopsChange, AlertsChange
<1> QED BY <1>1, <1>2, BookInvariant, PTL DEF Spec, ActsOnAll, Plain!Spec
=============================================================================
