---------------------------- MODULE TrailingStop -----------------------------
(***************************************************************************)
(* The trailing-stop arithmetic that the engine, the matcher's order book  *)
(* and the browser run (packages/paperEngine/src/trailingStop.ts): pure    *)
(* functions of a stop and a price, prices in whole paise.                 *)
(*                                                                         *)
(* BetterHigher is not part of it: it is a bug Better could have had, for  *)
(* a mutation run.                                                         *)
(***************************************************************************)
EXTENDS Integers

CONSTANTS
  TickSize,     \* TICK_SIZE_PAISE
  BasisPoints,  \* BASIS_POINTS, the parts of a whole that a percent trail counts
  None          \* null

ASSUME TrailAssumption ==
  /\ TickSize \in Nat \ {0}
  /\ BasisPoints \in Nat \ {0}
  /\ None \notin Int

Directions == {"LONG", "SHORT"}

\* A rupee trail of some paise, or a percent trail of some basis points.
Trails ==
  [unit : {"AMOUNT"}, size : Nat \ {0}] \cup [unit : {"PERCENT"}, size : 1 .. BasisPoints - 1]

Statuses == {"ARMED", "TRAILING", "TRIGGERED", "ENDED"}

\* TrailingStopState.  ENDED stands for the terminal statuses, which nothing here tells apart.
Stops == [status : Statuses, direction : Directions, trail : Trails,
          activation : Nat \cup {None}, watermark : Nat \cup {None}, stop : Int \cup {None}]

-----------------------------------------------------------------------------
FloorToTick(paise) == (paise \div TickSize) * TickSize
CeilToTick(paise)  == ((paise + TickSize - 1) \div TickSize) * TickSize

\* The stop a trail gives at a watermark, rounded away from the price.
StopFromWatermark(direction, trail, watermark) ==
  LET away == IF direction = "LONG" THEN -trail.size ELSE trail.size
      percent(round) == (watermark * (BasisPoints + away) + round) \div BasisPoints
  IN  CASE trail.unit = "AMOUNT" /\ direction = "LONG"   -> FloorToTick(watermark + away)
        [] trail.unit = "AMOUNT" /\ direction = "SHORT"  -> CeilToTick(watermark + away)
        [] trail.unit = "PERCENT" /\ direction = "LONG"  -> FloorToTick(percent(0))
        [] trail.unit = "PERCENT" /\ direction = "SHORT" -> CeilToTick(percent(BasisPoints - 1))

\* The better of two prices for the position; whether a price is at or through a stop.
BetterHigher(direction, a, b) == IF a >= b THEN a ELSE b
Better(direction, a, b) ==
  IF direction = "LONG" THEN (IF a >= b THEN a ELSE b) ELSE (IF a <= b THEN a ELSE b)
Reached(direction, ltp, stop) == IF direction = "LONG" THEN ltp <= stop ELSE ltp >= stop

Activates(s, ltp) ==
  \/ s.activation = None
  \/ IF s.direction = "LONG" THEN ltp >= s.activation ELSE ltp <= s.activation

Activated(s, ltp) ==
  [s EXCEPT !.status = "TRAILING", !.watermark = ltp,
            !.stop = StopFromWatermark(s.direction, s.trail, ltp)]

Ratcheted(s, ltp) ==
  LET best == Better(s.direction, s.watermark, ltp)
  IN  [s EXCEPT !.watermark = best,
         !.stop = Better(s.direction, @, StopFromWatermark(s.direction, s.trail, best))]

\* One tick for one stop: activate, or ratchet and trigger.  A TRAILING stop has a watermark and a
\* stop price, so the code's case for one without is left out.
StepTrailingStop(s, ltp) ==
  LET moved == Ratcheted(s, ltp)
  IN  CASE s.status = "ARMED" /\ Activates(s, ltp) -> Activated(s, ltp)
        [] s.status = "TRAILING" ->
             IF Reached(s.direction, ltp, moved.stop)
               THEN [moved EXCEPT !.status = "TRIGGERED"] ELSE moved
        [] OTHER -> s

Triggers(s, ltp) == s.status = "TRAILING" /\ StepTrailingStop(s, ltp).status = "TRIGGERED"

ArmedState(direction, trail, activation) ==
  [status |-> "ARMED", direction |-> direction, trail |-> trail, activation |-> activation,
   watermark |-> None, stop |-> None]
=============================================================================
