---------------------------- MODULE PositionMath -----------------------------
(***************************************************************************)
(* The position arithmetic of the paper engine                             *)
(* (packages/paperEngine/src/positionMath.ts): one instrument and          *)
(* product's running totals, in whole shares and paise, and what one fill  *)
(* makes of them.                                                          *)
(*                                                                         *)
(* RoundedFirst is not part of it: it is a bug CostOf could have had, for  *)
(* a mutation run.                                                         *)
(***************************************************************************)
EXTENDS Integers

\* PositionBook.  openCost is what the open shares cost, or were sold for when they are short.
Books == [netQty : Int, openCost : Int, buyQty : Nat, sellQty : Nat,
          buyValue : Nat, sellValue : Nat, realisedPnl : Int]

EmptyPosition == [netQty |-> 0, openCost |-> 0, buyQty |-> 0, sellQty |-> 0,
                  buyValue |-> 0, sellValue |-> 0, realisedPnl |-> 0]

Abs(n) == IF n < 0 THEN -n ELSE n
Least(a, b) == IF a <= b THEN a ELSE b
Most(a, b)  == IF a >= b THEN a ELSE b

\* a * b / c, rounded half away from zero.
MulDivRound(a, b, c) ==
  LET half(n) == (2 * n + c) \div (2 * c)
  IN  IF a * b >= 0 THEN half(a * b) ELSE -half(-(a * b))

RoundedFirst(book, qty) == qty * MulDivRound(book.openCost, 1, Abs(book.netQty))
\* What the first qty of the open shares cost.
CostOf(book, qty) == MulDivRound(book.openCost, qty, Abs(book.netQty))

\* A fill in the position's direction adds to it; one against it closes shares at their average
\* cost, and opens what is left of it on the other side.
ApplyTrade(book, side, qty, price) ==
  LET long    == side = "BUY"
      adding  == book.netQty = 0 \/ (book.netQty > 0) = long
      closes  == IF adding THEN 0 ELSE Least(qty, Abs(book.netQty))
      removed == IF adding THEN 0 ELSE CostOf(book, closes)
      rest    == qty - closes
  IN  [netQty      |-> IF long THEN book.netQty + qty ELSE book.netQty - qty,
       openCost    |-> IF adding THEN book.openCost + qty * price
                       ELSE IF rest > 0 THEN rest * price ELSE book.openCost - removed,
       buyQty      |-> book.buyQty + (IF long THEN qty ELSE 0),
       sellQty     |-> book.sellQty + (IF long THEN 0 ELSE qty),
       buyValue    |-> book.buyValue + (IF long THEN qty * price ELSE 0),
       sellValue   |-> book.sellValue + (IF long THEN 0 ELSE qty * price),
       realisedPnl |-> book.realisedPnl
         + (IF long THEN removed - closes * price ELSE closes * price - removed)]

AveragePrice(book) ==
  IF book.netQty = 0 THEN 0 ELSE MulDivRound(book.openCost, 1, Abs(book.netQty))

\* The open shares' cost, counted against the account when they are long: a flat position has none.
SignedCost(book) ==
  IF book.netQty = 0 THEN 0 ELSE IF book.netQty > 0 THEN book.openCost ELSE -book.openCost
=============================================================================
