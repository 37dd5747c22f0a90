----------------------------- MODULE FundsLedger -----------------------------
(***************************************************************************)
(* The funds ledger of one paper account                                   *)
(* (packages/paperEngine/src/fundsLedger.ts): the cash free to trade with, *)
(* and the cash blocked for each BUY order.  The entries the ledger        *)
(* appends are not kept: each operation is what its entries add up to.     *)
(*                                                                         *)
(* ReleaseUncounted is not part of it: it is a bug Release could have had, *)
(* for a mutation run.                                                     *)
(***************************************************************************)
EXTENDS Integers, FiniteSets

CONSTANTS
  OrderId,         \* the orders of the account, numbered
  OpeningBalance   \* in paise

ASSUME FundsAssumption ==
  /\ OpeningBalance \in Nat
  /\ Cardinality(OrderId) \in Nat /\ OrderId = 1 .. Cardinality(OrderId)

\* amount[1] + ... + amount[n].
SumTo(amount, n) ==
  LET sum[i \in 0 .. n] == IF i = 0 THEN 0 ELSE sum[i - 1] + amount[i]
  IN  sum[n]

\* #available, which a forced buy may take below zero, #blocked and #blocks.
Ledgers == [available : Int, blocked : Int, blocks : [OrderId -> Int]]

OpeningCredit ==
  [available |-> OpeningBalance, blocked |-> 0, blocks |-> [o \in OrderId |-> 0]]

BlockedFor(f, order) == IF order \in OrderId THEN f.blocks[order] ELSE 0

\* block() refuses what the free cash does not cover.
CanBlock(f, amount) == amount <= f.available
Block(f, order, amount) ==
  [f EXCEPT !.blocks[order] = @ + amount, !.blocked = @ + amount, !.available = @ - amount]

ReleaseUncounted(f, order, amount) ==
  [f EXCEPT !.blocks[order] = 0, !.blocked = @ - amount, !.available = @ + amount]
\* Both release() and #releaseEntry.
Release(f, order, amount) ==
  [f EXCEPT !.blocks[order] = @ - amount, !.blocked = @ - amount, !.available = @ + amount]

\* release() of all that is blocked, for each of these orders.
ReleaseAll(f, I) ==
  LET freed == SumTo([o \in OrderId |-> IF o \in I THEN f.blocks[o] ELSE 0], Cardinality(OrderId))
  IN  [f EXCEPT !.blocks = [o \in OrderId |-> IF o \in I THEN 0 ELSE f.blocks[o]],
                !.blocked = @ - freed, !.available = @ + freed]

\* settleBuy() refuses a cost that the free cash and what it releases do not cover.
CanSettleBuy(f, cost, release) == cost <= f.available + release
SettleBuy(f, order, cost, release) == [Release(f, order, release) EXCEPT !.available = @ - cost]

\* The square-off and the exits: never refused.
SettleForcedBuy(f, order, cost) == SettleBuy(f, order, cost, BlockedFor(f, order))

SettleSell(f, proceeds) == [f EXCEPT !.available = @ + proceeds]

\* The RESET entry; it throws while anything is blocked.
CanReset(f) == f.blocked = 0
Reset(f) == [f EXCEPT !.available = OpeningBalance]
=============================================================================
