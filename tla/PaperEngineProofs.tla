-------------------------- MODULE PaperEngineProofs --------------------------
(***************************************************************************)
(* Proofs about the paper engine (PaperEngine.tla), for every instrument,  *)
(* opening balance and holding, and whatever is asked for.                 *)
(*                                                                         *)
(* The invariant EngineInv is Whole: an engine that has not thrown is      *)
(* Sane - every paisa, every share and every block is accounted for, and   *)
(* what rests can be filled - and its delivery sells are covered; one that *)
(* has thrown has a debit balance.  Sane(e, b) leaves out what must hold   *)
(* of order b to rest, because inside a call the newest order may not rest *)
(* yet.  The lemmas follow the code's order: the ledger and a position,    *)
(* ending orders and stops, a fill, what follows a fill, a match, a        *)
(* stop's trigger, the session's events, the sync, and then each call.     *)
(***************************************************************************)
EXTENDS PaperEngine, WellFoundedInduction, TLAPS

Prices == Nat \ {0}

-----------------------------------------------------------------------------
(* Division: \div rounds down, so it keeps an order and undoes a product.  *)

LEMMA DivBounds ==
  ASSUME NEW x \in Int, NEW n \in Nat \ {0}
  PROVE  /\ x \div n \in Int
         /\ (x \div n) * n <= x
         /\ x < (x \div n) * n + n
  OBVIOUS

LEMMA DivMonotone ==
  ASSUME NEW x \in Int, NEW y \in Int, NEW n \in Nat \ {0}, x <= y
  PROVE  x \div n <= y \div n
  OBVIOUS

LEMMA DivBelow ==
  ASSUME NEW x \in Int, NEW y \in Int, NEW n \in Nat \ {0}, x < y * n
  PROVE  x \div n < y
  OBVIOUS

LEMMA DivAbove ==
  ASSUME NEW x \in Int, NEW y \in Int, NEW n \in Nat \ {0}, y * n <= x
  PROVE  y <= x \div n
  OBVIOUS

\* The stop a trail gives at a price is a number of paise.
LEMMA StopIsPaise ==
  ASSUME NEW d \in Directions, NEW t \in Trails, NEW w \in Prices
  PROVE  StopFromWatermark(d, t, w) \in Int
<1>1. \A x \in Int : x \div TickSize \in Int /\ x \div BasisPoints \in Int
  BY DivBounds, TrailAssumption
<1>2. \A x \in Int : FloorToTick(x) \in Int /\ CeilToTick(x) \in Int
  BY <1>1, TrailAssumption DEF FloorToTick, CeilToTick
<1>3. t.size \in Int /\ w \in Int BY DEF Trails, Prices
<1>4. \A a \in Int, r \in Int : (w * (BasisPoints + a) + r) \div BasisPoints \in Int
  BY <1>1, <1>3, TrailAssumption
<1> QED BY <1>2, <1>3, <1>4, TrailAssumption DEF StopFromWatermark, Directions, Trails

-----------------------------------------------------------------------------
(* Loops and sums.                                                         *)

\* Induction over the naturals, with a set in place of a predicate.
LEMMA NatSetInduction ==
  ASSUME NEW P, 0 \in P, \A n \in Nat : n \in P => n + 1 \in P
  PROVE  Nat \subseteq P
<1> DEFINE T == Nat \ P
<1> SUFFICES ASSUME T # {} PROVE FALSE OBVIOUS
<1>1. PICK x \in T : \A y \in T : ~(<<y, x>> \in OpToRel(<, Nat))
  BY NatLessThanWellFounded, WFMin, Zenon
<1>2. \A y \in T : ~(y < x) BY <1>1, Zenon DEF OpToRel
<1>3. x # 0 /\ x - 1 \in Nat /\ x - 1 < x OBVIOUS
<1>4. x - 1 \in T
  <2>1. x - 1 \notin P BY <1>3
  <2> QED BY <1>3, <2>1
<1> QED BY <1>2, <1>3, <1>4

\* What a loop has, before it and after each of its turns.
Turns(V, first, n, turn) ==
  \E f \in [0 .. n -> V] : f[0] = first /\ \A k \in 1 .. n : f[k] = turn[<<k, f[k - 1]>>]

\* It is there if every turn keeps in V.
LEMMA LoopRuns ==
  ASSUME NEW V, NEW first \in V, NEW n \in Nat, NEW turn,
         \A k \in 1 .. n, v \in V : turn[<<k, v>>] \in V
  PROVE  Turns(V, first, n, turn)
<1> DEFINE Runs(f, m) == /\ f \in [0 .. m -> V] /\ f[0] = first
                         /\ \A k \in 1 .. m : f[k] = turn[<<k, f[k - 1]>>]
           P == {m \in Nat : m <= n => \E f \in [0 .. m -> V] : Runs(f, m)}
<1>1. 0 \in P
  <2>1. Runs([k \in 0 .. 0 |-> first], 0) OBVIOUS
  <2> QED BY <2>1
<1>2. ASSUME NEW m \in Nat, m \in P PROVE m + 1 \in P
  <2>1. SUFFICES ASSUME m + 1 <= n PROVE \E f \in [0 .. m + 1 -> V] : Runs(f, m + 1) OBVIOUS
  <2>2. PICK f \in [0 .. m -> V] : Runs(f, m) BY <1>2, <2>1
  <2> DEFINE g == [k \in 0 .. m + 1 |-> IF k = m + 1 THEN turn[<<m + 1, f[m]>>] ELSE f[k]]
  <2>3. turn[<<m + 1, f[m]>>] \in V BY <2>1, <2>2
  <2>4. g \in [0 .. m + 1 -> V] BY <2>2, <2>3
  <2>5. ASSUME NEW k \in 1 .. m + 1 PROVE g[k] = turn[<<k, g[k - 1]>>]
    <3>1. k \in 0 .. m + 1 /\ k - 1 \in 0 .. m OBVIOUS
    <3>2. g[k - 1] = f[k - 1] BY <3>1
    <3>3. CASE k = m + 1
      <4>1. g[k] = turn[<<m + 1, f[m]>>] BY <3>1, <3>3
      <4>2. <<k, g[k - 1]>> = <<m + 1, f[m]>> BY <3>2, <3>3
      <4> QED BY <4>1, <4>2, Zenon
    <3>4. CASE k \in 1 .. m BY <3>1, <3>2, <3>4, <2>2
    <3> QED BY <3>3, <3>4
  <2>6. g[0] = first BY <2>2
  <2> HIDE DEF g
  <2> QED BY <2>4, <2>5, <2>6
<1>3. n \in P BY <1>1, <1>2, NatSetInduction
<1>4. PICK f \in [0 .. n -> V] : Runs(f, n) BY <1>3
<1> QED BY <1>4 DEF Turns

\* The running sums.
LEMMA SumSteps ==
  ASSUME NEW f, NEW n \in Nat, \A i \in 1 .. n : f[i] \in Int
  PROVE  \E s \in [0 .. n -> Int] :
           s[0] = 0 /\ (\A k \in 1 .. n : s[k] = s[k - 1] + f[k]) /\ SumTo(f, n) = s[n]
<1> DEFINE turn == [p \in (1 .. n) \X Int |-> p[2] + f[p[1]]]
           sum == CHOOSE g : g = [i \in 0 .. n |-> IF i = 0 THEN 0 ELSE g[i - 1] + f[i]]
<1>1. ASSUME NEW k \in 1 .. n, NEW v \in Int PROVE turn[<<k, v>>] = v + f[k]
  <2>1. <<k, v>> \in (1 .. n) \X Int OBVIOUS
  <2>2. turn[<<k, v>>] = <<k, v>>[2] + f[<<k, v>>[1]] BY <2>1, Zenon
  <2> QED BY <2>2
<1> HIDE DEF turn
<1>2. \A k \in 1 .. n, v \in Int : turn[<<k, v>>] \in Int
  <2> SUFFICES ASSUME NEW k \in 1 .. n, NEW v \in Int PROVE turn[<<k, v>>] \in Int OBVIOUS
  <2>1. turn[<<k, v>>] = v + f[k] BY <1>1
  <2>2. f[k] \in Int OBVIOUS
  <2> QED BY <2>1, <2>2
<1>3. PICK s \in [0 .. n -> Int] : s[0] = 0 /\ \A k \in 1 .. n : s[k] = turn[<<k, s[k - 1]>>]
  <2> DEFINE V == Int
  <2>1. 0 \in V /\ \A k \in 1 .. n, v \in V : turn[<<k, v>>] \in V BY <1>2
  <2> HIDE DEF V
  <2>2. Turns(V, 0, n, turn) BY <2>1, LoopRuns
  <2> QED BY <2>2 DEF Turns, V
<1>4. \A k \in 1 .. n : s[k] = s[k - 1] + f[k]
  <2> TAKE k \in 1 .. n
  <2>1. s[k - 1] \in Int OBVIOUS
  <2> QED BY <1>1, <1>3, <2>1
<1>5. s = [i \in 0 .. n |-> IF i = 0 THEN 0 ELSE s[i - 1] + f[i]]
  <2>1. \A i \in 0 .. n : s[i] = IF i = 0 THEN 0 ELSE s[i - 1] + f[i] BY <1>3, <1>4
  <2> QED BY <2>1
<1>6. sum = [i \in 0 .. n |-> IF i = 0 THEN 0 ELSE sum[i - 1] + f[i]] BY <1>5
<1>7. SumTo(f, n) = sum[n] BY DEF SumTo
<1> HIDE DEF sum
<1> DEFINE P == {k \in Nat : k <= n => sum[k] = s[k]}
<1>8. n \in P
  <2>1. 0 \in P BY <1>3, <1>6
  <2>2. ASSUME NEW k \in Nat, k \in P PROVE k + 1 \in P
    <3> SUFFICES ASSUME k + 1 <= n PROVE sum[k + 1] = s[k + 1] OBVIOUS
    <3>1. k + 1 \in 0 .. n /\ k + 1 # 0 /\ k + 1 \in 1 .. n /\ (k + 1) - 1 = k OBVIOUS
    <3>2. sum[k + 1] = sum[k] + f[k + 1] BY <1>6, <3>1
    <3>3. s[k + 1] = s[k] + f[k + 1] BY <1>4, <3>1
    <3> QED BY <2>2, <3>2, <3>3
  <2> HIDE DEF P
  <2> QED BY <2>1, <2>2, NatSetInduction
<1> QED BY <1>3, <1>4, <1>7, <1>8

LEMMA SumIsInt ==
  ASSUME NEW f, NEW n \in Nat, \A i \in 1 .. n : f[i] \in Int
  PROVE  SumTo(f, n) \in Int
<1>1. PICK s \in [0 .. n -> Int] : SumTo(f, n) = s[n] BY SumSteps
<1> QED BY <1>1

\* Term by term.
LEMMA SumAtMost ==
  ASSUME NEW f, NEW g, NEW n \in Nat, \A i \in 1 .. n : f[i] \in Int /\ g[i] \in Int /\ f[i] <= g[i]
  PROVE  SumTo(f, n) <= SumTo(g, n)
<1>1. PICK s \in [0 .. n -> Int] :
        s[0] = 0 /\ (\A k \in 1 .. n : s[k] = s[k - 1] + f[k]) /\ SumTo(f, n) = s[n]
  <2>1. \A i \in 1 .. n : f[i] \in Int OBVIOUS
  <2> QED BY <2>1, SumSteps
<1>2. PICK t \in [0 .. n -> Int] :
        t[0] = 0 /\ (\A k \in 1 .. n : t[k] = t[k - 1] + g[k]) /\ SumTo(g, n) = t[n]
  <2>1. \A i \in 1 .. n : g[i] \in Int OBVIOUS
  <2> QED BY <2>1, SumSteps
<1> DEFINE P == {k \in Nat : k <= n => s[k] <= t[k]}
<1>3. 0 \in P BY <1>1, <1>2
<1>4. ASSUME NEW k \in Nat, k \in P PROVE k + 1 \in P
  <2> SUFFICES ASSUME k + 1 <= n PROVE s[k + 1] <= t[k + 1] OBVIOUS
  <2>1. k \in 0 .. n /\ k + 1 \in 1 .. n /\ (k + 1) - 1 = k OBVIOUS
  <2>2. s[k + 1] = s[k] + f[k + 1] /\ t[k + 1] = t[k] + g[k + 1] BY <1>1, <1>2, <2>1
  <2> DEFINE a == s[k]
             b == t[k]
             c == f[k + 1]
             d == g[k + 1]
  <2>3. a <= b BY <1>4, <2>1
  <2>4. a \in Int /\ b \in Int /\ c \in Int /\ d \in Int /\ c <= d BY <1>1, <1>2, <2>1
  <2> HIDE DEF a, b, c, d
  <2>5. a + c <= b + d BY <2>3, <2>4
  <2> QED BY <2>2, <2>5 DEF a, b, c, d
<1>5. n \in P
  <2> HIDE DEF P
  <2> QED BY <1>3, <1>4, NatSetInduction
<1> QED BY <1>1, <1>2, <1>5

LEMMA SumSame ==
  ASSUME NEW f, NEW g, NEW n \in Nat, \A i \in 1 .. n : f[i] \in Int /\ g[i] = f[i]
  PROVE  SumTo(g, n) = SumTo(f, n)
<1>1. SumTo(f, n) <= SumTo(g, n) /\ SumTo(g, n) <= SumTo(f, n) BY SumAtMost
<1>2. SumTo(f, n) \in Int /\ SumTo(g, n) \in Int BY SumIsInt
<1> QED BY <1>1, <1>2

LEMMA SumMinus ==
  ASSUME NEW f, NEW g, NEW h, NEW n \in Nat,
         \A i \in 1 .. n : f[i] \in Int /\ g[i] \in Int /\ h[i] = f[i] - g[i]
  PROVE  SumTo(h, n) = SumTo(f, n) - SumTo(g, n)
<1>1. PICK s \in [0 .. n -> Int] :
        s[0] = 0 /\ (\A k \in 1 .. n : s[k] = s[k - 1] + f[k]) /\ SumTo(f, n) = s[n]
  <2>1. \A i \in 1 .. n : f[i] \in Int OBVIOUS
  <2> QED BY <2>1, SumSteps
<1>2. PICK t \in [0 .. n -> Int] :
        t[0] = 0 /\ (\A k \in 1 .. n : t[k] = t[k - 1] + g[k]) /\ SumTo(g, n) = t[n]
  <2>1. \A i \in 1 .. n : g[i] \in Int OBVIOUS
  <2> QED BY <2>1, SumSteps
<1>3. PICK u \in [0 .. n -> Int] :
        u[0] = 0 /\ (\A k \in 1 .. n : u[k] = u[k - 1] + h[k]) /\ SumTo(h, n) = u[n]
  <2>1. \A i \in 1 .. n : h[i] \in Int OBVIOUS
  <2> QED BY <2>1, SumSteps
<1> DEFINE P == {k \in Nat : k <= n => u[k] = s[k] - t[k]}
<1>4. 0 \in P BY <1>1, <1>2, <1>3
<1>5. ASSUME NEW k \in Nat, k \in P PROVE k + 1 \in P
  <2> SUFFICES ASSUME k + 1 <= n PROVE u[k + 1] = s[k + 1] - t[k + 1] OBVIOUS
  <2>1. k \in 0 .. n /\ k + 1 \in 1 .. n /\ (k + 1) - 1 = k OBVIOUS
  <2>2. /\ s[k + 1] = s[k] + f[k + 1] /\ t[k + 1] = t[k] + g[k + 1]
        /\ u[k + 1] = u[k] + h[k + 1]
    BY <1>1, <1>2, <1>3, <2>1
  <2>3. u[k] = s[k] - t[k] BY <1>5, <2>1
  <2>4. /\ f[k + 1] \in Int /\ g[k + 1] \in Int /\ h[k + 1] = f[k + 1] - g[k + 1]
        /\ s[k] \in Int /\ t[k] \in Int
    BY <1>1, <1>2, <2>1
  <2>5. u[k + 1] = (s[k] - t[k]) + (f[k + 1] - g[k + 1]) BY <2>2, <2>3, <2>4, Zenon
  <2>6. s[k + 1] - t[k + 1] = (s[k] + f[k + 1]) - (t[k] + g[k + 1]) BY <2>2, Zenon
  <2>7. (s[k] - t[k]) + (f[k + 1] - g[k + 1]) = (s[k] + f[k + 1]) - (t[k] + g[k + 1])
    <3> DEFINE a == s[k]
               b == t[k]
               c == f[k + 1]
               d == g[k + 1]
    <3>1. a \in Int /\ b \in Int /\ c \in Int /\ d \in Int BY <2>4
    <3> HIDE DEF a, b, c, d
    <3>2. (a - b) + (c - d) = (a + c) - (b + d) BY <3>1
    <3> QED BY <3>2 DEF a, b, c, d
  <2> QED BY <2>5, <2>6, <2>7, Zenon
<1>6. n \in P
  <2> HIDE DEF P
  <2> QED BY <1>4, <1>5, NatSetInduction
<1> QED BY <1>1, <1>2, <1>3, <1>6

\* One term alone.
LEMMA SumOne ==
  ASSUME NEW g, NEW n \in Nat, NEW k \in 1 .. n, NEW a \in Int, g[k] = a,
         \A i \in 1 .. n : i # k => g[i] = 0
  PROVE  SumTo(g, n) = a
<1>1. \A i \in 1 .. n : g[i] \in Int OBVIOUS
<1>2. PICK s \in [0 .. n -> Int] :
        s[0] = 0 /\ (\A i \in 1 .. n : s[i] = s[i - 1] + g[i]) /\ SumTo(g, n) = s[n]
  BY <1>1, SumSteps
<1> DEFINE P == {i \in Nat : i <= n => s[i] = IF i < k THEN 0 ELSE a}
<1>3. 0 \in P
  <2>1. s[0] = 0 /\ 0 < k BY <1>2
  <2> QED BY <2>1
<1>4. ASSUME NEW i \in Nat, i \in P PROVE i + 1 \in P
  <2> SUFFICES ASSUME i + 1 <= n PROVE s[i + 1] = IF i + 1 < k THEN 0 ELSE a OBVIOUS
  <2>1. i \in 0 .. n /\ i + 1 \in 1 .. n /\ (i + 1) - 1 = i OBVIOUS
  <2>2. s[i + 1] = s[i] + g[i + 1] BY <1>2, <2>1
  <2>3. s[i] = IF i < k THEN 0 ELSE a BY <1>4
  <2> QED BY <2>1, <2>2, <2>3
<1>5. n \in P
  <2> HIDE DEF P
  <2> QED BY <1>3, <1>4, NatSetInduction
<1> QED BY <1>2, <1>5

\* Changing one term changes the sum by as much.
LEMMA SumChange ==
  ASSUME NEW f, NEW h, NEW n \in Nat, NEW k \in 1 .. n, h[k] \in Int,
         \A i \in 1 .. n : f[i] \in Int, \A i \in 1 .. n : i # k => h[i] = f[i]
  PROVE  SumTo(h, n) = SumTo(f, n) - f[k] + h[k]
<1> DEFINE g == [i \in 1 .. n |-> IF i = k THEN f[k] - h[k] ELSE 0]
<1>1. SumTo(g, n) = f[k] - h[k]
  <2>1. g[k] = f[k] - h[k] /\ f[k] - h[k] \in Int /\ \A i \in 1 .. n : i # k => g[i] = 0 OBVIOUS
  <2> HIDE DEF g
  <2> QED BY <2>1, SumOne
<1>2. \A i \in 1 .. n : g[i] \in Int /\ h[i] = f[i] - g[i] OBVIOUS
<1> HIDE DEF g
<1>3. SumTo(h, n) = SumTo(f, n) - SumTo(g, n) BY <1>2, SumMinus
<1> QED BY <1>1, <1>3, SumIsInt

\* The last term.
LEMMA SumNext ==
  ASSUME NEW f, NEW n \in Nat, \A i \in 1 .. n + 1 : f[i] \in Int
  PROVE  SumTo(f, n + 1) = SumTo(f, n) + f[n + 1]
<1>1. PICK s \in [0 .. n + 1 -> Int] :
        s[0] = 0 /\ (\A k \in 1 .. n + 1 : s[k] = s[k - 1] + f[k]) /\ SumTo(f, n + 1) = s[n + 1]
  <2>1. n + 1 \in Nat OBVIOUS
  <2> QED BY <2>1, SumSteps
<1>2. PICK t \in [0 .. n -> Int] :
        t[0] = 0 /\ (\A k \in 1 .. n : t[k] = t[k - 1] + f[k]) /\ SumTo(f, n) = t[n]
  <2>1. \A i \in 1 .. n : f[i] \in Int OBVIOUS
  <2> QED BY <2>1, SumSteps
<1> DEFINE P == {k \in Nat : k <= n => s[k] = t[k]}
<1>3. 0 \in P BY <1>1, <1>2
<1>4. ASSUME NEW k \in Nat, k \in P PROVE k + 1 \in P
  <2> SUFFICES ASSUME k + 1 <= n PROVE s[k + 1] = t[k + 1] OBVIOUS
  <2>1. k + 1 \in 1 .. n + 1 /\ k + 1 \in 1 .. n /\ (k + 1) - 1 = k OBVIOUS
  <2>2. s[k + 1] = s[k] + f[k + 1] /\ t[k + 1] = t[k] + f[k + 1] BY <1>1, <1>2, <2>1
  <2> QED BY <1>4, <2>2
<1>5. n \in P
  <2> HIDE DEF P
  <2> QED BY <1>3, <1>4, NatSetInduction
<1>6. s[n + 1] = s[n] + f[n + 1] BY <1>1
<1> QED BY <1>1, <1>2, <1>5, <1>6

\* Terms beyond m are zero.
LEMMA SumShort ==
  ASSUME NEW f, NEW m \in Nat, NEW n \in Nat, m <= n, \A i \in 1 .. n : f[i] \in Int,
         \A i \in m + 1 .. n : f[i] = 0
  PROVE  SumTo(f, n) = SumTo(f, m)
<1> DEFINE P == {k \in Nat : m + k <= n => SumTo(f, m + k) = SumTo(f, m)}
<1>1. 0 \in P OBVIOUS
<1>2. ASSUME NEW k \in Nat, k \in P PROVE k + 1 \in P
  <2> SUFFICES ASSUME m + (k + 1) <= n PROVE SumTo(f, m + (k + 1)) = SumTo(f, m) OBVIOUS
  <2>1. m + k \in Nat /\ m + (k + 1) = (m + k) + 1 /\ (m + k) + 1 \in m + 1 .. n OBVIOUS
  <2>2. \A i \in 1 .. (m + k) + 1 : f[i] \in Int BY <2>1
  <2>3. SumTo(f, (m + k) + 1) = SumTo(f, m + k) + f[(m + k) + 1] BY <2>1, <2>2, SumNext
  <2>4. SumTo(f, m) \in Int
    <3>1. \A i \in 1 .. m : f[i] \in Int BY <2>2
    <3> QED BY <3>1, SumIsInt
  <2> QED BY <1>2, <2>1, <2>3, <2>4
<1>3. n - m \in P
  <2>1. n - m \in Nat OBVIOUS
  <2> HIDE DEF P
  <2> QED BY <1>1, <1>2, <2>1, NatSetInduction
<1> QED BY <1>3

-----------------------------------------------------------------------------
(* Shares of a whole, and what a trade makes of a position.                *)

LEMMA DivIs ==
  ASSUME NEW x \in Int, NEW q \in Int, NEW n \in Nat \ {0}, q * n <= x, x < q * n + n
  PROVE  x \div n = q
<1>1. q <= x \div n BY DivAbove
<1>2. x \div n < q + 1
  <2>1. (q + 1) * n = q * n + n OBVIOUS
  <2> QED BY <2>1, DivBelow
<1>3. x \div n \in Int BY DivBounds
<1> QED BY <1>1, <1>2, <1>3

LEMMA RoundIsInt ==
  ASSUME NEW a \in Int, NEW b \in Int, NEW c \in Nat \ {0}
  PROVE  MulDivRound(a, b, c) \in Int
<1>1. \A n \in Int : (2 * n + c) \div (2 * c) \in Int
  <2> TAKE n \in Int
  <2>1. 2 * n + c \in Int /\ 2 * c \in Nat \ {0} OBVIOUS
  <2> QED BY <2>1, DivBounds
<1>2. a * b \in Int /\ -(a * b) \in Int OBVIOUS
<1> QED BY <1>1, <1>2 DEF MulDivRound

\* A share that is whole is not rounded.
LEMMA RoundExact ==
  ASSUME NEW a \in Nat, NEW b \in Nat, NEW c \in Nat \ {0}, NEW k \in Nat, a * b = k * c
  PROVE  MulDivRound(a, b, c) = k
<1>1. a * b \in Nat OBVIOUS
<1>2. (2 * (a * b) + c) \div (2 * c) = k
  <2> DEFINE x == 2 * (a * b) + c
             n == 2 * c
  <2>1. x \in Int /\ n \in Nat \ {0} BY <1>1
  <2>2. k * n <= x /\ x < k * n + n
    <3>1. k * n = 2 * (k * c) OBVIOUS
    <3>2. k * c \in Int OBVIOUS
    <3> QED BY <3>1, <3>2
  <2> HIDE DEF x, n
  <2>3. x \div n = k BY <2>1, <2>2, DivIs
  <2> QED BY <2>3 DEF x, n
<1> QED BY <1>1, <1>2 DEF MulDivRound

LEMMA RoundWhole ==
  ASSUME NEW a \in Nat, NEW c \in Nat \ {0}
  PROVE  MulDivRound(a, c, c) = a
BY RoundExact

\* What a part of a block at a price releases.
LEMMA RoundBlock ==
  ASSUME NEW left \in Nat \ {0}, NEW price \in Nat, NEW qty \in Nat
  PROVE  MulDivRound(left * price, qty, left) = qty * price
<1>1. left * price \in Nat /\ qty * price \in Nat OBVIOUS
<1>2. (left * price) * qty = (qty * price) * left OBVIOUS
<1> QED BY <1>1, <1>2, RoundExact

LEMMA RoundBetween ==
  ASSUME NEW a \in Nat, NEW c \in Nat \ {0}, NEW b \in 0 .. c
  PROVE  MulDivRound(a, b, c) \in 0 .. a
<1>1. a * b \in Nat /\ a * c \in Nat OBVIOUS
<1>2. a * b <= a * c
  <2>1. \A x, y, z \in Nat : x <= y => z * x <= z * y OBVIOUS
  <2> QED BY <2>1
<1> DEFINE n == 2 * c
           x == 2 * (a * b) + c
           y == 2 * (a * c) + c
<1>3. n \in Nat \ {0} /\ x \in Int /\ y \in Int /\ x <= y /\ 0 <= x BY <1>1, <1>2
<1>4. y \div n = a
  <2>1. a * n = 2 * (a * c) OBVIOUS
  <2>2. a * n <= y /\ y < a * n + n BY <1>1, <2>1
  <2> HIDE DEF n, y
  <2> QED BY <1>3, <2>2, DivIs
<1>5. MulDivRound(a, b, c) = x \div n BY <1>1 DEF MulDivRound
<1> HIDE DEF n, x, y
<1>6. x \div n <= y \div n BY <1>3, DivMonotone
<1>7. 0 <= x \div n
  <2>1. 0 * n <= x BY <1>3
  <2> QED BY <1>3, <2>1, DivAbove
<1>8. x \div n \in Int BY <1>3, DivBounds
<1> QED BY <1>4, <1>5, <1>6, <1>7, <1>8

\* A position's cost is never below zero, and a flat one has none.
Positions == {b \in Books : b.openCost >= 0 /\ (b.netQty = 0 => b.openCost = 0)}

\* What a trade adds to the cash, with the shares and the P&L it leaves, is nothing.
LEMMA TradeKeeps ==
  ASSUME NEW book \in Positions, NEW side \in Sides, NEW qty \in Nat \ {0}, NEW price \in Nat
  PROVE  LET next == ApplyTrade(book, side, qty, price) IN
         /\ next \in Positions
         /\ next.netQty = IF side = "BUY" THEN book.netQty + qty ELSE book.netQty - qty
         /\ SignedCost(next) - next.realisedPnl
              = SignedCost(book) - book.realisedPnl
                + IF side = "BUY" THEN qty * price ELSE -(qty * price)
<1> DEFINE next   == ApplyTrade(book, side, qty, price)
           long   == side = "BUY"
           adding == book.netQty = 0 \/ (book.netQty > 0) = long
           closes == IF adding THEN 0 ELSE Least(qty, Abs(book.netQty))
           removed == IF adding THEN 0 ELSE CostOf(book, closes)
           rest   == qty - closes
<1>1. /\ book.netQty \in Int /\ book.openCost \in Nat /\ book.realisedPnl \in Int
      /\ book.buyQty \in Nat /\ book.sellQty \in Nat /\ book.buyValue \in Nat
      /\ book.sellValue \in Nat /\ (book.netQty = 0 => book.openCost = 0)
  BY DEF Positions, Books
<1>2. qty * price \in Nat OBVIOUS
<1>3. /\ closes \in 0 .. qty /\ rest \in 0 .. qty
      /\ ~adding => closes \in 1 .. Abs(book.netQty) /\ Abs(book.netQty) \in Nat \ {0}
      /\ ~adding /\ rest > 0 => closes = Abs(book.netQty)
  BY <1>1 DEF Least, Abs
<1>4. removed \in 0 .. book.openCost /\ (closes = Abs(book.netQty) => removed = book.openCost)
  <2>1. CASE adding BY <1>1, <2>1 DEF Abs
  <2>2. CASE ~adding
    <3>1. removed = MulDivRound(book.openCost, closes, Abs(book.netQty)) BY <2>2 DEF CostOf
    <3> DEFINE n == Abs(book.netQty)
               a == book.openCost
    <3>2. closes \in 0 .. n /\ n \in Nat \ {0} /\ a \in Nat BY <1>1, <1>3, <2>2
    <3> HIDE DEF closes, n, a
    <3>3. MulDivRound(a, closes, n) \in 0 .. a BY <3>2, RoundBetween
    <3>4. MulDivRound(a, n, n) = a BY <3>2, RoundWhole
    <3> QED BY <3>1, <3>3, <3>4, Zenon DEF n, a
  <2> QED BY <2>1, <2>2
<1>5. /\ closes * price \in Nat /\ rest * price \in Nat
      /\ closes * price + rest * price = qty * price
  <2>1. closes \in Int /\ rest \in Int /\ qty = closes + rest BY <1>3
  <2>2. closes \in Nat /\ rest \in Nat BY <1>3
  <2>3. \A x, y \in Nat : x * price \in Nat /\ x * price + y * price = (x + y) * price OBVIOUS
  <2> HIDE DEF closes, rest
  <2> QED BY <2>1, <2>2, <2>3
<1>6. next = [netQty |-> IF long THEN book.netQty + qty ELSE book.netQty - qty,
       openCost    |-> IF adding THEN book.openCost + qty * price
                       ELSE IF rest > 0 THEN rest * price ELSE book.openCost - removed,
       buyQty      |-> book.buyQty + (IF long THEN qty ELSE 0),
       sellQty     |-> book.sellQty + (IF long THEN 0 ELSE qty),
       buyValue    |-> book.buyValue + (IF long THEN qty * price ELSE 0),
       sellValue   |-> book.sellValue + (IF long THEN 0 ELSE qty * price),
       realisedPnl |-> book.realisedPnl
         + (IF long THEN removed - closes * price ELSE closes * price - removed)]
  BY DEF ApplyTrade
<1>7. removed \in Int /\ closes \in Int /\ rest \in Int BY <1>3, <1>4
<1>8. ~adding => book.netQty # 0 /\ (long <=> book.netQty < 0) BY <1>1
<1>9. long \in BOOLEAN OBVIOUS
<1>10. adding => (closes = 0 /\ removed = 0 /\ rest = qty) BY <1>1
<1>11. /\ next.netQty = (IF long THEN book.netQty + qty ELSE book.netQty - qty)
       /\ next.openCost = (IF adding THEN book.openCost + qty * price
                       ELSE IF rest > 0 THEN rest * price ELSE book.openCost - removed)
       /\ next.realisedPnl = book.realisedPnl
         + (IF long THEN removed - closes * price ELSE closes * price - removed)
  BY <1>6
<1>12. next.openCost \in Nat /\ (next.netQty = 0 => next.openCost = 0)
  <2> HIDE DEF next, closes, removed, rest
  <2>1. CASE adding
    <3>1. next.openCost = book.openCost + qty * price /\ next.netQty # 0
      BY <1>1, <1>11, <2>1
    <3> QED BY <1>1, <1>2, <3>1
  <2>2. CASE ~adding
    <3>1. rest = 0 <=> qty <= Abs(book.netQty) BY <1>1, <2>2 DEF rest, closes, Least, Abs
    <3>2. next.netQty = 0 => rest = 0 /\ closes = Abs(book.netQty)
      BY <1>1, <1>8, <1>11, <2>2, <3>1 DEF Abs, closes, Least, rest
    <3>3. next.openCost = IF rest > 0 THEN rest * price ELSE book.openCost - removed
      BY <1>11, <2>2
    <3> HIDE DEF adding
    <3> QED BY <1>1, <1>4, <1>5, <1>7, <1>3, <3>2, <3>3
  <2> QED BY <2>1, <2>2
<1>13. next \in Positions
  <2>1. /\ next.netQty \in Int /\ next.realisedPnl \in Int
    <3> HIDE DEF next, closes, removed, rest, adding
    <3> QED BY <1>1, <1>5, <1>7, <1>11
  <2>2. next \in Books
    <3> HIDE DEF closes, removed, rest, adding
    <3> QED BY <1>1, <1>2, <1>6, <1>12, <2>1 DEF Books
  <2> HIDE DEF next
  <2> QED BY <1>12, <2>2 DEF Positions
<1>14. SignedCost(next) - next.realisedPnl = SignedCost(book) - book.realisedPnl
                + IF long THEN qty * price ELSE -(qty * price)
  <2> DEFINE net == book.netQty
             cost == book.openCost
  <2>1. CASE adding
    <3>1. next.openCost = cost + qty * price /\ next.realisedPnl = book.realisedPnl
      <4>1. closes * price = 0 BY <1>10, <2>1
      <4>2. removed = 0 BY <1>10, <2>1
      <4>3. next.openCost = cost + qty * price BY <1>11, <2>1
      <4> HIDE DEF next, closes, rest, removed, adding, long, cost
      <4>4. next.realisedPnl = book.realisedPnl + 0 BY <1>11, <4>1, <4>2
      <4> QED BY <1>1, <4>3, <4>4
    <3>2. SignedCost(next) = IF long THEN cost + qty * price ELSE -(cost + qty * price)
      BY <1>1, <1>11, <2>1, <3>1 DEF SignedCost
    <3>3. SignedCost(book) = IF long THEN cost ELSE -cost
      BY <1>1, <2>1 DEF SignedCost
    <3> HIDE DEF next, closes, rest, removed, adding, long
    <3> QED BY <1>1, <1>2, <3>1, <3>2, <3>3
  <2>2. CASE ~adding
    <3>1. SignedCost(book) = IF long THEN -cost ELSE cost
      BY <1>1, <1>8, <2>2 DEF SignedCost
    <3>2. CASE rest > 0
      <4>1. removed = cost /\ closes = Abs(net) BY <1>3, <1>4, <2>2, <3>2
      <4>2. IF long THEN next.netQty > 0 ELSE next.netQty < 0
        BY <1>1, <1>8, <1>11, <2>2, <3>2, <4>1 DEF Abs
      <4>3. next.openCost = rest * price BY <1>11, <2>2, <3>2
      <4>4. SignedCost(next) = IF long THEN rest * price ELSE -(rest * price)
        <5> HIDE DEF next, closes, rest, removed, adding
        <5> QED BY <1>1, <1>11, <4>2, <4>3 DEF SignedCost
      <4> HIDE DEF next, closes, rest, removed, adding, long
      <4> QED BY <1>1, <1>2, <1>5, <1>11, <3>1, <4>1, <4>4
    <3>3. CASE rest = 0
      <4>1. next.openCost = cost - removed /\ closes = qty
        <5>1. next.openCost = cost - removed BY <1>11, <2>2, <3>3
        <5> QED BY <5>1, <3>3, <1>3
      <4>2. SignedCost(next) = IF long THEN -(cost - removed) ELSE cost - removed
        <5>1. next.netQty # 0 => (long <=> next.netQty < 0)
          BY <1>1, <1>3, <1>8, <1>11, <2>2, <4>1 DEF Abs
        <5>2. next.netQty = 0 => cost - removed = 0 BY <1>12, <4>1
        <5> HIDE DEF next, closes, rest, removed, adding
        <5> QED BY <1>1, <1>7, <1>11, <4>1, <5>1, <5>2 DEF SignedCost
      <4>3. closes * price = qty * price BY <4>1
      <4> HIDE DEF next, closes, rest, removed, adding, long
      <4> QED BY <1>1, <1>2, <1>5, <1>7, <1>11, <3>1, <4>2, <4>3
    <3> QED BY <1>3, <3>2, <3>3
  <2> QED BY <2>1, <2>2
<1> QED BY <1>11, <1>13, <1>14

-----------------------------------------------------------------------------
(* What an engine is made of.                                              *)

OrderOk(o) ==
  /\ o.filled <= o.qty /\ (o.filled = o.qty) = (o.status = "EXECUTED")
  /\ Live(o) => (o.type = "MARKET") = (o.price = None) /\ o.price \in Circuit \cup {None}
  /\ o.status = "AMO" => o.filled = 0
OrderRecords ==
  {o \in [side : Sides, type : {"MARKET", "LIMIT"}, product : Products, qty : Nat,
          price : Int \cup {None}, filled : Nat,
          status : {"AMO", "OPEN", "EXECUTED", "CANCELLED", "REJECTED"}, exit : BOOLEAN] : OrderOk(o)}

StopRecords ==
  [status : {"PENDING_ENTRY", "ARMED", "TRAILING", "TRIGGERED", "EXECUTED", "CANCELLED", "REJECTED"},
   direction : Directions, trail : Trails, activation : Nat \cup {None},
   watermark : Nat \cup {None}, stop : Int \cup {None}, product : Products,
   exitType : {"MARKET", "LIMIT"}, offset : Nat \cup {None}, qty : Nat,
   entry : Nat \cup {None}, exit : Nat \cup {None}]
\* A stop that protects has shares to sell, and one that trails has a price to sell them at.
StopOk(s) ==
  /\ Protecting(s) => s.qty > 0
  /\ s.status \in {"TRAILING", "TRIGGERED"} => s.stop \in Int /\ s.watermark \in Prices
  /\ (s.exitType = "MARKET") = (s.offset = None)

Lots == [qty : Nat, cost : Nat]
Engines ==
  [orders : Seq(OrderRecords), stops : Seq(StopRecords), books : [Products -> Positions],
   holding : Lots, carried : Lots, salesPnl : Int, pastPnl : Int, funds : Ledgers,
   capped : SUBSET Nat, synced : Nat, broken : {"", "FUNDS", "HOLDINGS", "RESET"}]

StopsOk(e) == \A t \in 1 .. Len(e.stops) : StopOk(e.stops[t])

LEMMA EngineFields ==
  ASSUME NEW e \in Engines
  PROVE  /\ e.orders \in Seq(OrderRecords) /\ e.stops \in Seq(StopRecords)
         /\ e.books \in [Products -> Positions] /\ e.holding \in Lots /\ e.carried \in Lots
         /\ e.salesPnl \in Int /\ e.pastPnl \in Int /\ e.funds \in Ledgers
         /\ e.capped \subseteq Nat /\ e.synced \in Nat
         /\ e.broken \in {"", "FUNDS", "HOLDINGS", "RESET"}
BY DEF Engines

LEMMA OrderFields ==
  ASSUME NEW o \in OrderRecords
  PROVE  /\ o.side \in Sides /\ o.type \in {"MARKET", "LIMIT"} /\ o.product \in Products
         /\ o.qty \in Nat /\ o.price \in Int \cup {None} /\ o.filled \in Nat
         /\ o.status \in {"AMO", "OPEN", "EXECUTED", "CANCELLED", "REJECTED"} /\ o.exit \in BOOLEAN
         /\ OrderOk(o)
         /\ Left(o) \in Nat
         /\ Live(o) => Left(o) > 0 /\ o.price \in Circuit \cup {None}
BY DEF OrderRecords, OrderOk, Left, Live

\* A sequence made from another, place by place.
LEMMA MadeSeq ==
  ASSUME NEW S, NEW n \in Nat, NEW f \in [1 .. n -> S]
  PROVE  f \in Seq(S) /\ Len(f) = n
OBVIOUS

LEMMA SeqPlaces ==
  ASSUME NEW S, NEW s \in Seq(S)
  PROVE  /\ Len(s) \in Nat /\ DOMAIN s = 1 .. Len(s) /\ s \in [1 .. Len(s) -> S]
         /\ \A i \in 1 .. Len(s) : s[i] \in S
OBVIOUS

-----------------------------------------------------------------------------
(* The ledger.                                                             *)

Total(f) == SumTo(f.blocks, Cardinality(OrderId))

LEMMA LedgerFields ==
  ASSUME NEW f \in Ledgers
  PROVE  /\ f.available \in Int /\ f.blocked \in Int /\ f.blocks \in [OrderId -> Int]
         /\ Total(f) \in Int
<1>1. /\ f.available \in Int /\ f.blocked \in Int /\ f.blocks \in [OrderId -> Int] BY DEF Ledgers
<1>2. Cardinality(OrderId) \in Nat /\ \A i \in 1 .. Cardinality(OrderId) : f.blocks[i] \in Int
  BY <1>1, FundsAssumption
<1> QED BY <1>1, <1>2, SumIsInt DEF Total

LEMMA TotalMoves ==
  ASSUME NEW u \in [OrderId -> Int], NEW v \in [OrderId -> Int], NEW i \in OrderId, NEW a \in Int,
         \A k \in OrderId : v[k] = IF k = i THEN u[k] + a ELSE u[k]
  PROVE  SumTo(v, Cardinality(OrderId)) = SumTo(u, Cardinality(OrderId)) + a
<1> DEFINE n == Cardinality(OrderId)
<1>1. n \in Nat /\ OrderId = 1 .. n BY FundsAssumption
<1>2. v[i] = u[i] + a /\ v[i] \in Int /\ u[i] \in Int OBVIOUS
<1>3. (\A k \in 1 .. n : u[k] \in Int) /\ \A k \in 1 .. n : k # i => v[k] = u[k] BY <1>1
<1>4. i \in 1 .. n BY <1>1
<1> HIDE DEF n
<1>5. SumTo(v, n) = SumTo(u, n) - u[i] + v[i] BY <1>1, <1>2, <1>3, <1>4, SumChange
<1>6. SumTo(u, n) \in Int BY <1>1, <1>3, SumIsInt
<1> QED BY <1>2, <1>5, <1>6 DEF n

LEMMA LedgerFreed ==
  ASSUME NEW f \in Ledgers, NEW I
  PROVE  LET g == ReleaseAll(f, I) IN
         /\ g \in Ledgers
         /\ g.blocks = [o \in OrderId |-> IF o \in I THEN 0 ELSE f.blocks[o]]
         /\ g.available + g.blocked = f.available + f.blocked
         /\ g.blocked - Total(g) = f.blocked - Total(f)
<1> DEFINE n == Cardinality(OrderId)
           part  == [o \in OrderId |-> IF o \in I THEN f.blocks[o] ELSE 0]
           freed == SumTo(part, n)
           after == [o \in OrderId |-> IF o \in I THEN 0 ELSE f.blocks[o]]
           g == ReleaseAll(f, I)
<1>1. /\ f.available \in Int /\ f.blocked \in Int /\ f.blocks \in [OrderId -> Int]
      /\ Total(f) \in Int
  BY LedgerFields
<1>2. n \in Nat /\ OrderId = 1 .. n BY FundsAssumption
<1>3. part \in [OrderId -> Int] /\ after \in [OrderId -> Int] BY <1>1
<1>4. \A i \in 1 .. n : f.blocks[i] \in Int /\ part[i] \in Int /\ after[i] = f.blocks[i] - part[i]
  BY <1>1, <1>2, <1>3
<1>5. SumTo(after, n) = SumTo(f.blocks, n) - SumTo(part, n)
  <2> HIDE DEF n, part, after
  <2> QED BY <1>2, <1>4, SumMinus
<1>6. freed \in Int
  <2> HIDE DEF n, part
  <2> QED BY <1>2, <1>4, SumIsInt
<1>7. g = [f EXCEPT !.blocks = after, !.blocked = f.blocked - freed, !.available = f.available + freed]
  BY DEF ReleaseAll
<1> DEFINE blocked == f.blocked - freed
           available == f.available + freed
<1> HIDE DEF g, after, freed
<1>12. blocked \in Int /\ available \in Int BY <1>1, <1>6
<1>13. g = [f EXCEPT !.blocks = after, !.blocked = blocked, !.available = available] BY <1>7
<1> HIDE DEF blocked, available
<1>8. g \in Ledgers /\ g.blocks = after /\ g.blocked = blocked /\ g.available = available
  BY <1>3, <1>12, <1>13 DEF Ledgers, after
<1>9. Total(g) = Total(f) - freed
  <2>1. Total(g) = SumTo(after, n) /\ Total(f) = SumTo(f.blocks, n) /\ freed = SumTo(part, n)
    BY <1>8 DEF Total, freed
  <2> QED BY <1>5, <2>1, Zenon
<1>10. g.available + g.blocked = f.available + f.blocked
  BY <1>1, <1>6, <1>8 DEF blocked, available
<1>11. g.blocked - Total(g) = f.blocked - Total(f)
  BY <1>1, <1>6, <1>8, <1>9 DEF blocked
<1> QED BY <1>8, <1>10, <1>11 DEF g, after

\* A block, a release and the settlement of a buy move the order's block, and the total with it.
Moved(f, i, a, b) ==
  [available |-> f.available + b, blocked |-> f.blocked + a,
   blocks |-> [k \in OrderId |-> IF k = i THEN f.blocks[k] + a ELSE f.blocks[k]]]

LEMMA LedgerMoves ==
  ASSUME NEW f \in Ledgers, NEW i \in OrderId, NEW a \in Int, NEW b \in Int
  PROVE  /\ Moved(f, i, a, b) \in Ledgers
         /\ Total(Moved(f, i, a, b)) = Total(f) + a
<1>1. f.available \in Int /\ f.blocked \in Int /\ f.blocks \in [OrderId -> Int] BY LedgerFields
<1> DEFINE u == f.blocks
           v == [k \in OrderId |-> IF k = i THEN u[k] + a ELSE u[k]]
           g == Moved(f, i, a, b)
<1>2. v \in [OrderId -> Int] BY <1>1
<1>3. f.available + b \in Int /\ f.blocked + a \in Int BY <1>1
<1>4. g = [available |-> f.available + b, blocked |-> f.blocked + a, blocks |-> v] BY DEF Moved
<1>5. SumTo(v, Cardinality(OrderId)) = SumTo(u, Cardinality(OrderId)) + a
  <2>1. \A k \in OrderId : v[k] = IF k = i THEN u[k] + a ELSE u[k] OBVIOUS
  <2> HIDE DEF u, v
  <2> QED BY <1>1, <1>2, <2>1, TotalMoves DEF u
<1> HIDE DEF v, g
<1>6. g \in Ledgers /\ g.blocks = v BY <1>2, <1>3, <1>4 DEF Ledgers
<1> QED BY <1>5, <1>6 DEF Total, g

LEMMA LedgerOps ==
  ASSUME NEW f \in Ledgers, NEW i \in OrderId, NEW x \in Int, NEW cost \in Int
  PROVE  /\ Block(f, i, x) = Moved(f, i, x, -x)
         /\ Release(f, i, x) = Moved(f, i, -x, x)
         /\ SettleBuy(f, i, cost, x) = Moved(f, i, -x, x - cost)
<1>1. f.available \in Int /\ f.blocked \in Int /\ f.blocks \in [OrderId -> Int] BY LedgerFields
<1> DEFINE up == [k \in OrderId |-> IF k = i THEN f.blocks[k] + x ELSE f.blocks[k]]
           down == [k \in OrderId |-> IF k = i THEN f.blocks[k] + -x ELSE f.blocks[k]]
<1>2. [f.blocks EXCEPT ![i] = @ + x] = up /\ [f.blocks EXCEPT ![i] = @ - x] = down BY <1>1
<1>3. /\ f.available - x = f.available + -x /\ f.blocked - x = f.blocked + -x
      /\ (f.available + x) - cost = f.available + (x - cost)
  BY <1>1
<1>4. Block(f, i, x) = [f EXCEPT !.blocks = [f.blocks EXCEPT ![i] = @ + x],
                                !.blocked = f.blocked + x, !.available = f.available - x]
  BY DEF Block, Ledgers
<1>5. Release(f, i, x) = [f EXCEPT !.blocks = [f.blocks EXCEPT ![i] = @ - x],
                                  !.blocked = f.blocked - x, !.available = f.available + x]
  BY DEF Release, Ledgers
<1> HIDE DEF up, down
<1>6. Block(f, i, x) = [available |-> f.available + -x, blocked |-> f.blocked + x, blocks |-> up]
  BY <1>2, <1>3, <1>4 DEF Ledgers
<1>7. Release(f, i, x) = [available |-> f.available + x, blocked |-> f.blocked + -x, blocks |-> down]
  BY <1>2, <1>3, <1>5 DEF Ledgers
<1>8. SettleBuy(f, i, cost, x) =
        [available |-> f.available + (x - cost), blocked |-> f.blocked + -x, blocks |-> down]
  BY <1>3, <1>7 DEF SettleBuy
<1> QED BY <1>6, <1>7, <1>8 DEF Moved, up, down

-----------------------------------------------------------------------------
(* What the engine does without a fill: it ends orders, with their blocks, *)
(* and changes stops.                                                      *)

\* Order i is as it was, or was live and is cancelled, with nothing blocked for it.
Stays(e, d, i) ==
  d.orders[i] = e.orders[i] /\ (i \in OrderId => d.funds.blocks[i] = e.funds.blocks[i])
Ends(e, d, i) ==
  /\ Live(e.orders[i]) /\ d.orders[i] = Cancelled(e.orders[i])
  /\ i \in OrderId => d.funds.blocks[i] = 0
  /\ i \notin d.capped
After(e) ==
  {d \in Engines :
     /\ d.books = e.books /\ d.holding = e.holding /\ d.carried = e.carried
     /\ d.salesPnl = e.salesPnl /\ d.pastPnl = e.pastPnl
     /\ d.synced = e.synced /\ d.broken = e.broken
     /\ Len(d.orders) = Len(e.orders) /\ Len(d.stops) = Len(e.stops)
     /\ d.capped \subseteq e.capped
     /\ d.funds.available + d.funds.blocked = e.funds.available + e.funds.blocked
     /\ d.funds.blocked - Total(d.funds) = e.funds.blocked - Total(e.funds)
     /\ \A i \in 1 .. Len(e.orders) : Stays(e, d, i) \/ Ends(e, d, i)
     /\ \A i \in OrderId : i > Len(e.orders) => d.funds.blocks[i] = e.funds.blocks[i]}

\* The stops are as they were, or cancelled.
OnlyEnd(e, d) ==
  \A t \in 1 .. Len(e.stops) : d.stops[t] = e.stops[t] \/ d.stops[t] = Cancelled(e.stops[t])

LEMMA CancelledStop == \A s \in StopRecords : Cancelled(s) \in StopRecords /\ Cancelled(s).status = "CANCELLED"
  BY DEF StopRecords, Cancelled

LEMMA CancelledOrder ==
  ASSUME NEW o \in OrderRecords, Live(o)
  PROVE  /\ Cancelled(o) \in OrderRecords
         /\ Cancelled(o).status = "CANCELLED" /\ Cancelled(o).filled = o.filled /\ Cancelled(o).qty = o.qty
         /\ Cancelled(o).side = o.side /\ Cancelled(o).product = o.product /\ Cancelled(o).exit = o.exit
         /\ Cancelled(o).type = o.type /\ Cancelled(o).price = o.price
  BY DEF OrderRecords, OrderOk, Cancelled, Live

LEMMA AfterSelf == \A e \in Engines : e \in After(e) BY DEF After, Stays

LEMMA AfterAfter ==
  ASSUME NEW e \in Engines, NEW d \in After(e), NEW c \in After(d)
  PROVE  c \in After(e)
<1>1. d \in Engines /\ c \in Engines BY DEF After
<1>2. Len(d.orders) = Len(e.orders) /\ c.capped \subseteq d.capped BY DEF After
<1>3. ASSUME NEW i \in 1 .. Len(e.orders) PROVE Stays(e, c, i) \/ Ends(e, c, i)
  <2>1. (Stays(e, d, i) \/ Ends(e, d, i)) /\ (Stays(d, c, i) \/ Ends(d, c, i)) BY <1>2 DEF After
  <2>2. ~(Ends(e, d, i) /\ Ends(d, c, i))
    <3>1. e.orders[i] \in OrderRecords
      <4>1. e.orders \in Seq(OrderRecords) BY EngineFields
      <4> QED BY <4>1, SeqPlaces
    <3>2. Live(e.orders[i]) => ~Live(Cancelled(e.orders[i])) BY <3>1, CancelledOrder DEF Live
    <3> QED BY <3>2 DEF Ends
  <2>3. CASE Stays(e, d, i)
    <3>1. CASE Stays(d, c, i) BY <2>3, <3>1 DEF Stays
    <3>2. CASE Ends(d, c, i)
      <4>1. d.orders[i] = e.orders[i] BY <2>3 DEF Stays
      <4> QED BY <3>2, <4>1 DEF Ends
    <3> QED BY <2>1, <3>1, <3>2
  <2>4. CASE Ends(e, d, i) /\ Stays(d, c, i) BY <1>2, <2>4 DEF Stays, Ends
  <2> QED BY <2>1, <2>2, <2>3, <2>4
<1>4. ASSUME NEW i \in OrderId, i > Len(e.orders) PROVE c.funds.blocks[i] = e.funds.blocks[i]
  <2>1. d.funds.blocks[i] = e.funds.blocks[i] BY <1>4 DEF After
  <2>2. c.funds.blocks[i] = d.funds.blocks[i] BY <1>2, <1>4 DEF After
  <2> QED BY <2>1, <2>2
<1>5. /\ c.books = e.books /\ c.holding = e.holding /\ c.carried = e.carried
      /\ c.salesPnl = e.salesPnl /\ c.pastPnl = e.pastPnl
      /\ c.synced = e.synced /\ c.broken = e.broken
      /\ Len(c.orders) = Len(e.orders) /\ Len(c.stops) = Len(e.stops)
      /\ c.capped \subseteq e.capped
      /\ c.funds.available + c.funds.blocked = e.funds.available + e.funds.blocked
      /\ c.funds.blocked - Total(c.funds) = e.funds.blocked - Total(e.funds)
  BY DEF After
<1> QED BY <1>1, <1>3, <1>4, <1>5 DEF After

\* Stops changed, one for one.
LEMMA StopsChanged ==
  ASSUME NEW e \in Engines, NEW S \in Seq(StopRecords), Len(S) = Len(e.stops)
  PROVE  /\ [e EXCEPT !.stops = S] \in After(e)
         /\ [e EXCEPT !.stops = S].stops = S /\ [e EXCEPT !.stops = S].orders = e.orders
         /\ [e EXCEPT !.stops = S].funds = e.funds
<1> DEFINE d == [e EXCEPT !.stops = S]
<1>1. /\ d \in Engines /\ d.stops = S /\ d.orders = e.orders /\ d.funds = e.funds
      /\ d.capped = e.capped /\ d.books = e.books /\ d.holding = e.holding /\ d.carried = e.carried
      /\ d.salesPnl = e.salesPnl /\ d.pastPnl = e.pastPnl
      /\ d.synced = e.synced /\ d.broken = e.broken
  BY DEF Engines
<1> HIDE DEF d
<1>2. d \in After(e) BY <1>1 DEF After, Stays
<1> QED BY <1>1, <1>2 DEF d

\* CancelIn, in its places.
LEMMA CancelledIn ==
  ASSUME NEW V, NEW s \in Seq(V), NEW I, \A i \in 1 .. Len(s) : i \in I => Cancelled(s[i]) \in V
  PROVE  LET S == CancelIn(s, I) IN
         /\ S \in Seq(V) /\ Len(S) = Len(s)
         /\ \A i \in 1 .. Len(s) : S[i] = IF i \in I THEN Cancelled(s[i]) ELSE s[i]
<1> DEFINE n == Len(s)
           f == [i \in 1 .. n |-> IF i \in I THEN Cancelled(s[i]) ELSE s[i]]
           S == SubSeq(f, 1, n)
<1>1. n \in Nat /\ \A i \in 1 .. n : s[i] \in V BY SeqPlaces
<1>2. f \in [1 .. n -> V] BY <1>1
<1>3. f \in Seq(V) /\ Len(f) = n BY <1>1, <1>2, MadeSeq
<1>4. \A i \in 1 .. n : f[i] = IF i \in I THEN Cancelled(s[i]) ELSE s[i] OBVIOUS
<1>5. S \in Seq(V) /\ Len(S) = n /\ \A i \in 1 .. n : S[i] = f[i]
  <2> HIDE DEF f
  <2> QED BY <1>1, <1>3
<1>6. S = CancelIn(s, I) BY DEF CancelIn
<1> HIDE DEF S
<1> QED BY <1>4, <1>5, <1>6

LEMMA StopsEnd ==
  ASSUME NEW e \in Engines, NEW T
  PROVE  LET d == EndStops(e, T) IN
         /\ d \in After(e) /\ OnlyEnd(e, d) /\ d.orders = e.orders /\ d.funds = e.funds
         /\ \A t \in 1 .. Len(e.stops) : d.stops[t] = IF t \in T THEN Cancelled(e.stops[t]) ELSE e.stops[t]
<1> DEFINE n == Len(e.stops)
           S == CancelIn(e.stops, T)
<1>1. e.stops \in Seq(StopRecords) BY EngineFields
<1>2. \A t \in 1 .. n : Cancelled(e.stops[t]) \in StopRecords
  <2>1. \A t \in 1 .. n : e.stops[t] \in StopRecords BY <1>1, SeqPlaces
  <2> QED BY <2>1, CancelledStop
<1>3. S \in Seq(StopRecords) /\ Len(S) = n
      /\ \A t \in 1 .. n : S[t] = IF t \in T THEN Cancelled(e.stops[t]) ELSE e.stops[t]
  BY <1>1, <1>2, CancelledIn
<1>5. EndStops(e, T) = [e EXCEPT !.stops = S] BY DEF EndStops
<1> HIDE DEF S
<1> QED BY <1>3, <1>5, StopsChanged DEF OnlyEnd

\* CancelOrders, of live orders.
LEMMA OrdersCancelled ==
  ASSUME NEW e \in Engines, NEW I \in SUBSET LiveOrders(e)
  PROVE  LET d == CancelOrders(e, I) IN
         /\ d \in After(e) /\ OnlyEnd(e, d)
         /\ \A i \in 1 .. Len(e.orders) : IF i \in I THEN Ends(e, d, i) ELSE Stays(e, d, i)
<1> DEFINE n == Len(e.orders)
           orders == CancelIn(e.orders, I)
           funds  == ReleaseAll(e.funds, I)
           capped == e.capped \ I
           freed  == [e EXCEPT !.funds = funds, !.capped = capped]
           ended  == EndOrders(freed, I)
           closed == EntryClosed(ended, I)
           d      == ExitEnded(closed, I)
<1>1. /\ n \in Nat /\ \A i \in 1 .. n : e.orders[i] \in OrderRecords
      /\ I \subseteq 1 .. n /\ \A i \in I : Live(e.orders[i])
      /\ e.funds \in Ledgers /\ e.stops \in Seq(StopRecords) /\ e.capped \subseteq Nat
  <2>1. e.orders \in Seq(OrderRecords) /\ e.funds \in Ledgers /\ e.stops \in Seq(StopRecords)
        /\ e.capped \subseteq Nat
    BY EngineFields
  <2>2. n \in Nat /\ DOMAIN e.orders = 1 .. n /\ \A i \in 1 .. n : e.orders[i] \in OrderRecords
    BY <2>1, SeqPlaces
  <2> QED BY <2>1, <2>2 DEF LiveOrders
<1>2. e.orders \in Seq(OrderRecords) /\ \A i \in 1 .. n : i \in I => Cancelled(e.orders[i]) \in OrderRecords
  <2>1. e.orders \in Seq(OrderRecords) BY EngineFields
  <2>2. \A i \in 1 .. n : i \in I => Cancelled(e.orders[i]) \in OrderRecords BY <1>1, CancelledOrder
  <2> QED BY <2>1, <2>2
<1>3. orders \in Seq(OrderRecords) /\ Len(orders) = n
      /\ \A i \in 1 .. n : orders[i] = IF i \in I THEN Cancelled(e.orders[i]) ELSE e.orders[i]
  BY <1>2, CancelledIn
<1>4. /\ funds \in Ledgers
      /\ funds.blocks = [o \in OrderId |-> IF o \in I THEN 0 ELSE e.funds.blocks[o]]
      /\ funds.available + funds.blocked = e.funds.available + e.funds.blocked
      /\ funds.blocked - Total(funds) = e.funds.blocked - Total(e.funds)
  BY <1>1, LedgerFreed
<1>5. capped \in SUBSET Nat BY <1>1
<1>6. \A i \in 1 .. n : orders[i] = IF i \in I THEN Cancelled(e.orders[i]) ELSE e.orders[i] BY <1>3
<1>7. /\ ended \in Engines
      /\ ended.orders = orders /\ ended.stops = e.stops /\ ended.funds = funds /\ ended.capped = capped
      /\ ended.books = e.books /\ ended.holding = e.holding /\ ended.carried = e.carried
      /\ ended.salesPnl = e.salesPnl /\ ended.pastPnl = e.pastPnl
      /\ ended.synced = e.synced /\ ended.broken = e.broken
  <2>1. freed.orders = e.orders BY DEF Engines
  <2>2. ended = [freed EXCEPT !.orders = orders] BY <2>1 DEF EndOrders
  <2> HIDE DEF orders, funds, capped, ended
  <2>3. ended = [e EXCEPT !.orders = orders, !.funds = funds, !.capped = capped]
    BY <2>2 DEF Engines
  <2> QED BY <1>3, <1>4, <1>5, <2>3 DEF Engines
<1> HIDE DEF orders, funds, capped, freed, ended
<1>8. ended \in After(e)
  <2>1. \A i \in 1 .. n : IF i \in I THEN Ends(e, ended, i) ELSE Stays(e, ended, i)
    BY <1>1, <1>4, <1>6, <1>7 DEF Ends, Stays, capped
  <2>2. ended.capped \subseteq e.capped BY <1>7 DEF capped
  <2>3. \A i \in OrderId : i > n => ended.funds.blocks[i] = e.funds.blocks[i]
    BY <1>1, <1>4, <1>7
  <2> QED BY <1>3, <1>4, <1>7, <2>1, <2>2, <2>3 DEF After
<1>9. closed \in After(ended) /\ OnlyEnd(ended, closed) /\ closed.orders = orders /\ closed.funds = funds
  BY <1>7, StopsEnd DEF EntryClosed
<1>10. closed \in Engines BY <1>9 DEF After
<1> HIDE DEF closed
<1>11. d \in After(closed) /\ OnlyEnd(closed, d) /\ d.orders = orders /\ d.funds = funds
  BY <1>9, <1>10, StopsEnd DEF ExitEnded
<1> HIDE DEF d
<1>12. d \in After(ended) BY <1>7, <1>9, <1>11, AfterAfter
<1>13. d \in After(e) BY <1>8, <1>12, AfterAfter
<1>14. OnlyEnd(e, d)
  <2>1. ended.stops = e.stops /\ Len(closed.stops) = Len(e.stops) BY <1>7, <1>9 DEF After
  <2>2. \A s : Cancelled(Cancelled(s)) = Cancelled(s) BY DEF Cancelled
  <2> QED BY <1>9, <1>11, <2>1, <2>2 DEF OnlyEnd
<1>15. d.capped \subseteq capped BY <1>7, <1>12 DEF After
<1>16. \A i \in 1 .. n : IF i \in I THEN Ends(e, d, i) ELSE Stays(e, d, i)
  BY <1>1, <1>4, <1>6, <1>11, <1>15 DEF Ends, Stays, capped
<1>17. d = CancelOrders(e, I) BY DEF CancelOrders, d, closed, ended, freed, funds, capped
<1> QED BY <1>13, <1>14, <1>16, <1>17

LEMMA LiveAre ==
  ASSUME NEW e \in Engines
  PROVE  /\ \A i \in LiveOrders(e) : i \in 1 .. Len(e.orders) /\ Live(e.orders[i])
         /\ OpenOrders(e) \subseteq LiveOrders(e) /\ DeliverySells(e) \subseteq LiveOrders(e)
         /\ \A i \in 1 .. Len(e.orders) : Live(e.orders[i]) => i \in LiveOrders(e)
<1>1. DOMAIN e.orders = 1 .. Len(e.orders)
  <2>1. e.orders \in Seq(OrderRecords) BY EngineFields
  <2> QED BY <2>1, SeqPlaces
<1> QED BY <1>1 DEF LiveOrders, OpenOrders, DeliverySells, Live

\* CancelStops: none of them is active after it.
LEMMA StopsCancelled ==
  ASSUME NEW e \in Engines, NEW T
  PROVE  LET d == CancelStops(e, T) IN
         /\ d \in After(e) /\ OnlyEnd(e, d)
         /\ \A t \in 1 .. Len(e.stops) : t \in T => ~Active(d.stops[t])
<1> DEFINE active == {t \in T : Active(e.stops[t])}
           ended == EndStops(e, active)
           I == {i \in LiveOrders(e) : \E t \in active : e.stops[t].exit = i}
           d == CancelOrders(ended, I)
<1>1. /\ ended \in After(e) /\ OnlyEnd(e, ended) /\ ended.orders = e.orders
      /\ \A t \in 1 .. Len(e.stops) : ended.stops[t] = IF t \in active THEN Cancelled(e.stops[t]) ELSE e.stops[t]
  BY StopsEnd
<1>2. ended \in Engines /\ Len(ended.stops) = Len(e.stops) BY <1>1 DEF After
<1>3. I \subseteq LiveOrders(ended) BY <1>1 DEF LiveOrders
<1>4. d \in After(ended) /\ OnlyEnd(ended, d) BY <1>2, <1>3, OrdersCancelled
<1>5. \A s : Cancelled(Cancelled(s)) = Cancelled(s) /\ (s \in StopRecords => ~Active(Cancelled(s)))
  BY CancelledStop DEF Cancelled, Active
<1>6. d = CancelStops(e, T) BY DEF CancelStops
<1> HIDE DEF d, ended, I
<1>7. d \in After(e) BY <1>1, <1>2, <1>4, AfterAfter
<1>8. OnlyEnd(e, d) BY <1>1, <1>2, <1>4, <1>5 DEF OnlyEnd
<1>9. ASSUME NEW t \in 1 .. Len(e.stops), t \in T PROVE ~Active(d.stops[t])
  <2>1. e.stops[t] \in StopRecords
    <3>1. e.stops \in Seq(StopRecords) BY EngineFields
    <3> QED BY <3>1, SeqPlaces
  <2>2. ~Active(ended.stops[t]) BY <1>1, <1>5, <1>9, <2>1
  <2>3. ended.stops[t] \in StopRecords
    <3>1. ended.stops \in Seq(StopRecords) BY <1>2, EngineFields
    <3> QED BY <1>2, <3>1, SeqPlaces
  <2>4. d.stops[t] = ended.stops[t] \/ d.stops[t] = Cancelled(ended.stops[t])
    BY <1>2, <1>4 DEF OnlyEnd
  <2> QED BY <1>5, <2>2, <2>3, <2>4
<1> QED BY <1>6, <1>7, <1>8, <1>9

-----------------------------------------------------------------------------
(* Stops that step, follow and arm.                                        *)

LEMMA StopSteps ==
  ASSUME NEW s \in StopRecords, StopOk(s), NEW price \in Prices
  PROVE  LET r == StepTrailingStop(s, price) IN
         /\ r \in StopRecords /\ StopOk(r)
         /\ r.product = s.product /\ r.direction = s.direction /\ r.qty = s.qty
         /\ r.exitType = s.exitType /\ r.offset = s.offset /\ r.entry = s.entry /\ r.exit = s.exit
<1> DEFINE r == StepTrailingStop(s, price)
<1>1. /\ s.direction \in Directions /\ s.trail \in Trails /\ s.stop \in Int \cup {None}
      /\ s.watermark \in Nat \cup {None} /\ Prices \subseteq Nat
  BY DEF StopRecords, Prices
<1>2. \A w \in Prices : StopFromWatermark(s.direction, s.trail, w) \in Int BY <1>1, StopIsPaise
<1>3. CASE s.status = "ARMED" /\ Activates(s, price)
  <2>1. r = Activated(s, price) BY <1>3 DEF StepTrailingStop
  <2> DEFINE stop == StopFromWatermark(s.direction, s.trail, price)
  <2>2. r = [s EXCEPT !.status = "TRAILING", !.watermark = price, !.stop = stop]
    BY <2>1 DEF Activated
  <2>3. stop \in Int BY <1>2
  <2> HIDE DEF stop, r
  <2>4. r \in StopRecords BY <1>1, <2>2, <2>3 DEF StopRecords
  <2>5. StopOk(r) BY <1>3, <2>2, <2>3 DEF StopOk, Protecting, StopRecords
  <2> QED BY <2>2, <2>4, <2>5 DEF StopRecords, r
<1>4. CASE s.status = "TRAILING"
  <2>1. s.stop \in Int /\ s.watermark \in Prices BY <1>4 DEF StopOk
  <2> DEFINE best == Better(s.direction, s.watermark, price)
             stop == Better(s.direction, s.stop, StopFromWatermark(s.direction, s.trail, best))
  <2>2. best \in Prices BY <2>1 DEF Better
  <2>3. stop \in Int BY <1>2, <2>1, <2>2 DEF Better
  <2>4. Ratcheted(s, price) = [s EXCEPT !.watermark = best, !.stop = stop]
    BY DEF Ratcheted
  <2>5. \E status \in {"TRAILING", "TRIGGERED"} :
          r = [s EXCEPT !.watermark = best, !.stop = stop, !.status = status]
    <3>1. r = Ratcheted(s, price) \/ r = [Ratcheted(s, price) EXCEPT !.status = "TRIGGERED"]
      BY <1>4 DEF StepTrailingStop
    <3> HIDE DEF best, stop, r
    <3> DEFINE moved == [s EXCEPT !.watermark = best, !.stop = stop]
    <3>2. moved = [s EXCEPT !.watermark = best, !.stop = stop, !.status = "TRAILING"]
      BY <1>4 DEF StopRecords
    <3>3. [moved EXCEPT !.status = "TRIGGERED"]
            = [s EXCEPT !.watermark = best, !.stop = stop, !.status = "TRIGGERED"]
      BY DEF StopRecords
    <3> QED BY <2>4, <3>1, <3>2, <3>3, Zenon
  <2> HIDE DEF best, stop, r
  <2>6. PICK status \in {"TRAILING", "TRIGGERED"} :
          r = [s EXCEPT !.watermark = best, !.stop = stop, !.status = status] BY <2>5
  <2>7. r \in StopRecords BY <1>1, <2>2, <2>3, <2>6 DEF StopRecords
  <2>8. StopOk(r)
    <3>1. /\ r.status = status /\ r.qty = s.qty /\ r.stop = stop /\ r.watermark = best
          /\ r.exitType = s.exitType /\ r.offset = s.offset
      BY <2>6 DEF StopRecords
    <3>2. s.qty > 0 /\ (s.exitType = "MARKET") = (s.offset = None) BY <1>4 DEF StopOk, Protecting
    <3> QED BY <2>2, <2>3, <3>1, <3>2 DEF StopOk
  <2> QED BY <2>6, <2>7, <2>8 DEF StopRecords, r
<1>5. CASE ~(s.status = "ARMED" /\ Activates(s, price)) /\ s.status # "TRAILING"
  <2>1. r = s BY <1>5 DEF StepTrailingStop
  <2> HIDE DEF r
  <2> QED BY <2>1 DEF r
<1> QED BY <1>3, <1>4, <1>5

LEMMA OnlyEndOk ==
  ASSUME NEW e \in Engines, NEW d \in After(e), OnlyEnd(e, d), StopsOk(e)
  PROVE  StopsOk(d)
<1> SUFFICES ASSUME NEW t \in 1 .. Len(d.stops) PROVE StopOk(d.stops[t]) BY DEF StopsOk
<1>1. Len(d.stops) = Len(e.stops) BY DEF After
<1>2. e.stops[t] \in StopRecords
  <2>1. e.stops \in Seq(StopRecords) BY EngineFields
  <2> QED BY <1>1, <2>1, SeqPlaces
<1>3. StopOk(e.stops[t]) /\ (d.stops[t] = e.stops[t] \/ d.stops[t] = Cancelled(e.stops[t]))
  BY <1>1 DEF StopsOk, OnlyEnd
<1>4. StopOk(Cancelled(e.stops[t])) BY <1>2, <1>3 DEF StopOk, StopRecords, Cancelled, Protecting
<1> QED BY <1>3, <1>4

\* One stop changed.
StopSet(e, t, r) == [e EXCEPT !.stops = [e.stops EXCEPT ![t] = r]]

LEMMA StopChanged ==
  ASSUME NEW e \in Engines, NEW t \in 1 .. Len(e.stops), NEW r \in StopRecords
  PROVE  LET d == StopSet(e, t, r) IN
         /\ d \in After(e) /\ d.orders = e.orders /\ d.funds = e.funds /\ Len(d.stops) = Len(e.stops)
         /\ \A u \in 1 .. Len(e.stops) : d.stops[u] = IF u = t THEN r ELSE e.stops[u]
         /\ StopsOk(e) /\ StopOk(r) => StopsOk(d)
<1> DEFINE S == [e.stops EXCEPT ![t] = r]
<1>1. e.stops \in Seq(StopRecords) BY EngineFields
<1>2. /\ S \in Seq(StopRecords) /\ Len(S) = Len(e.stops)
      /\ \A u \in 1 .. Len(e.stops) : S[u] = IF u = t THEN r ELSE e.stops[u]
  BY <1>1
<1> HIDE DEF S
<1>3. LET d == [e EXCEPT !.stops = S] IN
      d \in After(e) /\ d.stops = S /\ d.orders = e.orders /\ d.funds = e.funds
  BY <1>2, StopsChanged
<1> QED BY <1>2, <1>3 DEF StopSet, StopsOk, S

LEMMA StopQty ==
  ASSUME NEW e \in Engines, NEW t \in 1 .. Len(e.stops), NEW q \in Nat
  PROVE  /\ [e EXCEPT !.stops[t].qty = q] = StopSet(e, t, [e.stops[t] EXCEPT !.qty = q])
         /\ [e.stops[t] EXCEPT !.qty = q] \in StopRecords
<1>1. e.stops[t] \in StopRecords
  <2>1. e.stops \in Seq(StopRecords) BY EngineFields
  <2> QED BY <2>1, SeqPlaces
<1>2. [e.stops[t] EXCEPT !.qty = q] \in StopRecords BY <1>1 DEF StopRecords
<1>3. [e EXCEPT !.stops[t].qty = q] = StopSet(e, t, [e.stops[t] EXCEPT !.qty = q])
  BY DEF StopSet, Engines
<1> QED BY <1>2, <1>3

\* A stop follows its position.
LEMMA Follows ==
  ASSUME NEW e \in Engines, StopsOk(e), NEW t \in 1 .. Len(e.stops), NEW net \in Int
  PROVE  FollowPosition(e, t, net) \in After(e) /\ StopsOk(FollowPosition(e, t, net))
<1> DEFINE s == e.stops[t]
           open == Opens(net, s.direction)
           done == s.exit # None /\ e.orders[s.exit].status = "EXECUTED"
           sold == s.exit # None /\ e.orders[s.exit].filled > 0
           d == FollowPosition(e, t, net)
<1>1. s \in StopRecords /\ StopOk(s)
  <2>1. e.stops \in Seq(StopRecords) BY EngineFields
  <2> QED BY <2>1, SeqPlaces DEF StopsOk
<1>2. Abs(net) \in Nat /\ (open => Abs(net) > 0) BY DEF Abs, Opens
<1>3. CASE open /\ ~done
  <2> DEFINE r == [s EXCEPT !.qty = Abs(net)]
  <2>1. d = [e EXCEPT !.stops[t].qty = Abs(net)] BY <1>3 DEF FollowPosition
  <2>2. d = StopSet(e, t, r) /\ r \in StopRecords
    <3> DEFINE q == Abs(net)
    <3>1. q \in Nat BY <1>2
    <3> HIDE DEF q, d
    <3>2. [e EXCEPT !.stops[t].qty = q] = StopSet(e, t, [s EXCEPT !.qty = q]) /\ [s EXCEPT !.qty = q] \in StopRecords
      BY <3>1, StopQty
    <3> QED BY <2>1, <3>2, Zenon DEF q
  <2>3. StopOk(r) BY <1>1, <1>2, <1>3 DEF StopOk, StopRecords, Protecting
  <2> HIDE DEF d, r
  <2>4. d \in After(e) /\ StopsOk(d) BY <2>2, <2>3, StopChanged
  <2> QED BY <2>4 DEF d
<1>4. CASE ~(open /\ ~done) /\ sold
  <2> DEFINE q == IF open THEN Abs(net) ELSE 0
             r == [s EXCEPT !.status = "EXECUTED", !.qty = q]
             executed == [e EXCEPT !.stops[t].status = "EXECUTED", !.stops[t].qty = q]
             c == CancelOrders(executed, {s.exit} \cap LiveOrders(e))
  <2>1. d = c BY <1>4 DEF FollowPosition
  <2>2. q \in Nat BY <1>2
  <2>3. executed = StopSet(e, t, r)
    <3> HIDE DEF q
    <3> QED BY DEF StopSet, Engines
  <2>4. r \in StopRecords /\ StopOk(r)
    <3> HIDE DEF q
    <3> QED BY <1>1, <2>2 DEF StopRecords, StopOk, Protecting
  <2> HIDE DEF q, r, executed
  <2>5. /\ executed \in After(e) /\ executed.orders = e.orders /\ StopsOk(executed)
    BY <2>3, <2>4, StopChanged
  <2>6. executed \in Engines BY <2>5 DEF After
  <2>7. {s.exit} \cap LiveOrders(e) \in SUBSET LiveOrders(executed) BY <2>5 DEF LiveOrders
  <2>8. c \in After(executed) /\ OnlyEnd(executed, c) BY <2>6, <2>7, OrdersCancelled
  <2> HIDE DEF c
  <2>9. StopsOk(c) BY <2>5, <2>6, <2>8, OnlyEndOk
  <2>10. c \in After(e) BY <2>5, <2>6, <2>8, AfterAfter
  <2> QED BY <2>1, <2>9, <2>10
<1>5. CASE ~(open /\ ~done) /\ ~sold
  <2> DEFINE r == [s EXCEPT !.qty = 0]
             idle == [e EXCEPT !.stops[t].qty = 0]
             c == CancelStops(idle, {t})
  <2>1. d = c BY <1>5 DEF FollowPosition
  <2>2. idle = StopSet(e, t, r) /\ r \in StopRecords BY StopQty
  <2> HIDE DEF r, idle
  <2>3. /\ idle \in After(e) /\ Len(idle.stops) = Len(e.stops)
        /\ \A u \in 1 .. Len(e.stops) : idle.stops[u] = IF u = t THEN r ELSE e.stops[u]
    BY <2>2, StopChanged
  <2>4. idle \in Engines BY <2>3 DEF After
  <2>5. /\ c \in After(idle) /\ OnlyEnd(idle, c)
        /\ \A u \in 1 .. Len(idle.stops) : u \in {t} => ~Active(c.stops[u])
    BY <2>4, StopsCancelled
  <2> HIDE DEF c
  <2>6. c \in After(e) BY <2>3, <2>4, <2>5, AfterAfter
  <2>7. ASSUME NEW u \in 1 .. Len(c.stops) PROVE StopOk(c.stops[u])
    <3>1. Len(c.stops) = Len(e.stops) BY <2>6 DEF After
    <3>2. e.stops[u] \in StopRecords /\ StopOk(e.stops[u])
      <4>1. e.stops \in Seq(StopRecords) BY EngineFields
      <4> QED BY <3>1, <4>1, SeqPlaces DEF StopsOk
    <3>3. c.stops[u] = idle.stops[u] \/ c.stops[u] = Cancelled(idle.stops[u])
      BY <2>3, <2>5, <3>1 DEF OnlyEnd
    <3>4. CASE u # t
      <4>1. idle.stops[u] = e.stops[u] BY <2>3, <3>1, <3>4
      <4>2. StopOk(Cancelled(e.stops[u])) BY <3>2 DEF StopOk, StopRecords, Cancelled, Protecting
      <4> QED BY <3>2, <3>3, <4>1, <4>2
    <3>5. CASE u = t
      <4>1. idle.stops[u] = r BY <2>3, <3>1, <3>5
      <4>2. (r.exitType = "MARKET") = (r.offset = None) /\ r \in StopRecords
        BY <1>1, <2>2 DEF StopOk, StopRecords, r
      <4>3. ~Active(c.stops[u]) BY <2>3, <2>5, <3>1, <3>5
      <4>4. (c.stops[u].exitType = "MARKET") = (c.stops[u].offset = None)
        <5>1. Cancelled(r).exitType = r.exitType /\ Cancelled(r).offset = r.offset
          BY <4>2 DEF Cancelled, StopRecords
        <5> QED BY <3>3, <4>1, <4>2, <5>1
      <4> QED BY <4>3, <4>4 DEF StopOk, Active, Protecting
    <3> QED BY <3>4, <3>5
  <2>8. StopsOk(c) BY <2>7 DEF StopsOk
  <2> QED BY <2>1, <2>6, <2>8
<1> QED BY <1>3, <1>4, <1>5

\* A stop waiting for its entry is armed, at the price of a fill that opens its position.
LEMMA Arms ==
  ASSUME NEW e \in Engines, StopsOk(e), NEW t \in 1 .. Len(e.stops), NEW net \in Int, net # 0,
         NEW price \in Prices
  PROVE  Arm(e, t, net, price) \in After(e) /\ StopsOk(Arm(e, t, net, price))
<1> DEFINE c == CancelStops(e, ProtectingStops(e, e.stops[t].product))
           s == [c.stops[t] EXCEPT !.status = "ARMED", !.qty = Abs(net)]
           r == StepTrailingStop(s, price)
<1>1. c \in After(e) /\ OnlyEnd(e, c) BY StopsCancelled
<1>2. c \in Engines /\ Len(c.stops) = Len(e.stops) BY <1>1 DEF After
<1> HIDE DEF c
<1>3. StopsOk(c) BY <1>1, OnlyEndOk
<1>4. c.stops[t] \in StopRecords /\ StopOk(c.stops[t])
  <2>1. c.stops \in Seq(StopRecords) BY <1>2, EngineFields
  <2> QED BY <1>2, <1>3, <2>1, SeqPlaces DEF StopsOk
<1>5. Abs(net) \in Nat /\ Abs(net) > 0 BY DEF Abs
<1>6. s \in StopRecords /\ StopOk(s) BY <1>4, <1>5 DEF StopRecords, StopOk, Protecting
<1>7. Arm(e, t, net, price) = StopSet(c, t, r) BY DEF Arm, StopSet, c
<1> HIDE DEF s
<1>8. r \in StopRecords /\ StopOk(r) BY <1>6, StopSteps
<1> HIDE DEF r
<1> DEFINE d == StopSet(c, t, r)
<1>9. d \in After(c) /\ StopsOk(d) BY <1>2, <1>3, <1>8, StopChanged
<1> HIDE DEF d
<1>10. d \in After(e) BY <1>1, <1>2, <1>9, AfterAfter
<1> QED BY <1>7, <1>9, <1>10 DEF d

-----------------------------------------------------------------------------
(* The loops over the stops after a fill.                                  *)

\* What each turn of a loop keeps holds when it ends.
LEMMA LoopStays ==
  ASSUME NEW V, NEW n \in Nat, NEW g, g[0] \in V, \A k \in 1 .. n : g[k - 1] \in V => g[k] \in V
  PROVE  \A k \in 0 .. n : g[k] \in V
<1> DEFINE P == {k \in Nat : k <= n => g[k] \in V}
<1>1. 0 \in P OBVIOUS
<1>2. ASSUME NEW k \in Nat, k \in P PROVE k + 1 \in P
  <2> SUFFICES ASSUME k + 1 <= n PROVE g[k + 1] \in V OBVIOUS
  <2>1. k + 1 \in 1 .. n /\ (k + 1) - 1 = k OBVIOUS
  <2> QED BY <1>2, <2>1
<1> HIDE DEF P
<1>3. Nat \subseteq P BY <1>1, <1>2, NatSetInduction
<1> QED BY <1>3 DEF P

\* The recursive function of a loop is there.
Loops(V, first, n, turn) ==
  \E f : /\ f = [k \in 0 .. n |-> IF k = 0 THEN first ELSE turn[<<k, f[k - 1]>>]]
         /\ \A k \in 0 .. n : f[k] \in V

LEMMA LoopThere ==
  ASSUME NEW V, NEW first \in V, NEW n \in Nat, NEW turn,
         \A k \in 1 .. n, v \in V : turn[<<k, v>>] \in V
  PROVE  Loops(V, first, n, turn)
<1>1. Turns(V, first, n, turn) BY LoopRuns
<1>2. PICK f \in [0 .. n -> V] : f[0] = first /\ \A k \in 1 .. n : f[k] = turn[<<k, f[k - 1]>>]
  BY <1>1 DEF Turns
<1>3. \A k \in 0 .. n : f[k] = IF k = 0 THEN first ELSE turn[<<k, f[k - 1]>>] BY <1>2
<1>4. f = [k \in 0 .. n |-> IF k = 0 THEN first ELSE turn[<<k, f[k - 1]>>]] BY <1>3
<1>5. \A k \in 0 .. n : f[k] \in V OBVIOUS
<1> QED BY <1>4, <1>5, Zenon DEF Loops

LEMMA AfterIs ==
  ASSUME NEW e \in Engines, NEW d \in After(e)
  PROVE  d \in Engines /\ Len(d.stops) = Len(e.stops) /\ Len(d.orders) = Len(e.orders)
BY DEF After

LEMMA EngineLens ==
  ASSUME NEW e \in Engines
  PROVE  /\ Len(e.orders) \in Nat /\ Len(e.stops) \in Nat
         /\ DOMAIN e.orders = 1 .. Len(e.orders) /\ DOMAIN e.stops = 1 .. Len(e.stops)
         /\ \A i \in 1 .. Len(e.orders) : e.orders[i] \in OrderRecords
         /\ \A t \in 1 .. Len(e.stops) : e.stops[t] \in StopRecords
<1>1. e.orders \in Seq(OrderRecords) /\ e.stops \in Seq(StopRecords) BY EngineFields
<1> QED BY <1>1, SeqPlaces

LEMMA StopsFollowed ==
  ASSUME NEW e \in Engines, StopsOk(e), NEW product, NEW net \in Int
  PROVE  StopsFollow(e, product, net) \in After(e) /\ StopsOk(StopsFollow(e, product, net))
<1> DEFINE V == {d \in After(e) : StopsOk(d)}
           n == Len(e.stops)
           held == ProtectingStops(e, product)
           turn == [p \in (1 .. n) \X V |-> FollowIf(p[1] \in held, p[2], p[1], net)]
           loop == CHOOSE g : g = [t \in 0 .. n |-> IF t = 0 THEN e ELSE FollowIf(t \in held, g[t - 1], t, net)]
<1>1. n \in Nat BY EngineLens
<1>2. e \in V BY AfterSelf
<1>3. ASSUME NEW t \in 1 .. n, NEW v \in V PROVE FollowIf(t \in held, v, t, net) \in V
  <2>1. v \in After(e) /\ StopsOk(v) /\ v \in Engines /\ Len(v.stops) = n BY AfterIs
  <2> HIDE DEF held
  <2> DEFINE d == FollowPosition(v, t, net)
  <2>2. d \in After(v) /\ StopsOk(d) BY <2>1, Follows
  <2> HIDE DEF d
  <2>3. d \in After(e) BY <2>1, <2>2, AfterAfter
  <2> QED BY <2>2, <2>3 DEF FollowIf, d
<1>4. ASSUME NEW t \in 1 .. n, NEW v \in V PROVE turn[<<t, v>>] = FollowIf(t \in held, v, t, net)
  <2> HIDE DEF V, n, held
  <2> QED OBVIOUS
<1>5. \A t \in 1 .. n, v \in V : turn[<<t, v>>] \in V BY <1>3, <1>4, Zenon
<1> HIDE DEF V, turn, held, n
<1>6. PICK f : /\ f = [t \in 0 .. n |-> IF t = 0 THEN e ELSE turn[<<t, f[t - 1]>>]]
               /\ \A t \in 0 .. n : f[t] \in V
  <2>1. Loops(V, e, n, turn) BY <1>1, <1>2, <1>5, LoopThere
  <2> QED BY <2>1, Zenon DEF Loops
<1>7. f = [t \in 0 .. n |-> IF t = 0 THEN e ELSE FollowIf(t \in held, f[t - 1], t, net)]
  <2>1. \A t \in 0 .. n : t # 0 => turn[<<t, f[t - 1]>>] = FollowIf(t \in held, f[t - 1], t, net)
    <3> SUFFICES ASSUME NEW t \in 0 .. n, t # 0
                 PROVE turn[<<t, f[t - 1]>>] = FollowIf(t \in held, f[t - 1], t, net) OBVIOUS
    <3>1. t \in 1 .. n /\ t - 1 \in 0 .. n BY <1>1
    <3> QED BY <1>4, <1>6, <3>1
  <2> QED BY <1>6, <2>1, Zenon
<1>8. loop = [t \in 0 .. n |-> IF t = 0 THEN e ELSE FollowIf(t \in held, loop[t - 1], t, net)]
  BY <1>7
<1>9. StopsFollow(e, product, net) = loop[n] BY DEF StopsFollow, held, n
<1> HIDE DEF loop
<1>10. loop[0] \in V BY <1>1, <1>2, <1>8
<1>11. \A t \in 1 .. n : loop[t - 1] \in V => loop[t] \in V
  <2> SUFFICES ASSUME NEW t \in 1 .. n, loop[t - 1] \in V PROVE loop[t] \in V OBVIOUS
  <2>1. loop[t] = FollowIf(t \in held, loop[t - 1], t, net) BY <1>1, <1>8
  <2> QED BY <1>3, <2>1
<1>12. loop[n] \in V BY <1>1, <1>10, <1>11, LoopStays
<1> QED BY <1>9, <1>12 DEF V

-----------------------------------------------------------------------------
(* The user's delivery sells, and the shares there are for them.           *)

UserSells(e) == {i \in DeliverySells(e) : ~e.orders[i].exit}
Asked(e)     == Unfilled(e, UserSells(e))
Covered(e)   == Asked(e) <= Owned(e)

LEMMA BookFields ==
  ASSUME NEW e \in Engines, NEW p \in Products
  PROVE  /\ e.books[p] \in Positions /\ Net(e, p) \in Int /\ e.books[p].openCost \in Nat
         /\ e.books[p].realisedPnl \in Int /\ SignedCost(e.books[p]) \in Int
<1>1. e.books[p] \in Positions BY EngineFields
<1>2. Net(e, p) \in Int /\ e.books[p].openCost \in Nat /\ e.books[p].realisedPnl \in Int
  BY <1>1 DEF Positions, Books, Net
<1> QED BY <1>1, <1>2 DEF SignedCost, Net

LEMMA OwnedIs ==
  ASSUME NEW e \in Engines
  PROVE  Owned(e) \in Nat /\ e.holding.qty \in Nat /\ e.holding.cost \in Nat
<1>1. Net(e, "DELIVERY") \in Int BY BookFields DEF Products
<1>2. e.holding.qty \in Nat /\ e.holding.cost \in Nat BY EngineFields DEF Lots
<1> QED BY <1>1, <1>2 DEF Owned, Most

LEMMA UserSellsAre ==
  ASSUME NEW e \in Engines
  PROVE  UserSells(e) = {i \in 1 .. Len(e.orders) :
           /\ Live(e.orders[i]) /\ e.orders[i].product = "DELIVERY"
           /\ e.orders[i].side = "SELL" /\ ~e.orders[i].exit}
<1>1. DOMAIN e.orders = 1 .. Len(e.orders) BY EngineLens
<1> QED BY <1>1 DEF UserSells, DeliverySells, LiveOrders, OrdersIn

\* What is left of one order, if it counts.
LeftIf(e, I, i) == IF i \in I THEN Left(e.orders[i]) ELSE 0

LEMMA UnfilledTerms ==
  ASSUME NEW e \in Engines, NEW I
  PROVE  /\ Unfilled(e, I) = SumTo([i \in 1 .. Len(e.orders) |-> LeftIf(e, I, i)], Len(e.orders))
         /\ \A i \in 1 .. Len(e.orders) : LeftIf(e, I, i) \in Nat
         /\ Unfilled(e, I) \in Int
<1> DEFINE n == Len(e.orders)
           f == [i \in 1 .. n |-> LeftIf(e, I, i)]
<1>1. n \in Nat /\ \A i \in 1 .. n : e.orders[i] \in OrderRecords BY EngineLens
<1>2. \A i \in 1 .. n : LeftIf(e, I, i) \in Nat BY <1>1, OrderFields DEF LeftIf
<1>3. Unfilled(e, I) = SumTo(f, n) BY DEF Unfilled, LeftIf
<1>4. \A i \in 1 .. n : f[i] \in Int BY <1>2
<1> HIDE DEF f, n
<1>5. SumTo(f, n) \in Int BY <1>1, <1>4, SumIsInt
<1> QED BY <1>2, <1>3, <1>5 DEF f, n

LEMMA AskedIsInt ==
  ASSUME NEW e \in Engines
  PROVE  Asked(e) \in Int
<1> DEFINE I == UserSells(e)
<1>1. Asked(e) = Unfilled(e, I) BY DEF Asked
<1> HIDE DEF I
<1> QED BY <1>1, UnfilledTerms

\* Fewer orders, or with less left, never ask for more.
LEMMA UnfilledAtMost ==
  ASSUME NEW e \in Engines, NEW d \in Engines, NEW I, NEW J, Len(d.orders) = Len(e.orders),
         \A i \in 1 .. Len(e.orders) : LeftIf(d, J, i) <= LeftIf(e, I, i)
  PROVE  Unfilled(d, J) <= Unfilled(e, I)
<1> DEFINE n == Len(e.orders)
           f == [i \in 1 .. n |-> LeftIf(d, J, i)]
           g == [i \in 1 .. n |-> LeftIf(e, I, i)]
<1>1. n \in Nat BY EngineLens
<1>2. Unfilled(d, J) = SumTo(f, n) /\ \A i \in 1 .. n : LeftIf(d, J, i) \in Nat BY UnfilledTerms
<1>3. Unfilled(e, I) = SumTo(g, n) /\ \A i \in 1 .. n : LeftIf(e, I, i) \in Nat BY UnfilledTerms
<1>4. \A i \in 1 .. n : f[i] \in Int /\ g[i] \in Int /\ f[i] <= g[i] BY <1>2, <1>3
<1> HIDE DEF f, g, n
<1>5. SumTo(f, n) <= SumTo(g, n) BY <1>1, <1>4, SumAtMost
<1> QED BY <1>2, <1>3, <1>5

\* A user's sell among those that still count is the order it was.
LEMMA AfterSells ==
  ASSUME NEW e \in Engines, NEW d \in After(e), NEW i \in 1 .. Len(e.orders)
  PROVE  i \in UserSells(d) => i \in UserSells(e) /\ d.orders[i] = e.orders[i]
<1>1. d \in Engines /\ Len(d.orders) = Len(e.orders) BY AfterIs
<1>2. Stays(e, d, i) \/ Ends(e, d, i) BY DEF After
<1>3. e.orders[i] \in OrderRecords BY EngineLens
<1>4. Ends(e, d, i) => ~Live(d.orders[i]) BY <1>3, CancelledOrder DEF Ends, Live
<1>5. i \in UserSells(d) => Live(d.orders[i]) BY <1>1, UserSellsAre
<1>6. SUFFICES ASSUME i \in UserSells(d) PROVE i \in UserSells(e) /\ d.orders[i] = e.orders[i] OBVIOUS
<1>7. d.orders[i] = e.orders[i] BY <1>2, <1>4, <1>5, <1>6 DEF Stays
<1> QED BY <1>1, <1>6, <1>7, UserSellsAre

LEMMA AfterCovered ==
  ASSUME NEW e \in Engines, NEW d \in After(e), Covered(e)
  PROVE  Covered(d)
<1>1. d \in Engines /\ Len(d.orders) = Len(e.orders) BY AfterIs
<1>2. Owned(d) = Owned(e) BY DEF After, Owned, Net
<1>3. \A i \in 1 .. Len(e.orders) : LeftIf(d, UserSells(d), i) <= LeftIf(e, UserSells(e), i)
  <2> TAKE i \in 1 .. Len(e.orders)
  <2>1. LeftIf(e, UserSells(e), i) \in Nat BY UnfilledTerms
  <2> QED BY <2>1, AfterSells DEF LeftIf
<1>4. Asked(d) <= Asked(e)
  <2> DEFINE I == UserSells(e)
             J == UserSells(d)
  <2>1. \A i \in 1 .. Len(e.orders) : LeftIf(d, J, i) <= LeftIf(e, I, i) BY <1>3
  <2> HIDE DEF I, J
  <2>2. Unfilled(d, J) <= Unfilled(e, I) BY <1>1, <2>1, UnfilledAtMost
  <2> QED BY <2>2 DEF Asked, I, J
<1>5. Asked(d) \in Int /\ Asked(e) \in Int /\ Owned(e) \in Int BY <1>1, AskedIsInt, OwnedIs
<1> QED BY <1>2, <1>4, <1>5 DEF Covered

\* CoverDeliverySells keeps, oldest first, what the shares cover.
LEMMA SellsCovered ==
  ASSUME NEW e \in Engines
  PROVE  LET d == CoverDeliverySells(e) IN d \in After(e) /\ OnlyEnd(e, d) /\ Covered(d)
<1> DEFINE n == Len(e.orders)
           V == [over : SUBSET (1 .. n), sellable : Nat]
           first == [over |-> {}, sellable |-> Owned(e)]
           left(i) == Left(e.orders[i])
           Keep(v, i) == IF i \notin DeliverySells(e) \/ e.orders[i].exit THEN v
                         ELSE IF left(i) <= v.sellable THEN [v EXCEPT !.sellable = @ - left(i)]
                         ELSE [v EXCEPT !.over = @ \cup {i}]
           turn == [p \in (1 .. n) \X V |-> Keep(p[2], p[1])]
           loop == CHOOSE g : g = [i \in 0 .. n |-> IF i = 0 THEN first ELSE Keep(g[i - 1], i)]
<1>1. /\ n \in Nat /\ \A i \in 1 .. n : e.orders[i] \in OrderRecords /\ left(i) \in Nat
      /\ Owned(e) \in Nat
  BY EngineLens, OrderFields, OwnedIs
<1>2. first \in V BY <1>1
<1>3. ASSUME NEW i \in 1 .. n, NEW v \in V PROVE Keep(v, i) \in V
  <2>1. left(i) \in Nat /\ v.sellable \in Nat /\ v.over \in SUBSET (1 .. n) BY <1>1
  <2>2. left(i) <= v.sellable => v.sellable - left(i) \in Nat BY <2>1
  <2> HIDE DEF left, n
  <2> QED BY <2>1, <2>2
<1> HIDE DEF Keep
<1>4. ASSUME NEW i \in 1 .. n, NEW v \in V PROVE turn[<<i, v>>] = Keep(v, i)
  <2> HIDE DEF V, n
  <2> QED OBVIOUS
<1>5. \A i \in 1 .. n, v \in V : turn[<<i, v>>] \in V BY <1>3, <1>4, Zenon
<1> HIDE DEF V, turn, n, first
<1>6. PICK f : /\ f = [i \in 0 .. n |-> IF i = 0 THEN first ELSE turn[<<i, f[i - 1]>>]]
               /\ \A i \in 0 .. n : f[i] \in V
  <2>1. Loops(V, first, n, turn) BY <1>1, <1>2, <1>5, LoopThere
  <2> QED BY <2>1, Zenon DEF Loops
<1>7. f = [i \in 0 .. n |-> IF i = 0 THEN first ELSE Keep(f[i - 1], i)]
  <2>1. \A i \in 0 .. n : i # 0 => turn[<<i, f[i - 1]>>] = Keep(f[i - 1], i)
    <3> SUFFICES ASSUME NEW i \in 0 .. n, i # 0 PROVE turn[<<i, f[i - 1]>>] = Keep(f[i - 1], i) OBVIOUS
    <3>1. i \in 1 .. n /\ i - 1 \in 0 .. n BY <1>1
    <3> QED BY <1>4, <1>6, <3>1
  <2> QED BY <1>6, <2>1, Zenon
<1>8. loop = [i \in 0 .. n |-> IF i = 0 THEN first ELSE Keep(loop[i - 1], i)] BY <1>7
<1>9. CoverDeliverySells(e) = CancelOrders(e, loop[n].over)
  BY DEF CoverDeliverySells, n, first, Keep, left
<1> HIDE DEF loop
<1> DEFINE over == {i \in 1 .. n : /\ i \in UserSells(e) /\ ~(left(i) <= loop[i - 1].sellable)}
           term == [i \in 1 .. n |-> IF i \in UserSells(e) /\ i \notin over THEN left(i) ELSE 0]
<1>10. \A i \in 1 .. n : term[i] \in Int BY <1>1
<1>11. PICK s \in [0 .. n -> Int] :
         s[0] = 0 /\ (\A k \in 1 .. n : s[k] = s[k - 1] + term[k]) /\ SumTo(term, n) = s[n]
  <2> HIDE DEF term
  <2> QED BY <1>1, <1>10, SumSteps
<1> DEFINE P == {k \in Nat : k <= n =>
                   /\ loop[k] \in V /\ loop[k].over = {i \in over : i <= k}
                   /\ loop[k].sellable = Owned(e) - s[k]}
<1>12. 0 \in P
  <2>1. loop[0] = first BY <1>1, <1>8
  <2>2. {i \in over : i <= 0} = {} OBVIOUS
  <2> QED BY <1>1, <1>2, <1>11, <2>1, <2>2 DEF first
<1>13. ASSUME NEW k \in Nat, k \in P PROVE k + 1 \in P
  <2> SUFFICES ASSUME k + 1 <= n
               PROVE /\ loop[k + 1] \in V /\ loop[k + 1].over = {i \in over : i <= k + 1}
                     /\ loop[k + 1].sellable = Owned(e) - s[k + 1]
    OBVIOUS
  <2> DEFINE v == loop[k]
  <2>1. k + 1 \in 1 .. n /\ k + 1 \in 0 .. n /\ (k + 1) - 1 = k /\ k \in 0 .. n BY <1>1
  <2>2. loop[k + 1] = Keep(v, k + 1) BY <1>8, <2>1
  <2>3. v \in V /\ v.over = {i \in over : i <= k} /\ v.sellable = Owned(e) - s[k] BY <1>13, <2>1
  <2>4. s[k + 1] = s[k] + term[k + 1] BY <1>11, <2>1
  <2>5. loop[k + 1] \in V BY <1>3, <2>1, <2>2, <2>3
  <2>6. k + 1 \in over <=> k + 1 \in UserSells(e) /\ ~(left(k + 1) <= v.sellable) BY <2>1
  <2>7. k + 1 \in UserSells(e) <=> ~(k + 1 \notin DeliverySells(e) \/ e.orders[k + 1].exit)
    BY DEF UserSells
  <2>8. term[k + 1] = IF k + 1 \in UserSells(e) /\ k + 1 \notin over THEN left(k + 1) ELSE 0
    BY <2>1
  <2>9. {i \in over : i <= k + 1} = IF k + 1 \in over THEN v.over \cup {k + 1} ELSE v.over
    <3> HIDE DEF v
    <3>1. \A i \in over : i \in Nat BY <1>1
    <3> HIDE DEF over
    <3> QED BY <2>3, <3>1
  <2>10. /\ Keep(v, k + 1).over = IF k + 1 \in over THEN v.over \cup {k + 1} ELSE v.over
         /\ Keep(v, k + 1).sellable = IF k + 1 \in UserSells(e) /\ k + 1 \notin over
                                        THEN v.sellable - left(k + 1) ELSE v.sellable
    <3>1. v \in [over : SUBSET (1 .. n), sellable : Nat] BY <2>3 DEF V
    <3> HIDE DEF v, over, left
    <3> QED BY <2>6, <2>7, <3>1 DEF Keep
  <2>11. s[k] \in Int /\ left(k + 1) \in Int /\ Owned(e) \in Int BY <1>1, <2>1
  <2>12. loop[k + 1].sellable = Owned(e) - s[k + 1]
    <3> HIDE DEF v, over, left, term
    <3>1. CASE k + 1 \in UserSells(e) /\ k + 1 \notin over
      BY <2>2, <2>3, <2>4, <2>8, <2>10, <2>11, <3>1
    <3>2. CASE ~(k + 1 \in UserSells(e) /\ k + 1 \notin over)
      BY <2>2, <2>3, <2>4, <2>8, <2>10, <2>11, <3>2
    <3> QED BY <3>1, <3>2
  <2> HIDE DEF over, v
  <2> QED BY <2>2, <2>5, <2>9, <2>10, <2>12
<1>14. n \in P
  <2> HIDE DEF P
  <2> QED BY <1>1, <1>12, <1>13, NatSetInduction
<1>15. loop[n].over = over
  <2>1. over = {i \in over : i <= n} BY <1>1
  <2>2. loop[n].over = {i \in over : i <= n} BY <1>1, <1>14
  <2> QED BY <2>1, <2>2, Zenon
<1>16. s[n] <= Owned(e)
  <2>1. loop[n].sellable \in Nat /\ loop[n].sellable = Owned(e) - s[n] BY <1>14 DEF V
  <2>2. s[n] \in Int BY <1>1
  <2> QED BY <1>1, <2>1, <2>2
<1> DEFINE d == CancelOrders(e, over)
<1>17. over \in SUBSET LiveOrders(e) BY LiveAre DEF UserSells
<1>18. CoverDeliverySells(e) = d BY <1>9, <1>15, Zenon
<1>19. UserSells(e) \subseteq 1 .. n BY UserSellsAre DEF n
<1> HIDE DEF over
<1>20. /\ d \in After(e) /\ OnlyEnd(e, d)
       /\ \A i \in 1 .. n : IF i \in over THEN Ends(e, d, i) ELSE Stays(e, d, i)
  BY <1>17, OrdersCancelled DEF n
<1> HIDE DEF d
<1>21. d \in Engines /\ Len(d.orders) = n /\ Owned(d) = Owned(e)
  BY <1>20 DEF After, Owned, Net, n
<1>22. \A i \in 1 .. n : LeftIf(d, UserSells(d), i) <= term[i]
  <2> TAKE i \in 1 .. n
  <2>1. term[i] = IF i \in UserSells(e) /\ i \notin over THEN left(i) ELSE 0 OBVIOUS
  <2>2. left(i) \in Nat BY <1>1
  <2>3. i \in UserSells(d) => i \in UserSells(e) /\ d.orders[i] = e.orders[i]
    BY <1>20, AfterSells DEF n
  <2>4. i \in over => i \notin UserSells(d)
    <3> SUFFICES ASSUME i \in over PROVE i \notin UserSells(d) OBVIOUS
    <3>1. d.orders[i] = Cancelled(e.orders[i]) /\ Live(e.orders[i]) BY <1>20 DEF Ends
    <3>2. ~Live(d.orders[i]) BY <1>1, <3>1, CancelledOrder DEF Live
    <3> QED BY <1>21, <3>2, UserSellsAre
  <2> QED BY <2>1, <2>2, <2>3, <2>4 DEF LeftIf
<1>23. Asked(d) <= SumTo(term, n)
  <2> DEFINE u == [i \in 1 .. n |-> LeftIf(d, UserSells(d), i)]
  <2>1. Asked(d) = SumTo(u, n) /\ \A i \in 1 .. n : LeftIf(d, UserSells(d), i) \in Nat
    BY <1>21, UnfilledTerms DEF Asked
  <2>2. \A i \in 1 .. n : u[i] \in Int /\ term[i] \in Int /\ u[i] <= term[i]
    <3> HIDE DEF term
    <3> QED BY <1>10, <1>22, <2>1
  <2> HIDE DEF u, term
  <2> QED BY <1>1, <2>1, <2>2, SumAtMost
<1>24. Covered(d)
  <2>1. Asked(d) \in Int BY <1>21, AskedIsInt
  <2>2. SumTo(term, n) \in Int /\ s[n] \in Int BY <1>1, <1>11
  <2> HIDE DEF term
  <2> QED BY <1>1, <1>11, <1>16, <1>21, <1>23, <2>1, <2>2 DEF Covered
<1> QED BY <1>18, <1>20, <1>24

\* AfterFill arms, follows and cancels; it covers the user's sells after an exit sold shares.
LEMMA FillFollowed ==
  ASSUME NEW e \in Engines, StopsOk(e), NEW i \in 1 .. Len(e.orders), NEW price \in Prices
  PROVE  LET d == AfterFill(e, i, price)
             o == e.orders[i] IN
         /\ d \in After(e) /\ StopsOk(d)
         /\ o.product = "DELIVERY" /\ o.side = "SELL" /\ o.exit => Covered(d)
<1> DEFINE o    == e.orders[i]
           net  == Net(e, o.product)
           n    == Len(e.stops)
           mine == {t \in DOMAIN e.stops : /\ e.stops[t].entry = i /\ e.stops[t].status = "PENDING_ENTRY"
                                           /\ Opens(net, e.stops[t].direction)}
           V    == {d \in After(e) : StopsOk(d)}
           turn == [p \in (1 .. n) \X V |-> ArmIf(p[1] \in mine, p[2], p[1], net, price)]
           loop == CHOOSE g : g = [t \in 0 .. n |-> IF t = 0 THEN e ELSE ArmIf(t \in mine, g[t - 1], t, net, price)]
           done == IF o.status = "EXECUTED" THEN {i} ELSE {}
           sold == o.product = "DELIVERY" /\ o.side = "SELL" /\ o.exit
<1>1. n \in Nat /\ o \in OrderRecords BY EngineLens
<1>2. e \in V BY AfterSelf
<1>3. net \in Int BY <1>1, BookFields, OrderFields
<1>4. \A t \in mine : net # 0 BY DEF Opens
<1> HIDE DEF mine, net
<1>5. ASSUME NEW t \in 1 .. n, NEW v \in V PROVE ArmIf(t \in mine, v, t, net, price) \in V
  <2>1. v \in After(e) /\ StopsOk(v) /\ v \in Engines /\ Len(v.stops) = n BY AfterIs
  <2>2. CASE t \in mine
    <3> DEFINE d == Arm(v, t, net, price)
    <3>1. d \in After(v) /\ StopsOk(d) BY <1>3, <1>4, <2>1, <2>2, Arms
    <3> HIDE DEF d
    <3>2. d \in After(e) BY <2>1, <3>1, AfterAfter
    <3> QED BY <2>2, <3>1, <3>2 DEF ArmIf, d
  <2>3. CASE t \notin mine BY <2>3 DEF ArmIf
  <2> QED BY <2>2, <2>3
<1>6. ASSUME NEW t \in 1 .. n, NEW v \in V PROVE turn[<<t, v>>] = ArmIf(t \in mine, v, t, net, price)
  <2> HIDE DEF V, n
  <2> QED OBVIOUS
<1>7. \A t \in 1 .. n, v \in V : turn[<<t, v>>] \in V BY <1>5, <1>6, Zenon
<1> HIDE DEF V, turn, n
<1>8. PICK f : /\ f = [t \in 0 .. n |-> IF t = 0 THEN e ELSE turn[<<t, f[t - 1]>>]]
               /\ \A t \in 0 .. n : f[t] \in V
  <2>1. Loops(V, e, n, turn) BY <1>1, <1>2, <1>7, LoopThere
  <2> QED BY <2>1, Zenon DEF Loops
<1>9. f = [t \in 0 .. n |-> IF t = 0 THEN e ELSE ArmIf(t \in mine, f[t - 1], t, net, price)]
  <2>1. \A t \in 0 .. n : t # 0 => turn[<<t, f[t - 1]>>] = ArmIf(t \in mine, f[t - 1], t, net, price)
    <3> SUFFICES ASSUME NEW t \in 0 .. n, t # 0
                 PROVE turn[<<t, f[t - 1]>>] = ArmIf(t \in mine, f[t - 1], t, net, price) OBVIOUS
    <3>1. t \in 1 .. n /\ t - 1 \in 0 .. n BY <1>1
    <3> QED BY <1>6, <1>8, <3>1
  <2> QED BY <1>8, <2>1, Zenon
<1>10. loop = [t \in 0 .. n |-> IF t = 0 THEN e ELSE ArmIf(t \in mine, loop[t - 1], t, net, price)]
  BY <1>9
<1>11. AfterFill(e, i, price) = CoveredIf(sold, EntryClosed(IdleExitsEnd(
         StopsFollow(loop[n], o.product, net), o.product), done))
  BY DEF AfterFill, mine, net, n
<1> HIDE DEF loop
<1>12. loop[0] \in V BY <1>1, <1>2, <1>10
<1>13. \A t \in 1 .. n : loop[t - 1] \in V => loop[t] \in V
  <2> SUFFICES ASSUME NEW t \in 1 .. n, loop[t - 1] \in V PROVE loop[t] \in V OBVIOUS
  <2>1. loop[t] = ArmIf(t \in mine, loop[t - 1], t, net, price) BY <1>1, <1>10
  <2> QED BY <1>5, <2>1
<1>14. loop[n] \in V
  <2>1. n \in Nat /\ n \in 0 .. n BY <1>1
  <2>2. \A t \in 0 .. n : loop[t] \in V BY <1>12, <1>13, <2>1, LoopStays, Zenon
  <2> QED BY <2>1, <2>2, Zenon
<1> DEFINE armed    == loop[n]
           followed == StopsFollow(armed, o.product, net)
           I        == {x \in LiveOrders(followed) \cap OrdersIn(followed, o.product) :
                          followed.orders[x].exit /\ ClosableQty(followed, followed.orders[x]) = 0}
           idle     == IdleExitsEnd(followed, o.product)
           closed   == EntryClosed(idle, done)
           d        == CoveredIf(sold, closed)
<1>15. armed \in After(e) /\ StopsOk(armed) /\ armed \in Engines BY <1>14, AfterIs DEF V
<1> HIDE DEF armed
<1>16. followed \in After(armed) /\ StopsOk(followed) BY <1>3, <1>15, StopsFollowed
<1>17. followed \in After(e) /\ followed \in Engines
  <2> HIDE DEF followed
  <2> QED BY <1>15, <1>16, AfterAfter, AfterIs
<1>18. idle = CancelOrders(followed, I) BY DEF IdleExitsEnd
<1>19. I \in SUBSET LiveOrders(followed) OBVIOUS
<1> HIDE DEF followed, I
<1>20. idle \in After(followed) /\ OnlyEnd(followed, idle) BY <1>17, <1>18, <1>19, OrdersCancelled
<1> HIDE DEF idle
<1>21. idle \in After(e) /\ idle \in Engines /\ StopsOk(idle)
  <2>1. idle \in After(e) BY <1>17, <1>20, AfterAfter
  <2>2. StopsOk(idle) BY <1>16, <1>17, <1>20, OnlyEndOk
  <2> QED BY <2>1, <2>2, AfterIs
<1>22. closed \in After(idle) /\ OnlyEnd(idle, closed)
  <2> HIDE DEF done
  <2> QED BY <1>21, StopsEnd DEF EntryClosed
<1> HIDE DEF closed
<1>23. closed \in After(e) /\ closed \in Engines /\ StopsOk(closed)
  <2>1. closed \in After(e) BY <1>21, <1>22, AfterAfter
  <2>2. StopsOk(closed) BY <1>21, <1>22, OnlyEndOk
  <2> QED BY <2>1, <2>2, AfterIs
<1>24. d \in After(e) /\ StopsOk(d) /\ (sold => Covered(d))
  <2>1. CASE sold
    <3> DEFINE c == CoverDeliverySells(closed)
    <3>1. c \in After(closed) /\ OnlyEnd(closed, c) /\ Covered(c) BY <1>23, SellsCovered
    <3> HIDE DEF c
    <3>2. c \in After(e) BY <1>23, <3>1, AfterAfter
    <3>3. StopsOk(c) BY <1>23, <3>1, OnlyEndOk
    <3>4. d = c BY <2>1 DEF CoveredIf, c
    <3> QED BY <3>1, <3>2, <3>3, <3>4
  <2>2. CASE ~sold
    <3>1. d = closed BY <2>2 DEF CoveredIf
    <3> QED BY <1>23, <2>2, <3>1
  <2> QED BY <2>1, <2>2
<1>25. AfterFill(e, i, price) = d BY <1>11 DEF armed, followed, idle, closed
<1> HIDE DEF d
<1> QED BY <1>24, <1>25

-----------------------------------------------------------------------------
(* What holds of an engine between any two steps of a call.                *)

\* The shares an order has bought, or sold, of a product.
Signed(o, product) ==
  IF o.product # product THEN 0 ELSE IF o.side = "BUY" THEN o.filled ELSE -o.filled
Bought(e, product) ==
  SumTo([i \in 1 .. Len(e.orders) |-> Signed(e.orders[i], product)], Len(e.orders))

\* What may be blocked for an order.
OrderWorth(o) == IF o.price = None THEN 0 ELSE Left(o) * o.price
Due(o, block) ==
  /\ ~(Live(o) /\ o.side = "BUY") => block = 0
  /\ Live(o) /\ o.side = "BUY" => block >= 0
  /\ Live(o) /\ o.side = "BUY" /\ o.type = "LIMIT" =>
       IF o.exit THEN block <= OrderWorth(o) ELSE block = OrderWorth(o)

\* An order the user placed rests only with a limit, and as one of the account's.
Rests(o, i) == ~o.exit => (o.status = "OPEN" => o.type = "LIMIT") /\ (Live(o) => i \in OrderId)

\* What the shares are worth in the account, less the P&L it shows.
Worth(e) ==
  e.holding.cost + SignedCost(e.books["INTRADAY"]) + SignedCost(e.books["DELIVERY"])
    - e.carried.cost - e.pastPnl - e.salesPnl
    - e.books["INTRADAY"].realisedPnl - e.books["DELIVERY"].realisedPnl

MoneyOk(e)  == (e.funds.available + e.funds.blocked) + Worth(e) = OpeningBalance
SharesOk(e) == /\ e.holding.qty + Net(e, "DELIVERY") = e.carried.qty + Bought(e, "DELIVERY")
               /\ Net(e, "INTRADAY") = Bought(e, "INTRADAY")
BlocksOk(e) == /\ e.funds.blocked = Total(e.funds)
               /\ \A i \in OrderId : IF i <= Len(e.orders) THEN Due(e.orders[i], e.funds.blocks[i])
                                     ELSE e.funds.blocks[i] = 0
RestsOk(e, b) == \A i \in 1 .. Len(e.orders) : i # b => Rests(e.orders[i], i)
CappedOk(e) == \A i \in e.capped : i \in 1 .. Len(e.orders) /\ e.orders[i].status = "OPEN"

\* The engine has not thrown; it threw, for a debit balance.
Running(e) == e.broken = ""
Debit(e) == e.broken = "FUNDS" /\ e.funds.available < 0

\* b is the order the step is about, if it has not come to rest.
Sane(e, b) ==
  /\ e \in Engines /\ StopsOk(e) /\ CappedOk(e) /\ Net(e, "DELIVERY") >= 0
  /\ \/ Running(e) /\ MoneyOk(e) /\ SharesOk(e) /\ BlocksOk(e) /\ RestsOk(e, b)
     \/ Debit(e)
Whole(e, b) == Sane(e, b) /\ (Running(e) => Covered(e))

LEMMA NotDebit == \A e : Running(e) => ~Debit(e) BY DEF Running, Debit

LEMMA SignedIsInt ==
  ASSUME NEW o \in OrderRecords, NEW p
  PROVE  Signed(o, p) \in Int
BY OrderFields DEF Signed

LEMMA BoughtSame ==
  ASSUME NEW e \in Engines, NEW d \in Engines, NEW p, Len(d.orders) = Len(e.orders),
         \A i \in 1 .. Len(e.orders) : Signed(d.orders[i], p) = Signed(e.orders[i], p)
  PROVE  Bought(d, p) = Bought(e, p)
<1> DEFINE n == Len(e.orders)
           f == [i \in 1 .. n |-> Signed(e.orders[i], p)]
           g == [i \in 1 .. n |-> Signed(d.orders[i], p)]
<1>1. n \in Nat /\ \A i \in 1 .. n : f[i] \in Int /\ g[i] = f[i]
  BY EngineLens, SignedIsInt
<1>2. Bought(e, p) = SumTo(f, n) /\ Bought(d, p) = SumTo(g, n) BY DEF Bought
<1> HIDE DEF f, g, n
<1> QED BY <1>1, <1>2, SumSame

LEMMA BoughtIsInt ==
  ASSUME NEW e \in Engines, NEW p
  PROVE  Bought(e, p) \in Int
<1> DEFINE n == Len(e.orders)
           f == [i \in 1 .. n |-> Signed(e.orders[i], p)]
<1>1. n \in Nat /\ \A i \in 1 .. n : f[i] \in Int BY EngineLens, SignedIsInt
<1>2. Bought(e, p) = SumTo(f, n) BY DEF Bought
<1> HIDE DEF f, n
<1> QED BY <1>1, <1>2, SumIsInt

\* Cancelling keeps it all.
LEMMA AfterSane ==
  ASSUME NEW e, NEW b, Sane(e, b), Running(e), NEW d \in After(e), StopsOk(d)
  PROVE  Sane(d, b) /\ Running(d) /\ (Covered(e) => Covered(d))
<1>1. e \in Engines /\ d \in Engines BY AfterIs DEF Sane
<1>2. /\ d.books = e.books /\ d.holding = e.holding /\ d.carried = e.carried
      /\ d.salesPnl = e.salesPnl /\ d.pastPnl = e.pastPnl /\ d.broken = e.broken
      /\ Len(d.orders) = Len(e.orders) /\ d.capped \subseteq e.capped
      /\ d.funds.available + d.funds.blocked = e.funds.available + e.funds.blocked
      /\ d.funds.blocked - Total(d.funds) = e.funds.blocked - Total(e.funds)
      /\ \A i \in 1 .. Len(e.orders) : Stays(e, d, i) \/ Ends(e, d, i)
      /\ \A i \in OrderId : i > Len(e.orders) => d.funds.blocks[i] = e.funds.blocks[i]
  BY DEF After
<1>3. /\ CappedOk(e) /\ Net(e, "DELIVERY") >= 0
      /\ MoneyOk(e) /\ SharesOk(e) /\ BlocksOk(e) /\ RestsOk(e, b)
  BY NotDebit DEF Sane
<1>4. \A i \in 1 .. Len(e.orders) : e.orders[i] \in OrderRecords BY <1>1, EngineLens
<1>5. ASSUME NEW i \in 1 .. Len(e.orders)
      PROVE  /\ Ends(e, d, i) => ~Live(d.orders[i])
             /\ \A p : Signed(d.orders[i], p) = Signed(e.orders[i], p)
  <2>1. CASE Stays(e, d, i)
    <3>1. d.orders[i] = e.orders[i] BY <2>1 DEF Stays
    <3>2. Ends(e, d, i) => d.orders[i] = Cancelled(e.orders[i]) /\ Live(e.orders[i]) BY DEF Ends
    <3>3. Live(e.orders[i]) => ~Live(Cancelled(e.orders[i])) BY <1>4, CancelledOrder DEF Live
    <3> QED BY <3>1, <3>2, <3>3
  <2>2. CASE Ends(e, d, i)
    <3> DEFINE c == Cancelled(e.orders[i])
    <3>1. Live(e.orders[i]) /\ d.orders[i] = c BY <2>2 DEF Ends
    <3>2. /\ c.status = "CANCELLED" /\ c.filled = e.orders[i].filled
          /\ c.side = e.orders[i].side /\ c.product = e.orders[i].product
      BY <1>4, <3>1, CancelledOrder
    <3> HIDE DEF c
    <3> QED BY <3>1, <3>2 DEF Live, Signed
  <2> QED BY <1>2, <2>1, <2>2
<1>6. CappedOk(d)
  <2> SUFFICES ASSUME NEW i \in d.capped PROVE i \in 1 .. Len(d.orders) /\ d.orders[i].status = "OPEN"
    BY DEF CappedOk
  <2>1. i \in 1 .. Len(e.orders) /\ e.orders[i].status = "OPEN" BY <1>2, <1>3 DEF CappedOk
  <2>2. Stays(e, d, i) BY <1>2, <2>1 DEF Ends
  <2> QED BY <1>2, <2>1, <2>2 DEF Stays
<1>7. Net(d, "DELIVERY") = Net(e, "DELIVERY") /\ Net(d, "INTRADAY") = Net(e, "INTRADAY")
  BY <1>2 DEF Net
<1>8. MoneyOk(d)
  <2>1. Worth(d) = Worth(e) BY <1>2 DEF Worth
  <2> QED BY <1>2, <1>3, <2>1 DEF MoneyOk
<1>9. SharesOk(d)
  <2>1. Bought(d, "DELIVERY") = Bought(e, "DELIVERY") /\ Bought(d, "INTRADAY") = Bought(e, "INTRADAY")
    <3>1. Len(d.orders) = Len(e.orders) BY <1>2
    <3>2. ASSUME NEW p PROVE Bought(d, p) = Bought(e, p)
      <4>1. \A i \in 1 .. Len(e.orders) : Signed(d.orders[i], p) = Signed(e.orders[i], p) BY <1>5
      <4> QED BY <1>1, <3>1, <4>1, BoughtSame, Zenon
    <3> QED BY <3>2
  <2> QED BY <1>2, <1>3, <1>7, <2>1 DEF SharesOk
<1>10. BlocksOk(d)
  <2>1. d.funds.blocked = Total(d.funds)
    <3>1. /\ e.funds.blocked \in Int /\ d.funds.blocked \in Int
          /\ Total(e.funds) \in Int /\ Total(d.funds) \in Int
      BY <1>1, EngineFields, LedgerFields
    <3>2. e.funds.blocked = Total(e.funds) BY <1>3 DEF BlocksOk
    <3>3. d.funds.blocked - Total(d.funds) = e.funds.blocked - Total(e.funds) BY <1>2
    <3> QED BY <3>1, <3>2, <3>3
  <2>2. ASSUME NEW i \in OrderId
        PROVE IF i <= Len(d.orders) THEN Due(d.orders[i], d.funds.blocks[i]) ELSE d.funds.blocks[i] = 0
    <3>1. i \in Nat \ {0} /\ Len(e.orders) \in Nat
      <4>1. i \in 1 .. Cardinality(OrderId) /\ Cardinality(OrderId) \in Nat BY FundsAssumption
      <4>2. i \in Nat \ {0} BY <4>1
      <4>3. Len(e.orders) \in Nat BY <1>1, EngineLens
      <4> QED BY <4>2, <4>3
    <3>2. CASE i <= Len(e.orders)
      <4>1. i \in 1 .. Len(e.orders) /\ Due(e.orders[i], e.funds.blocks[i])
        <5>1. Due(e.orders[i], e.funds.blocks[i]) BY <1>3, <3>2 DEF BlocksOk
        <5> QED BY <3>1, <3>2, <5>1
      <4>2. CASE Stays(e, d, i) BY <1>2, <3>2, <4>1, <4>2 DEF Stays
      <4>3. CASE Ends(e, d, i)
        <5>1. ~Live(d.orders[i]) /\ d.funds.blocks[i] = 0 BY <1>5, <4>1, <4>3 DEF Ends
        <5> QED BY <1>2, <3>2, <5>1 DEF Due
      <4> QED BY <1>2, <4>1, <4>2, <4>3
    <3>3. CASE ~(i <= Len(e.orders))
      <4>1. e.funds.blocks[i] = 0 BY <1>3, <3>3 DEF BlocksOk
      <4>2. d.funds.blocks[i] = e.funds.blocks[i] BY <1>2, <3>1, <3>3
      <4> QED BY <1>2, <3>3, <4>1, <4>2
    <3> QED BY <3>2, <3>3
  <2> QED BY <2>1, <2>2 DEF BlocksOk
<1>11. RestsOk(d, b)
  <2> SUFFICES ASSUME NEW i \in 1 .. Len(e.orders), i # b PROVE Rests(d.orders[i], i)
    BY <1>2 DEF RestsOk
  <2>1. Rests(e.orders[i], i) BY <1>3 DEF RestsOk
  <2>2. CASE Stays(e, d, i) BY <2>1, <2>2 DEF Stays
  <2>3. CASE Ends(e, d, i)
    <3>1. ~Live(d.orders[i]) BY <1>5, <2>3
    <3> QED BY <3>1 DEF Rests, Live
  <2> QED BY <1>2, <2>2, <2>3
<1>12. Covered(e) => Covered(d) BY <1>1, AfterCovered
<1>13. Running(d) BY <1>2, Zenon DEF Running
<1>14. Net(d, "DELIVERY") >= 0 BY <1>3, <1>7
<1> QED BY <1>1, <1>6, <1>8, <1>9, <1>10, <1>11, <1>12, <1>13, <1>14 DEF Sane

-----------------------------------------------------------------------------
(* A fill: its cash.                                                       *)

\* The engine with another ledger.
WithCash(e, g) == [e EXCEPT !.funds = g]

LEMMA WithFunds ==
  ASSUME NEW e \in Engines, NEW g \in Ledgers
  PROVE  LET d == WithCash(e, g) IN
         /\ d \in Engines /\ d.funds = g
         /\ d.orders = e.orders /\ d.stops = e.stops /\ d.books = e.books /\ d.holding = e.holding
         /\ d.carried = e.carried /\ d.salesPnl = e.salesPnl /\ d.pastPnl = e.pastPnl
         /\ d.capped = e.capped /\ d.synced = e.synced /\ d.broken = e.broken
BY DEF Engines, WithCash

LEMMA WithBooks ==
  ASSUME NEW e \in Engines, NEW B \in [Products -> Positions]
  PROVE  LET d == [e EXCEPT !.books = B] IN
         /\ d \in Engines /\ d.books = B
         /\ d.orders = e.orders /\ d.stops = e.stops /\ d.funds = e.funds /\ d.holding = e.holding
         /\ d.carried = e.carried /\ d.salesPnl = e.salesPnl /\ d.pastPnl = e.pastPnl
         /\ d.capped = e.capped /\ d.synced = e.synced /\ d.broken = e.broken
BY DEF Engines

LEMMA BrokenIs ==
  ASSUME NEW e \in Engines, NEW why \in {"FUNDS", "HOLDINGS", "RESET"}
  PROVE  LET d == Broken(e, why) IN
         /\ d \in Engines /\ ~Running(d) /\ (Running(e) => d.broken = why)
         /\ d.orders = e.orders /\ d.stops = e.stops /\ d.funds = e.funds /\ d.books = e.books
         /\ d.holding = e.holding /\ d.carried = e.carried /\ d.salesPnl = e.salesPnl
         /\ d.pastPnl = e.pastPnl /\ d.capped = e.capped /\ d.synced = e.synced
<1> DEFINE reason == IF Running(e) THEN why ELSE e.broken
           d == [e EXCEPT !.broken = reason]
<1>1. Broken(e, why) = d BY Zenon DEF Broken, Running
<1>2. reason \in {"", "FUNDS", "HOLDINGS", "RESET"} BY EngineFields
<1>3. ~(reason = "") BY Zenon DEF Running
<1> HIDE DEF reason
<1>4. /\ d \in Engines /\ d.broken = reason
      /\ d.orders = e.orders /\ d.stops = e.stops /\ d.funds = e.funds /\ d.books = e.books
      /\ d.holding = e.holding /\ d.carried = e.carried /\ d.salesPnl = e.salesPnl
      /\ d.pastPnl = e.pastPnl /\ d.capped = e.capped /\ d.synced = e.synced
  BY <1>2 DEF Engines
<1> HIDE DEF d
<1>5. ~Running(d) BY <1>3, <1>4, Zenon DEF Running
<1>6. Running(e) => d.broken = why BY <1>4, Zenon DEF reason
<1> QED BY <1>1, <1>4, <1>5, <1>6

\* What a fill of a buy releases of its block.
ReleaseOf(e, i, qty) ==
  IF qty = Left(e.orders[i]) THEN BlockedFor(e.funds, i)
  ELSE MulDivRound(BlockedFor(e.funds, i), qty, Left(e.orders[i]))

\* The ledger after a fill of order i by qty shares at a price.
Paid(e, g, i, amount, release) ==
  /\ g \in Ledgers
  /\ g.available = e.funds.available + release + amount
  /\ g.blocked = e.funds.blocked - release
  /\ Total(g) = Total(e.funds) - release
  /\ \A k \in OrderId : g.blocks[k] = IF k = i THEN e.funds.blocks[k] - release ELSE e.funds.blocks[k]

\* An order without a number of the account has no block to release.
LEMMA NothingReleased ==
  ASSUME NEW f \in Ledgers, NEW i \in Nat, i \notin OrderId, NEW cost \in Int
  PROVE  SettleBuy(f, i, cost, 0)
           = [available |-> f.available - cost, blocked |-> f.blocked, blocks |-> f.blocks]
<1>1. f.available \in Int /\ f.blocked \in Int /\ f.blocks \in [OrderId -> Int] BY LedgerFields
<1>2. [f.blocks EXCEPT ![i] = @ - 0] = f.blocks BY <1>1
<1>3. f.available + 0 = f.available /\ f.blocked - 0 = f.blocked BY <1>1
<1>4. Release(f, i, 0) = [f EXCEPT !.blocks = [f.blocks EXCEPT ![i] = @ - 0],
                                  !.blocked = f.blocked - 0, !.available = f.available + 0]
  BY DEF Release, Ledgers
<1>5. Release(f, i, 0) = [available |-> f.available, blocked |-> f.blocked, blocks |-> f.blocks]
  BY <1>2, <1>3, <1>4 DEF Ledgers
<1> QED BY <1>5 DEF SettleBuy

LEMMA BuyPaid ==
  ASSUME NEW e \in Engines, NEW i \in Nat, NEW cost \in Int, NEW release \in Int,
         i \notin OrderId => release = 0
  PROVE  Paid(e, SettleBuy(e.funds, i, cost, release), i, -cost, release)
<1> DEFINE f == e.funds
           g == SettleBuy(f, i, cost, release)
<1>1. /\ f \in Ledgers /\ f.available \in Int /\ f.blocked \in Int /\ f.blocks \in [OrderId -> Int]
      /\ Total(f) \in Int
  BY EngineFields, LedgerFields
<1>2. CASE i \in OrderId
  <2> DEFINE m == Moved(f, i, -release, release - cost)
  <2>1. g = m BY <1>1, <1>2, LedgerOps
  <2>2. -release \in Int /\ release - cost \in Int OBVIOUS
  <2>3. m \in Ledgers /\ Total(m) = Total(f) + -release
    <3> HIDE DEF f
    <3> QED BY <1>1, <1>2, <2>2, LedgerMoves
  <2>4. /\ m.available = f.available + (release - cost) /\ m.blocked = f.blocked + -release
        /\ m.blocks = [k \in OrderId |-> IF k = i THEN f.blocks[k] + -release ELSE f.blocks[k]]
    BY DEF Moved
  <2> HIDE DEF m, g
  <2>5. \A k \in OrderId : g.blocks[k] = IF k = i THEN f.blocks[k] - release ELSE f.blocks[k]
    BY <1>1, <2>1, <2>4
  <2>6. /\ g.available = f.available + release + -cost /\ g.blocked = f.blocked - release
        /\ Total(g) = Total(f) - release
    BY <1>1, <2>1, <2>3, <2>4
  <2> QED BY <2>1, <2>3, <2>5, <2>6 DEF Paid, g
<1>3. CASE i \notin OrderId
  <2>1. release = 0 BY <1>3
  <2>2. g = [available |-> f.available - cost, blocked |-> f.blocked, blocks |-> f.blocks]
    <3>1. g = SettleBuy(f, i, cost, 0) BY <2>1
    <3> HIDE DEF f, g
    <3> QED BY <1>1, <1>3, <3>1, NothingReleased
  <2> HIDE DEF f, g
  <2>3. g \in Ledgers /\ g.blocks = f.blocks /\ g.available = f.available - cost /\ g.blocked = f.blocked
    BY <1>1, <2>2 DEF Ledgers
  <2>4. Total(g) = Total(f) BY <2>3, Zenon DEF Total
  <2>5. \A k \in OrderId : g.blocks[k] = IF k = i THEN f.blocks[k] - release ELSE f.blocks[k]
    BY <1>3, <2>3
  <2>6. /\ g.available = f.available + release + -cost /\ g.blocked = f.blocked - release
        /\ Total(g) = Total(f) - release
    BY <1>1, <2>1, <2>3, <2>4
  <2> QED BY <2>3, <2>5, <2>6 DEF Paid, f, g
<1> QED BY <1>2, <1>3

\* What a fill adds to the cash, and what it releases of the order's block.
Amount(o, qty, price) == IF o.side = "SELL" THEN qty * price ELSE -(qty * price)
Freed(e, i, qty, forced) ==
  IF e.orders[i].side = "SELL" THEN 0
  ELSE IF forced THEN BlockedFor(e.funds, i) ELSE ReleaseOf(e, i, qty)

LEMMA FreedIs ==
  ASSUME NEW e \in Engines, NEW i \in 1 .. Len(e.orders), NEW qty \in Nat, Left(e.orders[i]) > 0, NEW forced
  PROVE  /\ Freed(e, i, qty, forced) \in Int /\ ReleaseOf(e, i, qty) \in Int
         /\ i \notin OrderId => Freed(e, i, qty, forced) = 0
<1> DEFINE held == BlockedFor(e.funds, i)
           left == Left(e.orders[i])
           part == MulDivRound(held, qty, left)
<1>1. held \in Int /\ (i \notin OrderId => held = 0)
  <2>1. e.funds \in Ledgers BY EngineFields
  <2>2. e.funds.blocks \in [OrderId -> Int] BY <2>1, LedgerFields
  <2> QED BY <2>2 DEF BlockedFor
<1>2. left \in Nat \ {0} BY EngineLens, OrderFields
<1>3. part \in Int
  <2> HIDE DEF held, left
  <2> QED BY <1>1, <1>2, RoundIsInt
<1>4. held = 0 => part = 0
  <2> HIDE DEF left
  <2>1. 0 * qty = 0 * left BY <1>2
  <2>2. MulDivRound(0, qty, left) = 0 BY <1>2, <2>1, RoundExact
  <2> QED BY <2>2
<1>5. Freed(e, i, qty, forced) = IF e.orders[i].side = "SELL" THEN 0
        ELSE IF forced THEN held ELSE IF qty = left THEN held ELSE part
  BY DEF Freed, ReleaseOf
<1>6. ReleaseOf(e, i, qty) = IF qty = left THEN held ELSE part BY DEF ReleaseOf
<1> HIDE DEF held, left, part
<1> QED BY <1>1, <1>3, <1>4, <1>5, <1>6

LEMMA SettledIs ==
  ASSUME NEW e \in Engines, NEW i \in 1 .. Len(e.orders), NEW qty \in Nat, NEW price \in Nat,
         Left(e.orders[i]) > 0, NEW forced \in BOOLEAN
  PROVE  LET d == Settled(e, i, qty, price, forced)
             o == e.orders[i] IN
         \/ /\ o.side = "BUY" /\ ~forced /\ d = Broken(e, "FUNDS")
            /\ e.funds.available + ReleaseOf(e, i, qty) < qty * price
         \/ /\ d = WithCash(e, d.funds)
            /\ Paid(e, d.funds, i, Amount(o, qty, price), Freed(e, i, qty, forced))
<1> DEFINE o == e.orders[i]
           f == e.funds
           d == Settled(e, i, qty, price, forced)
           cost == qty * price
           freed == Freed(e, i, qty, forced)
           sold == SettleSell(f, cost)
           bought == SettleBuy(f, i, cost, freed)
<1>1. cost \in Int /\ cost \in Nat OBVIOUS
<1>2. /\ f \in Ledgers /\ f.available \in Int /\ f.blocked \in Int /\ f.blocks \in [OrderId -> Int]
      /\ Total(f) \in Int
  BY EngineFields, LedgerFields
<1>3. freed \in Int /\ ReleaseOf(e, i, qty) \in Int /\ (i \notin OrderId => freed = 0) BY FreedIs
<1>4. o.side \in {"BUY", "SELL"} BY EngineLens, OrderFields DEF Sides
<1>5. CASE o.side = "SELL"
  <2>1. d = WithCash(e, sold) BY <1>5 DEF Settled, WithCash
  <2>2. freed = 0 BY <1>5 DEF Freed
  <2>3. sold = [f EXCEPT !.available = f.available + cost] BY DEF SettleSell
  <2> HIDE DEF cost, f
  <2>4. /\ sold \in Ledgers /\ sold.available = f.available + cost
        /\ sold.blocked = f.blocked /\ sold.blocks = f.blocks
    BY <1>1, <1>2, <2>3 DEF Ledgers
  <2> HIDE DEF sold, d
  <2>5. Total(sold) = Total(f) BY <2>4, Zenon DEF Total
  <2>6. /\ f.available + cost = f.available + 0 + cost /\ f.blocked = f.blocked - 0
        /\ Total(f) = Total(f) - 0 /\ \A k \in OrderId : f.blocks[k] = f.blocks[k] - 0
    BY <1>1, <1>2
  <2>7. Paid(e, sold, i, cost, 0) BY <2>4, <2>5, <2>6 DEF Paid, f
  <2>8. d.funds = sold BY <2>1, <2>4, WithFunds
  <2>9. Amount(o, qty, price) = cost BY <1>5 DEF Amount, cost
  <2> HIDE DEF freed
  <2> QED BY <2>1, <2>2, <2>7, <2>8, <2>9 DEF d, freed
<1>6. CASE o.side = "BUY" /\ ~(forced \/ CanSettleBuy(f, cost, freed))
  <2>1. d = Broken(e, "FUNDS") /\ freed = ReleaseOf(e, i, qty)
    BY <1>6 DEF Settled, Freed, ReleaseOf, Left
  <2>2. ~(cost <= f.available + freed) BY <1>6 DEF CanSettleBuy
  <2> HIDE DEF cost, f, freed, d
  <2>3. f.available + freed < cost BY <1>1, <1>2, <1>3, <2>2
  <2> QED BY <1>6, <2>1, <2>3 DEF d, cost, f
<1>7. CASE o.side = "BUY" /\ (forced \/ CanSettleBuy(f, cost, freed))
  <2>1. d = WithCash(e, bought)
    <3>1. CASE forced
      BY <1>7, <3>1 DEF Settled, SettleForcedBuy, Freed, WithCash
    <3>2. CASE ~forced
      BY <1>7, <3>2 DEF Settled, Freed, ReleaseOf, Left, WithCash
    <3> QED BY <3>1, <3>2
  <2>2. Paid(e, bought, i, -cost, freed)
    <3>1. cost \in Int /\ freed \in Int /\ i \in Nat /\ (i \notin OrderId => freed = 0) BY <1>1, <1>2, <1>3
    <3> HIDE DEF cost, freed
    <3> QED BY <3>1, BuyPaid, Zenon
  <2>3. bought \in Ledgers BY <2>2 DEF Paid
  <2>4. Amount(o, qty, price) = -cost BY <1>7 DEF Amount
  <2> HIDE DEF bought, d, cost, freed
  <2>5. d.funds = bought BY <2>1, <2>3, WithFunds
  <2> QED BY <2>1, <2>2, <2>4, <2>5 DEF d, freed
<1> QED BY <1>4, <1>5, <1>6, <1>7

-----------------------------------------------------------------------------
(* A fill: its shares.                                                     *)

\* What a fill adds to a product's shares.
Traded(o, product, qty) ==
  IF o.product # product THEN 0 ELSE IF o.side = "BUY" THEN qty ELSE -qty

LEMMA WorthIsInt ==
  ASSUME NEW e \in Engines
  PROVE  /\ Worth(e) \in Int /\ e.holding.qty \in Nat /\ e.holding.cost \in Nat
         /\ e.carried.qty \in Nat /\ e.carried.cost \in Nat
<1>1. e.holding \in Lots /\ e.carried \in Lots /\ e.salesPnl \in Int /\ e.pastPnl \in Int
  BY EngineFields
<1>2. /\ e.holding.qty \in Nat /\ e.holding.cost \in Nat
      /\ e.carried.qty \in Nat /\ e.carried.cost \in Nat
  BY <1>1 DEF Lots
<1>3. /\ SignedCost(e.books["INTRADAY"]) \in Int /\ SignedCost(e.books["DELIVERY"]) \in Int
      /\ e.books["INTRADAY"].realisedPnl \in Int /\ e.books["DELIVERY"].realisedPnl \in Int
  BY BookFields DEF Products
<1> QED BY <1>1, <1>2, <1>3 DEF Worth

\* A trade in one product's positions.
TradedIn(e, p, side, qty, price) == [e EXCEPT !.books[p] = ApplyTrade(@, side, qty, price)]

TradesIn(e, d, p, side, qty, price) ==
  /\ d \in Engines
  /\ d.orders = e.orders /\ d.stops = e.stops /\ d.funds = e.funds /\ d.holding = e.holding
  /\ d.carried = e.carried /\ d.salesPnl = e.salesPnl /\ d.pastPnl = e.pastPnl
  /\ d.capped = e.capped /\ d.synced = e.synced /\ d.broken = e.broken
  /\ \A q \in Products : Net(d, q) = IF q # p THEN Net(e, q)
                                     ELSE IF side = "BUY" THEN Net(e, q) + qty ELSE Net(e, q) - qty
  /\ Worth(d) = Worth(e) + IF side = "BUY" THEN qty * price ELSE -(qty * price)

LEMMA BookTraded ==
  ASSUME NEW e \in Engines, NEW p \in Products, NEW side \in Sides, NEW qty \in Nat \ {0}, NEW price \in Nat
  PROVE  TradesIn(e, TradedIn(e, p, side, qty, price), p, side, qty, price)
<1> DEFINE next == ApplyTrade(e.books[p], side, qty, price)
           B == [e.books EXCEPT ![p] = next]
           d == TradedIn(e, p, side, qty, price)
           cost == qty * price
<1>1. /\ e.books \in [Products -> Positions] /\ e.books[p] \in Positions BY EngineFields
<1>2. /\ next \in Positions
      /\ next.netQty = IF side = "BUY" THEN Net(e, p) + qty ELSE Net(e, p) - qty
      /\ SignedCost(next) - next.realisedPnl = SignedCost(e.books[p]) - e.books[p].realisedPnl
            + IF side = "BUY" THEN cost ELSE -cost
  <2> DEFINE book == e.books[p]
  <2>1. book \in Positions /\ Net(e, p) = book.netQty BY <1>1 DEF Net
  <2> HIDE DEF book
  <2>2. ApplyTrade(book, side, qty, price) = next BY DEF book
  <2>3. /\ next \in Positions
        /\ next.netQty = IF side = "BUY" THEN book.netQty + qty ELSE book.netQty - qty
        /\ SignedCost(next) - next.realisedPnl = SignedCost(book) - book.realisedPnl
              + IF side = "BUY" THEN cost ELSE -cost
    <3> HIDE DEF next
    <3> QED BY <2>1, <2>2, TradeKeeps
  <2> QED BY <2>1, <2>3, Zenon DEF book
<1>3. d = [e EXCEPT !.books = B] BY DEF Engines, TradedIn
<1>4. cost \in Int OBVIOUS
<1> HIDE DEF next, cost
<1>5. B \in [Products -> Positions] /\ \A q \in Products : B[q] = IF q = p THEN next ELSE e.books[q]
  BY <1>1, <1>2
<1> HIDE DEF B, d
<1>6. /\ d \in Engines /\ d.books = B
      /\ d.orders = e.orders /\ d.stops = e.stops /\ d.funds = e.funds /\ d.holding = e.holding
      /\ d.carried = e.carried /\ d.salesPnl = e.salesPnl /\ d.pastPnl = e.pastPnl
      /\ d.capped = e.capped /\ d.synced = e.synced /\ d.broken = e.broken
  BY <1>3, <1>5, WithBooks
<1>7. \A q \in Products : Net(d, q) = IF q # p THEN Net(e, q)
                                      ELSE IF side = "BUY" THEN Net(e, q) + qty ELSE Net(e, q) - qty
  BY <1>2, <1>5, <1>6 DEF Net
<1>8. Worth(d) = Worth(e) + IF side = "BUY" THEN cost ELSE -cost
  <2> DEFINE I(x) == SignedCost(x.books["INTRADAY"])
             D(x) == SignedCost(x.books["DELIVERY"])
             i(x) == x.books["INTRADAY"].realisedPnl
             r(x) == x.books["DELIVERY"].realisedPnl
  <2>1. I(e) \in Int /\ D(e) \in Int /\ i(e) \in Int /\ r(e) \in Int BY BookFields DEF Products
  <2>2. I(d) \in Int /\ D(d) \in Int /\ i(d) \in Int /\ r(d) \in Int BY <1>6, BookFields DEF Products
  <2>3. (I(d) - i(d)) + (D(d) - r(d))
          = (I(e) - i(e)) + (D(e) - r(e)) + IF side = "BUY" THEN cost ELSE -cost
    <3>1. CASE p = "INTRADAY"
      <4>1. d.books["INTRADAY"] = next /\ d.books["DELIVERY"] = e.books["DELIVERY"]
        BY <1>5, <1>6, <3>1 DEF Products
      <4>2. D(d) = D(e) /\ r(d) = r(e) /\ I(d) = SignedCost(next) /\ i(d) = next.realisedPnl BY <4>1
      <4> QED BY <1>2, <1>4, <2>1, <2>2, <3>1, <4>2
    <3>2. CASE p = "DELIVERY"
      <4>1. d.books["DELIVERY"] = next /\ d.books["INTRADAY"] = e.books["INTRADAY"]
        BY <1>5, <1>6, <3>2 DEF Products
      <4>2. I(d) = I(e) /\ i(d) = i(e) /\ D(d) = SignedCost(next) /\ r(d) = next.realisedPnl BY <4>1
      <4> QED BY <1>2, <1>4, <2>1, <2>2, <3>2, <4>2
    <3> QED BY <3>1, <3>2 DEF Products
  <2>4. e.holding.cost \in Int /\ e.carried.cost \in Int /\ e.pastPnl \in Int /\ e.salesPnl \in Int
    <3>1. e.holding.cost \in Nat /\ e.carried.cost \in Nat BY WorthIsInt
    <3>2. e.pastPnl \in Int /\ e.salesPnl \in Int BY EngineFields
    <3> QED BY <3>1, <3>2
  <2>5. Worth(e) = e.holding.cost + I(e) + D(e) - e.carried.cost - e.pastPnl - e.salesPnl - i(e) - r(e)
    BY DEF Worth
  <2>6. Worth(d) = e.holding.cost + I(d) + D(d) - e.carried.cost - e.pastPnl - e.salesPnl - i(d) - r(d)
    BY <1>6 DEF Worth
  <2> HIDE DEF I, D, i, r
  <2> QED BY <1>4, <2>1, <2>2, <2>3, <2>4, <2>5, <2>6
<1>9. TradesIn(e, d, p, side, qty, price) BY <1>6, <1>7, <1>8, Zenon DEF TradesIn, cost
<1> QED BY <1>9 DEF d

LEMMA HoldingSold ==
  ASSUME NEW e \in Engines, NEW qty \in 1 .. e.holding.qty, NEW price \in Nat
  PROVE  LET d == SellFromHoldings(e, qty, price) IN
         /\ d \in Engines
         /\ d.orders = e.orders /\ d.stops = e.stops /\ d.funds = e.funds /\ d.books = e.books
         /\ d.carried = e.carried /\ d.pastPnl = e.pastPnl
         /\ d.capped = e.capped /\ d.synced = e.synced /\ d.broken = e.broken
         /\ d.holding.qty = e.holding.qty - qty
         /\ Worth(d) = Worth(e) - qty * price
<1> DEFINE h == e.holding
           cost == MulDivRound(h.cost, qty, h.qty)
           worth == qty * price
           lot == [qty |-> h.qty - qty, cost |-> h.cost - cost]
           pnl == e.salesPnl + worth - cost
           d == SellFromHoldings(e, qty, price)
<1>1. h.qty \in Nat \ {0} /\ h.cost \in Nat /\ qty \in 0 .. h.qty /\ qty \in Nat BY WorthIsInt
<1>2. cost \in 0 .. h.cost
  <2> HIDE DEF h
  <2> QED BY <1>1, RoundBetween
<1>3. e.salesPnl \in Int /\ worth \in Int
  <2>1. e.salesPnl \in Int BY EngineFields
  <2> QED BY <1>1, <2>1
<1> HIDE DEF cost, worth
<1>4. lot \in Lots /\ pnl \in Int BY <1>1, <1>2, <1>3 DEF Lots
<1>5. ~(h.qty < qty) BY <1>1
<1>6. d = [e EXCEPT !.holding = lot, !.salesPnl = pnl]
  BY <1>5 DEF SellFromHoldings, worth, cost
<1>7. lot.qty = h.qty - qty /\ lot.cost = h.cost - cost OBVIOUS
<1> HIDE DEF d, lot, pnl
<1>8. /\ d \in Engines /\ d.holding = lot /\ d.salesPnl = pnl
      /\ d.orders = e.orders /\ d.stops = e.stops /\ d.funds = e.funds /\ d.books = e.books
      /\ d.carried = e.carried /\ d.pastPnl = e.pastPnl
      /\ d.capped = e.capped /\ d.synced = e.synced /\ d.broken = e.broken
  <2> DEFINE c == [e EXCEPT !.holding = lot, !.salesPnl = pnl]
  <2>1. /\ c \in Engines /\ c.holding = lot /\ c.salesPnl = pnl
        /\ c.orders = e.orders /\ c.stops = e.stops /\ c.funds = e.funds /\ c.books = e.books
        /\ c.carried = e.carried /\ c.pastPnl = e.pastPnl
        /\ c.capped = e.capped /\ c.synced = e.synced /\ c.broken = e.broken
    BY <1>4 DEF Engines
  <2> HIDE DEF c
  <2>2. d = c BY <1>6 DEF c
  <2> QED BY <2>1, <2>2
<1>9. Worth(d) = Worth(e) - worth
  <2> DEFINE rest == SignedCost(e.books["INTRADAY"]) + SignedCost(e.books["DELIVERY"])
  <2>1. /\ SignedCost(e.books["INTRADAY"]) \in Int /\ SignedCost(e.books["DELIVERY"]) \in Int
        /\ e.books["INTRADAY"].realisedPnl \in Int /\ e.books["DELIVERY"].realisedPnl \in Int
    BY BookFields DEF Products
  <2>2. e.carried.cost \in Int /\ e.pastPnl \in Int
    <3>1. e.carried.cost \in Nat BY WorthIsInt
    <3>2. e.pastPnl \in Int BY EngineFields
    <3> QED BY <3>1, <3>2
  <2>3. Worth(e) = h.cost + SignedCost(e.books["INTRADAY"]) + SignedCost(e.books["DELIVERY"])
          - e.carried.cost - e.pastPnl - e.salesPnl
          - e.books["INTRADAY"].realisedPnl - e.books["DELIVERY"].realisedPnl
    BY DEF Worth
  <2>4. Worth(d) = (h.cost - cost) + SignedCost(e.books["INTRADAY"]) + SignedCost(e.books["DELIVERY"])
          - e.carried.cost - e.pastPnl - (e.salesPnl + worth - cost)
          - e.books["INTRADAY"].realisedPnl - e.books["DELIVERY"].realisedPnl
    BY <1>7, <1>8 DEF Worth, pnl
  <2> HIDE DEF h
  <2> QED BY <1>1, <1>2, <1>3, <2>1, <2>2, <2>3, <2>4
<1> QED BY <1>7, <1>8, <1>9 DEF d, worth, h

\* The fields a fill's shares leave alone.
SameBut(e, d) ==
  /\ d.orders = e.orders /\ d.stops = e.stops /\ d.funds = e.funds /\ d.carried = e.carried
  /\ d.pastPnl = e.pastPnl /\ d.capped = e.capped /\ d.synced = e.synced /\ d.broken = e.broken

LEMMA OwnedAre ==
  ASSUME NEW e \in Engines, Net(e, "DELIVERY") >= 0
  PROVE  Owned(e) = e.holding.qty + Net(e, "DELIVERY") /\ Most(0, Net(e, "DELIVERY")) = Net(e, "DELIVERY")
<1>1. Net(e, "DELIVERY") \in Int BY BookFields DEF Products
<1> QED BY <1>1 DEF Owned, Most

LEMMA BookedIs ==
  ASSUME NEW e \in Engines, Net(e, "DELIVERY") >= 0, NEW i \in 1 .. Len(e.orders),
         NEW qty \in Nat \ {0}, NEW price \in Nat,
         e.orders[i].side = "SELL" /\ e.orders[i].product = "DELIVERY" => qty <= Owned(e)
  PROVE  LET d == Booked(e, i, qty, price)
             o == e.orders[i] IN
         /\ d \in Engines /\ SameBut(e, d)
         /\ Net(d, "INTRADAY") = Net(e, "INTRADAY") + Traded(o, "INTRADAY", qty)
         /\ d.holding.qty + Net(d, "DELIVERY")
              = e.holding.qty + Net(e, "DELIVERY") + Traded(o, "DELIVERY", qty)
         /\ Net(d, "DELIVERY") >= 0
         /\ Worth(d) = Worth(e) - Amount(o, qty, price)
<1> DEFINE o == e.orders[i]
           p == o.product
           side == o.side
           net == Net(e, "DELIVERY")
           today == IF side = "SELL" /\ p = "DELIVERY" THEN Least(qty, Most(0, net)) ELSE qty
           traded == IF today = 0 THEN e
                     ELSE TradedIn(e, p, side, today, price)
           d == Booked(e, i, qty, price)
<1>1. p \in Products /\ side \in Sides BY EngineLens, OrderFields
<1>2. net \in Nat /\ Most(0, net) = net
  <2>1. net \in Int BY BookFields DEF Products
  <2> QED BY <2>1, OwnedAre
<1>3. Net(e, "INTRADAY") \in Int /\ e.holding.qty \in Nat /\ Worth(e) \in Int
  <2>1. Net(e, "INTRADAY") \in Int BY BookFields DEF Products
  <2> QED BY <2>1, WorthIsInt
<1>4. side = "SELL" /\ p = "DELIVERY" => qty <= e.holding.qty + net
  BY OwnedAre
<1>5. today \in Nat /\ today <= qty /\ (today # qty => side = "SELL" /\ p = "DELIVERY" /\ today = net)
  <2>1. Least(qty, net) \in Nat /\ Least(qty, net) <= qty /\ (Least(qty, net) # qty => Least(qty, net) = net)
    <3> HIDE DEF net
    <3> QED BY <1>2 DEF Least
  <2> HIDE DEF side, p, net
  <2> QED BY <1>2, <2>1
<1>6. side = "SELL" /\ p = "DELIVERY" => today <= net
  <2>1. Least(qty, net) <= net
    <3> HIDE DEF net
    <3> QED BY <1>2 DEF Least
  <2> HIDE DEF side, p, net
  <2> QED BY <1>2, <2>1
<1>7. d = IF qty > today THEN SellFromHoldings(traded, qty - today, price) ELSE traded
  BY DEF Booked, TradedIn
<1>8. Amount(o, qty, price) = IF side = "SELL" THEN qty * price ELSE -(qty * price) BY DEF Amount
<1>9. /\ Traded(o, "INTRADAY", qty) = IF p # "INTRADAY" THEN 0 ELSE IF side = "BUY" THEN qty ELSE -qty
      /\ Traded(o, "DELIVERY", qty) = IF p # "DELIVERY" THEN 0 ELSE IF side = "BUY" THEN qty ELSE -qty
  BY DEF Traded
<1>10. /\ traded \in Engines /\ SameBut(e, traded) /\ traded.holding = e.holding
       /\ traded.salesPnl = e.salesPnl
       /\ Net(traded, "INTRADAY") = IF p # "INTRADAY" THEN Net(e, "INTRADAY")
            ELSE IF side = "BUY" THEN Net(e, "INTRADAY") + today ELSE Net(e, "INTRADAY") - today
       /\ Net(traded, "DELIVERY") = IF p # "DELIVERY" THEN net
            ELSE IF side = "BUY" THEN net + today ELSE net - today
       /\ Worth(traded) = Worth(e) + IF side = "BUY" THEN today * price ELSE -(today * price)
  <2> HIDE DEF today, side, p
  <2>1. CASE today = 0
    <3>1. traded = e BY <2>1
    <3>2. today * price = 0 BY <2>1
    <3> HIDE DEF traded
    <3> QED BY <1>2, <1>3, <2>1, <3>1, <3>2 DEF SameBut
  <2>2. CASE today # 0
    <3> DEFINE c == TradedIn(e, p, side, today, price)
    <3>1. today \in Nat \ {0} BY <1>5, <2>2
    <3>2. /\ c \in Engines
          /\ c.orders = e.orders /\ c.stops = e.stops /\ c.funds = e.funds /\ c.holding = e.holding
          /\ c.carried = e.carried /\ c.salesPnl = e.salesPnl /\ c.pastPnl = e.pastPnl
          /\ c.capped = e.capped /\ c.synced = e.synced /\ c.broken = e.broken
          /\ \A q \in Products : Net(c, q) = IF q # p THEN Net(e, q)
                       ELSE IF side = "BUY" THEN Net(e, q) + today ELSE Net(e, q) - today
          /\ Worth(c) = Worth(e) + IF side = "BUY" THEN today * price ELSE -(today * price)
      <4>1. TradesIn(e, c, p, side, today, price) BY <1>1, <3>1, BookTraded, Zenon
      <4> HIDE DEF c
      <4> QED BY <4>1, Zenon DEF TradesIn
    <3>3. traded = c BY <2>2
    <3> HIDE DEF c, traded
    <3> QED BY <3>2, <3>3 DEF SameBut, Products
  <2> QED BY <2>1, <2>2
<1> HIDE DEF traded, d, o, side, p, net
<1>11. CASE today = qty
  <2>1. d = traded BY <1>5, <1>7, <1>11
  <2>2. /\ Net(d, "INTRADAY") = Net(e, "INTRADAY") + Traded(o, "INTRADAY", qty)
        /\ Net(d, "DELIVERY") = net + Traded(o, "DELIVERY", qty)
    <3> HIDE DEF today
    <3> QED BY <1>1, <1>2, <1>3, <1>9, <1>10, <1>11, <2>1 DEF Sides, Products
  <2>3. Net(d, "DELIVERY") >= 0
    <3>1. net + Traded(o, "DELIVERY", qty) >= 0
      <4> HIDE DEF today
      <4> QED BY <1>1, <1>2, <1>6, <1>9, <1>11 DEF Sides
    <3> QED BY <2>2, <3>1
  <2>4. Worth(d) = Worth(e) - Amount(o, qty, price)
    <3>1. qty * price \in Int OBVIOUS
    <3> DEFINE cost == qty * price
    <3>2. Worth(d) = Worth(e) + IF side = "BUY" THEN cost ELSE -cost
      <4> HIDE DEF today
      <4> QED BY <1>10, <1>11, <2>1
    <3> HIDE DEF today
    <3>3. cost \in Int BY <3>1
    <3>4. Amount(o, qty, price) = IF side = "SELL" THEN cost ELSE -cost BY <1>8
    <3> HIDE DEF cost
    <3> QED BY <1>1, <1>3, <3>2, <3>3, <3>4 DEF Sides
  <2>5. d \in Engines /\ SameBut(e, d) /\ d.holding = e.holding BY <1>10, <2>1
  <2>6. Traded(o, "DELIVERY", qty) \in Int BY <1>9
  <2> HIDE DEF today
  <2>7. d.holding.qty + Net(d, "DELIVERY") = e.holding.qty + net + Traded(o, "DELIVERY", qty)
    BY <1>2, <1>3, <2>2, <2>5, <2>6
  <2> QED BY <2>2, <2>3, <2>4, <2>5, <2>7 DEF d, o, net
<1>12. CASE today # qty
  <2> HIDE DEF today
  <2> DEFINE rest == qty - today
             c == SellFromHoldings(traded, rest, price)
  <2>1. side = "SELL" /\ p = "DELIVERY" /\ today = net /\ qty > today /\ today \in Nat BY <1>5, <1>12
  <2>2. rest \in 1 .. traded.holding.qty
    <3>1. rest <= e.holding.qty /\ rest \in Nat \ {0} BY <1>2, <1>3, <1>4, <2>1
    <3> QED BY <1>3, <1>10, <3>1
  <2>3. d = c BY <1>7, <2>1
  <2>4. /\ c \in Engines
        /\ c.orders = traded.orders /\ c.stops = traded.stops /\ c.funds = traded.funds
        /\ c.books = traded.books /\ c.carried = traded.carried /\ c.pastPnl = traded.pastPnl
        /\ c.capped = traded.capped /\ c.synced = traded.synced /\ c.broken = traded.broken
        /\ c.holding.qty = traded.holding.qty - rest
        /\ Worth(c) = Worth(traded) - rest * price
    <3> HIDE DEF rest
    <3> QED BY <1>10, <2>2, HoldingSold, SMTT(30)
  <2> HIDE DEF c
  <2>5. d \in Engines /\ SameBut(e, d) BY <1>10, <2>3, <2>4 DEF SameBut
  <2>6. Net(d, "INTRADAY") = Net(traded, "INTRADAY") /\ Net(d, "DELIVERY") = Net(traded, "DELIVERY")
    BY <2>3, <2>4 DEF Net
  <2>7. /\ Net(d, "INTRADAY") = Net(e, "INTRADAY") + Traded(o, "INTRADAY", qty)
        /\ Net(d, "DELIVERY") = 0
    BY <1>2, <1>3, <1>9, <1>10, <2>1, <2>6
  <2>8. d.holding.qty + Net(d, "DELIVERY") = e.holding.qty + net + Traded(o, "DELIVERY", qty)
    <3>1. d.holding.qty = e.holding.qty - (qty - net) BY <1>10, <2>1, <2>3, <2>4
    <3>2. Traded(o, "DELIVERY", qty) = -qty BY <1>9, <2>1
    <3> QED BY <1>2, <1>3, <2>7, <3>1, <3>2
  <2>9. Worth(d) = Worth(e) - Amount(o, qty, price)
    <3> DEFINE a == today * price
               b == rest * price
    <3>1. Worth(traded) = Worth(e) + IF side = "BUY" THEN a ELSE -a BY <1>10
    <3>2. Worth(d) = Worth(traded) - b BY <2>3, <2>4
    <3>3. a + b = qty * price /\ a \in Int /\ b \in Int BY <2>1
    <3>4. Amount(o, qty, price) = qty * price BY <1>8, <2>1
    <3> HIDE DEF a, b
    <3>5. Worth(traded) = Worth(e) - a BY <1>3, <2>1, <3>1, <3>3
    <3> QED BY <1>3, <3>2, <3>3, <3>4, <3>5
  <2> QED BY <2>5, <2>7, <2>8, <2>9 DEF d, o, net
<1> QED BY <1>11, <1>12

-----------------------------------------------------------------------------
(* A step about one order.                                                 *)

\* The shares an order may take of what is owned.
Asks(o) ==
  IF Live(o) /\ o.product = "DELIVERY" /\ o.side = "SELL" /\ ~o.exit THEN Left(o) ELSE 0

LEMMA AsksIsNat ==
  ASSUME NEW o \in OrderRecords
  PROVE  Asks(o) \in Nat
BY OrderFields DEF Asks

LEMMA AskedIs ==
  ASSUME NEW e \in Engines
  PROVE  Asked(e) = SumTo([i \in 1 .. Len(e.orders) |-> Asks(e.orders[i])], Len(e.orders))
<1> DEFINE n == Len(e.orders)
           f == [i \in 1 .. n |-> Asks(e.orders[i])]
           g == [i \in 1 .. n |-> LeftIf(e, UserSells(e), i)]
<1>1. n \in Nat BY EngineLens
<1>2. \A i \in 1 .. n : Asks(e.orders[i]) \in Nat BY EngineLens, AsksIsNat
<1>3. \A i \in 1 .. n : LeftIf(e, UserSells(e), i) = Asks(e.orders[i])
  BY UserSellsAre DEF LeftIf, Asks
<1>4. \A i \in 1 .. n : f[i] \in Int /\ g[i] = f[i] BY <1>2, <1>3
<1>5. Asked(e) = SumTo(g, n) BY UnfilledTerms DEF Asked
<1> HIDE DEF f, g, n
<1>6. SumTo(g, n) = SumTo(f, n) BY <1>1, <1>4, SumSame
<1> QED BY <1>5, <1>6 DEF f, n

\* One order is another.
LEMMA OneChanged ==
  ASSUME NEW e \in Engines, NEW d \in Engines, NEW i \in 1 .. Len(e.orders),
         Len(d.orders) = Len(e.orders),
         \A k \in 1 .. Len(e.orders) : k # i => d.orders[k] = e.orders[k]
  PROVE  /\ \A p : Bought(d, p) = Bought(e, p) - Signed(e.orders[i], p) + Signed(d.orders[i], p)
         /\ Asked(d) = Asked(e) - Asks(e.orders[i]) + Asks(d.orders[i])
<1> DEFINE n == Len(e.orders)
<1>1. n \in Nat /\ \A k \in 1 .. n : e.orders[k] \in OrderRecords /\ d.orders[k] \in OrderRecords
  BY EngineLens
<1>2. ASSUME NEW p
      PROVE  Bought(d, p) = Bought(e, p) - Signed(e.orders[i], p) + Signed(d.orders[i], p)
  <2> DEFINE f == [k \in 1 .. n |-> Signed(e.orders[k], p)]
             h == [k \in 1 .. n |-> Signed(d.orders[k], p)]
  <2>1. \A k \in 1 .. n : f[k] \in Int /\ h[k] \in Int BY <1>1, SignedIsInt
  <2>2. \A k \in 1 .. n : k # i => h[k] = f[k] OBVIOUS
  <2>3. Bought(e, p) = SumTo(f, n) /\ Bought(d, p) = SumTo(h, n) BY DEF Bought
  <2>4. f[i] = Signed(e.orders[i], p) /\ h[i] = Signed(d.orders[i], p) OBVIOUS
  <2> HIDE DEF f, h, n
  <2>5. i \in 1 .. n BY DEF n
  <2>6. SumTo(h, n) = SumTo(f, n) - f[i] + h[i] BY <1>1, <2>1, <2>2, <2>5, SumChange
  <2> QED BY <2>3, <2>4, <2>6
<1>3. Asked(d) = Asked(e) - Asks(e.orders[i]) + Asks(d.orders[i])
  <2> DEFINE f == [k \in 1 .. n |-> Asks(e.orders[k])]
             h == [k \in 1 .. n |-> Asks(d.orders[k])]
  <2>1. \A k \in 1 .. n : f[k] \in Int /\ h[k] \in Int BY <1>1, AsksIsNat
  <2>2. \A k \in 1 .. n : k # i => h[k] = f[k] OBVIOUS
  <2>3. Asked(e) = SumTo(f, n) /\ Asked(d) = SumTo(h, n)
    <3>1. Asked(e) = SumTo(f, n) BY AskedIs
    <3>2. Asked(d) = SumTo([k \in 1 .. Len(d.orders) |-> Asks(d.orders[k])], Len(d.orders)) BY AskedIs
    <3> QED BY <3>1, <3>2
  <2>4. f[i] = Asks(e.orders[i]) /\ h[i] = Asks(d.orders[i]) OBVIOUS
  <2> HIDE DEF f, h, n
  <2>5. i \in 1 .. n BY DEF n
  <2>6. SumTo(h, n) = SumTo(f, n) - f[i] + h[i] BY <1>1, <2>1, <2>2, <2>5, SumChange
  <2> QED BY <2>3, <2>4, <2>6
<1> QED BY <1>2, <1>3

\* There is one order more.
LEMMA OneMore ==
  ASSUME NEW e \in Engines, NEW d \in Engines, Len(d.orders) = Len(e.orders) + 1,
         \A k \in 1 .. Len(e.orders) : d.orders[k] = e.orders[k]
  PROVE  /\ \A p : Bought(d, p) = Bought(e, p) + Signed(d.orders[Len(d.orders)], p)
         /\ Asked(d) = Asked(e) + Asks(d.orders[Len(d.orders)])
<1> DEFINE n == Len(e.orders)
<1>1. /\ n \in Nat /\ n + 1 \in 1 .. n + 1
      /\ \A k \in 1 .. n : e.orders[k] \in OrderRecords /\ e.orders[k] = d.orders[k]
      /\ \A k \in 1 .. n + 1 : d.orders[k] \in OrderRecords
  BY EngineLens
<1>2. ASSUME NEW p
      PROVE  Bought(d, p) = Bought(e, p) + Signed(d.orders[n + 1], p)
  <2> DEFINE f == [k \in 1 .. n |-> Signed(e.orders[k], p)]
             h == [k \in 1 .. n + 1 |-> Signed(d.orders[k], p)]
  <2>1. \A k \in 1 .. n + 1 : h[k] \in Int BY <1>1, SignedIsInt
  <2>2. \A k \in 1 .. n : h[k] \in Int /\ f[k] = h[k]
    <3> SUFFICES ASSUME NEW k \in 1 .. n PROVE h[k] \in Int /\ f[k] = h[k] OBVIOUS
    <3>1. k \in 1 .. n + 1 BY <1>1
    <3> QED BY <1>1, <2>1, <3>1
  <2>3. Bought(e, p) = SumTo(f, n) /\ Bought(d, p) = SumTo(h, n + 1) BY DEF Bought
  <2>4. h[n + 1] = Signed(d.orders[n + 1], p) BY <1>1
  <2> HIDE DEF f, h, n
  <2>5. SumTo(h, n + 1) = SumTo(h, n) + h[n + 1] BY <1>1, <2>1, SumNext
  <2>6. SumTo(f, n) = SumTo(h, n) BY <1>1, <2>2, SumSame
  <2> QED BY <2>3, <2>4, <2>5, <2>6
<1>3. Asked(d) = Asked(e) + Asks(d.orders[n + 1])
  <2> DEFINE f == [k \in 1 .. n |-> Asks(e.orders[k])]
             h == [k \in 1 .. n + 1 |-> Asks(d.orders[k])]
  <2>1. \A k \in 1 .. n + 1 : h[k] \in Int BY <1>1, AsksIsNat
  <2>2. \A k \in 1 .. n : h[k] \in Int /\ f[k] = h[k]
    <3> SUFFICES ASSUME NEW k \in 1 .. n PROVE h[k] \in Int /\ f[k] = h[k] OBVIOUS
    <3>1. k \in 1 .. n + 1 BY <1>1
    <3> QED BY <1>1, <2>1, <3>1
  <2>3. Asked(e) = SumTo(f, n) /\ Asked(d) = SumTo(h, n + 1)
    <3>1. Asked(e) = SumTo(f, n) BY AskedIs
    <3>2. Asked(d) = SumTo([k \in 1 .. Len(d.orders) |-> Asks(d.orders[k])], Len(d.orders)) BY AskedIs
    <3> QED BY <3>1, <3>2
  <2>4. h[n + 1] = Asks(d.orders[n + 1]) BY <1>1
  <2> HIDE DEF f, h, n
  <2>5. SumTo(h, n + 1) = SumTo(h, n) + h[n + 1] BY <1>1, <2>1, SumNext
  <2>6. SumTo(f, n) = SumTo(h, n) BY <1>1, <2>2, SumSame
  <2> QED BY <2>3, <2>4, <2>5, <2>6
<1> QED BY <1>2, <1>3

\* An order's step keeps what it keeps for that order.
LEMMA SaneStep ==
  ASSUME NEW e, NEW i \in Nat \ {0}, Sane(e, i), Running(e),
         NEW d \in Engines, Running(d), StopsOk(d), CappedOk(d), Net(d, "DELIVERY") >= 0,
         Len(d.orders) >= Len(e.orders), i <= Len(d.orders),
         \A k \in 1 .. Len(d.orders) : k # i => k <= Len(e.orders) /\ d.orders[k] = e.orders[k],
         (d.funds.available + d.funds.blocked) + Worth(d) = (e.funds.available + e.funds.blocked) + Worth(e),
         (d.holding.qty + Net(d, "DELIVERY")) - d.carried.qty - Bought(d, "DELIVERY")
           = (e.holding.qty + Net(e, "DELIVERY")) - e.carried.qty - Bought(e, "DELIVERY"),
         Net(d, "INTRADAY") - Bought(d, "INTRADAY") = Net(e, "INTRADAY") - Bought(e, "INTRADAY"),
         d.funds.blocked - Total(d.funds) = e.funds.blocked - Total(e.funds),
         \A k \in OrderId : k # i => d.funds.blocks[k] = e.funds.blocks[k],
         i \in OrderId => Due(d.orders[i], d.funds.blocks[i])
  PROVE  Sane(d, i)
<1>1. /\ e \in Engines /\ MoneyOk(e) /\ SharesOk(e) /\ BlocksOk(e) /\ RestsOk(e, i)
  BY NotDebit DEF Sane
<1>2. Len(e.orders) \in Nat /\ Len(d.orders) \in Nat BY <1>1, EngineLens
<1>3. MoneyOk(d) BY <1>1 DEF MoneyOk
<1>4. SharesOk(d)
  <2>1. /\ Net(e, "DELIVERY") \in Int /\ Net(e, "INTRADAY") \in Int
        /\ Net(d, "DELIVERY") \in Int /\ Net(d, "INTRADAY") \in Int
    BY <1>1, BookFields DEF Products
  <2>2. /\ Bought(e, "DELIVERY") \in Int /\ Bought(e, "INTRADAY") \in Int
        /\ Bought(d, "DELIVERY") \in Int /\ Bought(d, "INTRADAY") \in Int
    BY <1>1, BoughtIsInt
  <2>3. /\ e.holding.qty \in Nat /\ e.carried.qty \in Nat /\ d.holding.qty \in Nat /\ d.carried.qty \in Nat
    <3>1. e \in Engines BY <1>1
    <3> QED BY <3>1, WorthIsInt
  <2>4. /\ e.holding.qty + Net(e, "DELIVERY") = e.carried.qty + Bought(e, "DELIVERY")
        /\ Net(e, "INTRADAY") = Bought(e, "INTRADAY")
    BY <1>1 DEF SharesOk
  <2>5. d.holding.qty + Net(d, "DELIVERY") = d.carried.qty + Bought(d, "DELIVERY")
    <3> DEFINE h == e.holding.qty
               n == Net(e, "DELIVERY")
               c == e.carried.qty
               b == Bought(e, "DELIVERY")
               x == d.holding.qty
               y == Net(d, "DELIVERY")
               z == d.carried.qty
               w == Bought(d, "DELIVERY")
    <3>1. h \in Int /\ n \in Int /\ c \in Int /\ b \in Int BY <2>1, <2>2, <2>3, SMTT(30)
    <3>2. x \in Int /\ y \in Int /\ z \in Int /\ w \in Int
      <4>1. x \in Nat /\ z \in Nat BY <2>3
      <4>2. y \in Int BY <2>1
      <4>3. w \in Int BY <2>2
      <4> HIDE DEF x, y, z, w
      <4> QED BY <4>1, <4>2, <4>3
    <3>3. (x + y) - z - w = (h + n) - c - b OBVIOUS
    <3>4. h + n = c + b BY <2>4
    <3> HIDE DEF h, n, c, b, x, y, z, w
    <3>5. (h + n) - c - b = 0 BY <3>1, <3>4
    <3>6. (x + y) - z - w = 0 BY <3>3, <3>5
    <3>7. x + y = z + w BY <3>2, <3>6
    <3> QED BY <3>7 DEF x, y, z, w
  <2>6. Net(d, "INTRADAY") = Bought(d, "INTRADAY") BY <2>1, <2>2, <2>4
  <2> QED BY <2>5, <2>6 DEF SharesOk
<1>5. BlocksOk(d)
  <2>1. /\ e.funds.blocked \in Int /\ d.funds.blocked \in Int
        /\ Total(e.funds) \in Int /\ Total(d.funds) \in Int
    <3>1. e.funds \in Ledgers /\ d.funds \in Ledgers BY <1>1, EngineFields
    <3> QED BY <3>1, LedgerFields
  <2>2. e.funds.blocked = Total(e.funds) BY <1>1 DEF BlocksOk
  <2>3. d.funds.blocked = Total(d.funds) BY <2>1, <2>2
  <2>4. ASSUME NEW k \in OrderId
        PROVE IF k <= Len(d.orders) THEN Due(d.orders[k], d.funds.blocks[k]) ELSE d.funds.blocks[k] = 0
    <3>1. k \in Nat \ {0} BY FundsAssumption
    <3>2. CASE k = i BY <3>2
    <3>3. CASE k # i
      <4>1. k <= Len(d.orders) => k <= Len(e.orders) /\ d.orders[k] = e.orders[k] BY <1>2, <3>1, <3>3
      <4>2. k <= Len(e.orders) => k <= Len(d.orders) BY <1>2, <3>1
      <4>3. IF k <= Len(e.orders) THEN Due(e.orders[k], e.funds.blocks[k]) ELSE e.funds.blocks[k] = 0
        BY <1>1 DEF BlocksOk
      <4>4. d.funds.blocks[k] = e.funds.blocks[k] BY <3>3
      <4> QED BY <4>1, <4>2, <4>3, <4>4
    <3> QED BY <3>2, <3>3
  <2> QED BY <2>3, <2>4 DEF BlocksOk
<1>6. RestsOk(d, i)
  <2> SUFFICES ASSUME NEW k \in 1 .. Len(d.orders), k # i PROVE Rests(d.orders[k], k) BY DEF RestsOk
  <2>1. k \in 1 .. Len(e.orders) /\ d.orders[k] = e.orders[k] BY <1>2
  <2> QED BY <1>1, <2>1 DEF RestsOk
<1> QED BY <1>3, <1>4, <1>5, <1>6 DEF Sane

\* The same, in one word.
Stepped(e, d, i) ==
  /\ i \in Nat \ {0} /\ Sane(e, i) /\ Running(e)
  /\ d \in Engines /\ Running(d) /\ StopsOk(d) /\ CappedOk(d) /\ Net(d, "DELIVERY") >= 0
  /\ Len(d.orders) >= Len(e.orders) /\ i <= Len(d.orders)
  /\ \A k \in 1 .. Len(d.orders) : k # i => k <= Len(e.orders) /\ d.orders[k] = e.orders[k]
  /\ (d.funds.available + d.funds.blocked) + Worth(d) = (e.funds.available + e.funds.blocked) + Worth(e)
  /\ (d.holding.qty + Net(d, "DELIVERY")) - d.carried.qty - Bought(d, "DELIVERY")
       = (e.holding.qty + Net(e, "DELIVERY")) - e.carried.qty - Bought(e, "DELIVERY")
  /\ Net(d, "INTRADAY") - Bought(d, "INTRADAY") = Net(e, "INTRADAY") - Bought(e, "INTRADAY")
  /\ d.funds.blocked - Total(d.funds) = e.funds.blocked - Total(e.funds)
  /\ \A k \in OrderId : k # i => d.funds.blocks[k] = e.funds.blocks[k]
  /\ i \in OrderId => Due(d.orders[i], d.funds.blocks[i])

LEMMA SaneStepped ==
  ASSUME NEW e, NEW d, NEW i, Stepped(e, d, i)
  PROVE  Sane(d, i)
BY SaneStep, ZenonT(30) DEF Stepped

\* The order is one that rests.
LEMMA SaneRests ==
  ASSUME NEW e, NEW i \in Nat \ {0}
  PROVE  /\ Sane(e, 0) => Sane(e, i)
         /\ Sane(e, i) /\ (i <= Len(e.orders) => Rests(e.orders[i], i)) => Sane(e, 0)
<1>1. RestsOk(e, 0) => RestsOk(e, i)  BY DEF RestsOk
<1>2. RestsOk(e, i) /\ (i <= Len(e.orders) => Rests(e.orders[i], i)) => RestsOk(e, 0) BY DEF RestsOk
<1> QED BY <1>1, <1>2, Zenon DEF Sane

-----------------------------------------------------------------------------
(* A fill.                                                                 *)

FilledBy(o, qty) ==
  [o EXCEPT !.filled = o.filled + qty, !.status = IF qty = Left(o) THEN "EXECUTED" ELSE o.status]

LEMMA FilledOrder ==
  ASSUME NEW o \in OrderRecords, o.status = "OPEN", NEW qty \in 1 .. Left(o)
  PROVE  LET r == FilledBy(o, qty) IN
         /\ r \in OrderRecords /\ r.filled = o.filled + qty /\ Left(r) = Left(o) - qty
         /\ r.status = IF qty = Left(o) THEN "EXECUTED" ELSE "OPEN"
         /\ r.side = o.side /\ r.product = o.product /\ r.type = o.type /\ r.price = o.price
         /\ r.exit = o.exit /\ r.qty = o.qty
<1> DEFINE filled == o.filled + qty
           status == IF qty = Left(o) THEN "EXECUTED" ELSE o.status
           r == FilledBy(o, qty)
<1>1. /\ o.qty \in Nat /\ o.filled \in Nat /\ Left(o) \in Nat /\ OrderOk(o)
      /\ o.price \in Circuit \cup {None}
  BY OrderFields DEF Live
<1>2. Left(o) = o.qty - o.filled BY DEF Left
<1>3. /\ filled \in Nat /\ filled <= o.qty /\ (filled = o.qty) = (qty = Left(o))
      /\ o.qty - filled = Left(o) - qty
  <2> HIDE DEF filled
  <2> DEFINE left == Left(o)
  <2>1. left = o.qty - o.filled /\ left \in Nat /\ qty \in 1 .. left BY <1>1, <1>2
  <2> HIDE DEF left
  <2> QED BY <1>1, <2>1 DEF left, filled
<1>4. /\ status \in {"AMO", "OPEN", "EXECUTED", "CANCELLED", "REJECTED"}
      /\ status = IF qty = Left(o) THEN "EXECUTED" ELSE "OPEN"
  OBVIOUS
<1>5. r = [o EXCEPT !.filled = filled, !.status = status] BY DEF FilledBy
<1> HIDE DEF filled, status
<1>6. /\ r \in [side : Sides, type : {"MARKET", "LIMIT"}, product : Products, qty : Nat,
                price : Int \cup {None}, filled : Nat,
                status : {"AMO", "OPEN", "EXECUTED", "CANCELLED", "REJECTED"}, exit : BOOLEAN]
      /\ r.filled = filled /\ r.status = status /\ r.side = o.side /\ r.product = o.product
      /\ r.type = o.type /\ r.price = o.price /\ r.exit = o.exit /\ r.qty = o.qty
  BY <1>1, <1>3, <1>4, <1>5 DEF OrderRecords
<1> HIDE DEF r
<1>7. (r.filled = r.qty) = (r.status = "EXECUTED")
  <2>1. (filled = o.qty) <=> qty = Left(o) BY <1>3
  <2>2. (status = "EXECUTED") <=> qty = Left(o) BY <1>4
  <2> QED BY <1>6, <2>1, <2>2
<1>8. OrderOk(r)
  <2>1. Live(r) => (r.type = "MARKET") = (r.price = None) /\ r.price \in Circuit \cup {None}
    BY <1>1, <1>6 DEF OrderOk, Live
  <2>2. r.status # "AMO" BY <1>4, <1>6
  <2>3. r.filled <= r.qty BY <1>3, <1>6
  <2> QED BY <1>7, <2>1, <2>2, <2>3 DEF OrderOk
<1>9. Left(r) = Left(o) - qty BY <1>3, <1>6 DEF Left
<1> QED BY <1>4, <1>6, <1>8, <1>9 DEF r, filled, OrderRecords

\* What a fill of an order must satisfy.
FillOk(e, i, qty, price, forced) ==
  LET o == e.orders[i] IN
  /\ o.status = "OPEN" /\ qty \in 1 .. Left(o) /\ price \in Prices /\ forced \in BOOLEAN
  /\ o.exit => forced
  /\ forced /\ ~o.exit => qty = Left(o)
  /\ qty = Left(o) \/ Rests(o, i)
  /\ o.side = "SELL" /\ o.product = "DELIVERY" => qty <= Owned(e)
  /\ o.side = "BUY" /\ ~forced => qty * price <= ReleaseOf(e, i, qty)

\* What stays blocked is due.
LEMMA StillDue ==
  ASSUME NEW e, NEW i \in OrderId, i <= Len(e.orders), Sane(e, i), Running(e), NEW qty, NEW price, NEW forced,
         FillOk(e, i, qty, price, forced)
  PROVE  Due(FilledBy(e.orders[i], qty), e.funds.blocks[i] - Freed(e, i, qty, forced))
<1> DEFINE o == e.orders[i]
           r == FilledBy(o, qty)
           held == e.funds.blocks[i]
           freed == Freed(e, i, qty, forced)
<1>1. /\ e \in Engines /\ BlocksOk(e) BY NotDebit DEF Sane
<1>2. /\ o.status = "OPEN" /\ qty \in 1 .. Left(o) /\ price \in Prices
      /\ o.exit => forced
      /\ forced /\ ~o.exit => qty = Left(o)
      /\ qty = Left(o) \/ Rests(o, i)
  BY DEF FillOk
<1>3. i \in 1 .. Len(e.orders) /\ o \in OrderRecords
  <2>1. i \in Nat \ {0} BY FundsAssumption
  <2>2. i \in 1 .. Len(e.orders) BY <1>1, <2>1, EngineLens
  <2> QED BY <1>1, <2>2, EngineLens
<1>4. Due(o, held) BY <1>1 DEF BlocksOk
<1>5. held \in Int /\ BlockedFor(e.funds, i) = held
  <2>1. e.funds \in Ledgers BY <1>1, EngineFields
  <2>2. e.funds.blocks \in [OrderId -> Int] BY <2>1, LedgerFields
  <2> QED BY <2>2 DEF BlockedFor
<1>6. o.side \in {"BUY", "SELL"} /\ Left(o) \in Nat \ {0} /\ o.price \in Circuit \cup {None}
  BY <1>2, <1>3, OrderFields DEF Sides, Live
<1>7. /\ r.status = IF qty = Left(o) THEN "EXECUTED" ELSE "OPEN"
      /\ r.side = o.side /\ r.type = o.type /\ r.price = o.price /\ r.exit = o.exit
      /\ Left(r) = Left(o) - qty
  BY <1>2, <1>3, FilledOrder
<1> HIDE DEF r
<1>8. CASE o.side = "SELL"
  <2>1. held = 0 BY <1>4, <1>8 DEF Due
  <2>2. freed = 0 BY <1>8 DEF Freed
  <2> QED BY <1>7, <1>8, <2>1, <2>2 DEF Due, r
<1>9. CASE o.side = "BUY" /\ (forced \/ qty = Left(o))
  <2>1. freed = held BY <1>5, <1>9 DEF Freed, ReleaseOf
  <2>2. held - freed = 0 BY <1>5, <2>1
  <2>3. ~r.exit => r.status = "EXECUTED" BY <1>2, <1>7, <1>9
  <2>4. OrderWorth(r) >= 0
    <3>1. Left(r) \in Nat
      <4> DEFINE left == Left(o)
      <4>1. left \in Nat /\ qty \in 1 .. left BY <1>2, <1>6
      <4> HIDE DEF left
      <4>2. left - qty \in Nat BY <4>1
      <4> QED BY <1>7, <4>2 DEF left
    <3>2. r.price # None => r.price \in Nat BY <1>6, <1>7, EngineAssumption
    <3> DEFINE left == Left(r)
               price_ == r.price
    <3>3. left \in Nat /\ (price_ # None => price_ \in Nat) BY <3>1, <3>2
    <3>4. OrderWorth(r) = IF price_ = None THEN 0 ELSE left * price_ BY DEF OrderWorth
    <3> HIDE DEF left, price_
    <3> QED BY <3>3, <3>4
  <2> HIDE DEF freed, held
  <2> QED BY <2>2, <2>3, <2>4 DEF Due, Live, r, freed, held
<1>10. CASE o.side = "BUY" /\ ~forced /\ qty # Left(o)
  <2>1. ~o.exit /\ o.type = "LIMIT" BY <1>2, <1>10 DEF Rests
  <2>2. o.price \in Nat
    <3>1. OrderOk(o) BY <1>3, OrderFields
    <3>2. o.price \in Circuit BY <1>2, <1>6, <2>1, <3>1 DEF OrderOk, Live
    <3> QED BY <3>2, EngineAssumption
  <2>3. held = Left(o) * o.price
    <3>1. o.price # None BY <2>2, TrailAssumption
    <3> QED BY <1>2, <1>4, <1>10, <2>1, <3>1 DEF Due, Live, OrderWorth
  <2>4. freed = qty * o.price
    <3>1. freed = MulDivRound(held, qty, Left(o)) BY <1>5, <1>10 DEF Freed, ReleaseOf
    <3> DEFINE left == Left(o)
               limit == o.price
    <3>2. left \in Nat \ {0} /\ limit \in Nat /\ qty \in Nat BY <1>2, <1>6, <2>2
    <3> HIDE DEF left, limit
    <3>3. MulDivRound(left * limit, qty, left) = qty * limit BY <3>2, RoundBlock
    <3> QED BY <2>3, <3>1, <3>3 DEF left, limit
  <2>5. held - freed = OrderWorth(r) /\ held - freed >= 0
    <3> DEFINE left == Left(o)
               limit == o.price
    <3>1. left \in Nat /\ limit \in Nat /\ qty \in 1 .. left BY <1>2, <1>6, <2>2
    <3>2. OrderWorth(r) = (left - qty) * limit
      <4>1. r.price # None BY <1>7, <2>2, TrailAssumption
      <4> QED BY <1>7, <4>1 DEF OrderWorth
    <3>3. held - freed = left * limit - qty * limit BY <2>3, <2>4
    <3> HIDE DEF left, limit, held, freed
    <3>4. left - qty \in Nat BY <3>1
    <3>5. left * limit - qty * limit = (left - qty) * limit BY <3>1
    <3>6. (left - qty) * limit \in Nat BY <3>1, <3>4
    <3> QED BY <3>2, <3>3, <3>5, <3>6
  <2> HIDE DEF freed, held
  <2> QED BY <1>7, <1>10, <2>1, <2>5 DEF Due, Live, r, freed, held
<1> QED BY <1>6, <1>8, <1>9, <1>10

\* The order's record and the mark it loses.
Recorded(e, i, qty) ==
  [e EXCEPT !.orders = [e.orders EXCEPT ![i] = FilledBy(e.orders[i], qty)],
            !.capped = IF qty = Left(e.orders[i]) THEN e.capped \ {i} ELSE e.capped]

LEMMA RecordedIs ==
  ASSUME NEW e \in Engines, NEW i \in 1 .. Len(e.orders), NEW qty \in 1 .. Left(e.orders[i]),
         e.orders[i].status = "OPEN"
  PROVE  LET d == Recorded(e, i, qty) IN
         /\ d \in Engines /\ Len(d.orders) = Len(e.orders)
         /\ d.orders[i] = FilledBy(e.orders[i], qty)
         /\ \A k \in 1 .. Len(e.orders) : k # i => d.orders[k] = e.orders[k]
         /\ d.capped = IF qty = Left(e.orders[i]) THEN e.capped \ {i} ELSE e.capped
         /\ d.stops = e.stops /\ d.funds = e.funds /\ d.books = e.books /\ d.holding = e.holding
         /\ d.carried = e.carried /\ d.salesPnl = e.salesPnl /\ d.pastPnl = e.pastPnl
         /\ d.synced = e.synced /\ d.broken = e.broken
<1> DEFINE n == Len(e.orders)
           r == FilledBy(e.orders[i], qty)
           O == [e.orders EXCEPT ![i] = r]
           C == IF qty = Left(e.orders[i]) THEN e.capped \ {i} ELSE e.capped
           d == Recorded(e, i, qty)
<1>1. n \in Nat /\ e.orders \in Seq(OrderRecords) /\ e.orders \in [1 .. n -> OrderRecords]
  BY EngineFields, SeqPlaces
<1>2. r \in OrderRecords
  <2>1. e.orders[i] \in OrderRecords BY <1>1
  <2> QED BY <2>1, FilledOrder
<1>3. C \in SUBSET Nat BY EngineFields
<1> HIDE DEF r, C, n
<1>4. O \in [1 .. n -> OrderRecords] /\ \A k \in 1 .. n : O[k] = IF k = i THEN r ELSE e.orders[k]
  BY <1>1, <1>2
<1> HIDE DEF O
<1>5. O \in Seq(OrderRecords) /\ Len(O) = n BY <1>1, <1>4, MadeSeq
<1>6. d = [e EXCEPT !.orders = O, !.capped = C] BY DEF Recorded, O, C, r
<1> DEFINE c == [e EXCEPT !.orders = O, !.capped = C]
<1>7. /\ c \in Engines /\ c.orders = O /\ c.capped = C
      /\ c.stops = e.stops /\ c.funds = e.funds /\ c.books = e.books /\ c.holding = e.holding
      /\ c.carried = e.carried /\ c.salesPnl = e.salesPnl /\ c.pastPnl = e.pastPnl
      /\ c.synced = e.synced /\ c.broken = e.broken
  BY <1>3, <1>5 DEF Engines
<1> HIDE DEF c, d
<1>8. d = c BY <1>6 DEF c
<1>9. i \in 1 .. n BY DEF n
<1> QED BY <1>4, <1>5, <1>7, <1>8, <1>9 DEF d, n, r, C

LEMMA FilledIs ==
  ASSUME NEW e \in Engines, NEW i \in 1 .. Len(e.orders), NEW qty, NEW price, Running(e)
  PROVE  Filled(e, i, qty, price) = AfterFill(Recorded(e, i, qty), i, price)
<1> DEFINE o == e.orders[i]
           last == qty = Left(o)
           r == [o EXCEPT !.filled = @ + qty, !.status = IF last THEN "EXECUTED" ELSE @]
           x == [e EXCEPT !.orders[i] = r, !.capped = IF last THEN @ \ {i} ELSE @]
<1>1. Filled(e, i, qty, price) = AfterFill(x, i, price)
  BY Zenon DEF Filled, Running
<1>2. r = FilledBy(o, qty)
  <2>1. o \in OrderRecords BY EngineLens
  <2> QED BY <2>1 DEF OrderRecords, FilledBy
<1> HIDE DEF r
<1>3. x = [e EXCEPT !.orders = [e.orders EXCEPT ![i] = r],
                    !.capped = IF last THEN e.capped \ {i} ELSE e.capped]
  BY DEF Engines
<1>4. x = Recorded(e, i, qty) BY <1>2, <1>3 DEF Recorded
<1> QED BY <1>1, <1>4

\* A fill of an order, and everything that follows it.
FillOf(e, i, qty, price, forced) ==
  Filled(Booked(Settled(e, i, qty, price, forced), i, qty, price), i, qty, price)

\* The cash and the shares of a fill that is paid for.
LEMMA FillBooked ==
  ASSUME NEW e, NEW i \in 1 .. Len(e.orders), Sane(e, i), Running(e),
         NEW qty, NEW price, NEW forced, FillOk(e, i, qty, price, forced),
         NEW f \in Ledgers, Paid(e, f, i, Amount(e.orders[i], qty, price), Freed(e, i, qty, forced))
  PROVE  LET x == Recorded(Booked(WithCash(e, f), i, qty, price), i, qty) IN
         /\ Running(Booked(WithCash(e, f), i, qty, price))
         /\ Sane(x, 0) /\ Running(x) /\ Len(x.orders) = Len(e.orders) /\ Len(x.stops) = Len(e.stops)
         /\ x.synced = e.synced /\ x.orders[i] = FilledBy(e.orders[i], qty)
         /\ Net(x, "INTRADAY") = Net(e, "INTRADAY") + Traded(e.orders[i], "INTRADAY", qty)
         /\ Owned(x) = Owned(e) + Traded(e.orders[i], "DELIVERY", qty)
         /\ Asked(x) = Asked(e) - Asks(e.orders[i]) + Asks(x.orders[i])
<1> DEFINE o == e.orders[i]
           r == FilledBy(o, qty)
           s == WithCash(e, f)
           b == Booked(s, i, qty, price)
           x == Recorded(b, i, qty)
           freed == Freed(e, i, qty, forced)
           amount == Amount(o, qty, price)
<1>1. /\ e \in Engines /\ StopsOk(e) /\ CappedOk(e) /\ Net(e, "DELIVERY") >= 0
      /\ BlocksOk(e)
  BY NotDebit DEF Sane
<1>2. /\ o.status = "OPEN" /\ qty \in 1 .. Left(o) /\ price \in Prices
      /\ qty = Left(o) \/ Rests(o, i)
      /\ o.side = "SELL" /\ o.product = "DELIVERY" => qty <= Owned(e)
  BY DEF FillOk
<1>3. o \in OrderRecords BY <1>1, EngineLens
<1>4. qty \in Nat \ {0} /\ price \in Nat /\ Left(o) \in Nat
  <2>1. Left(o) \in Nat BY <1>3, OrderFields
  <2> QED BY <1>2, <2>1 DEF Prices
<1>5. /\ s \in Engines /\ s.funds = f
      /\ s.orders = e.orders /\ s.stops = e.stops /\ s.books = e.books /\ s.holding = e.holding
      /\ s.carried = e.carried /\ s.salesPnl = e.salesPnl /\ s.pastPnl = e.pastPnl
      /\ s.capped = e.capped /\ s.synced = e.synced /\ s.broken = e.broken
  BY <1>1, WithFunds
<1>6. /\ f.available = e.funds.available + freed + amount
      /\ f.blocked = e.funds.blocked - freed
      /\ Total(f) = Total(e.funds) - freed
      /\ \A k \in OrderId : f.blocks[k] = IF k = i THEN e.funds.blocks[k] - freed ELSE e.funds.blocks[k]
  BY Zenon DEF Paid
<1> HIDE DEF s
<1>7. Net(s, "DELIVERY") = Net(e, "DELIVERY") /\ Net(s, "INTRADAY") = Net(e, "INTRADAY") /\ Worth(s) = Worth(e)
      /\ Owned(s) = Owned(e)
  BY <1>5 DEF Net, Worth, Owned
<1>8. /\ b \in Engines /\ SameBut(s, b)
      /\ Net(b, "INTRADAY") = Net(s, "INTRADAY") + Traded(o, "INTRADAY", qty)
      /\ b.holding.qty + Net(b, "DELIVERY") = s.holding.qty + Net(s, "DELIVERY") + Traded(o, "DELIVERY", qty)
      /\ Net(b, "DELIVERY") >= 0
      /\ Worth(b) = Worth(s) - Amount(o, qty, price)
  <2>1. i \in 1 .. Len(s.orders) /\ s.orders[i] = o BY <1>5
  <2>2. o.side = "SELL" /\ o.product = "DELIVERY" => qty <= Owned(s) BY <1>2, <1>7
  <2>3. Net(s, "DELIVERY") >= 0 BY <1>1, <1>7
  <2> HIDE DEF o
  <2> QED BY <1>4, <1>5, <2>1, <2>2, <2>3, BookedIs
<1> HIDE DEF b
<1>9. /\ b.orders = e.orders /\ b.stops = e.stops /\ b.funds = f /\ b.carried = e.carried
      /\ b.pastPnl = e.pastPnl /\ b.capped = e.capped /\ b.synced = e.synced /\ b.broken = e.broken
  BY <1>5, <1>8, Zenon DEF SameBut
<1>10. /\ x \in Engines /\ Len(x.orders) = Len(b.orders)
       /\ x.orders[i] = FilledBy(b.orders[i], qty)
       /\ \A k \in 1 .. Len(b.orders) : k # i => x.orders[k] = b.orders[k]
       /\ x.capped = IF qty = Left(b.orders[i]) THEN b.capped \ {i} ELSE b.capped
       /\ x.stops = b.stops /\ x.funds = b.funds /\ x.books = b.books /\ x.holding = b.holding
       /\ x.carried = b.carried /\ x.salesPnl = b.salesPnl /\ x.pastPnl = b.pastPnl
       /\ x.synced = b.synced /\ x.broken = b.broken
  <2>1. i \in 1 .. Len(b.orders) /\ qty \in 1 .. Left(b.orders[i]) /\ b.orders[i].status = "OPEN"
    BY <1>2, <1>9
  <2> QED BY <1>8, <2>1, RecordedIs
<1> HIDE DEF x
<1>11. /\ Len(x.orders) = Len(e.orders) /\ x.orders[i] = r
       /\ \A k \in 1 .. Len(e.orders) : k # i => x.orders[k] = e.orders[k]
       /\ x.capped = IF qty = Left(o) THEN e.capped \ {i} ELSE e.capped
       /\ x.stops = e.stops /\ x.funds = f /\ x.carried = e.carried
       /\ x.synced = e.synced /\ x.broken = e.broken
  BY <1>9, <1>10
<1>12. /\ r \in OrderRecords /\ r.filled = o.filled + qty /\ Left(r) = Left(o) - qty
       /\ r.status = IF qty = Left(o) THEN "EXECUTED" ELSE "OPEN"
       /\ r.side = o.side /\ r.product = o.product /\ r.type = o.type /\ r.exit = o.exit
  BY <1>2, <1>3, FilledOrder
<1> HIDE DEF r
<1>13. Running(b) /\ Running(x) BY <1>9, <1>11, Zenon DEF Running
<1>14. StopsOk(x) BY <1>1, <1>11 DEF StopsOk
<1>15. CappedOk(x)
  <2> SUFFICES ASSUME NEW k \in x.capped PROVE k \in 1 .. Len(x.orders) /\ x.orders[k].status = "OPEN"
    BY DEF CappedOk
  <2>1. k \in e.capped /\ (k = i => qty # Left(o)) BY <1>11
  <2>2. k \in 1 .. Len(e.orders) /\ e.orders[k].status = "OPEN" BY <1>1, <2>1 DEF CappedOk
  <2>3. CASE k = i
    <3>1. x.orders[k].status = "OPEN" BY <1>11, <1>12, <2>1, <2>3
    <3> QED BY <1>11, <2>2, <3>1
  <2>4. CASE k # i BY <1>11, <2>2, <2>4
  <2> QED BY <2>3, <2>4
<1>16. Net(x, "DELIVERY") = Net(b, "DELIVERY") /\ Net(x, "INTRADAY") = Net(b, "INTRADAY") /\ Worth(x) = Worth(b)
       /\ x.holding = b.holding
  BY <1>10 DEF Net, Worth
<1>17. /\ \A p : Bought(x, p) = Bought(e, p) - Signed(o, p) + Signed(r, p)
       /\ Asked(x) = Asked(e) - Asks(o) + Asks(x.orders[i])
  BY <1>1, <1>10, <1>11, OneChanged
<1>18. \A p : Signed(o, p) \in Int /\ Traded(o, p, qty) \in Int /\ Signed(r, p) = Signed(o, p) + Traded(o, p, qty)
  <2> TAKE p
  <2>1. Signed(o, p) = IF o.product # p THEN 0 ELSE IF o.side = "BUY" THEN o.filled ELSE -o.filled
    BY DEF Signed
  <2>2. Signed(r, p) = IF o.product # p THEN 0 ELSE IF o.side = "BUY" THEN o.filled + qty ELSE -(o.filled + qty)
    BY <1>12 DEF Signed
  <2>3. Traded(o, p, qty) = IF o.product # p THEN 0 ELSE IF o.side = "BUY" THEN qty ELSE -qty
    BY DEF Traded
  <2>4. o.filled \in Nat BY <1>3, OrderFields
  <2> DEFINE a == o.filled
  <2> HIDE DEF o, a
  <2>5. /\ a \in Int /\ a + qty \in Int /\ qty \in Int /\ -a \in Int /\ -qty \in Int
        /\ 0 = 0 + 0 /\ -(a + qty) = (-a) + (-qty)
    BY <1>4, <2>4 DEF a
  <2> QED BY <2>1, <2>2, <2>3, <2>5 DEF a
<1>19. /\ e.holding.qty \in Int /\ x.holding.qty \in Int /\ e.carried.qty \in Int
       /\ \A p : Bought(e, p) \in Int
       /\ Net(e, "DELIVERY") \in Int /\ Net(e, "INTRADAY") \in Int
       /\ Net(x, "DELIVERY") \in Int /\ Net(x, "INTRADAY") \in Int
  <2>1. e.holding.qty \in Nat /\ e.carried.qty \in Nat BY <1>1, WorthIsInt
  <2>2. x.holding.qty \in Nat BY <1>10, WorthIsInt
  <2>3. \A p : Bought(e, p) \in Int BY <1>1, BoughtIsInt
  <2>4. Net(e, "DELIVERY") \in Int /\ Net(e, "INTRADAY") \in Int BY <1>1, BookFields DEF Products
  <2>5. Net(x, "DELIVERY") \in Int /\ Net(x, "INTRADAY") \in Int BY <1>10, BookFields DEF Products
  <2> QED BY <2>1, <2>2, <2>3, <2>4, <2>5
<1>20. x.holding.qty + Net(x, "DELIVERY") = e.holding.qty + Net(e, "DELIVERY") + Traded(o, "DELIVERY", qty)
  BY <1>5, <1>7, <1>8, <1>16
<1>21. (x.holding.qty + Net(x, "DELIVERY")) - x.carried.qty - Bought(x, "DELIVERY")
         = (e.holding.qty + Net(e, "DELIVERY")) - e.carried.qty - Bought(e, "DELIVERY")
  <2> DEFINE h == x.holding.qty + Net(x, "DELIVERY")
             g == e.holding.qty + Net(e, "DELIVERY")
             t == Traded(o, "DELIVERY", qty)
             c == e.carried.qty
             v == Bought(e, "DELIVERY")
             w == Bought(x, "DELIVERY")
  <2>1. h \in Int /\ g \in Int /\ c \in Int BY <1>19
  <2>2. v \in Int /\ t \in Int BY <1>18, <1>19
  <2>3. h = g + t BY <1>20
  <2>4. w = v + t
    <3>1. w = v - Signed(o, "DELIVERY") + Signed(r, "DELIVERY") BY <1>17
    <3>2. Signed(r, "DELIVERY") = Signed(o, "DELIVERY") + t /\ Signed(o, "DELIVERY") \in Int BY <1>18
    <3> HIDE DEF t, v, w
    <3> QED BY <2>2, <3>1, <3>2
  <2>5. x.carried.qty = c BY <1>11
  <2>6. h - c - w = g - c - v
    <3> HIDE DEF h, g, t, c, v, w
    <3>1. g \in Int /\ c \in Int /\ v \in Int /\ t \in Int BY <2>1, <2>2
    <3>2. h - c - w = (g + t) - c - (v + t) BY <2>3, <2>4
    <3>3. (g + t) - c - (v + t) = g - c - v BY <3>1
    <3> QED BY <3>2, <3>3
  <2>7. h - x.carried.qty - w = g - e.carried.qty - v
    <3> HIDE DEF h, g, v, w
    <3> QED BY <2>5, <2>6
  <2> QED BY <2>7
<1>22. /\ Net(x, "INTRADAY") = Net(e, "INTRADAY") + Traded(o, "INTRADAY", qty)
       /\ Net(x, "INTRADAY") - Bought(x, "INTRADAY") = Net(e, "INTRADAY") - Bought(e, "INTRADAY")
  <2> DEFINE h == Net(x, "INTRADAY")
             g == Net(e, "INTRADAY")
             t == Traded(o, "INTRADAY", qty)
             v == Bought(e, "INTRADAY")
             w == Bought(x, "INTRADAY")
  <2>1. h = g + t BY <1>7, <1>8, <1>16
  <2>2. v \in Int /\ t \in Int /\ g \in Int BY <1>18, <1>19
  <2>3. w = v + t
    <3>1. w = v - Signed(o, "INTRADAY") + Signed(r, "INTRADAY") BY <1>17
    <3>2. Signed(r, "INTRADAY") = Signed(o, "INTRADAY") + t /\ Signed(o, "INTRADAY") \in Int BY <1>18
    <3> HIDE DEF t, v, w
    <3> QED BY <2>2, <3>1, <3>2
  <2>4. h - w = g - v
    <3> HIDE DEF h, g, t, v, w
    <3>1. \A a, b_, c \in Int : (a + c) - (b_ + c) = a - b_ OBVIOUS
    <3>2. h - w = (g + t) - (v + t) BY <2>1, <2>3
    <3> QED BY <2>2, <3>1, <3>2
  <2> QED BY <2>1, <2>4
<1>23. freed \in Int /\ amount \in Int
  <2>1. Left(o) > 0 /\ qty \in Nat BY <1>2, <1>4
  <2>2. freed \in Int BY <1>1, <2>1, FreedIs
  <2>3. qty * price \in Int BY <1>4
  <2>4. amount \in Int BY <2>3 DEF Amount
  <2> QED BY <2>2, <2>4
<1>24. /\ e.funds.available \in Int /\ e.funds.blocked \in Int /\ Total(e.funds) \in Int
  <2>1. e.funds \in Ledgers BY <1>1, EngineFields
  <2> QED BY <2>1, LedgerFields
<1> HIDE DEF freed, amount
<1>25. x.funds.blocked - Total(x.funds) = e.funds.blocked - Total(e.funds)
  <2>1. x.funds.blocked = e.funds.blocked - freed /\ Total(x.funds) = Total(e.funds) - freed
    BY <1>6, <1>11
  <2> QED BY <1>23, <1>24, <2>1
<1>26. (x.funds.available + x.funds.blocked) + Worth(x) = (e.funds.available + e.funds.blocked) + Worth(e)
  <2>1. Worth(x) = Worth(e) - amount BY <1>7, <1>8, <1>16 DEF amount
  <2>2. x.funds.available = e.funds.available + freed + amount /\ x.funds.blocked = e.funds.blocked - freed
    BY <1>6, <1>11
  <2>3. Worth(e) \in Int BY <1>1, WorthIsInt
  <2> DEFINE a == e.funds.available
             c == e.funds.blocked
             w == Worth(e)
  <2>4. a \in Int /\ c \in Int /\ w \in Int BY <1>24, <2>3
  <2>5. Worth(x) = w - amount /\ x.funds.available = a + freed + amount /\ x.funds.blocked = c - freed
    BY <2>1, <2>2
  <2> HIDE DEF a, c, w
  <2>6. ((a + freed + amount) + (c - freed)) + (w - amount) = (a + c) + w BY <1>23, <2>4
  <2> QED BY <2>5, <2>6 DEF a, c, w
<1>27. i \in Nat \ {0} /\ i <= Len(e.orders) /\ Len(e.orders) \in Nat BY <1>1, EngineLens
<1>28. \A k \in OrderId : k # i => x.funds.blocks[k] = e.funds.blocks[k] BY <1>6, <1>11
<1>29. i \in OrderId => Due(x.orders[i], x.funds.blocks[i])
  <2> SUFFICES ASSUME i \in OrderId PROVE Due(x.orders[i], x.funds.blocks[i]) OBVIOUS
  <2>1. x.funds.blocks[i] = e.funds.blocks[i] - freed BY <1>6, <1>11
  <2>2. Due(r, e.funds.blocks[i] - freed) BY <1>27, StillDue DEF r, freed
  <2> QED BY <1>11, <2>1, <2>2
<1>30. Net(x, "DELIVERY") >= 0 BY <1>8, <1>16
<1>31. Sane(x, i)
  <2>1. /\ Len(x.orders) >= Len(e.orders) /\ i <= Len(x.orders)
        /\ \A k \in 1 .. Len(x.orders) : k # i => k <= Len(e.orders) /\ x.orders[k] = e.orders[k]
    BY <1>11, <1>27
  <2> HIDE DEF o, r, freed, amount
  <2>2. Stepped(e, x, i) BY <1>10, <1>13, <1>14, <1>15, <1>21, <1>22, <1>25, <1>26, <1>27, <1>28, <1>29, <1>30, <2>1 DEF Stepped
  <2> QED BY <2>2, SaneStepped
<1>32. Rests(x.orders[i], i)
  <2>1. CASE qty = Left(o)
    BY <1>11, <1>12, <2>1 DEF Rests, Live
  <2>2. CASE qty # Left(o)
    <3>1. Rests(o, i) /\ r.status = "OPEN" BY <1>2, <1>12, <2>2
    <3> QED BY <1>2, <1>11, <1>12, <3>1 DEF Rests, Live
  <2> QED BY <2>1, <2>2
<1>33. Sane(x, 0) BY <1>27, <1>31, <1>32, SaneRests
<1>34. Owned(x) = Owned(e) + Traded(o, "DELIVERY", qty)
  <2>1. Owned(x) = x.holding.qty + Net(x, "DELIVERY") BY <1>10, <1>30, OwnedAre
  <2>2. Owned(e) = e.holding.qty + Net(e, "DELIVERY") BY <1>1, OwnedAre
  <2> QED BY <1>20, <2>1, <2>2
<1> QED BY <1>11, <1>13, <1>17, <1>22, <1>33, <1>34 DEF x, b, s, o, r

\* A call's steps store no order or stop on the way, and leave the events run alone.
Same(e, d) ==
  Len(d.orders) = Len(e.orders) /\ Len(d.stops) = Len(e.stops) /\ d.synced = e.synced

LEMMA FillSane ==
  ASSUME NEW e, NEW i \in 1 .. Len(e.orders), Sane(e, i), Running(e), Covered(e),
         NEW qty, NEW price, NEW forced, FillOk(e, i, qty, price, forced)
  PROVE  LET d == FillOf(e, i, qty, price, forced)
             o == e.orders[i] IN
         /\ Whole(d, 0) /\ Same(e, d)
         /\ forced \/ o.side = "SELL" \/ e.funds.available >= 0 => Running(d)
         /\ Running(d) => Net(d, "INTRADAY") = Net(e, "INTRADAY") + Traded(o, "INTRADAY", qty)
<1> DEFINE o == e.orders[i]
           s == Settled(e, i, qty, price, forced)
           b == Booked(s, i, qty, price)
           d == FillOf(e, i, qty, price, forced)
<1>1. /\ e \in Engines /\ StopsOk(e) /\ CappedOk(e) /\ Net(e, "DELIVERY") >= 0
  BY DEF Sane
<1>2. /\ o.status = "OPEN" /\ qty \in 1 .. Left(o) /\ price \in Prices /\ forced \in BOOLEAN
      /\ qty = Left(o) \/ Rests(o, i)
      /\ o.side = "SELL" /\ o.product = "DELIVERY" => qty <= Owned(e)
      /\ o.side = "BUY" /\ ~forced => qty * price <= ReleaseOf(e, i, qty)
  BY DEF FillOk
<1>3. o \in OrderRecords /\ i \in Nat \ {0} /\ Len(e.orders) \in Nat BY <1>1, EngineLens
<1>4. qty \in Nat \ {0} /\ price \in Nat /\ Left(o) \in Nat /\ Left(o) > 0
  <2>1. Left(o) \in Nat BY <1>3, OrderFields
  <2> QED BY <1>2, <2>1 DEF Prices
<1>5. d = Filled(b, i, qty, price) BY DEF FillOf
<1>6. \/ /\ o.side = "BUY" /\ ~forced /\ s = Broken(e, "FUNDS")
         /\ e.funds.available + ReleaseOf(e, i, qty) < qty * price
      \/ /\ s = WithCash(e, s.funds)
         /\ Paid(e, s.funds, i, Amount(o, qty, price), Freed(e, i, qty, forced))
  <2>1. qty \in Nat /\ price \in Nat /\ Left(e.orders[i]) > 0 /\ forced \in BOOLEAN BY <1>2, <1>4
  <2> QED BY <1>1, <2>1, SettledIs, Zenon
<1> HIDE DEF d
<1>7. CASE /\ o.side = "BUY" /\ ~forced /\ s = Broken(e, "FUNDS")
           /\ e.funds.available + ReleaseOf(e, i, qty) < qty * price
  <2>1. /\ s \in Engines /\ ~Running(s) /\ (Running(e) => s.broken = "FUNDS")
        /\ s.orders = e.orders /\ s.stops = e.stops /\ s.funds = e.funds /\ s.books = e.books
        /\ s.holding = e.holding /\ s.carried = e.carried /\ s.salesPnl = e.salesPnl
        /\ s.pastPnl = e.pastPnl /\ s.capped = e.capped /\ s.synced = e.synced
    BY <1>1, <1>7, BrokenIs
  <2>2. Net(s, "DELIVERY") >= 0 /\ i \in 1 .. Len(s.orders) /\ s.orders[i] = o
    BY <1>1, <2>1 DEF Net
  <2> HIDE DEF s
  <2>3. b \in Engines /\ SameBut(s, b) /\ Net(b, "DELIVERY") >= 0
    <3>1. s.orders[i].side = "SELL" /\ s.orders[i].product = "DELIVERY" => qty <= Owned(s)
      BY <1>7, <2>2
    <3> QED BY <1>4, <2>1, <2>2, <3>1, BookedIs
  <2> HIDE DEF b, o
  <2>4. /\ b.orders = e.orders /\ b.stops = e.stops /\ b.funds = e.funds
        /\ b.capped = e.capped /\ b.synced = e.synced /\ b.broken = s.broken
    BY <2>1, <2>3, Zenon DEF SameBut
  <2>5. ~Running(b) /\ b.broken = "FUNDS" BY <2>1, <2>4, Zenon DEF Running
  <2>6. d = b BY <1>5, <2>5, Zenon DEF Filled, Running
  <2>7. StopsOk(b) /\ CappedOk(b) BY <1>1, <2>4 DEF StopsOk, CappedOk
  <2>8. e.funds.available < 0
    <3>1. e.funds.available \in Int
      <4>1. e.funds \in Ledgers BY <1>1, EngineFields
      <4> QED BY <4>1, LedgerFields
    <3>2. ReleaseOf(e, i, qty) \in Int
      <4>1. qty \in Nat /\ Left(e.orders[i]) > 0 BY <1>4 DEF o
      <4> QED BY <1>1, <4>1, FreedIs
    <3>3. qty * price \in Int BY <1>4
    <3> DEFINE a == e.funds.available
               r == ReleaseOf(e, i, qty)
               c == qty * price
    <3>4. a \in Int /\ r \in Int /\ c \in Int /\ a + r < c /\ c <= r
      BY <1>2, <1>7, <3>1, <3>2, <3>3
    <3> HIDE DEF a, r, c
    <3>5. a < 0 BY <3>4
    <3> QED BY <3>5 DEF a
  <2>9. Debit(b) BY <2>4, <2>5, <2>8 DEF Debit
  <2>10. Whole(b, 0) BY <2>3, <2>5, <2>7, <2>9 DEF Whole, Sane
  <2>11. Same(e, b) BY <2>4 DEF Same
  <2>12. ~(e.funds.available >= 0)
    <3>1. e.funds.available \in Int
      <4>1. e.funds \in Ledgers BY <1>1, EngineFields
      <4> QED BY <4>1, LedgerFields
    <3> QED BY <2>8, <3>1
  <2>13. o.side # "SELL" BY <1>7
  <2> QED BY <1>7, <2>5, <2>6, <2>10, <2>11, <2>12, <2>13 DEF d, o
<1>8. CASE /\ s = WithCash(e, s.funds)
           /\ Paid(e, s.funds, i, Amount(o, qty, price), Freed(e, i, qty, forced))
  <2> DEFINE f == s.funds
             x == Recorded(b, i, qty)
  <2>1. f \in Ledgers BY <1>8, Zenon DEF Paid
  <2> HIDE DEF s
  <2>2. b = Booked(WithCash(e, f), i, qty, price) BY <1>8, Zenon DEF b, f
  <2>3. Paid(e, f, i, Amount(e.orders[i], qty, price), Freed(e, i, qty, forced)) BY <1>8
  <2> HIDE DEF f
  <2> DEFINE c == Booked(WithCash(e, f), i, qty, price)
             y == Recorded(c, i, qty)
  <2>4. /\ Running(c)
        /\ Sane(y, 0) /\ Running(y) /\ Len(y.orders) = Len(e.orders) /\ Len(y.stops) = Len(e.stops)
        /\ y.synced = e.synced /\ y.orders[i] = FilledBy(e.orders[i], qty)
        /\ Net(y, "INTRADAY") = Net(e, "INTRADAY") + Traded(e.orders[i], "INTRADAY", qty)
        /\ Owned(y) = Owned(e) + Traded(e.orders[i], "DELIVERY", qty)
        /\ Asked(y) = Asked(e) - Asks(e.orders[i]) + Asks(y.orders[i])
    <3> HIDE DEF o
    <3> QED BY <2>1, <2>3, FillBooked
  <2> HIDE DEF b
  <2>5. /\ Sane(x, 0) /\ Running(x) /\ Len(x.orders) = Len(e.orders) /\ Len(x.stops) = Len(e.stops)
        /\ x.synced = e.synced /\ x.orders[i] = FilledBy(o, qty)
        /\ Net(x, "INTRADAY") = Net(e, "INTRADAY") + Traded(o, "INTRADAY", qty)
        /\ Owned(x) = Owned(e) + Traded(o, "DELIVERY", qty)
        /\ Asked(x) = Asked(e) - Asks(o) + Asks(x.orders[i])
    BY <2>2, <2>4, Zenon
  <2>6. Running(b) BY <2>2, <2>4, Zenon
  <2> HIDE DEF c, y
  <2>7. b \in Engines /\ i \in 1 .. Len(b.orders) /\ b.orders = e.orders
    <3> DEFINE k == WithCash(e, f)
    <3>1. /\ k \in Engines /\ k.orders = e.orders /\ k.books = e.books /\ k.holding = e.holding
      BY <1>1, <2>1, WithFunds
    <3> HIDE DEF k
    <3>2. Net(k, "DELIVERY") >= 0 /\ i \in 1 .. Len(k.orders) /\ k.orders[i] = o /\ Owned(k) = Owned(e)
      BY <1>1, <3>1 DEF Net, Owned
    <3>3. Booked(k, i, qty, price) \in Engines /\ SameBut(k, Booked(k, i, qty, price))
      BY <1>2, <1>4, <3>1, <3>2, BookedIs
    <3>4. b = Booked(k, i, qty, price) BY <2>2 DEF k
    <3>5. b \in Engines /\ b.orders = k.orders BY <3>3, <3>4, Zenon DEF SameBut
    <3> QED BY <3>1, <3>5
  <2>8. d = AfterFill(x, i, price) BY <1>5, <2>6, <2>7, FilledIs
  <2> HIDE DEF x
  <2>9. x \in Engines /\ StopsOk(x) BY <2>5 DEF Sane
  <2> DEFINE a == AfterFill(x, i, price)
             r == x.orders[i]
  <2>10. /\ a \in After(x) /\ StopsOk(a)
         /\ r.product = "DELIVERY" /\ r.side = "SELL" /\ r.exit => Covered(a)
    <3>1. i \in 1 .. Len(x.orders) BY <2>5
    <3>2. price \in Prices BY <1>2
    <3> QED BY <2>9, <3>1, <3>2, FillFollowed, Zenon
  <2> HIDE DEF a
  <2>11. Sane(a, 0) /\ Running(a) /\ (Covered(x) => Covered(a)) BY <2>5, <2>10, AfterSane
  <2>12. Covered(a)
    <3>1. /\ r.side = o.side /\ r.product = o.product /\ r.exit = o.exit
          /\ Left(r) = Left(o) - qty
          /\ r.status = IF qty = Left(o) THEN "EXECUTED" ELSE "OPEN"
      BY <1>2, <1>3, <2>5, FilledOrder
    <3>2. CASE r.product = "DELIVERY" /\ r.side = "SELL" /\ r.exit BY <2>10, <3>2
    <3>3. CASE ~(r.product = "DELIVERY" /\ r.side = "SELL" /\ r.exit)
      <4> DEFINE t == Traded(o, "DELIVERY", qty)
                 left == Left(o)
                 p == Asks(o)
                 q == Asks(r)
      <4>1. left \in Nat /\ qty \in 1 .. left BY <1>2, <1>4
      <4>2. p = IF o.product = "DELIVERY" /\ o.side = "SELL" /\ ~o.exit THEN left ELSE 0
        BY <1>2 DEF Asks, Live
      <4>3. q = IF o.product = "DELIVERY" /\ o.side = "SELL" /\ ~o.exit THEN left - qty ELSE 0
        <5>1. CASE qty = left
          <6>1. q = 0 BY <3>1, <5>1 DEF Asks, Live
          <6>2. left - qty = 0 BY <4>1, <5>1
          <6> QED BY <6>1, <6>2
        <5>2. CASE qty # left BY <3>1, <5>2 DEF Asks, Live
        <5> QED BY <5>1, <5>2
      <4>4. t = IF o.product # "DELIVERY" THEN 0 ELSE IF o.side = "BUY" THEN qty ELSE -qty BY DEF Traded
      <4>5. o.side \in {"BUY", "SELL"} BY <1>3, OrderFields DEF Sides
      <4>6. o.product = "DELIVERY" /\ o.side = "SELL" => ~o.exit BY <3>1, <3>3
      <4>7. Asked(e) \in Int /\ Owned(e) \in Int /\ Asked(e) <= Owned(e)
        <5>1. Asked(e) \in Int BY <1>1, AskedIsInt
        <5>2. Owned(e) \in Nat BY <1>1, OwnedIs
        <5> QED BY <5>1, <5>2 DEF Covered
      <4>8. p \in Int /\ q \in Int /\ t \in Int /\ q - p <= t
        <5> HIDE DEF left, t, p, q, o
        <5>1. left - qty \in Int /\ (left - qty) - left = -qty BY <4>1
        <5> QED BY <4>1, <4>2, <4>3, <4>4, <4>5, <4>6, <5>1
      <4> DEFINE v == Asked(e)
                 w == Owned(e)
      <4>9. Asked(x) = v - p + q /\ Owned(x) = w + t /\ v \in Int /\ w \in Int /\ v <= w BY <2>5, <4>7
      <4> HIDE DEF v, w, p, q, t
      <4>10. v - p + q <= w + t BY <4>8, <4>9
      <4>11. Covered(x) BY <4>9, <4>10 DEF Covered
      <4> QED BY <2>11, <4>11
    <3> QED BY <3>2, <3>3
  <2>13. /\ Len(a.orders) = Len(x.orders) /\ Len(a.stops) = Len(x.stops) /\ a.synced = x.synced
         /\ Net(a, "INTRADAY") = Net(x, "INTRADAY")
    BY <2>10 DEF After, Net
  <2>14. d = a BY <2>8 DEF a
  <2> HIDE DEF o
  <2> QED BY <2>5, <2>11, <2>12, <2>13, <2>14 DEF Whole, Same, d, o
<1> QED BY <1>6, <1>7, <1>8

-----------------------------------------------------------------------------
(* An execution, and a match.                                              *)

LEMMA CancelSane ==
  ASSUME NEW e, NEW i, Sane(e, i), Running(e), NEW I \in SUBSET LiveOrders(e)
  PROVE  LET d == CancelOrders(e, I) IN
         /\ Sane(d, i) /\ Running(d) /\ Same(e, d) /\ (Covered(e) => Covered(d))
         /\ i \in I => Sane(d, 0)
         /\ d \in After(e)
         /\ \A k \in 1 .. Len(e.orders) : IF k \in I THEN Ends(e, d, k) ELSE Stays(e, d, k)
         /\ OnlyEnd(e, d)
<1> DEFINE d == CancelOrders(e, I)
<1>1. e \in Engines /\ StopsOk(e) BY DEF Sane
<1>2. /\ d \in After(e) /\ OnlyEnd(e, d)
      /\ \A k \in 1 .. Len(e.orders) : IF k \in I THEN Ends(e, d, k) ELSE Stays(e, d, k)
  BY <1>1, OrdersCancelled
<1> HIDE DEF d
<1>3. StopsOk(d) BY <1>1, <1>2, OnlyEndOk
<1>4. Sane(d, i) /\ Running(d) /\ (Covered(e) => Covered(d)) BY <1>2, <1>3, AfterSane
<1>5. Same(e, d) BY <1>2 DEF After, Same
<1>6. i \in I => Sane(d, 0)
  <2> SUFFICES ASSUME i \in I PROVE Sane(d, 0) OBVIOUS
  <2>1. i \in 1 .. Len(e.orders) /\ Live(e.orders[i])
    <3>1. DOMAIN e.orders = 1 .. Len(e.orders) BY <1>1, EngineLens
    <3> QED BY <3>1 DEF LiveOrders
  <2>2. d.orders[i] = Cancelled(e.orders[i]) BY <1>2, <2>1 DEF Ends
  <2>3. ~Live(d.orders[i])
    <3>1. e.orders[i] \in OrderRecords BY <1>1, <2>1, EngineLens
    <3> QED BY <2>1, <2>2, <3>1, CancelledOrder DEF Live
  <2>4. Rests(d.orders[i], i) BY <2>3 DEF Rests, Live
  <2>5. i \in Nat \ {0}
    <3>1. Len(e.orders) \in Nat BY <1>1, EngineLens
    <3> QED BY <2>1, <3>1
  <2> QED BY <1>4, <2>4, <2>5, SaneRests
<1> QED BY <1>2, <1>4, <1>5, <1>6 DEF d

\* No order asks for more than all of them do.
LEMMA OneAsks ==
  ASSUME NEW e \in Engines, NEW i \in 1 .. Len(e.orders)
  PROVE  Asks(e.orders[i]) <= Asked(e)
<1> DEFINE n == Len(e.orders)
           f == [k \in 1 .. n |-> IF k = i THEN Asks(e.orders[i]) ELSE 0]
           g == [k \in 1 .. n |-> Asks(e.orders[k])]
<1>1. n \in Nat /\ \A k \in 1 .. n : Asks(e.orders[k]) \in Nat BY EngineLens, AsksIsNat
<1>2. Asked(e) = SumTo(g, n) BY AskedIs
<1>3. \A k \in 1 .. n : f[k] \in Int /\ g[k] \in Int /\ f[k] <= g[k] BY <1>1
<1>4. f[i] = Asks(e.orders[i]) /\ \A k \in 1 .. n : k # i => f[k] = 0 OBVIOUS
<1>5. i \in 1 .. n OBVIOUS
<1> DEFINE a == Asks(e.orders[i])
<1>6. a \in Int /\ f[i] = a BY <1>1, <1>4
<1> HIDE DEF f, g, n, a
<1>7. SumTo(f, n) <= SumTo(g, n) BY <1>1, <1>3, SumAtMost
<1>8. SumTo(f, n) = a BY <1>1, <1>4, <1>5, <1>6, SumOne
<1> QED BY <1>2, <1>7, <1>8 DEF a

LEMMA ExecuteSane ==
  ASSUME NEW e, NEW i \in 1 .. Len(e.orders), Sane(e, i), Running(e), Covered(e),
         e.orders[i].status = "OPEN", NEW n \in 1 .. Left(e.orders[i]), NEW price \in Prices, NEW sq \in BOOLEAN,
         sq => ~e.orders[i].exit /\ n = Left(e.orders[i]),
         ~e.orders[i].exit /\ ~sq => n = Left(e.orders[i]) \/ Rests(e.orders[i], i),
         ~e.orders[i].exit /\ ~sq /\ e.orders[i].side = "BUY" => n * price <= ReleaseOf(e, i, n)
  PROVE  LET d == Execute(e, i, n, price, sq)
             o == e.orders[i] IN
         /\ Whole(d, 0) /\ Same(e, d)
         /\ sq \/ o.exit \/ o.side = "SELL" \/ e.funds.available >= 0 => Running(d)
         /\ sq /\ Running(d) => Net(d, "INTRADAY") = Net(e, "INTRADAY") + Traded(o, "INTRADAY", n)
<1> DEFINE o == e.orders[i]
           qty == IF o.exit THEN Least(n, ClosableQty(e, o)) ELSE n
           forced == sq \/ o.exit
           d == Execute(e, i, n, price, sq)
           f == FillOf(e, i, qty, price, forced)
<1>1. e \in Engines /\ Net(e, "DELIVERY") >= 0 BY DEF Sane
<1>2. o \in OrderRecords /\ i \in Nat \ {0} /\ Len(e.orders) \in Nat /\ DOMAIN e.orders = 1 .. Len(e.orders)
  BY <1>1, EngineLens
<1>3. Left(o) \in Nat /\ o.side \in {"BUY", "SELL"} /\ o.product \in Products
  BY <1>2, OrderFields DEF Sides
<1>4. ClosableQty(e, o) \in Nat /\ (o.side = "SELL" => ClosableQty(e, o) = Most(0, Net(e, o.product)))
  <2>1. Net(e, o.product) \in Int BY <1>1, <1>3, BookFields
  <2> HIDE DEF o
  <2> QED BY <2>1 DEF ClosableQty, Most
<1>5. n \in 1 .. Left(o) /\ n \in Nat \ {0} BY <1>3
<1>6. qty \in 0 .. Left(o) /\ (o.exit => qty <= ClosableQty(e, o)) /\ (~o.exit => qty = n)
  <2> DEFINE left == Left(o)
             c == ClosableQty(e, o)
  <2>1. left \in Nat /\ c \in Nat /\ n \in 1 .. left /\ qty = IF o.exit THEN Least(n, c) ELSE n BY <1>3, <1>4
  <2> HIDE DEF left, c, qty
  <2>2. Least(n, c) \in 0 .. left /\ Least(n, c) <= c BY <2>1 DEF Least
  <2>3. qty \in 0 .. left /\ (o.exit => qty <= c) /\ (~o.exit => qty = n)
    <3> HIDE DEF o
    <3> QED BY <2>1, <2>2
  <2> QED BY <2>3 DEF left, c
<1>7. d = IF qty = 0 THEN CancelOrders(e, {i}) ELSE f BY Zenon DEF Execute, FillOf
<1> HIDE DEF d, qty
<1>8. CASE qty = 0
  <2> DEFINE c == CancelOrders(e, {i})
  <2>1. {i} \in SUBSET LiveOrders(e) /\ i \in {i} BY <1>2 DEF LiveOrders, Live
  <2>2. Sane(c, 0) /\ Running(c) /\ Same(e, c) /\ Covered(c)
    <3> HIDE DEF o
    <3> QED BY <2>1, CancelSane
  <2>3. d = c BY <1>7, <1>8
  <2>4. ~sq BY <1>5, <1>6, <1>8
  <2> HIDE DEF c
  <2> QED BY <2>2, <2>3, <2>4 DEF Whole, d
<1>9. CASE qty # 0
  <2>1. qty \in 1 .. Left(o) BY <1>3, <1>6, <1>9
  <2>2. o.side = "SELL" /\ o.product = "DELIVERY" => qty <= Owned(e)
    <3> SUFFICES ASSUME o.side = "SELL", o.product = "DELIVERY" PROVE qty <= Owned(e) OBVIOUS
    <3>1. Owned(e) \in Nat /\ e.holding.qty \in Nat BY <1>1, OwnedIs
    <3>2. CASE o.exit
      <4>1. qty <= Most(0, Net(e, "DELIVERY")) BY <1>4, <1>6, <3>2
      <4>2. Owned(e) = e.holding.qty + Most(0, Net(e, "DELIVERY")) BY DEF Owned
      <4>3. Most(0, Net(e, "DELIVERY")) \in Nat
        <5>1. Net(e, "DELIVERY") \in Int BY <1>1, BookFields DEF Products
        <5> QED BY <5>1 DEF Most
      <4> DEFINE m == Most(0, Net(e, "DELIVERY"))
                 h == e.holding.qty
      <4>4. m \in Nat /\ h \in Nat /\ qty <= m /\ Owned(e) = h + m BY <3>1, <4>1, <4>2, <4>3
      <4>5. qty \in Nat BY <1>3, <2>1
      <4> HIDE DEF m, h
      <4> QED BY <4>4, <4>5
    <3>3. CASE ~o.exit
      <4>1. Asks(o) = Left(o) BY <3>3 DEF Asks, Live
      <4>2. Asks(o) <= Asked(e) BY <1>1, OneAsks
      <4>3. Asked(e) \in Int /\ Asked(e) <= Owned(e) BY <1>1, AskedIsInt DEF Covered
      <4> DEFINE left == Left(o)
                 a == Asked(e)
      <4>4. left <= a /\ a <= Owned(e) /\ a \in Int /\ left \in Nat /\ qty \in 1 .. left
        BY <1>3, <2>1, <4>1, <4>2, <4>3
      <4> HIDE DEF left, a
      <4> QED BY <3>1, <4>4
    <3> QED BY <3>2, <3>3
  <2>3. FillOk(e, i, qty, price, forced)
    <3>1. forced \in BOOLEAN BY <1>2, OrderFields
    <3>2. forced /\ ~o.exit => qty = Left(o) BY <1>6
    <3>3. qty = Left(o) \/ Rests(o, i)
      <4>1. o.exit => Rests(o, i) BY DEF Rests
      <4> QED BY <1>6, <4>1
    <3>4. o.side = "BUY" /\ ~forced => qty * price <= ReleaseOf(e, i, qty) BY <1>6
    <3> HIDE DEF forced
    <3>5. o.exit => forced BY DEF forced
    <3> QED BY <2>1, <2>2, <3>1, <3>2, <3>3, <3>4, <3>5 DEF FillOk
  <2>4. /\ Whole(f, 0) /\ Same(e, f)
        /\ forced \/ o.side = "SELL" \/ e.funds.available >= 0 => Running(f)
        /\ Running(f) => Net(f, "INTRADAY") = Net(e, "INTRADAY") + Traded(o, "INTRADAY", qty)
    <3> HIDE DEF forced
    <3> QED BY <2>3, FillSane
  <2>5. d = f BY <1>7, <1>9
  <2>6. sq => qty = n BY <1>6
  <2> HIDE DEF f
  <2>7. forced <=> sq \/ o.exit OBVIOUS
  <2> HIDE DEF forced, o
  <2> QED BY <2>4, <2>5, <2>6, <2>7 DEF d, o
<1> QED BY <1>8, <1>9

LEMMA MarkedSane ==
  ASSUME NEW e, NEW i \in 1 .. Len(e.orders), Sane(e, i), Running(e), e.orders[i].status = "OPEN"
  PROVE  LET d == [e EXCEPT !.capped = @ \cup {i}] IN
         /\ Sane(d, i) /\ Running(d) /\ Same(e, d) /\ (Covered(e) => Covered(d))
         /\ d.orders = e.orders /\ d.funds = e.funds
<1> DEFINE C == e.capped \cup {i}
           d == [e EXCEPT !.capped = C]
<1>1. /\ e \in Engines /\ StopsOk(e) /\ CappedOk(e) /\ Net(e, "DELIVERY") >= 0
      /\ MoneyOk(e) /\ SharesOk(e) /\ BlocksOk(e) /\ RestsOk(e, i)
  BY NotDebit DEF Sane
<1>2. C \in SUBSET Nat /\ Len(e.orders) \in Nat
  <2>1. e.capped \in SUBSET Nat BY <1>1, EngineFields
  <2>2. i \in Nat BY <1>1, EngineLens
  <2> QED BY <1>1, <2>1, <2>2, EngineLens
<1>3. CappedOk(e) => \A k \in C : k \in 1 .. Len(e.orders) /\ e.orders[k].status = "OPEN"
  BY DEF CappedOk
<1> HIDE DEF C
<1>4. /\ d \in Engines /\ d.capped = C
      /\ d.orders = e.orders /\ d.stops = e.stops /\ d.funds = e.funds /\ d.books = e.books /\ d.holding = e.holding
      /\ d.carried = e.carried /\ d.salesPnl = e.salesPnl /\ d.pastPnl = e.pastPnl
      /\ d.synced = e.synced /\ d.broken = e.broken
  BY <1>1, <1>2 DEF Engines
<1> HIDE DEF d
<1>5. StopsOk(d) /\ CappedOk(d) /\ Net(d, "DELIVERY") >= 0
  BY <1>1, <1>3, <1>4 DEF StopsOk, CappedOk, Net
<1>6. /\ Bought(d, "DELIVERY") = Bought(e, "DELIVERY") /\ Bought(d, "INTRADAY") = Bought(e, "INTRADAY")
  BY <1>4 DEF Bought
<1>7. Worth(d) = Worth(e) /\ Net(d, "DELIVERY") = Net(e, "DELIVERY") /\ Net(d, "INTRADAY") = Net(e, "INTRADAY")
  BY <1>4 DEF Worth, Net
<1>8. MoneyOk(d) /\ SharesOk(d) /\ BlocksOk(d) /\ RestsOk(d, i)
  BY <1>1, <1>4, <1>6, <1>7 DEF MoneyOk, SharesOk, BlocksOk, RestsOk
<1>9. Running(d) BY <1>4, Zenon DEF Running
<1>10. Asked(d) = Asked(e) /\ Owned(d) = Owned(e)
  <2>1. Asked(d) = SumTo([k \in 1 .. Len(d.orders) |-> Asks(d.orders[k])], Len(d.orders)) BY <1>4, AskedIs
  <2>2. Asked(e) = SumTo([k \in 1 .. Len(e.orders) |-> Asks(e.orders[k])], Len(e.orders)) BY <1>1, AskedIs
  <2> QED BY <1>4, <1>7, <2>1, <2>2 DEF Owned
<1> QED BY <1>4, <1>5, <1>8, <1>9, <1>10 DEF Sane, Same, Covered, d, C

\* What a match of an order must find.
MatchOk(e, i, now) ==
  LET o == e.orders[i] IN
  /\ o.status = "OPEN" /\ now.ltp \in Prices \cup {None}
  /\ ~o.exit => i \in OrderId
  /\ ~o.exit /\ o.type = "MARKET" => /\ now.ltp # None
                                     /\ o.side = "BUY" => Left(o) * now.ltp <= e.funds.blocks[i]

LEMMA MatchSane ==
  ASSUME NEW e, NEW i \in 1 .. Len(e.orders), Sane(e, i), Running(e), Covered(e),
         NEW now, MatchOk(e, i, now), NEW onArrival \in BOOLEAN
  PROVE  LET d == Match(e, i, now, onArrival)
             o == e.orders[i] IN
         /\ Whole(d, 0) /\ Same(e, d)
         /\ o.exit \/ o.side = "SELL" \/ e.funds.available >= 0 => Running(d)
<1> DEFINE o == e.orders[i]
           limit == o.type = "LIMIT"
           capped == limit /\ Cap # None
           crosses == ~limit \/ (IF o.side = "BUY" THEN now.ltp <= o.price ELSE now.ltp >= o.price)
           left == Left(o)
           qty == IF capped THEN Least(left, Cap) ELSE left
           price == IF limit /\ ~onArrival THEN o.price ELSE now.ltp
           marked == IF capped THEN [e EXCEPT !.capped = @ \cup {i}] ELSE e
           fills == now.ltp # None /\ ~(capped /\ i \in e.capped) /\ crosses
           d == Match(e, i, now, onArrival)
<1>1. e \in Engines /\ BlocksOk(e) BY NotDebit DEF Sane
<1>2. o \in OrderRecords /\ i \in Nat \ {0} /\ Len(e.orders) \in Nat BY <1>1, EngineLens
<1>3. /\ o.status = "OPEN" /\ now.ltp \in Prices \cup {None}
      /\ ~o.exit => i \in OrderId
      /\ ~o.exit /\ o.type = "MARKET" => /\ now.ltp # None
                                         /\ o.side = "BUY" => left * now.ltp <= e.funds.blocks[i]
  BY DEF MatchOk
<1>4. /\ left \in Nat \ {0} /\ o.side \in {"BUY", "SELL"} /\ o.type \in {"MARKET", "LIMIT"}
      /\ limit => o.price \in Prices
  <2>1. Live(o) BY <1>3 DEF Live
  <2>2. left \in Nat /\ left > 0 /\ OrderOk(o) /\ o.type \in {"MARKET", "LIMIT"} /\ o.side \in {"BUY", "SELL"}
    BY <1>2, <2>1, OrderFields DEF Sides
  <2>3. limit => o.price \in Circuit BY <2>1, <2>2 DEF OrderOk
  <2>4. limit => o.price \in Prices BY <2>3, EngineAssumption DEF Prices
  <2> QED BY <2>2, <2>4
<1>5. qty \in 1 .. left /\ (~limit => qty = left)
  <2> HIDE DEF left, limit
  <2> QED BY <1>4, EngineAssumption DEF Least
<1>6. d = IF fills THEN Execute(marked, i, qty, price, FALSE) ELSE e BY DEF Match, Left
<1>7. /\ Sane(marked, i) /\ Running(marked) /\ Same(e, marked) /\ Covered(marked)
      /\ marked.orders = e.orders /\ marked.funds = e.funds
  <2>1. CASE capped
    <3> DEFINE m == [e EXCEPT !.capped = @ \cup {i}]
    <3>1. marked = m BY <2>1
    <3>2. /\ Sane(m, i) /\ Running(m) /\ Same(e, m) /\ (Covered(e) => Covered(m))
          /\ m.orders = e.orders /\ m.funds = e.funds
      BY <1>3, MarkedSane
    <3> HIDE DEF marked, m
    <3> QED BY <3>1, <3>2
  <2>2. CASE ~capped
    <3>1. marked = e BY <2>2
    <3> HIDE DEF marked
    <3> QED BY <3>1 DEF Same
  <2> QED BY <2>1, <2>2
<1> HIDE DEF d, marked, qty
<1>8. Rests(o, i) \/ (~o.exit /\ ~limit)
  <2>1. limit \/ o.exit => Rests(o, i) BY <1>3 DEF Rests
  <2> QED BY <2>1
<1>9. CASE fills
  <2>1. price \in Prices BY <1>3, <1>4, <1>9
  <2>2. ~o.exit /\ o.side = "BUY" => qty * price <= ReleaseOf(e, i, qty)
    <3> SUFFICES ASSUME ~o.exit, o.side = "BUY" PROVE qty * price <= ReleaseOf(e, i, qty) OBVIOUS
    <3> DEFINE held == e.funds.blocks[i]
    <3>1. i \in OrderId /\ BlockedFor(e.funds, i) = held BY <1>3 DEF BlockedFor
    <3>2. Due(o, held) BY <1>1, <1>2, <3>1 DEF BlocksOk
    <3>3. ReleaseOf(e, i, qty) = IF qty = left THEN held ELSE MulDivRound(held, qty, left)
      BY <3>1 DEF ReleaseOf
    <3>4. CASE limit
      <4>1. held = left * o.price
        <5>1. o.price # None BY <1>4, <3>4, TrailAssumption DEF Prices
        <5>2. Live(o) BY <1>3 DEF Live
        <5> QED BY <3>2, <3>4, <5>1, <5>2 DEF Due, OrderWorth
      <4> DEFINE p == o.price
      <4>2. p \in Nat /\ price \in Nat /\ price <= p
        <5>1. o.price \in Nat BY <1>4, <3>4 DEF Prices
        <5>2. now.ltp \in Nat /\ now.ltp <= o.price BY <1>3, <1>9, <3>4 DEF Prices
        <5> QED BY <5>1, <5>2
      <4>3. ReleaseOf(e, i, qty) = qty * p
        <5>1. CASE qty = left BY <3>3, <4>1, <5>1
        <5>2. CASE qty # left
          <6> HIDE DEF left, p
          <6>1. qty \in Nat BY <1>4, <1>5
          <6>2. MulDivRound(left * p, qty, left) = qty * p BY <1>4, <4>2, <6>1, RoundBlock
          <6> QED BY <3>3, <4>1, <5>2, <6>2 DEF p
        <5> QED BY <5>1, <5>2
      <4>4. qty \in Nat BY <1>4, <1>5
      <4> HIDE DEF p, price, left
      <4>5. \A a, b, c \in Nat : a <= b => c * a <= c * b OBVIOUS
      <4> QED BY <4>2, <4>3, <4>4, <4>5
    <3>5. CASE ~limit
      <4>1. qty = left /\ o.type = "MARKET" /\ price = now.ltp BY <1>4, <1>5, <3>5
      <4>2. ReleaseOf(e, i, qty) = held BY <3>3, <4>1
      <4>3. left * now.ltp <= held BY <1>3, <4>1
      <4> QED BY <4>1, <4>2, <4>3
    <3> QED BY <3>4, <3>5
  <2>3. ReleaseOf(marked, i, qty) = ReleaseOf(e, i, qty) BY <1>7 DEF ReleaseOf
  <2>4. ~o.exit => qty = left \/ Rests(o, i) BY <1>5, <1>8
  <2> DEFINE x == Execute(marked, i, qty, price, FALSE)
  <2>5. /\ Whole(x, 0) /\ Same(marked, x)
        /\ o.exit \/ o.side = "SELL" \/ e.funds.available >= 0 => Running(x)
    <3> DEFINE m == marked
    <3>1. /\ i \in 1 .. Len(m.orders) /\ m.orders[i] = o /\ m.funds = e.funds
          /\ Sane(m, i) /\ Running(m) /\ Covered(m)
          /\ qty \in 1 .. Left(m.orders[i]) /\ price \in Prices /\ FALSE \in BOOLEAN
      BY <1>5, <1>7, <2>1
    <3>2. ~m.orders[i].exit => qty = Left(m.orders[i]) \/ Rests(m.orders[i], i) BY <2>4, <3>1
    <3>3. ~m.orders[i].exit /\ m.orders[i].side = "BUY" => qty * price <= ReleaseOf(m, i, qty)
      BY <2>2, <2>3, <3>1
    <3>4. m.orders[i].status = "OPEN" BY <1>3, <3>1
    <3> HIDE DEF m, o, price
    <3>5. /\ Whole(Execute(m, i, qty, price, FALSE), 0) /\ Same(m, Execute(m, i, qty, price, FALSE))
          /\ m.orders[i].exit \/ m.orders[i].side = "SELL" \/ m.funds.available >= 0
               => Running(Execute(m, i, qty, price, FALSE))
      BY <3>1, <3>2, <3>3, <3>4, ExecuteSane
    <3> QED BY <3>1, <3>5 DEF m
  <2>6. d = x BY <1>6, <1>9
  <2> HIDE DEF x
  <2> QED BY <1>7, <2>5, <2>6 DEF Same, d
<1>10. CASE ~fills
  <2>1. d = e BY <1>6, <1>10
  <2>2. Rests(o, i)
    <3>1. CASE ~o.exit /\ ~limit
      <4>1. now.ltp # None BY <1>3, <1>4, <3>1
      <4> QED BY <1>10, <3>1, <4>1
    <3> QED BY <1>8, <3>1
  <2>3. Sane(e, 0) BY <1>2, <2>2, SaneRests
  <2> QED BY <2>1, <2>3 DEF Whole, Same, d
<1> QED BY <1>9, <1>10

-----------------------------------------------------------------------------
(* An order stored.                                                        *)

LEMMA NewOrderIs ==
  ASSUME NEW d, d.side \in Sides, d.type \in {"MARKET", "LIMIT"}, d.product \in Products,
         d.qty \in Nat \ {0}, d.price \in Int \cup {None}, (d.type = "MARKET") = (d.price = None),
         NEW status \in {"AMO", "OPEN", "REJECTED"}, NEW exit \in BOOLEAN,
         status # "REJECTED" => d.price \in Circuit \cup {None}
  PROVE  LET o == NewOrder(d, status, exit) IN
         /\ o \in OrderRecords
         /\ o.side = d.side /\ o.type = d.type /\ o.product = d.product /\ o.qty = d.qty
         /\ o.price = d.price /\ o.filled = 0 /\ o.status = status /\ o.exit = exit /\ Left(o) = d.qty
<1> DEFINE o == NewOrder(d, status, exit)
<1>1. /\ o.side = d.side /\ o.type = d.type /\ o.product = d.product /\ o.qty = d.qty
      /\ o.price = d.price /\ o.filled = 0 /\ o.status = status /\ o.exit = exit
  BY DEF NewOrder
<1>2. o \in [side : Sides, type : {"MARKET", "LIMIT"}, product : Products, qty : Nat,
             price : Int \cup {None}, filled : Nat,
             status : {"AMO", "OPEN", "EXECUTED", "CANCELLED", "REJECTED"}, exit : BOOLEAN]
  BY DEF NewOrder
<1> HIDE DEF o
<1>3. OrderOk(o) BY <1>1 DEF OrderOk, Live
<1>4. Left(o) = d.qty BY <1>1 DEF Left
<1> QED BY <1>1, <1>2, <1>3, <1>4 DEF OrderRecords, o

\* The engine with an order more, with another ledger and other stops.
Stored(e, o, g, S) == [e EXCEPT !.orders = Append(e.orders, o), !.funds = g, !.stops = S]

LEMMA StoredIs ==
  ASSUME NEW e \in Engines, NEW o \in OrderRecords, NEW g \in Ledgers, NEW S \in Seq(StopRecords)
  PROVE  LET d == Stored(e, o, g, S) IN
         /\ d \in Engines /\ Len(d.orders) = Len(e.orders) + 1
         /\ d.orders[Len(e.orders) + 1] = o
         /\ \A k \in 1 .. Len(e.orders) : d.orders[k] = e.orders[k]
         /\ d.funds = g /\ d.stops = S /\ d.books = e.books /\ d.holding = e.holding
         /\ d.carried = e.carried /\ d.salesPnl = e.salesPnl /\ d.pastPnl = e.pastPnl
         /\ d.capped = e.capped /\ d.synced = e.synced /\ d.broken = e.broken
<1> DEFINE O == Append(e.orders, o)
           d == [e EXCEPT !.orders = O, !.funds = g, !.stops = S]
<1>1. e.orders \in Seq(OrderRecords) BY EngineFields
<1>2. O \in Seq(OrderRecords) /\ Len(O) = Len(e.orders) + 1 /\ O[Len(e.orders) + 1] = o
      /\ \A k \in 1 .. Len(e.orders) : O[k] = e.orders[k]
  BY <1>1
<1> HIDE DEF O
<1>3. /\ d \in Engines /\ d.orders = O
      /\ d.funds = g /\ d.stops = S /\ d.books = e.books /\ d.holding = e.holding
      /\ d.carried = e.carried /\ d.salesPnl = e.salesPnl /\ d.pastPnl = e.pastPnl
      /\ d.capped = e.capped /\ d.synced = e.synced /\ d.broken = e.broken
  BY <1>2 DEF Engines
<1>4. Stored(e, o, g, S) = d BY DEF Stored, O
<1> HIDE DEF d
<1> QED BY <1>2, <1>3, <1>4

LEMMA StoredSane ==
  ASSUME NEW e, Sane(e, 0), Running(e), NEW o \in OrderRecords, o.filled = 0,
         NEW S \in Seq(StopRecords), \A t \in 1 .. Len(S) : StopOk(S[t]),
         NEW a \in Int, NEW g \in Ledgers,
         \/ a = 0 /\ g = e.funds
         \/ Len(e.orders) + 1 \in OrderId /\ g = Moved(e.funds, Len(e.orders) + 1, a, -a),
         Len(e.orders) + 1 \in OrderId => Due(o, a)
  PROVE  LET d == Stored(e, o, g, S) IN
         /\ Sane(d, Len(e.orders) + 1) /\ Running(d)
         /\ Asked(d) = Asked(e) + Asks(o) /\ Owned(d) = Owned(e)
<1> DEFINE d == Stored(e, o, g, S)
           i == Len(e.orders) + 1
<1>1. /\ e \in Engines /\ StopsOk(e) /\ CappedOk(e) /\ Net(e, "DELIVERY") >= 0 /\ BlocksOk(e)
  BY NotDebit DEF Sane
<1>2. Len(e.orders) \in Nat /\ i \in Nat \ {0} BY <1>1, EngineLens
<1>3. /\ d \in Engines /\ Len(d.orders) = i
      /\ d.orders[i] = o
      /\ \A k \in 1 .. Len(e.orders) : d.orders[k] = e.orders[k]
      /\ d.funds = g /\ d.stops = S /\ d.books = e.books /\ d.holding = e.holding
      /\ d.carried = e.carried /\ d.salesPnl = e.salesPnl /\ d.pastPnl = e.pastPnl
      /\ d.capped = e.capped /\ d.synced = e.synced /\ d.broken = e.broken
  BY <1>1, StoredIs
<1> HIDE DEF d
<1>4. Sane(e, i) BY <1>2, SaneRests
<1>5. Running(d) BY <1>3, Zenon DEF Running
<1>6. StopsOk(d) BY <1>3 DEF StopsOk
<1>7. CappedOk(d)
  <2> SUFFICES ASSUME NEW k \in d.capped PROVE k \in 1 .. Len(d.orders) /\ d.orders[k].status = "OPEN"
    BY DEF CappedOk
  <2>1. k \in 1 .. Len(e.orders) /\ e.orders[k].status = "OPEN" BY <1>1, <1>3 DEF CappedOk
  <2> QED BY <1>2, <1>3, <2>1
<1>8. Net(d, "DELIVERY") = Net(e, "DELIVERY") /\ Net(d, "INTRADAY") = Net(e, "INTRADAY") /\ Worth(d) = Worth(e)
  BY <1>3 DEF Net, Worth
<1>9. /\ \A p : Bought(d, p) = Bought(e, p) + Signed(o, p)
      /\ Asked(d) = Asked(e) + Asks(o)
  <2>1. Len(d.orders) = Len(e.orders) + 1 BY <1>3
  <2>2. d.orders[Len(d.orders)] = o BY <1>3
  <2>3. /\ \A p : Bought(d, p) = Bought(e, p) + Signed(d.orders[Len(d.orders)], p)
        /\ Asked(d) = Asked(e) + Asks(d.orders[Len(d.orders)])
    BY <1>1, <1>3, <2>1, OneMore
  <2> QED BY <2>2, <2>3
<1>10. \A p \in Products : Bought(d, p) = Bought(e, p)
  <2> SUFFICES ASSUME NEW p \in Products PROVE Bought(d, p) = Bought(e, p) OBVIOUS
  <2>1. Signed(o, p) = 0
    <3> DEFINE n == o.filled
    <3>1. n = 0 /\ -n = 0
      <4>1. \A x \in Int : -x = 0 - x OBVIOUS
      <4>2. n \in Int /\ 0 - 0 = 0 OBVIOUS
      <4>3. n = 0 OBVIOUS
      <4>4. -n = 0 - n
        <5> HIDE DEF n
        <5> QED BY <4>1, <4>2
      <4> QED BY <4>2, <4>3, <4>4, Zenon
    <3>2. Signed(o, p) = IF o.product # p THEN 0 ELSE IF o.side = "BUY" THEN n ELSE -n BY DEF Signed
    <3> HIDE DEF n
    <3> QED BY <3>1, <3>2
  <2>2. Bought(e, p) \in Int BY <1>1, BoughtIsInt
  <2>3. Bought(d, p) = Bought(e, p) + Signed(o, p) BY <1>9
  <2> QED BY <2>1, <2>2, <2>3
<1>11. /\ g.available + g.blocked = e.funds.available + e.funds.blocked
       /\ g.blocked - Total(g) = e.funds.blocked - Total(e.funds)
       /\ \A k \in OrderId : k # i => g.blocks[k] = e.funds.blocks[k]
       /\ i \in OrderId => g.blocks[i] = a
  <2>1. e.funds \in Ledgers BY <1>1, EngineFields
  <2>2. /\ e.funds.available \in Int /\ e.funds.blocked \in Int /\ e.funds.blocks \in [OrderId -> Int]
        /\ Total(e.funds) \in Int
    BY <2>1, LedgerFields
  <2>3. i \in OrderId => e.funds.blocks[i] = 0
    <3> SUFFICES ASSUME i \in OrderId PROVE e.funds.blocks[i] = 0 OBVIOUS
    <3>1. ~(i <= Len(e.orders)) BY <1>2
    <3> QED BY <1>1, <3>1 DEF BlocksOk
  <2>4. CASE a = 0 /\ g = e.funds
    <3> HIDE DEF i
    <3> QED BY <2>3, <2>4
  <2>5. CASE i \in OrderId /\ g = Moved(e.funds, i, a, -a)
    <3> DEFINE f == e.funds
    <3>1. -a \in Int OBVIOUS
    <3> HIDE DEF i
    <3>2. Total(Moved(f, i, a, -a)) = Total(f) + a BY <2>1, <2>5, <3>1, LedgerMoves
    <3>3. Total(g) = Total(e.funds) + a BY <2>5, <3>2
    <3>4. /\ g.available = e.funds.available + (-a) /\ g.blocked = e.funds.blocked + a
          /\ g.blocks = [k \in OrderId |-> IF k = i THEN e.funds.blocks[k] + a ELSE e.funds.blocks[k]]
      BY <2>5 DEF Moved
    <3>5. g.blocks[i] = e.funds.blocks[i] + a /\ \A k \in OrderId : k # i => g.blocks[k] = e.funds.blocks[k]
      BY <2>5, <3>4
    <3> DEFINE av == e.funds.available
               bl == e.funds.blocked
               total == Total(e.funds)
    <3>6. /\ av \in Int /\ bl \in Int /\ total \in Int
          /\ g.available = av + (-a) /\ g.blocked = bl + a /\ Total(g) = total + a
      BY <2>2, <3>3, <3>4
    <3> HIDE DEF av, bl, total
    <3>7. g.available + g.blocked = av + bl /\ g.blocked - Total(g) = bl - total BY <3>6
    <3>8. i \in OrderId => g.blocks[i] = a BY <2>3, <3>5
    <3> QED BY <3>5, <3>7, <3>8 DEF av, bl, total
  <2> QED BY <2>4, <2>5
<1> HIDE DEF i
<1>12. Sane(d, i)
  <2>1. \A k \in 1 .. Len(d.orders) : k # i => k <= Len(e.orders) /\ d.orders[k] = e.orders[k]
    BY <1>2, <1>3 DEF i
  <2>2. (d.funds.available + d.funds.blocked) + Worth(d) = (e.funds.available + e.funds.blocked) + Worth(e)
    BY <1>3, <1>8, <1>11
  <2>3. (d.holding.qty + Net(d, "DELIVERY")) - d.carried.qty - Bought(d, "DELIVERY")
          = (e.holding.qty + Net(e, "DELIVERY")) - e.carried.qty - Bought(e, "DELIVERY")
    BY <1>3, <1>8, <1>10 DEF Products
  <2>4. Net(d, "INTRADAY") - Bought(d, "INTRADAY") = Net(e, "INTRADAY") - Bought(e, "INTRADAY")
    BY <1>8, <1>10 DEF Products
  <2>5. d.funds.blocked - Total(d.funds) = e.funds.blocked - Total(e.funds) BY <1>3, <1>11
  <2>6. \A k \in OrderId : k # i => d.funds.blocks[k] = e.funds.blocks[k] BY <1>3, <1>11
  <2>7. i \in OrderId => Due(d.orders[i], d.funds.blocks[i]) BY <1>3, <1>11 DEF i
  <2>8. Len(d.orders) >= Len(e.orders) /\ i <= Len(d.orders) BY <1>2, <1>3 DEF i
  <2>9. Net(d, "DELIVERY") >= 0 BY <1>1, <1>8
  <2>10. Stepped(e, d, i) BY <1>2, <1>3, <1>4, <1>5, <1>6, <1>7, <2>1, <2>2, <2>3, <2>4, <2>5, <2>6, <2>7, <2>8, <2>9 DEF Stepped
  <2> QED BY <2>10, SaneStepped
<1>13. Owned(d) = Owned(e) BY <1>3, <1>8 DEF Owned
<1> QED BY <1>5, <1>9, <1>12, <1>13 DEF d, i

-----------------------------------------------------------------------------
(* Exits, and the stops that place them.                                   *)

\* A draft of an exit.
ExitDraft(d) ==
  /\ d.side \in Sides /\ d.type \in {"MARKET", "LIMIT"} /\ d.product \in Products
  /\ d.qty \in Nat \ {0} /\ d.price \in Int \cup {None} /\ (d.type = "MARKET") = (d.price = None)

LEMMA ExitPlaced ==
  ASSUME NEW e, Whole(e, 0), Running(e), NEW d, ExitDraft(d), NEW now
  PROVE  LET x == PlaceExit(e, d, now) IN
         /\ Whole(x, 0) /\ Running(x) /\ Len(x.orders) = Len(e.orders) + 1
         /\ x.orders[Len(x.orders)].exit /\ x.stops = e.stops /\ x.synced = e.synced
<1> DEFINE ok == /\ d.price # None => d.price >= TickSize
                 /\ ValidateOrder(d, now, d.qty * ValueAt(d, now), d.qty)
           status == IF ~ok THEN "REJECTED" ELSE IF OpenAt(now.at) THEN "OPEN" ELSE "AMO"
           o == NewOrder(d, status, TRUE)
           x == Stored(e, o, e.funds, e.stops)
           i == Len(e.orders) + 1
<1>1. e \in Engines /\ Sane(e, 0) /\ Covered(e) /\ StopsOk(e) BY DEF Whole, Sane
<1>2. Len(e.orders) \in Nat /\ i \in Nat \ {0} BY <1>1, EngineLens
<1>3. /\ d.side \in Sides /\ d.type \in {"MARKET", "LIMIT"} /\ d.product \in Products
      /\ d.qty \in Nat \ {0} /\ d.price \in Int \cup {None} /\ (d.type = "MARKET") = (d.price = None)
  BY DEF ExitDraft
<1>4. status \in {"AMO", "OPEN", "REJECTED"} /\ (status # "REJECTED" => d.price \in Circuit \cup {None})
  <2>1. ok => d.price \in Circuit \cup {None} BY <1>3 DEF ValidateOrder
  <2> HIDE DEF ok
  <2> QED BY <2>1
<1> HIDE DEF status
<1>5. o \in OrderRecords /\ o.exit = TRUE /\ o.filled = 0
  <2>1. TRUE \in BOOLEAN OBVIOUS
  <2> QED BY <1>3, <1>4, <2>1, NewOrderIs
<1> HIDE DEF o
<1>6. PlaceExit(e, d, now) = x
  <2>1. PlaceExit(e, d, now) = [e EXCEPT !.orders = Append(e.orders, o)] BY DEF PlaceExit, o, status
  <2>2. [e EXCEPT !.orders = Append(e.orders, o)] = x BY <1>1 DEF Stored, Engines
  <2> QED BY <2>1, <2>2, Zenon
<1>7. e.funds \in Ledgers /\ e.stops \in Seq(StopRecords) BY <1>1, EngineFields
<1>8. /\ x \in Engines /\ Len(x.orders) = i /\ x.orders[i] = o /\ x.stops = e.stops /\ x.synced = e.synced
  BY <1>1, <1>5, <1>7, StoredIs
<1>9. Due(o, 0)
  <2>1. Left(o) \in Nat BY <1>5, OrderFields
  <2>2. Live(o) /\ o.type = "LIMIT" => OrderWorth(o) >= 0
    <3> SUFFICES ASSUME Live(o), o.type = "LIMIT" PROVE OrderWorth(o) >= 0 OBVIOUS
    <3>1. o.price \in Circuit \cup {None} BY <1>5, OrderFields
    <3> DEFINE p == o.price
               l == Left(o)
    <3>2. p = None \/ p \in Nat BY <3>1, EngineAssumption
    <3>3. OrderWorth(o) = IF p = None THEN 0 ELSE l * p BY DEF OrderWorth
    <3>4. l \in Nat BY <2>1
    <3> HIDE DEF p, l
    <3>5. p \in Nat => l * p >= 0 BY <3>4
    <3> QED BY <3>2, <3>3, <3>5
  <2> QED BY <1>5, <2>2 DEF Due
<1>10. \A t \in 1 .. Len(e.stops) : StopOk(e.stops[t]) BY <1>1 DEF StopsOk
<1>11. /\ Sane(x, i) /\ Running(x) /\ Asked(x) = Asked(e) + Asks(o) /\ Owned(x) = Owned(e)
  <2>1. 0 \in Int /\ 0 = 0 /\ e.funds = e.funds OBVIOUS
  <2> HIDE DEF x
  <2> QED BY <1>1, <1>5, <1>7, <1>9, <1>10, <2>1, StoredSane DEF x
<1> HIDE DEF x
<1>12. Rests(x.orders[i], i) BY <1>5, <1>8 DEF Rests
<1>13. Sane(x, 0) BY <1>2, <1>11, <1>12, SaneRests
<1>14. Covered(x)
  <2>1. Asks(o) = 0 BY <1>5 DEF Asks
  <2>2. Asked(e) \in Int /\ Asked(e) <= Owned(e) BY <1>1, AskedIsInt DEF Covered
  <2>3. Asked(x) = Asked(e) BY <1>11, <2>1, <2>2
  <2> QED BY <1>11, <2>2, <2>3 DEF Covered
<1> QED BY <1>5, <1>6, <1>8, <1>11, <1>13, <1>14 DEF Whole, i

LEMMA ExitMatched ==
  ASSUME NEW e, Whole(e, 0), Running(e), Len(e.orders) > 0, e.orders[Len(e.orders)].exit,
         NEW now, now.ltp \in Prices \cup {None}
  PROVE  LET d == MatchLast(e, now) IN Whole(d, 0) /\ Running(d) /\ Same(e, d)
<1> DEFINE i == Len(e.orders)
           m == Match(e, i, now, TRUE)
<1>1. e \in Engines /\ Sane(e, 0) /\ Covered(e) BY DEF Whole, Sane
<1>2. i \in Nat /\ i \in 1 .. Len(e.orders) /\ i \in Nat \ {0} BY <1>1, EngineLens
<1>3. MatchLast(e, now) = IF e.orders[i].status = "OPEN" THEN m ELSE e BY DEF MatchLast
<1>4. CASE e.orders[i].status = "OPEN"
  <2>1. MatchOk(e, i, now) BY <1>4 DEF MatchOk
  <2>2. Sane(e, i) BY <1>1, <1>2, SaneRests
  <2>3. TRUE \in BOOLEAN /\ e.orders[i].exit OBVIOUS
  <2>4. Whole(m, 0) /\ Same(e, m) /\ Running(m)
    <3> HIDE DEF i
    <3> QED BY <1>1, <1>2, <2>1, <2>2, <2>3, MatchSane
  <2> HIDE DEF m
  <2> QED BY <1>3, <1>4, <2>4
<1>5. CASE e.orders[i].status # "OPEN"
  <2>1. MatchLast(e, now) = e BY <1>3, <1>5
  <2> QED BY <2>1 DEF Same
<1> QED BY <1>4, <1>5

\* The step may store orders, at the end.
Grows(e, d) == Len(d.orders) >= Len(e.orders) /\ Len(d.stops) = Len(e.stops) /\ d.synced = e.synced

LEMMA StopTriggers ==
  ASSUME NEW e, Whole(e, 0), Running(e), NEW t \in 1 .. Len(e.stops), e.stops[t].status = "TRIGGERED",
         NEW now, now.ltp \in Prices \cup {None}
  PROVE  LET d == TriggerStop(e, t, now) IN Whole(d, 0) /\ Running(d) /\ Grows(e, d)
<1> DEFINE s == e.stops[t]
           long == s.direction = "LONG"
           d == [side |-> IF long THEN "SELL" ELSE "BUY", type |-> s.exitType,
                 product |-> s.product, qty |-> s.qty,
                 price |-> IF s.exitType = "MARKET" THEN None
                           ELSE IF long THEN s.stop - s.offset ELSE s.stop + s.offset]
           x == PlaceExit(e, d, now)
           i == Len(x.orders)
           rejected == [s EXCEPT !.exit = i, !.status = "REJECTED"]
           working == [s EXCEPT !.exit = i]
           r == StopSet(x, t, rejected)
           w == StopSet(x, t, working)
<1>1. e \in Engines /\ StopsOk(e) BY DEF Whole, Sane
<1>2. s \in StopRecords /\ StopOk(s) /\ Len(e.orders) \in Nat BY <1>1, EngineLens DEF StopsOk
<1>3. /\ s.exitType \in {"MARKET", "LIMIT"} /\ s.product \in Products /\ s.qty \in Nat \ {0}
      /\ s.stop \in Int /\ s.offset \in Nat \cup {None} /\ (s.exitType = "MARKET") = (s.offset = None)
  <2>1. s.qty > 0 /\ s.stop \in Int /\ (s.exitType = "MARKET") = (s.offset = None)
    BY <1>2 DEF StopOk, Protecting
  <2>2. s.exitType \in {"MARKET", "LIMIT"} /\ s.product \in Products /\ s.qty \in Nat /\ s.offset \in Nat \cup {None}
    BY <1>2 DEF StopRecords
  <2> QED BY <2>1, <2>2
<1>4. ExitDraft(d)
  <2>1. d.price \in Int \cup {None} /\ (d.type = "MARKET") = (d.price = None)
    <3>1. CASE s.exitType = "MARKET" BY <3>1
    <3>2. CASE s.exitType = "LIMIT"
      <4> DEFINE a == s.stop
                 b == s.offset
      <4>1. a \in Int /\ b \in Int BY <1>3, <3>2
      <4>2. d.price = IF long THEN a - b ELSE a + b BY <3>2
      <4> HIDE DEF a, b
      <4>3. d.price \in Int
        <5> HIDE DEF d
        <5> QED BY <4>1, <4>2
      <4>4. d.price # None BY <4>3, TrailAssumption
      <4> QED BY <3>2, <4>3, <4>4
    <3> QED BY <1>3, <3>1, <3>2
  <2>2. d.side \in Sides /\ d.type \in {"MARKET", "LIMIT"} /\ d.product \in Products /\ d.qty \in Nat \ {0}
    BY <1>3 DEF Sides
  <2> HIDE DEF d
  <2> QED BY <2>1, <2>2 DEF ExitDraft
<1> HIDE DEF d
<1>5. /\ Whole(x, 0) /\ Running(x) /\ Len(x.orders) = Len(e.orders) + 1
      /\ x.orders[Len(x.orders)].exit /\ x.stops = e.stops /\ x.synced = e.synced
  BY <1>4, ExitPlaced
<1>6. TriggerStop(e, t, now) =
        IF x.orders[i].status = "REJECTED"
          THEN [x EXCEPT !.stops[t].exit = i, !.stops[t].status = "REJECTED"]
          ELSE MatchLast([x EXCEPT !.stops[t].exit = i], now)
  BY DEF TriggerStop, d
<1> HIDE DEF x
<1>7. x \in Engines /\ Sane(x, 0) /\ Covered(x) /\ StopsOk(x) BY <1>5 DEF Whole, Sane
<1>8. t \in 1 .. Len(x.stops) /\ x.stops[t] = s /\ i \in Nat /\ i > 0 BY <1>2, <1>5
<1>9. rejected \in StopRecords /\ StopOk(rejected)
  <2>1. rejected \in StopRecords BY <1>2, <1>8 DEF StopRecords
  <2>2. rejected.status = "REJECTED" /\ rejected.exitType = s.exitType /\ rejected.offset = s.offset
    BY <1>2 DEF StopRecords
  <2> HIDE DEF rejected
  <2> QED BY <1>3, <2>1, <2>2 DEF StopOk, Protecting
<1>10. working \in StopRecords /\ StopOk(working)
  <2>1. working \in StopRecords BY <1>2, <1>8 DEF StopRecords
  <2>2. /\ working.status = s.status /\ working.exitType = s.exitType /\ working.offset = s.offset
        /\ working.qty = s.qty /\ working.stop = s.stop /\ working.watermark = s.watermark
    BY <1>2 DEF StopRecords
  <2> HIDE DEF working
  <2> QED BY <1>2, <2>1, <2>2 DEF StopOk, Protecting
<1>11. [x EXCEPT !.stops[t].exit = i, !.stops[t].status = "REJECTED"] = r
  BY <1>7, <1>8 DEF StopSet, Engines
<1>12. [x EXCEPT !.stops[t].exit = i] = w BY <1>7, <1>8 DEF StopSet, Engines
<1> HIDE DEF rejected, working
<1>13. \A q \in {rejected, working} :
         LET y == StopSet(x, t, q) IN
         /\ Whole(y, 0) /\ Running(y) /\ y.orders = x.orders /\ Len(y.stops) = Len(x.stops) /\ y.synced = x.synced
  <2> SUFFICES ASSUME NEW q \in {rejected, working}
               PROVE LET y == StopSet(x, t, q) IN
                     /\ Whole(y, 0) /\ Running(y) /\ y.orders = x.orders /\ Len(y.stops) = Len(x.stops)
                     /\ y.synced = x.synced
    OBVIOUS
  <2> DEFINE y == StopSet(x, t, q)
  <2>1. q \in StopRecords /\ StopOk(q) BY <1>9, <1>10
  <2>2. y \in After(x) /\ y.orders = x.orders /\ Len(y.stops) = Len(x.stops) /\ StopsOk(y)
    BY <1>7, <1>8, <2>1, StopChanged
  <2>3. y.synced = x.synced BY <2>2 DEF After
  <2> HIDE DEF y
  <2>4. Sane(y, 0) /\ Running(y) /\ Covered(y)
    <3>1. Sane(x, 0) /\ Running(x) /\ y \in After(x) /\ StopsOk(y) BY <1>5, <1>7, <2>2
    <3>2. Sane(y, 0) /\ Running(y) /\ (Covered(x) => Covered(y)) BY <3>1, AfterSane
    <3> QED BY <1>7, <3>2
  <2> QED BY <2>2, <2>3, <2>4 DEF Whole, y
<1> HIDE DEF r, w
<1>14. CASE x.orders[i].status = "REJECTED"
  <2>1. TriggerStop(e, t, now) = r BY <1>6, <1>11, <1>14
  <2>2. Whole(r, 0) /\ Running(r) /\ r.orders = x.orders /\ Len(r.stops) = Len(x.stops) /\ r.synced = x.synced
    BY <1>13 DEF r
  <2>3. Grows(e, r) BY <1>2, <1>5, <2>2 DEF Grows
  <2> QED BY <2>1, <2>2, <2>3
<1>15. CASE x.orders[i].status # "REJECTED"
  <2> DEFINE m == MatchLast(w, now)
  <2>1. TriggerStop(e, t, now) = m BY <1>6, <1>12, <1>15
  <2>2. Whole(w, 0) /\ Running(w) /\ w.orders = x.orders /\ Len(w.stops) = Len(x.stops) /\ w.synced = x.synced
    BY <1>13 DEF w
  <2>3. Len(w.orders) > 0 /\ w.orders[Len(w.orders)].exit BY <1>5, <1>8, <2>2
  <2>4. Whole(m, 0) /\ Running(m) /\ Same(w, m) BY <2>2, <2>3, ExitMatched
  <2> HIDE DEF m
  <2>5. Grows(e, m) BY <1>2, <1>5, <2>2, <2>4 DEF Grows, Same
  <2> QED BY <2>1, <2>4, <2>5
<1> QED BY <1>14, <1>15

LEMMA StopStepped ==
  ASSUME NEW e, Whole(e, 0), Running(e), NEW t \in 1 .. Len(e.stops),
         e.stops[t].status \in {"ARMED", "TRAILING"}, NEW now, now.ltp \in Prices
  PROVE  LET d == StepStop(e, t, now) IN Whole(d, 0) /\ Running(d) /\ Grows(e, d)
<1> DEFINE s == e.stops[t]
           r == StepTrailingStop(s, now.ltp)
           m == StopSet(e, t, r)
<1>1. e \in Engines /\ Sane(e, 0) /\ Covered(e) /\ StopsOk(e) BY DEF Whole, Sane
<1>2. s \in StopRecords /\ StopOk(s) /\ Len(e.orders) \in Nat BY <1>1, EngineLens DEF StopsOk
<1>3. r \in StopRecords /\ StopOk(r) BY <1>2, StopSteps
<1>4. [e EXCEPT !.stops[t] = r] = m BY <1>1 DEF StopSet, Engines
<1>5. StepStop(e, t, now) = IF r.status = "TRIGGERED" THEN TriggerStop(m, t, now) ELSE m
  BY <1>4 DEF StepStop
<1> HIDE DEF r
<1>6. /\ m \in After(e) /\ m.orders = e.orders /\ Len(m.stops) = Len(e.stops) /\ StopsOk(m)
      /\ \A u \in 1 .. Len(e.stops) : m.stops[u] = IF u = t THEN r ELSE e.stops[u]
  BY <1>1, <1>3, StopChanged
<1> HIDE DEF m
<1>7. Whole(m, 0) /\ Running(m)
  <2>1. Sane(m, 0) /\ Running(m) /\ (Covered(e) => Covered(m)) BY <1>1, <1>6, AfterSane
  <2> QED BY <1>1, <2>1 DEF Whole
<1>8. Grows(e, m) BY <1>2, <1>6 DEF Grows, After
<1>9. CASE r.status = "TRIGGERED"
  <2> DEFINE d == TriggerStop(m, t, now)
  <2>1. t \in 1 .. Len(m.stops) /\ m.stops[t].status = "TRIGGERED" BY <1>6, <1>9
  <2>2. now.ltp \in Prices \cup {None} OBVIOUS
  <2>3. Whole(d, 0) /\ Running(d) /\ Grows(m, d) BY <1>7, <2>1, <2>2, StopTriggers
  <2>4. StepStop(e, t, now) = d BY <1>5, <1>9
  <2>5. Len(d.orders) \in Nat
    <3>1. d \in Engines BY <2>3 DEF Whole, Sane
    <3> QED BY <3>1, EngineLens
  <2> HIDE DEF d
  <2>6. Grows(e, d) BY <1>2, <1>6, <1>8, <2>3, <2>5 DEF Grows
  <2> QED BY <2>3, <2>4, <2>6
<1>10. CASE r.status # "TRIGGERED"
  <2>1. StepStop(e, t, now) = m BY <1>5, <1>10
  <2> QED BY <1>7, <1>8, <2>1
<1> QED BY <1>9, <1>10

-----------------------------------------------------------------------------
(* The loops of a sync.                                                    *)

LEMMA OpenMatched ==
  ASSUME NEW e, Whole(e, 0), NEW now, now.ltp \in Prices \cup {None}
  PROVE  LET d == MatchOpen(e, now) IN Whole(d, 0) /\ Same(e, d)
<1> DEFINE V == {d \in Engines : Whole(d, 0) /\ Same(e, d)}
           n == Len(e.orders)
           turn == [p \in (1 .. n) \X V |-> MatchAt(p[2], p[1], now)]
           loop == CHOOSE g : g = [k \in 0 .. n |-> IF k = 0 THEN e ELSE MatchAt(g[k - 1], k, now)]
<1>1. e \in Engines /\ n \in Nat /\ Len(e.orders) \in Nat
  <2>1. e \in Engines BY DEF Whole, Sane
  <2> QED BY <2>1, EngineLens
<1>2. e \in V BY <1>1 DEF Same
<1>3. ASSUME NEW k \in 1 .. n, NEW v \in V PROVE MatchAt(v, k, now) \in V
  <2> DEFINE d == Match(v, k, now, FALSE)
  <2>1. v \in Engines /\ Whole(v, 0) /\ Same(e, v) OBVIOUS
  <2>2. CASE MatchAt(v, k, now) = v BY <2>2
  <2>3. CASE MatchAt(v, k, now) # v
    <3>1. Running(v) /\ v.orders[k].status = "OPEN" /\ MatchAt(v, k, now) = d
      BY <2>3, Zenon DEF MatchAt, Running
    <3>2. k \in 1 .. Len(v.orders) /\ k \in Nat \ {0} BY <1>1, <2>1 DEF Same
    <3>3. Sane(v, 0) /\ Covered(v) BY <2>1, <3>1 DEF Whole
    <3>4. Sane(v, k) BY <3>2, <3>3, SaneRests
    <3>5. MatchOk(v, k, now)
      <4>1. Rests(v.orders[k], k)
        <5>1. RestsOk(v, 0) BY <3>1, <3>3, NotDebit DEF Sane
        <5> QED BY <3>2, <5>1 DEF RestsOk
      <4>2. ~v.orders[k].exit => v.orders[k].type = "LIMIT" /\ k \in OrderId
        BY <3>1, <4>1 DEF Rests, Live
      <4> QED BY <3>1, <4>2 DEF MatchOk
    <3>6. FALSE \in BOOLEAN OBVIOUS
    <3>7. Whole(d, 0) /\ Same(v, d) BY <3>1, <3>2, <3>3, <3>4, <3>5, <3>6, MatchSane
    <3> HIDE DEF d
    <3>8. d \in Engines BY <3>7 DEF Whole, Sane
    <3>9. Same(e, d) BY <2>1, <3>7 DEF Same
    <3> QED BY <3>1, <3>7, <3>8, <3>9
  <2> QED BY <2>2, <2>3
<1>4. ASSUME NEW k \in 1 .. n, NEW v \in V PROVE turn[<<k, v>>] = MatchAt(v, k, now)
  <2> HIDE DEF V, n
  <2> QED OBVIOUS
<1>5. \A k \in 1 .. n, v \in V : turn[<<k, v>>] \in V BY <1>3, <1>4, Zenon
<1> HIDE DEF V, turn, n
<1>6. PICK f : /\ f = [k \in 0 .. n |-> IF k = 0 THEN e ELSE turn[<<k, f[k - 1]>>]]
               /\ \A k \in 0 .. n : f[k] \in V
  <2>1. Loops(V, e, n, turn) BY <1>1, <1>2, <1>5, LoopThere
  <2> QED BY <2>1, Zenon DEF Loops
<1>7. f = [k \in 0 .. n |-> IF k = 0 THEN e ELSE MatchAt(f[k - 1], k, now)]
  <2>1. \A k \in 0 .. n : k # 0 => turn[<<k, f[k - 1]>>] = MatchAt(f[k - 1], k, now)
    <3> SUFFICES ASSUME NEW k \in 0 .. n, k # 0
                 PROVE turn[<<k, f[k - 1]>>] = MatchAt(f[k - 1], k, now) OBVIOUS
    <3>1. k \in 1 .. n /\ k - 1 \in 0 .. n BY <1>1
    <3> QED BY <1>4, <1>6, <3>1
  <2> QED BY <1>6, <2>1, Zenon
<1>8. loop = [k \in 0 .. n |-> IF k = 0 THEN e ELSE MatchAt(loop[k - 1], k, now)]
  BY <1>7
<1>9. MatchOpen(e, now) = loop[n] BY DEF MatchOpen, n
<1> HIDE DEF loop
<1>10. loop[0] \in V BY <1>1, <1>2, <1>8
<1>11. \A k \in 1 .. n : loop[k - 1] \in V => loop[k] \in V
  <2> SUFFICES ASSUME NEW k \in 1 .. n, loop[k - 1] \in V PROVE loop[k] \in V OBVIOUS
  <2>1. loop[k] = MatchAt(loop[k - 1], k, now) BY <1>1, <1>8
  <2> QED BY <1>3, <2>1
<1>12. loop[n] \in V
  <2>1. n \in Nat BY <1>1
  <2> QED BY <1>10, <1>11, <2>1, LoopStays
<1> QED BY <1>9, <1>12 DEF V

LEMMA StopsStepped ==
  ASSUME NEW e, Whole(e, 0), NEW now, now.ltp \in Prices \cup {None}
  PROVE  LET d == StepStops(e, now) IN Whole(d, 0) /\ Grows(e, d)
<1> DEFINE V == {d \in Engines : Whole(d, 0) /\ Grows(e, d)}
           n == Len(e.stops)
           turn == [p \in (1 .. n) \X V |-> StepAt(p[2], p[1], now)]
           loop == CHOOSE g : g = [k \in 0 .. n |-> IF k = 0 THEN e ELSE StepAt(g[k - 1], k, now)]
<1>1. e \in Engines /\ n \in Nat /\ Len(e.orders) \in Nat
  <2>1. e \in Engines BY DEF Whole, Sane
  <2> QED BY <2>1, EngineLens
<1>2. e \in V BY <1>1 DEF Grows
<1>3. ASSUME NEW k \in 1 .. n, NEW v \in V PROVE StepAt(v, k, now) \in V
  <2> DEFINE d == StepStop(v, k, now)
  <2>1. v \in Engines /\ Whole(v, 0) /\ Grows(e, v) OBVIOUS
  <2>2. CASE StepAt(v, k, now) = v BY <2>2
  <2>3. CASE StepAt(v, k, now) # v
    <3>1. Running(v) /\ now.ltp # None /\ v.stops[k].status \in {"ARMED", "TRAILING"} /\ StepAt(v, k, now) = d
      BY <2>3, Zenon DEF StepAt, Running
    <3>2. k \in 1 .. Len(v.stops) BY <2>1 DEF Grows
    <3>3. now.ltp \in Prices BY <3>1
    <3>4. Whole(d, 0) /\ Grows(v, d) BY <2>1, <3>1, <3>2, <3>3, StopStepped
    <3> HIDE DEF d
    <3>5. d \in Engines BY <3>4 DEF Whole, Sane
    <3>6. Len(v.orders) \in Nat /\ Len(d.orders) \in Nat
      <4>1. Len(v.orders) \in Nat BY <2>1, EngineLens
      <4>2. Len(d.orders) \in Nat BY <3>5, EngineLens
      <4> QED BY <4>1, <4>2
    <3>7. Grows(e, d) BY <1>1, <2>1, <3>4, <3>6 DEF Grows
    <3> QED BY <3>1, <3>4, <3>5, <3>7
  <2> QED BY <2>2, <2>3
<1>4. ASSUME NEW k \in 1 .. n, NEW v \in V PROVE turn[<<k, v>>] = StepAt(v, k, now)
  <2> HIDE DEF V, n
  <2> QED OBVIOUS
<1>5. \A k \in 1 .. n, v \in V : turn[<<k, v>>] \in V BY <1>3, <1>4, Zenon
<1> HIDE DEF V, turn, n
<1>6. PICK f : /\ f = [k \in 0 .. n |-> IF k = 0 THEN e ELSE turn[<<k, f[k - 1]>>]]
               /\ \A k \in 0 .. n : f[k] \in V
  <2>1. Loops(V, e, n, turn) BY <1>1, <1>2, <1>5, LoopThere
  <2> QED BY <2>1, Zenon DEF Loops
<1>7. f = [k \in 0 .. n |-> IF k = 0 THEN e ELSE StepAt(f[k - 1], k, now)]
  <2>1. \A k \in 0 .. n : k # 0 => turn[<<k, f[k - 1]>>] = StepAt(f[k - 1], k, now)
    <3> SUFFICES ASSUME NEW k \in 0 .. n, k # 0
                 PROVE turn[<<k, f[k - 1]>>] = StepAt(f[k - 1], k, now) OBVIOUS
    <3>1. k \in 1 .. n /\ k - 1 \in 0 .. n BY <1>1
    <3> QED BY <1>4, <1>6, <3>1
  <2> QED BY <1>6, <2>1, Zenon
<1>8. loop = [k \in 0 .. n |-> IF k = 0 THEN e ELSE StepAt(loop[k - 1], k, now)]
  BY <1>7
<1>9. StepStops(e, now) = loop[n] BY DEF StepStops, n
<1> HIDE DEF loop
<1>10. loop[0] \in V BY <1>1, <1>2, <1>8
<1>11. \A k \in 1 .. n : loop[k - 1] \in V => loop[k] \in V
  <2> SUFFICES ASSUME NEW k \in 1 .. n, loop[k - 1] \in V PROVE loop[k] \in V OBVIOUS
  <2>1. loop[k] = StepAt(loop[k - 1], k, now) BY <1>1, <1>8
  <2> QED BY <1>3, <2>1
<1>12. loop[n] \in V
  <2>1. n \in Nat BY <1>1
  <2> QED BY <1>10, <1>11, <2>1, LoopStays
<1> QED BY <1>9, <1>12 DEF V

-----------------------------------------------------------------------------
(* An order changed, with what is blocked for it.                          *)

Changed(e, i, o, g) == [e EXCEPT !.orders = [e.orders EXCEPT ![i] = o], !.funds = g]

LEMMA ChangedIs ==
  ASSUME NEW e \in Engines, NEW i \in 1 .. Len(e.orders), NEW o \in OrderRecords, NEW g \in Ledgers
  PROVE  LET d == Changed(e, i, o, g) IN
         /\ d \in Engines /\ Len(d.orders) = Len(e.orders) /\ d.orders[i] = o
         /\ \A k \in 1 .. Len(e.orders) : k # i => d.orders[k] = e.orders[k]
         /\ d.funds = g /\ d.stops = e.stops /\ d.books = e.books /\ d.holding = e.holding
         /\ d.carried = e.carried /\ d.salesPnl = e.salesPnl /\ d.pastPnl = e.pastPnl
         /\ d.capped = e.capped /\ d.synced = e.synced /\ d.broken = e.broken
<1> DEFINE O == [e.orders EXCEPT ![i] = o]
           d == [e EXCEPT !.orders = O, !.funds = g]
<1>1. e.orders \in Seq(OrderRecords) BY EngineFields
<1>2. O \in Seq(OrderRecords) /\ Len(O) = Len(e.orders) /\ O[i] = o
      /\ \A k \in 1 .. Len(e.orders) : k # i => O[k] = e.orders[k]
  BY <1>1
<1> HIDE DEF O
<1>3. /\ d \in Engines /\ d.orders = O
      /\ d.funds = g /\ d.stops = e.stops /\ d.books = e.books /\ d.holding = e.holding
      /\ d.carried = e.carried /\ d.salesPnl = e.salesPnl /\ d.pastPnl = e.pastPnl
      /\ d.capped = e.capped /\ d.synced = e.synced /\ d.broken = e.broken
  BY <1>2 DEF Engines
<1>4. Changed(e, i, o, g) = d BY DEF Changed, O
<1> HIDE DEF d
<1> QED BY <1>2, <1>3, <1>4

\* A ledger that differs in what is blocked for one order.
Rebooked(f, g, i) ==
  /\ g \in Ledgers
  /\ g.available + g.blocked = f.available + f.blocked
  /\ g.blocked - Total(g) = f.blocked - Total(f)
  /\ \A k \in OrderId : k # i => g.blocks[k] = f.blocks[k]

LEMMA ChangedSane ==
  ASSUME NEW e, NEW i \in 1 .. Len(e.orders), Sane(e, i), Running(e),
         NEW o \in OrderRecords, NEW g, Rebooked(e.funds, g, i),
         o.side = e.orders[i].side, o.product = e.orders[i].product, o.filled = e.orders[i].filled,
         e.orders[i].status = "OPEN" => o.status = "OPEN",
         i \in OrderId => Due(o, g.blocks[i])
  PROVE  LET d == Changed(e, i, o, g) IN
         /\ Sane(d, i) /\ Running(d) /\ Same(e, d) /\ d.orders[i] = o /\ d.funds = g
         /\ Asked(d) = Asked(e) - Asks(e.orders[i]) + Asks(o) /\ Owned(d) = Owned(e)
<1> DEFINE d == Changed(e, i, o, g)
<1>1. /\ e \in Engines /\ StopsOk(e) /\ CappedOk(e) /\ Net(e, "DELIVERY") >= 0 BY DEF Sane
<1>2. Len(e.orders) \in Nat /\ i \in Nat \ {0} BY <1>1, EngineLens
<1>3. g \in Ledgers BY DEF Rebooked
<1>4. /\ d \in Engines /\ Len(d.orders) = Len(e.orders) /\ d.orders[i] = o
      /\ \A k \in 1 .. Len(e.orders) : k # i => d.orders[k] = e.orders[k]
      /\ d.funds = g /\ d.stops = e.stops /\ d.books = e.books /\ d.holding = e.holding
      /\ d.carried = e.carried /\ d.salesPnl = e.salesPnl /\ d.pastPnl = e.pastPnl
      /\ d.capped = e.capped /\ d.synced = e.synced /\ d.broken = e.broken
  BY <1>1, <1>3, ChangedIs
<1> HIDE DEF d
<1>5. Running(d) BY <1>4, Zenon DEF Running
<1>6. StopsOk(d) BY <1>1, <1>4 DEF StopsOk
<1>7. CappedOk(d)
  <2> SUFFICES ASSUME NEW k \in d.capped PROVE k \in 1 .. Len(d.orders) /\ d.orders[k].status = "OPEN"
    BY DEF CappedOk
  <2>1. k \in 1 .. Len(e.orders) /\ e.orders[k].status = "OPEN" BY <1>1, <1>4 DEF CappedOk
  <2> QED BY <1>4, <2>1
<1>8. Net(d, "DELIVERY") = Net(e, "DELIVERY") /\ Net(d, "INTRADAY") = Net(e, "INTRADAY") /\ Worth(d) = Worth(e)
  BY <1>4 DEF Net, Worth
<1>9. /\ \A p : Bought(d, p) = Bought(e, p) - Signed(e.orders[i], p) + Signed(d.orders[i], p)
      /\ Asked(d) = Asked(e) - Asks(e.orders[i]) + Asks(d.orders[i])
  BY <1>1, <1>4, OneChanged
<1>10. \A p : Bought(d, p) = Bought(e, p)
  <2> SUFFICES ASSUME NEW p PROVE Bought(d, p) = Bought(e, p) OBVIOUS
  <2> DEFINE a == Signed(o, p)
             b == Bought(e, p)
  <2>1. Signed(e.orders[i], p) = a BY DEF Signed
  <2>2. b \in Int /\ a \in Int BY <1>1, BoughtIsInt, SignedIsInt
  <2>3. Bought(d, p) = b - a + a BY <1>4, <1>9, <2>1
  <2> HIDE DEF a, b
  <2>4. b - a + a = b BY <2>2
  <2> QED BY <2>3, <2>4 DEF b
<1>11. Sane(d, i)
  <2>1. \A k \in 1 .. Len(d.orders) : k # i => k <= Len(e.orders) /\ d.orders[k] = e.orders[k]
    BY <1>2, <1>4
  <2>2. (d.funds.available + d.funds.blocked) + Worth(d) = (e.funds.available + e.funds.blocked) + Worth(e)
    BY <1>4, <1>8 DEF Rebooked
  <2>3. (d.holding.qty + Net(d, "DELIVERY")) - d.carried.qty - Bought(d, "DELIVERY")
          = (e.holding.qty + Net(e, "DELIVERY")) - e.carried.qty - Bought(e, "DELIVERY")
    BY <1>4, <1>8, <1>10
  <2>4. Net(d, "INTRADAY") - Bought(d, "INTRADAY") = Net(e, "INTRADAY") - Bought(e, "INTRADAY")
    BY <1>8, <1>10
  <2>5. d.funds.blocked - Total(d.funds) = e.funds.blocked - Total(e.funds) BY <1>4 DEF Rebooked
  <2>6. \A k \in OrderId : k # i => d.funds.blocks[k] = e.funds.blocks[k] BY <1>4 DEF Rebooked
  <2>7. i \in OrderId => Due(d.orders[i], d.funds.blocks[i]) BY <1>4
  <2>8. Len(d.orders) >= Len(e.orders) /\ i <= Len(d.orders) BY <1>2, <1>4
  <2>9. Net(d, "DELIVERY") >= 0 BY <1>1, <1>8
  <2>10. Stepped(e, d, i) BY <1>2, <1>4, <1>5, <1>6, <1>7, <2>1, <2>2, <2>3, <2>4, <2>5, <2>6, <2>7, <2>8, <2>9 DEF Stepped
  <2> QED BY <2>10, SaneStepped
<1>12. Owned(d) = Owned(e) BY <1>4, <1>8 DEF Owned
<1>13. Same(e, d) BY <1>4 DEF Same
<1> QED BY <1>4, <1>5, <1>9, <1>11, <1>12, <1>13 DEF d

\* #reblock, with the cash that the rules checked.
LEMMA Reblocked ==
  ASSUME NEW e \in Engines, NEW i \in OrderId, NEW amount \in Nat,
         amount > e.funds.blocks[i] => amount <= e.funds.available + e.funds.blocks[i]
  PROVE  LET d == Reblock(e, i, amount) IN
         d = WithCash(e, d.funds) /\ Rebooked(e.funds, d.funds, i) /\ d.funds.blocks[i] = amount
<1> DEFINE f == e.funds
           held == f.blocks[i]
           d == Reblock(e, i, amount)
           a == amount - held
           g == Moved(f, i, a, -a)
<1>1. f \in Ledgers BY EngineFields
<1>2. /\ f.available \in Int /\ f.blocked \in Int /\ f.blocks \in [OrderId -> Int] /\ Total(f) \in Int
  BY <1>1, LedgerFields
<1>3. held \in Int /\ amount \in Int /\ a \in Int /\ -a \in Int /\ BlockedFor(f, i) = held
  <2>1. held \in Int /\ amount \in Int BY <1>2
  <2>2. BlockedFor(f, i) = held BY DEF BlockedFor
  <2>3. \A x, y \in Int : x - y \in Int /\ -(x - y) \in Int OBVIOUS
  <2> QED BY <2>1, <2>2, <2>3
<1>4. g \in Ledgers /\ Total(g) = Total(f) + a BY <1>1, <1>3, LedgerMoves
<1>5. /\ g.available = f.available + (-a) /\ g.blocked = f.blocked + a
      /\ g.blocks = [k \in OrderId |-> IF k = i THEN f.blocks[k] + a ELSE f.blocks[k]]
  BY DEF Moved
<1> HIDE DEF g
<1>6. Rebooked(f, g, i) /\ g.blocks[i] = amount
  <2> DEFINE av == f.available
             bl == f.blocked
             total == Total(f)
  <2>1. /\ av \in Int /\ bl \in Int /\ total \in Int
        /\ g.available = av + (-a) /\ g.blocked = bl + a /\ Total(g) = total + a
    BY <1>2, <1>4, <1>5
  <2>2. \A k \in OrderId : k # i => g.blocks[k] = f.blocks[k] BY <1>5
  <2>3. g.blocks[i] = held + a BY <1>5
  <2>4. held + a = amount
    <3> HIDE DEF held
    <3> QED BY <1>3 DEF a
  <2> HIDE DEF av, bl, total, a
  <2>5. g.available + g.blocked = av + bl /\ g.blocked - Total(g) = bl - total BY <1>3, <2>1
  <2> QED BY <1>4, <2>2, <2>3, <2>4, <2>5 DEF Rebooked, av, bl, total
<1>7. d = WithCash(e, g)
  <2>1. CASE amount > held
    <3>1. amount - held <= f.available
      <4> DEFINE av == f.available
      <4>1. av \in Int /\ amount <= av + held BY <1>2, <2>1
      <4> HIDE DEF av, held
      <4>2. amount - held <= av BY <1>3, <4>1
      <4> QED BY <4>2 DEF av
    <3>2. Block(f, i, a) = g BY <1>1, <1>3, LedgerOps DEF g
    <3>3. CanBlock(f, amount - held) BY <3>1 DEF CanBlock
    <3>4. d = [e EXCEPT !.funds = Block(f, i, a)]
      <4> HIDE DEF held
      <4> QED BY <1>3, <2>1, <3>3 DEF Reblock
    <3> QED BY <3>2, <3>4, Zenon DEF WithCash
  <2>2. CASE amount < held
    <3> DEFINE b == held - amount
    <3>1. b \in Int /\ -b = a /\ b = -a
      <4> HIDE DEF held
      <4> QED BY <1>3 DEF a, b
    <3>2. d = [e EXCEPT !.funds = Release(f, i, b)]
      <4> HIDE DEF held
      <4> QED BY <1>3, <2>2 DEF Reblock
    <3> HIDE DEF b
    <3>3. Release(f, i, b) = Moved(f, i, -b, b) BY <1>1, <3>1, LedgerOps
    <3>4. Release(f, i, b) = g BY <3>1, <3>3, Zenon DEF g
    <3> QED BY <3>2, <3>4, Zenon DEF WithCash
  <2>3. CASE amount = held
    <3>1. d = e
      <4> HIDE DEF held
      <4> QED BY <1>3, <2>3 DEF Reblock
    <3>2. g = f
      <4>1. a = 0 BY <1>3, <2>3
      <4>2. g.available = f.available /\ g.blocked = f.blocked
        <5> HIDE DEF a
        <5>1. -a = 0 - a BY <1>3
        <5>2. -a = 0 BY <4>1, <5>1
        <5> QED BY <1>2, <1>5, <4>1, <5>2
      <4>3. g.blocks = f.blocks BY <1>2, <1>5, <4>1
      <4> QED BY <1>1, <1>4, <4>2, <4>3 DEF Ledgers
    <3>3. WithCash(e, f) = e BY DEF WithCash, Engines
    <3> QED BY <3>1, <3>2, <3>3
  <2> QED BY <1>3, <2>1, <2>2, <2>3
<1> HIDE DEF d
<1>8. d.funds = g BY <1>4, <1>7, WithFunds
<1> QED BY <1>6, <1>7, <1>8 DEF d

-----------------------------------------------------------------------------
(* 9:15.                                                                   *)

\* An order's status changed.
StatusOf(o, status) == [o EXCEPT !.status = status]

LEMMA StatusChanged ==
  ASSUME NEW o \in OrderRecords, Live(o), NEW status \in {"OPEN", "REJECTED"}
  PROVE  LET r == StatusOf(o, status) IN
         /\ r \in OrderRecords /\ r.status = status
         /\ r.side = o.side /\ r.type = o.type /\ r.product = o.product /\ r.qty = o.qty
         /\ r.price = o.price /\ r.filled = o.filled /\ r.exit = o.exit /\ Left(r) = Left(o)
<1> DEFINE r == StatusOf(o, status)
<1>1. /\ r.status = status
      /\ r.side = o.side /\ r.type = o.type /\ r.product = o.product /\ r.qty = o.qty
      /\ r.price = o.price /\ r.filled = o.filled /\ r.exit = o.exit
  BY DEF StatusOf, OrderRecords
<1>2. r \in [side : Sides, type : {"MARKET", "LIMIT"}, product : Products, qty : Nat,
             price : Int \cup {None}, filled : Nat,
             status : {"AMO", "OPEN", "EXECUTED", "CANCELLED", "REJECTED"}, exit : BOOLEAN]
  BY DEF StatusOf, OrderRecords
<1> HIDE DEF r
<1>3. OrderOk(o) BY OrderFields
<1>4. OrderOk(r) BY <1>1, <1>3 DEF OrderOk, Live
<1> QED BY <1>1, <1>2, <1>4 DEF OrderRecords, Left, r

\* An AMO that is opened, with what it blocks, and matched; and one that is refused.
AmoOpened(e, i, now, d) ==
  \E x : /\ Sane(x, i) /\ Running(x) /\ Covered(x) /\ MatchOk(x, i, now)
         /\ x = Changed(e, i, StatusOf(e.orders[i], "OPEN"), x.funds)
         /\ d = Match(x, i, now, TRUE)
AmoRefused(e, i, now, d) ==
  LET o == e.orders[i] IN
  /\ o.exit => ~ValidateOrder(o, now, o.qty * ValueAt(o, now), o.qty)
  /\ \E y \in Engines : /\ y = Changed(e, i, StatusOf(o, "REJECTED"), y.funds)
                        /\ d = EntryClosed(y, {i})

LEMMA AmoReleased ==
  ASSUME NEW e, Whole(e, 0), Running(e), NEW i \in 1 .. Len(e.orders), e.orders[i].status = "AMO",
         NEW now, now.ltp \in Prices \cup {None}
  PROVE  LET d == ReleaseAmo(e, i, now) IN
         Whole(d, 0) /\ Same(e, d) /\ (AmoOpened(e, i, now, d) \/ AmoRefused(e, i, now, d))
<1> DEFINE o == e.orders[i]
           f == e.funds
           cash == f.available + BlockedFor(f, i)
           ok == IF o.exit THEN ValidateOrder(o, now, o.qty * ValueAt(o, now), o.qty)
                 ELSE ValidateOrder(o, now, cash, SellableQty(e, i))
           amount == BlockAmount(o, now)
           kept == IF o.exit THEN e ELSE Reblock(e, i, amount)
           open == StatusOf(o, "OPEN")
           gone == StatusOf(o, "REJECTED")
           freed == ReleaseAll(f, {i})
           x == Changed(e, i, open, kept.funds)
           y == Changed(e, i, gone, freed)
<1>1. /\ e \in Engines /\ Sane(e, 0) /\ Covered(e) /\ BlocksOk(e) /\ RestsOk(e, 0)
  BY NotDebit DEF Whole, Sane
<1>2. /\ o \in OrderRecords /\ i \in Nat \ {0} /\ Len(e.orders) \in Nat /\ DOMAIN e.orders = 1 .. Len(e.orders)
  BY <1>1, EngineLens
<1>3. Sane(e, i) BY <1>1, <1>2, SaneRests
<1>4. f \in Ledgers BY <1>1, EngineFields
<1>5. /\ Live(o) /\ o.filled = 0 /\ OrderOk(o) /\ o.exit \in BOOLEAN
      /\ o.side \in {"BUY", "SELL"} /\ o.type \in {"MARKET", "LIMIT"} /\ o.qty \in Nat /\ Left(o) = o.qty
      /\ o.price \in Circuit \cup {None} /\ (o.type = "MARKET") = (o.price = None)
  <2>1. Live(o) BY DEF Live
  <2>2. OrderOk(o) /\ o.exit \in BOOLEAN /\ o.side \in {"BUY", "SELL"} /\ o.type \in {"MARKET", "LIMIT"} /\ o.qty \in Nat
    BY <1>2, OrderFields DEF Sides
  <2>3. o.filled = 0 /\ o.price \in Circuit \cup {None} /\ (o.type = "MARKET") = (o.price = None)
    BY <2>1, <2>2 DEF OrderOk
  <2>4. Left(o) = o.qty
    <3> DEFINE q == o.qty
    <3>1. Left(o) = q - 0 /\ q \in Int BY <2>2, <2>3 DEF Left
    <3> HIDE DEF q
    <3> QED BY <3>1 DEF q
  <2> QED BY <2>1, <2>2, <2>3, <2>4
<1>6. /\ open \in OrderRecords /\ open.status = "OPEN"
      /\ open.side = o.side /\ open.type = o.type /\ open.product = o.product /\ open.qty = o.qty
      /\ open.price = o.price /\ open.filled = o.filled /\ open.exit = o.exit /\ Left(open) = Left(o)
  BY <1>2, <1>5, StatusChanged
<1>7. /\ gone \in OrderRecords /\ gone.status = "REJECTED"
      /\ gone.side = o.side /\ gone.product = o.product /\ gone.filled = o.filled
  BY <1>2, <1>5, StatusChanged
<1>8. ReleaseAmo(e, i, now) =
        IF ok THEN Match([kept EXCEPT !.orders[i].status = "OPEN"], i, now, TRUE)
        ELSE EntryClosed([e EXCEPT !.funds = freed, !.orders[i].status = "REJECTED"], {i})
  BY DEF ReleaseAmo
<1>9. ~o.exit => i \in OrderId BY <1>1, <1>5 DEF RestsOk, Rests
<1>10. i \in OrderId => Due(o, f.blocks[i]) BY <1>1 DEF BlocksOk
<1> HIDE DEF open, gone
<1>11. CASE ok
  <2>1. \/ o.price = None /\ now.ltp \in Prices /\ ValueAt(o, now) = now.ltp
        \/ o.price \in Prices /\ ValueAt(o, now) = o.price
    <3>1. ValueAt(o, now) # None BY <1>11 DEF ValidateOrder
    <3>2. o.price \in Circuit => o.price \in Prices
      <4>1. Circuit \subseteq Nat \ {0} BY EngineAssumption
      <4> HIDE DEF o
      <4> QED BY <4>1 DEF Prices
    <3>3. ValueAt(o, now) = IF o.price = None THEN now.ltp ELSE o.price BY DEF ValueAt
    <3>4. o.price = None => now.ltp \in Prices BY <3>1, <3>3
    <3>5. o.price # None => o.price \in Prices BY <1>5, <3>2
    <3> QED BY <3>3, <3>4, <3>5
  <2>2. ~o.exit => /\ amount \in Nat /\ (amount > f.blocks[i] => amount <= f.available + f.blocks[i])
                   /\ amount = IF o.side = "SELL" THEN 0 ELSE o.qty * ValueAt(o, now)
    <3> SUFFICES ASSUME ~o.exit
                 PROVE  /\ amount \in Nat /\ (amount > f.blocks[i] => amount <= f.available + f.blocks[i])
                        /\ amount = IF o.side = "SELL" THEN 0 ELSE o.qty * ValueAt(o, now)
      OBVIOUS
    <3>1. amount = IF o.side = "SELL" THEN 0 ELSE o.qty * ValueAt(o, now) BY DEF BlockAmount
    <3>2. BlockedFor(f, i) = f.blocks[i] BY <1>9 DEF BlockedFor
    <3> DEFINE v == ValueAt(o, now)
               q == o.qty
               have == f.available + f.blocks[i]
    <3>3. v \in Nat /\ q \in Nat BY <1>5, <2>1 DEF Prices
    <3>4. o.side # "SELL" => q * v <= have BY <1>11, <3>2 DEF ValidateOrder
    <3>5. o.side = "SELL" => f.blocks[i] = 0 BY <1>9, <1>10 DEF Due
    <3> HIDE DEF v, q, have
    <3>6. q * v \in Nat BY <3>3
    <3>7. o.side = "SELL" => ~(0 > f.blocks[i]) BY <3>5
    <3>8. amount = IF o.side = "SELL" THEN 0 ELSE q * v BY <3>1 DEF v, q
    <3> HIDE DEF amount
    <3> QED BY <3>4, <3>6, <3>7, <3>8 DEF v, q, have
  <2>3. /\ kept = WithCash(e, kept.funds) /\ Rebooked(f, kept.funds, i)
        /\ i \in OrderId => kept.funds.blocks[i] = IF o.exit THEN f.blocks[i] ELSE amount
    <3>1. CASE o.exit
      <4>1. kept = e BY <3>1
      <4>2. WithCash(e, e.funds) = e BY <1>1 DEF WithCash, Engines
      <4> QED BY <1>4, <3>1, <4>1, <4>2 DEF Rebooked
    <3>2. CASE ~o.exit
      <4> DEFINE k == Reblock(e, i, amount)
      <4>1. kept = k BY <3>2
      <4> HIDE DEF amount
      <4>2. k = WithCash(e, k.funds) /\ Rebooked(e.funds, k.funds, i) /\ k.funds.blocks[i] = amount
        BY <1>1, <1>9, <2>2, <3>2, Reblocked
      <4> HIDE DEF k, kept
      <4> QED BY <3>2, <4>1, <4>2
    <3> QED BY <3>1, <3>2
  <2> HIDE DEF kept
  <2> DEFINE g == kept.funds
  <2>4. i \in OrderId => Due(open, g.blocks[i])
    <3> SUFFICES ASSUME i \in OrderId PROVE Due(open, g.blocks[i]) OBVIOUS
    <3>1. Live(open) BY <1>6 DEF Live
    <3>2. OrderWorth(open) = OrderWorth(o) BY <1>6 DEF OrderWorth
    <3>3. CASE o.exit
      <4>1. g.blocks[i] = f.blocks[i] BY <2>3, <3>3
      <4>2. Due(o, g.blocks[i]) BY <1>10, <4>1
      <4> HIDE DEF g, o
      <4> QED BY <1>5, <1>6, <3>1, <3>2, <4>2 DEF Due, o
    <3>4. CASE ~o.exit
      <4> DEFINE b == g.blocks[i]
      <4>1. b = amount BY <2>3, <3>4
      <4>2. amount \in Nat /\ amount = IF o.side = "SELL" THEN 0 ELSE o.qty * ValueAt(o, now) BY <2>2, <3>4
      <4>3. o.type = "LIMIT" => OrderWorth(o) = o.qty * ValueAt(o, now)
        <5>1. o.type = "LIMIT" => o.price # None BY <1>5
        <5> QED BY <1>5, <2>1, <5>1 DEF OrderWorth
      <4>4. (o.side # "BUY" => b = 0) /\ b >= 0 /\ (o.side = "BUY" /\ o.type = "LIMIT" => b = OrderWorth(o))
        <5> HIDE DEF amount, b
        <5> QED BY <1>5, <4>1, <4>2, <4>3
      <4> HIDE DEF b, o
      <4> QED BY <1>6, <3>1, <3>2, <3>4, <4>4 DEF Due, o, b
    <3> QED BY <3>3, <3>4
  <2>5. /\ Sane(x, i) /\ Running(x) /\ Same(e, x) /\ x.orders[i] = open /\ x.funds = g
        /\ Asked(x) = Asked(e) - Asks(o) + Asks(open) /\ Owned(x) = Owned(e)
    <3>1. /\ Rebooked(e.funds, g, i) BY <2>3
    <3>2. o.status = "OPEN" => open.status = "OPEN" BY <1>6
    <3> HIDE DEF g
    <3>3. x = Changed(e, i, open, g) BY DEF g
    <3> HIDE DEF x
    <3>4. LET d == Changed(e, i, open, g) IN
         /\ Sane(d, i) /\ Running(d) /\ Same(e, d) /\ d.orders[i] = open /\ d.funds = g
         /\ Asked(d) = Asked(e) - Asks(e.orders[i]) + Asks(open) /\ Owned(d) = Owned(e)
      BY <1>3, <1>6, <2>4, <3>1, <3>2, ChangedSane
    <3> QED BY <3>3, <3>4
  <2>6. Covered(x)
    <3>1. Asks(open) = Asks(o) BY <1>5, <1>6 DEF Asks, Live
    <3> DEFINE a == Asked(e)
               b == Asks(o)
    <3>2. a \in Int /\ b \in Int
      <4>1. b \in Nat BY <1>2, AsksIsNat
      <4> QED BY <1>1, <4>1, AskedIsInt
    <3>3. Asked(x) = a - b + b /\ a <= Owned(x) BY <1>1, <2>5, <3>1 DEF Covered
    <3> HIDE DEF a, b
    <3>4. a - b + b = a BY <3>2
    <3> QED BY <3>3, <3>4 DEF Covered
  <2>7. i \in 1 .. Len(x.orders) BY <2>5 DEF Same
  <2>8. MatchOk(x, i, now)
    <3>1. x.orders[i].status = "OPEN" /\ x.orders[i].exit = o.exit BY <1>6, <2>5
    <3>2. ~o.exit /\ open.type = "MARKET" =>
            /\ now.ltp # None
            /\ open.side = "BUY" => Left(open) * now.ltp <= x.funds.blocks[i]
      <4> SUFFICES ASSUME ~o.exit, open.type = "MARKET"
                   PROVE /\ now.ltp # None
                         /\ open.side = "BUY" => Left(open) * now.ltp <= x.funds.blocks[i]
        OBVIOUS
      <4>1. o.price = None BY <1>5, <1>6
      <4>2. now.ltp \in Prices /\ ValueAt(o, now) = now.ltp
        <5>1. None \notin Prices BY TrailAssumption DEF Prices
        <5> QED BY <2>1, <4>1, <5>1
      <4>3. now.ltp # None BY <4>2, TrailAssumption DEF Prices
      <4>4. o.side = "BUY" => x.funds.blocks[i] = o.qty * now.ltp /\ o.qty * now.ltp \in Nat
        <5> SUFFICES ASSUME o.side = "BUY" PROVE x.funds.blocks[i] = o.qty * now.ltp /\ o.qty * now.ltp \in Nat
          OBVIOUS
        <5>1. amount = o.qty * ValueAt(o, now) /\ amount \in Nat BY <2>2
        <5>2. x.funds.blocks[i] = amount BY <1>9, <2>3, <2>5
        <5> HIDE DEF amount
        <5> QED BY <4>2, <5>1, <5>2
      <4>5. Left(open) = o.qty /\ open.side = o.side BY <1>5, <1>6
      <4>6. open.side = "BUY" => Left(open) * now.ltp <= x.funds.blocks[i]
        <5> DEFINE p == o.qty * now.ltp
        <5>1. open.side = "BUY" => x.funds.blocks[i] = p /\ p \in Nat BY <4>4, <4>5
        <5>2. Left(open) * now.ltp = p BY <4>5
        <5> HIDE DEF p
        <5> QED BY <5>1, <5>2
      <4> QED BY <4>3, <4>6
    <3> QED BY <1>9, <2>5, <3>1, <3>2 DEF MatchOk
  <2>9. [kept EXCEPT !.orders[i].status = "OPEN"] = x
    <3>1. [kept EXCEPT !.orders[i].status = "OPEN"]
            = [WithCash(e, g) EXCEPT !.orders[i].status = "OPEN"]
      BY <2>3
    <3> HIDE DEF g
    <3>2. [WithCash(e, g) EXCEPT !.orders[i].status = "OPEN"] = Changed(e, i, open, g)
      <4>1. o = e.orders[i] OBVIOUS
      <4> HIDE DEF o
      <4> QED BY <1>1, <1>2, <4>1 DEF WithCash, Changed, Engines, StatusOf, open
    <3> QED BY <3>1, <3>2 DEF g
  <2> DEFINE m == Match(x, i, now, TRUE)
  <2> HIDE DEF x
  <2>10. Whole(m, 0) /\ Same(x, m)
    <3>1. TRUE \in BOOLEAN OBVIOUS
    <3> QED BY <2>5, <2>6, <2>7, <2>8, <3>1, MatchSane
  <2> HIDE DEF m
  <2>11. ReleaseAmo(e, i, now) = m
    <3> HIDE DEF ok
    <3> QED BY <1>8, <1>11, <2>9 DEF m
  <2>12. AmoOpened(e, i, now, m)
    <3>1. x = Changed(e, i, StatusOf(e.orders[i], "OPEN"), x.funds)
      <4>1. x = Changed(e, i, open, g) BY DEF x
      <4> QED BY <2>5, <4>1 DEF open
    <3> HIDE DEF g, o, open
    <3> QED BY <2>5, <2>6, <2>8, <3>1 DEF AmoOpened, m
  <2> QED BY <2>5, <2>10, <2>11, <2>12 DEF Same
<1>12. CASE ~ok
  <2> DEFINE z == EntryClosed(y, {i})
  <2>1. freed \in Ledgers /\ Rebooked(f, freed, i) /\ (i \in OrderId => freed.blocks[i] = 0)
    <3> DEFINE I == {i}
    <3>1. /\ ReleaseAll(f, I) \in Ledgers
          /\ ReleaseAll(f, I).blocks = [k \in OrderId |-> IF k \in I THEN 0 ELSE f.blocks[k]]
          /\ ReleaseAll(f, I).available + ReleaseAll(f, I).blocked = f.available + f.blocked
          /\ ReleaseAll(f, I).blocked - Total(ReleaseAll(f, I)) = f.blocked - Total(f)
      <4> HIDE DEF I
      <4> QED BY <1>4, LedgerFreed
    <3> HIDE DEF freed
    <3>2. freed = ReleaseAll(f, I) BY DEF freed
    <3>3. \A k \in OrderId : freed.blocks[k] = IF k = i THEN 0 ELSE f.blocks[k] BY <3>1, <3>2
    <3> QED BY <3>1, <3>2, <3>3 DEF Rebooked
  <2> HIDE DEF freed
  <2>2. Due(gone, 0) BY <1>7 DEF Due, Live
  <2>3. i \in OrderId => Due(gone, freed.blocks[i]) BY <2>1, <2>2
  <2>4. /\ Sane(y, i) /\ Running(y) /\ Same(e, y) /\ y.orders[i] = gone
        /\ Asked(y) = Asked(e) - Asks(o) + Asks(gone) /\ Owned(y) = Owned(e)
    <3>1. Rebooked(e.funds, freed, i) BY <2>1
    <3>2. o.status = "OPEN" => gone.status = "OPEN" OBVIOUS
    <3> QED BY <1>3, <1>7, <2>3, <3>1, <3>2, ChangedSane
  <2>5. Covered(y)
    <3> DEFINE a == Asked(e)
               b == Asks(o)
               w == Owned(e)
    <3>1. a \in Int /\ b \in Nat /\ w \in Nat /\ a <= w
      <4>1. b \in Nat BY <1>2, AsksIsNat
      <4>2. w \in Nat BY <1>1, OwnedIs
      <4>3. a \in Int BY <1>1, AskedIsInt
      <4> QED BY <1>1, <4>1, <4>2, <4>3 DEF Covered
    <3>2. Asks(gone) = 0 BY <1>7 DEF Asks, Live
    <3>3. Asked(y) = a - b + 0 /\ Owned(y) = w BY <2>4, <3>2
    <3> HIDE DEF a, b, w
    <3>4. a - b + 0 <= w BY <3>1
    <3> QED BY <3>3, <3>4 DEF Covered
  <2>6. [e EXCEPT !.funds = freed, !.orders[i].status = "REJECTED"] = y
    <3>1. o = e.orders[i] OBVIOUS
    <3> HIDE DEF o
    <3> QED BY <1>1, <1>2, <3>1 DEF Changed, Engines, StatusOf, gone
  <2> HIDE DEF y
  <2>7. Sane(y, 0)
    <3>1. Rests(y.orders[i], i) BY <1>7, <2>4 DEF Rests, Live
    <3> QED BY <1>2, <2>4, <3>1, SaneRests
  <2>8. Whole(z, 0) /\ Same(y, z)
    <3> DEFINE T == {t \in DOMAIN y.stops : y.stops[t].entry \in {i} /\ y.stops[t].status = "PENDING_ENTRY"}
               c == EndStops(y, T)
    <3>1. z = c BY DEF EntryClosed
    <3>2. y \in Engines /\ StopsOk(y) BY <2>7 DEF Sane
    <3> HIDE DEF T
    <3>3. c \in After(y) /\ OnlyEnd(y, c) BY <3>2, StopsEnd
    <3> HIDE DEF c, z
    <3>4. StopsOk(c) BY <3>2, <3>3, OnlyEndOk
    <3>5. Sane(c, 0) /\ Running(c) /\ (Covered(y) => Covered(c)) BY <2>4, <2>7, <3>3, <3>4, AfterSane
    <3>6. Same(y, c) BY <3>3 DEF After, Same
    <3> QED BY <2>5, <3>1, <3>5, <3>6 DEF Whole
  <2>9. ReleaseAmo(e, i, now) = z
    <3> HIDE DEF ok
    <3> QED BY <1>8, <1>12, <2>6
  <2>10. AmoRefused(e, i, now, z)
    <3>1. y = Changed(e, i, StatusOf(e.orders[i], "REJECTED"), y.funds)
      <4>1. y = Changed(e, i, gone, freed) /\ y.funds = freed BY <1>2, <2>1, ChangedIs, <1>1, <1>7 DEF y
      <4> QED BY <4>1 DEF gone
    <3>2. y \in Engines BY <2>7 DEF Sane
    <3>3. e.orders[i].exit =>
            ~ValidateOrder(e.orders[i], now, e.orders[i].qty * ValueAt(e.orders[i], now), e.orders[i].qty)
      BY <1>12
    <3> HIDE DEF o, ok
    <3> QED BY <3>1, <3>2, <3>3 DEF AmoRefused
  <2> HIDE DEF z
  <2> QED BY <2>4, <2>8, <2>9, <2>10 DEF Same
<1> QED BY <1>11, <1>12

LEMMA AmosReleased ==
  ASSUME NEW e, Whole(e, 0), NEW now, now.ltp \in Prices \cup {None}
  PROVE  LET d == ReleaseAmos(e, now) IN Whole(d, 0) /\ Same(e, d)
<1> DEFINE V == {d \in Engines : Whole(d, 0) /\ Same(e, d)}
           n == Len(e.orders)
           turn == [p \in (1 .. n) \X V |-> ReleaseAt(p[2], p[1], now)]
           loop == CHOOSE g : g = [k \in 0 .. n |-> IF k = 0 THEN e ELSE ReleaseAt(g[k - 1], k, now)]
<1>1. e \in Engines /\ n \in Nat /\ Len(e.orders) \in Nat
  <2>1. e \in Engines BY DEF Whole, Sane
  <2> QED BY <2>1, EngineLens
<1>2. e \in V BY <1>1 DEF Same
<1>3. ASSUME NEW k \in 1 .. n, NEW v \in V PROVE ReleaseAt(v, k, now) \in V
  <2> DEFINE d == ReleaseAmo(v, k, now)
  <2>1. v \in Engines /\ Whole(v, 0) /\ Same(e, v) OBVIOUS
  <2>2. CASE ReleaseAt(v, k, now) = v BY <2>2
  <2>3. CASE ReleaseAt(v, k, now) # v
    <3>1. Running(v) /\ v.orders[k].status = "AMO" /\ ReleaseAt(v, k, now) = d
      BY <2>3, Zenon DEF ReleaseAt, Running
    <3>2. k \in 1 .. Len(v.orders) BY <1>1, <2>1 DEF Same
    <3>3. Whole(d, 0) /\ Same(v, d) BY <2>1, <3>1, <3>2, AmoReleased
    <3> HIDE DEF d
    <3>4. d \in Engines BY <3>3 DEF Whole, Sane
    <3>5. Same(e, d) BY <2>1, <3>3 DEF Same
    <3> QED BY <3>1, <3>3, <3>4, <3>5
  <2> QED BY <2>2, <2>3
<1>4. ASSUME NEW k \in 1 .. n, NEW v \in V PROVE turn[<<k, v>>] = ReleaseAt(v, k, now)
  <2> HIDE DEF V, n
  <2> QED OBVIOUS
<1>5. \A k \in 1 .. n, v \in V : turn[<<k, v>>] \in V BY <1>3, <1>4, Zenon
<1> HIDE DEF V, turn, n
<1>6. PICK f : /\ f = [k \in 0 .. n |-> IF k = 0 THEN e ELSE turn[<<k, f[k - 1]>>]]
               /\ \A k \in 0 .. n : f[k] \in V
  <2>1. Loops(V, e, n, turn) BY <1>1, <1>2, <1>5, LoopThere
  <2> QED BY <2>1, Zenon DEF Loops
<1>7. f = [k \in 0 .. n |-> IF k = 0 THEN e ELSE ReleaseAt(f[k - 1], k, now)]
  <2>1. \A k \in 0 .. n : k # 0 => turn[<<k, f[k - 1]>>] = ReleaseAt(f[k - 1], k, now)
    <3> SUFFICES ASSUME NEW k \in 0 .. n, k # 0
                 PROVE turn[<<k, f[k - 1]>>] = ReleaseAt(f[k - 1], k, now) OBVIOUS
    <3>1. k \in 1 .. n /\ k - 1 \in 0 .. n BY <1>1
    <3> QED BY <1>4, <1>6, <3>1
  <2> QED BY <1>6, <2>1, Zenon
<1>8. loop = [k \in 0 .. n |-> IF k = 0 THEN e ELSE ReleaseAt(loop[k - 1], k, now)]
  BY <1>7
<1>9. ReleaseAmos(e, now) = loop[n] BY DEF ReleaseAmos, n
<1> HIDE DEF loop
<1>10. loop[0] \in V BY <1>1, <1>2, <1>8
<1>11. \A k \in 1 .. n : loop[k - 1] \in V => loop[k] \in V
  <2> SUFFICES ASSUME NEW k \in 1 .. n, loop[k - 1] \in V PROVE loop[k] \in V OBVIOUS
  <2>1. loop[k] = ReleaseAt(loop[k - 1], k, now) BY <1>1, <1>8
  <2> QED BY <1>3, <2>1
<1>12. loop[n] \in V
  <2>1. n \in Nat BY <1>1
  <2> QED BY <1>10, <1>11, <2>1, LoopStays
<1> QED BY <1>9, <1>12 DEF V

-----------------------------------------------------------------------------
(* 15:20 and 15:30.                                                        *)

LEMMA WholeAfter ==
  ASSUME NEW e, Whole(e, 0), Running(e), NEW d \in After(e), StopsOk(d)
  PROVE  Whole(d, 0) /\ Running(d) /\ Same(e, d) /\ d.books = e.books
<1>1. Sane(e, 0) /\ Covered(e) BY DEF Whole
<1>2. Sane(d, 0) /\ Running(d) /\ (Covered(e) => Covered(d)) BY <1>1, AfterSane
<1>3. Same(e, d) /\ d.books = e.books BY DEF After, Same
<1> QED BY <1>1, <1>2, <1>3 DEF Whole

LEMMA StopsCancelledWhole ==
  ASSUME NEW e, Whole(e, 0), Running(e), NEW T
  PROVE  LET d == CancelStops(e, T) IN Whole(d, 0) /\ Running(d) /\ Same(e, d) /\ d.books = e.books
<1> DEFINE d == CancelStops(e, T)
<1>1. e \in Engines /\ StopsOk(e) BY DEF Whole, Sane
<1>2. d \in After(e) /\ OnlyEnd(e, d) BY <1>1, StopsCancelled
<1> HIDE DEF d
<1>3. StopsOk(d) BY <1>1, <1>2, OnlyEndOk
<1> QED BY <1>2, <1>3, WholeAfter DEF d

LEMMA OrdersCancelledWhole ==
  ASSUME NEW e, Whole(e, 0), Running(e), NEW I \in SUBSET LiveOrders(e)
  PROVE  LET d == CancelOrders(e, I) IN Whole(d, 0) /\ Running(d) /\ Same(e, d) /\ d.books = e.books
<1> DEFINE d == CancelOrders(e, I)
<1>1. e \in Engines /\ StopsOk(e) BY DEF Whole, Sane
<1>2. d \in After(e) /\ OnlyEnd(e, d) BY <1>1, OrdersCancelled
<1> HIDE DEF d
<1>3. StopsOk(d) BY <1>1, <1>2, OnlyEndOk
<1> QED BY <1>2, <1>3, WholeAfter DEF d

LEMMA OnTickIs ==
  ASSUME NEW price \in Int
  PROVE  OnTick(price) \in Prices
<1> DEFINE k == (2 * price + TickSize) \div (2 * TickSize)
<1>1. TickSize \in Nat \ {0} /\ 2 * TickSize \in Nat \ {0} /\ 2 * price + TickSize \in Int BY TrailAssumption
<1>2. k \in Int BY <1>1, DivBounds
<1>3. OnTick(price) = Most(TickSize, k * TickSize) BY DEF OnTick
<1> HIDE DEF k
<1>4. k * TickSize \in Int BY <1>1, <1>2
<1> DEFINE x == k * TickSize
<1> HIDE DEF x
<1>5. x \in Int BY <1>4 DEF x
<1>6. Most(TickSize, x) \in Nat \ {0} BY <1>1, <1>5 DEF Most
<1> QED BY <1>3, <1>6 DEF x, Prices

\* The position is closed by an order of its own, whatever the cash.
Squares(e, x, i, o, price, d) ==
  /\ Net(e, "INTRADAY") # 0
  /\ o \in OrderRecords /\ o.status = "OPEN" /\ o.product = "INTRADAY" /\ ~o.exit /\ Left(o) \in Nat \ {0}
  /\ i = Len(e.orders) + 1 /\ x = Stored(e, o, e.funds, e.stops)
  /\ Sane(x, i) /\ Running(x) /\ Covered(x) /\ price \in Prices
  /\ d = Execute(x, i, Left(o), price, TRUE)
SquaresOff(e, d) == \E x, i, o, price : Squares(e, x, i, o, price, d)

LEMMA PositionClosedOnly ==
  ASSUME NEW e, Whole(e, 0), Running(e), NEW now, now.ltp \in Prices \cup {None}
  PROVE  LET d == ClosePositionOnly(e, now) IN
         /\ Whole(d, 0) /\ Running(d) /\ Grows(e, d) /\ Net(d, "INTRADAY") = 0
         /\ d = e \/ SquaresOff(e, d)
<1> DEFINE book == e.books["INTRADAY"]
           net == book.netQty
           d == [side |-> IF net > 0 THEN "SELL" ELSE "BUY", type |-> "MARKET",
                 product |-> "INTRADAY", qty |-> Abs(net), price |-> None]
           o == NewOrder(d, "OPEN", FALSE)
           x == Stored(e, o, e.funds, e.stops)
           i == Len(e.orders) + 1
           price == IF now.ltp = None THEN OnTick(AveragePrice(book)) ELSE now.ltp
           r == Execute(x, i, d.qty, price, TRUE)
<1>1. e \in Engines /\ Sane(e, 0) /\ Covered(e) /\ StopsOk(e) BY DEF Whole, Sane
<1>2. Len(e.orders) \in Nat /\ i \in Nat \ {0} BY <1>1, EngineLens
<1>3. book \in Positions /\ net \in Int /\ Net(e, "INTRADAY") = net /\ book.openCost \in Nat
  BY <1>1, BookFields DEF Products, Net
<1>4. CASE net = 0
  <2>1. ClosePositionOnly(e, now) = e BY <1>4 DEF ClosePositionOnly
  <2> QED BY <1>2, <1>3, <1>4, <2>1 DEF Grows
<1>5. CASE net # 0
  <2>1. /\ d.side \in Sides /\ d.type \in {"MARKET", "LIMIT"} /\ d.product \in Products
        /\ d.qty \in Nat \ {0} /\ d.price \in Int \cup {None} /\ (d.type = "MARKET") = (d.price = None)
        /\ d.product = "INTRADAY" /\ d.type = "MARKET" /\ d.price = None
        /\ d.side = IF net > 0 THEN "SELL" ELSE "BUY"
    <3>1. Abs(net) \in Nat \ {0}
      <4> HIDE DEF net
      <4> QED BY <1>3, <1>5 DEF Abs
    <3> QED BY <3>1 DEF Sides, Products
  <2>2. d.qty = IF net > 0 THEN net ELSE 0 - net
    <3> HIDE DEF net
    <3> QED BY <1>3 DEF Abs
  <2> HIDE DEF d
  <2>3. /\ o \in OrderRecords /\ o.side = d.side /\ o.type = "MARKET" /\ o.product = "INTRADAY"
        /\ o.price = None /\ o.filled = 0 /\ o.status = "OPEN" /\ o.exit = FALSE /\ Left(o) = d.qty
    <3>1. "OPEN" \in {"AMO", "OPEN", "REJECTED"} /\ FALSE \in BOOLEAN OBVIOUS
    <3>2. "OPEN" # "REJECTED" => d.price \in Circuit \cup {None} BY <2>1
    <3> QED BY <2>1, <3>1, <3>2, NewOrderIs
  <2> HIDE DEF o
  <2>4. e.funds \in Ledgers /\ e.stops \in Seq(StopRecords) BY <1>1, EngineFields
  <2>5. /\ x \in Engines /\ Len(x.orders) = i /\ x.orders[i] = o /\ x.stops = e.stops /\ x.synced = e.synced
        /\ x.books = e.books
    BY <1>1, <2>3, <2>4, StoredIs
  <2>6. [e EXCEPT !.orders = Append(e.orders, o)] = x BY <1>1 DEF Stored, Engines
  <2>7. Due(o, 0) BY <2>3 DEF Due
  <2>8. \A t \in 1 .. Len(e.stops) : StopOk(e.stops[t]) BY <1>1 DEF StopsOk
  <2>9. /\ Sane(x, i) /\ Running(x) /\ Asked(x) = Asked(e) + Asks(o) /\ Owned(x) = Owned(e)
    <3>1. 0 \in Int /\ 0 = 0 /\ e.funds = e.funds OBVIOUS
    <3> HIDE DEF x
    <3> QED BY <1>1, <2>3, <2>4, <2>7, <2>8, <3>1, StoredSane DEF x
  <2>10. ClosePositionOnly(e, now) = r
    <3>1. ClosePositionOnly(e, now)
            = LET placed == [e EXCEPT !.orders = Append(e.orders, o)] IN
              Execute(placed, Len(placed.orders), d.qty, price, TRUE)
      BY <1>5 DEF ClosePositionOnly, d, o
    <3> HIDE DEF x, price
    <3> QED BY <2>5, <2>6, <3>1 DEF x
  <2> HIDE DEF x
  <2>11. Covered(x)
    <3>1. Asks(o) = 0 BY <2>3 DEF Asks
    <3>2. Asked(e) \in Int /\ Asked(e) <= Owned(e) BY <1>1, AskedIsInt DEF Covered
    <3>3. Asked(x) = Asked(e) BY <2>9, <3>1, <3>2
    <3> QED BY <2>9, <3>2, <3>3 DEF Covered
  <2>12. price \in Prices
    <3>1. AveragePrice(book) \in Int
      <4> DEFINE c == book.openCost
                 m == Abs(net)
      <4>1. m \in Nat \ {0} /\ c \in Int
        <5> HIDE DEF net
        <5> QED BY <1>3, <1>5 DEF Abs
      <4>2. AveragePrice(book) = MulDivRound(c, 1, m) BY <1>5 DEF AveragePrice
      <4> HIDE DEF c, m
      <4>3. 1 \in Int OBVIOUS
      <4> QED BY <4>1, <4>2, <4>3, RoundIsInt
    <3>2. OnTick(AveragePrice(book)) \in Prices BY <3>1, OnTickIs
    <3> QED BY <3>2
  <2> HIDE DEF price
  <2>13. i \in 1 .. Len(x.orders) BY <1>2, <2>5
  <2>14. d.qty \in 1 .. Left(x.orders[i]) /\ d.qty = Left(x.orders[i]) BY <2>1, <2>3, <2>5
  <2>15. /\ Whole(r, 0) /\ Same(x, r) /\ Running(r)
         /\ Net(r, "INTRADAY") = Net(x, "INTRADAY") + Traded(o, "INTRADAY", d.qty)
    <3> DEFINE n == d.qty
    <3>1. TRUE \in BOOLEAN /\ x.orders[i].status = "OPEN" /\ x.orders[i].exit = FALSE BY <2>3, <2>5
    <3>2. n \in 1 .. Left(x.orders[i]) /\ n = Left(x.orders[i]) BY <2>14
    <3> HIDE DEF n, i
    <3>3. LET c == Execute(x, i, n, price, TRUE)
              q == x.orders[i] IN
          /\ Whole(c, 0) /\ Same(x, c)
          /\ TRUE \/ q.exit \/ q.side = "SELL" \/ x.funds.available >= 0 => Running(c)
          /\ TRUE /\ Running(c) => Net(c, "INTRADAY") = Net(x, "INTRADAY") + Traded(q, "INTRADAY", n)
      BY <2>9, <2>11, <2>12, <2>13, <3>1, <3>2, ExecuteSane
    <3> QED BY <2>5, <3>3 DEF n
  <2>16. r = Execute(x, i, Left(o), price, TRUE) /\ Left(o) \in Nat \ {0} BY <2>1, <2>3
  <2> HIDE DEF r
  <2>17. SquaresOff(e, r)
    <3> HIDE DEF net, book, i
    <3>1. Sane(x, i) /\ Running(x) /\ Covered(x) BY <2>9, <2>11
    <3>2. o \in OrderRecords /\ o.status = "OPEN" /\ o.product = "INTRADAY" /\ ~o.exit BY <2>3
    <3>3. Squares(e, x, i, o, price, r) BY <1>3, <1>5, <2>12, <2>16, <3>1, <3>2 DEF Squares, x, i
    <3> QED BY <3>3, Zenon DEF SquaresOff
  <2>18. Net(r, "INTRADAY") = 0
    <3>1. Net(x, "INTRADAY") = net BY <2>5 DEF Net
    <3> DEFINE q == d.qty
    <3>2. Traded(o, "INTRADAY", q) = IF o.side = "BUY" THEN q ELSE -q BY <2>3 DEF Traded
    <3>3. o.side = IF net > 0 THEN "SELL" ELSE "BUY" BY <2>1, <2>3
    <3>4. q = IF net > 0 THEN net ELSE 0 - net BY <2>2
    <3>5. Net(r, "INTRADAY") = net + Traded(o, "INTRADAY", q) BY <2>15, <3>1
    <3> HIDE DEF q, net, o
    <3>6. net \in Int BY <1>3
    <3> QED BY <3>2, <3>3, <3>4, <3>5, <3>6
  <2>19. Grows(e, r) BY <1>2, <2>5, <2>15 DEF Same, Grows
  <2> QED BY <2>10, <2>15, <2>18, <2>19, <2>17
<1> QED BY <1>4, <1>5

LEMMA GrowsFrom ==
  ASSUME NEW e \in Engines, NEW d \in Engines, NEW c \in Engines
  PROVE  /\ Same(e, d) => Grows(e, d)
         /\ Grows(e, d) /\ Grows(d, c) => Grows(e, c)
<1>1. Len(e.orders) \in Nat BY EngineLens
<1>2. Len(d.orders) \in Nat BY EngineLens
<1>3. Len(c.orders) \in Nat BY EngineLens
<1> QED BY <1>1, <1>2, <1>3 DEF Same, Grows

LEMMA SquaredOff ==
  ASSUME NEW e, Whole(e, 0), Running(e), NEW now, now.ltp \in Prices \cup {None}
  PROVE  LET d == SquareOffIntraday(e, now) IN
         Whole(d, 0) /\ Running(d) /\ Grows(e, d) /\ Net(d, "INTRADAY") = 0
<1> DEFINE x == StopsEnded(e, "INTRADAY")
           I == OpenOrders(x) \cap OrdersIn(x, "INTRADAY")
           y == CancelOrders(x, I)
           z == ClosePositionOnly(y, now)
<1>1. Whole(x, 0) /\ Running(x) /\ Same(e, x) BY StopsCancelledWhole DEF StopsEnded
<1>2. SquareOffIntraday(e, now) = z BY DEF SquareOffIntraday, CancelOpenIn
<1> HIDE DEF x
<1>3. x \in Engines BY <1>1 DEF Whole, Sane
<1>4. I \in SUBSET LiveOrders(x) BY <1>3, LiveAre
<1> HIDE DEF I
<1>5. Whole(y, 0) /\ Running(y) /\ Same(x, y) BY <1>1, <1>4, OrdersCancelledWhole
<1> HIDE DEF y
<1>6. Whole(z, 0) /\ Running(z) /\ Grows(y, z) /\ Net(z, "INTRADAY") = 0 BY <1>5, PositionClosedOnly
<1> HIDE DEF z
<1>7. e \in Engines /\ y \in Engines /\ z \in Engines BY <1>5, <1>6 DEF Whole, Sane
<1>8. Same(e, y) BY <1>1, <1>5 DEF Same
<1>9. Grows(e, y) BY <1>7, <1>8, GrowsFrom
<1>10. Grows(e, z) BY <1>6, <1>7, <1>9, GrowsFrom
<1> QED BY <1>2, <1>6, <1>10

\* The close moves what the positions are worth into the holdings and the past.
LEMMA NewDayWhole ==
  ASSUME NEW e, Whole(e, 0), Running(e), Net(e, "INTRADAY") = 0
  PROVE  LET d == NewDay(e) IN Whole(d, 0) /\ Running(d) /\ Same(e, d)
<1> DEFINE book == e.books["DELIVERY"]
           intra == e.books["INTRADAY"]
           net == book.netQty
           h == e.holding
           lots == IF net > 0 THEN [qty |-> h.qty + net, cost |-> h.cost + book.openCost] ELSE h
           past == e.pastPnl + e.salesPnl + intra.realisedPnl + book.realisedPnl
           flat == [p \in Products |-> EmptyPosition]
           d == [e EXCEPT !.holding = lots, !.pastPnl = past, !.salesPnl = 0, !.books = flat]
<1>1. /\ e \in Engines /\ Sane(e, 0) /\ Covered(e) /\ StopsOk(e) /\ CappedOk(e) /\ Net(e, "DELIVERY") >= 0
      /\ MoneyOk(e) /\ SharesOk(e) /\ BlocksOk(e) /\ RestsOk(e, 0)
  BY NotDebit DEF Whole, Sane
<1>2. /\ net \in Int /\ net >= 0 /\ book.openCost \in Nat /\ book.realisedPnl \in Int /\ SignedCost(book) \in Int
      /\ Net(e, "DELIVERY") = net /\ book \in Positions
  BY <1>1, BookFields DEF Products, Net
<1>3. intra \in Positions /\ intra.realisedPnl \in Int /\ intra.netQty = 0
  BY <1>1, BookFields DEF Products, Net
<1>4. h \in Lots /\ h.qty \in Nat /\ h.cost \in Nat /\ e.pastPnl \in Int /\ e.salesPnl \in Int
  BY <1>1, EngineFields DEF Lots
<1>5. NewDay(e) = d BY DEF NewDay
<1>6. lots \in Lots /\ lots.qty = h.qty + net /\ lots.cost = h.cost + SignedCost(book)
  <2> DEFINE q == h.qty
             c == h.cost
             o == book.openCost
  <2>1. q \in Nat /\ c \in Nat /\ o \in Nat BY <1>2, <1>4
  <2>2. SignedCost(book) = IF net > 0 THEN o ELSE 0 BY <1>2 DEF SignedCost
  <2>3. CASE net > 0
    <3>1. lots = [qty |-> q + net, cost |-> c + o] BY <2>3
    <3> HIDE DEF q, c, o, net, lots
    <3>2. q + net \in Nat /\ c + o \in Nat BY <1>2, <2>1
    <3>3. lots \in Lots /\ lots.qty = q + net /\ lots.cost = c + o BY <3>1, <3>2 DEF Lots
    <3> QED BY <2>2, <2>3, <3>3 DEF q, c
  <2>4. CASE ~(net > 0)
    <3>1. lots = h /\ net = 0 BY <1>2, <2>4
    <3> HIDE DEF lots
    <3>2. lots.qty = q /\ lots.cost = c /\ lots \in Lots BY <1>4, <3>1
    <3> HIDE DEF q, c, net
    <3>3. q + net = q /\ c + 0 = c BY <2>1, <3>1
    <3>4. SignedCost(book) = 0 BY <2>2, <2>4
    <3> QED BY <3>2, <3>3, <3>4 DEF q, c
  <2> QED BY <2>3, <2>4
<1>7. past \in Int
  <2> DEFINE a == e.pastPnl
             b == e.salesPnl
             r == intra.realisedPnl
             s == book.realisedPnl
  <2>1. a \in Int /\ b \in Int /\ r \in Int /\ s \in Int BY <1>2, <1>3, <1>4
  <2> HIDE DEF a, b, r, s
  <2>2. a + b + r + s \in Int BY <2>1
  <2> QED BY <2>2 DEF a, b, r, s
<1>8. flat \in [Products -> Positions] /\ \A p \in Products : flat[p] = EmptyPosition
  <2>1. EmptyPosition \in Positions BY DEF EmptyPosition, Positions, Books
  <2> QED BY <2>1
<1> HIDE DEF lots, past, flat
<1>9. /\ d \in Engines /\ d.holding = lots /\ d.pastPnl = past /\ d.salesPnl = 0 /\ d.books = flat
      /\ d.orders = e.orders /\ d.stops = e.stops /\ d.funds = e.funds /\ d.carried = e.carried
      /\ d.capped = e.capped /\ d.synced = e.synced /\ d.broken = e.broken
  <2>1. e \in Engines /\ lots \in Lots /\ past \in Int /\ 0 \in Int /\ flat \in [Products -> Positions]
    BY <1>1, <1>6, <1>7, <1>8
  <2> HIDE <1>1, <1>6, <1>7, <1>8
  <2> QED BY <2>1 DEF Engines
<1> HIDE DEF d
<1>10. \A p \in Products : Net(d, p) = 0 /\ SignedCost(d.books[p]) = 0 /\ d.books[p].realisedPnl = 0
  <2>1. EmptyPosition.netQty = 0 /\ EmptyPosition.realisedPnl = 0 BY DEF EmptyPosition
  <2>2. SignedCost(EmptyPosition) = 0 BY <2>1 DEF SignedCost
  <2>3. \A p \in Products : d.books[p] = EmptyPosition BY <1>8, <1>9
  <2> QED BY <2>1, <2>2, <2>3 DEF Net
<1>11. Net(d, "INTRADAY") = 0 /\ Net(d, "DELIVERY") = 0
  BY <1>10 DEF Products
<1>12. Worth(d) = Worth(e)
  <2> DEFINE a == e.pastPnl
             b == e.salesPnl
             r == intra.realisedPnl
             s == book.realisedPnl
             c == h.cost
             o == SignedCost(book)
             k == e.carried.cost
  <2>1. a \in Int /\ b \in Int /\ r \in Int /\ s \in Int /\ c \in Int /\ o \in Int BY <1>2, <1>3, <1>4
  <2>2. k \in Int BY <1>1, WorthIsInt
  <2>3. SignedCost(e.books["INTRADAY"]) = 0 BY <1>3 DEF SignedCost
  <2>4. Worth(e) = c + 0 + o - k - a - b - r - s BY <2>3 DEF Worth
  <2>5. /\ SignedCost(d.books["INTRADAY"]) = 0 /\ SignedCost(d.books["DELIVERY"]) = 0
        /\ d.books["INTRADAY"].realisedPnl = 0 /\ d.books["DELIVERY"].realisedPnl = 0
    BY <1>10 DEF Products
  <2>6. d.holding.cost = c + o /\ d.pastPnl = a + b + r + s /\ d.salesPnl = 0 /\ d.carried.cost = k
    BY <1>6, <1>9 DEF past
  <2>7. Worth(d) = (c + o) + 0 + 0 - k - (a + b + r + s) - 0 - 0 - 0 BY <2>5, <2>6 DEF Worth
  <2> HIDE DEF a, b, r, s, c, o, k
  <2>8. c + 0 + o - k - a - b - r - s = (c + o) + 0 + 0 - k - (a + b + r + s) - 0 - 0 - 0 BY <2>1, <2>2
  <2> QED BY <2>4, <2>7, <2>8
<1>13. \A p : Bought(d, p) = Bought(e, p) BY <1>9 DEF Bought
<1>14. d.holding.qty + Net(d, "DELIVERY") = e.holding.qty + Net(e, "DELIVERY")
  <2> DEFINE q == h.qty
  <2>1. q \in Nat /\ net \in Int BY <1>2, <1>4
  <2>2. d.holding.qty = q + net /\ Net(e, "DELIVERY") = net BY <1>2, <1>6, <1>9
  <2> HIDE DEF q, net
  <2>3. q + net + 0 = q + net BY <2>1
  <2> QED BY <1>11, <2>2, <2>3 DEF q
<1>15. Running(d) BY <1>9, Zenon DEF Running
<1>16. MoneyOk(d) BY <1>1, <1>9, <1>12 DEF MoneyOk
<1>17. SharesOk(d) BY <1>1, <1>9, <1>11, <1>13, <1>14 DEF SharesOk
<1>18. BlocksOk(d) /\ RestsOk(d, 0) /\ StopsOk(d) /\ CappedOk(d)
  BY <1>1, <1>9 DEF BlocksOk, RestsOk, StopsOk, CappedOk
<1>19. Net(d, "DELIVERY") >= 0 BY <1>11
<1>20. Sane(d, 0) BY <1>9, <1>15, <1>16, <1>17, <1>18, <1>19 DEF Sane
<1>21. Covered(d)
  <2>1. Owned(e) = e.holding.qty + Net(e, "DELIVERY") BY <1>1, OwnedAre
  <2>2. Owned(d) = d.holding.qty + Net(d, "DELIVERY") BY <1>9, <1>19, OwnedAre
  <2>3. Asked(e) = SumTo([k \in 1 .. Len(e.orders) |-> Asks(e.orders[k])], Len(e.orders)) BY <1>1, AskedIs
  <2>4. Asked(d) = SumTo([k \in 1 .. Len(d.orders) |-> Asks(d.orders[k])], Len(d.orders)) BY <1>9, AskedIs
  <2>5. Asked(d) = Asked(e) BY <1>9, <2>3, <2>4
  <2> QED BY <1>1, <1>14, <2>1, <2>2, <2>5 DEF Covered
<1>22. Same(e, d) BY <1>9 DEF Same
<1> QED BY <1>5, <1>15, <1>20, <1>21, <1>22 DEF Whole

LEMMA DayClosed ==
  ASSUME NEW e, Whole(e, 0), Running(e), NEW now, now.ltp \in Prices \cup {None}
  PROVE  LET d == CloseDay(e, now) IN Whole(d, 0) /\ Running(d) /\ Grows(e, d)
<1> DEFINE w == SquareOffIntraday(e, now)
           x == StopsEnded(w, "DELIVERY")
           I == OpenOrders(x)
           y == CancelOrders(x, I)
           z == NewDay(y)
<1>1. Whole(w, 0) /\ Running(w) /\ Grows(e, w) /\ Net(w, "INTRADAY") = 0 BY SquaredOff
<1>2. CloseDay(e, now) = z BY DEF CloseDay, CancelOpen
<1> HIDE DEF w
<1>3. Whole(x, 0) /\ Running(x) /\ Same(w, x) /\ x.books = w.books BY <1>1, StopsCancelledWhole DEF StopsEnded
<1> HIDE DEF x
<1>4. x \in Engines BY <1>3 DEF Whole, Sane
<1>5. I \in SUBSET LiveOrders(x) BY <1>4, LiveAre
<1> HIDE DEF I
<1>6. Whole(y, 0) /\ Running(y) /\ Same(x, y) /\ y.books = x.books BY <1>3, <1>5, OrdersCancelledWhole
<1> HIDE DEF y
<1>7. Net(y, "INTRADAY") = 0 BY <1>1, <1>3, <1>6 DEF Net
<1>8. Whole(z, 0) /\ Running(z) /\ Same(y, z) BY <1>6, <1>7, NewDayWhole
<1> HIDE DEF z
<1>9. e \in Engines /\ w \in Engines /\ z \in Engines BY <1>1, <1>8 DEF Whole, Sane
<1>10. Same(w, z) BY <1>3, <1>6, <1>8 DEF Same
<1>11. Grows(w, z) BY <1>9, <1>10, GrowsFrom
<1>12. Grows(e, z) BY <1>1, <1>9, <1>11, GrowsFrom
<1> QED BY <1>2, <1>8, <1>12

LEMMA EventRun ==
  ASSUME NEW e, Whole(e, 0), NEW now, now.ltp \in Prices \cup {None}, now.at \in Nat
  PROVE  LET d == RunEvent(e, now) IN Whole(d, 0) /\ Grows(e, d)
<1>1. e \in Engines BY DEF Whole, Sane
<1>2. CASE ~Running(e)
  <2>1. RunEvent(e, now) = e BY <1>2, Zenon DEF RunEvent, Running
  <2>2. Same(e, e) BY DEF Same
  <2>3. Grows(e, e) BY <1>1, <2>2, GrowsFrom
  <2> QED BY <2>1, <2>3
<1>3. CASE Running(e) /\ now.at % 3 = 1
  <2> DEFINE d == ReleaseAmos(e, now)
  <2>1. RunEvent(e, now) = d
    <3>1. ~(e.broken # "") BY <1>3, Zenon DEF Running
    <3>2. now.at % 3 # 2 /\ now.at % 3 # 0 BY <1>3
    <3> HIDE DEF d
    <3> QED BY <1>3, <3>1, <3>2, Zenon DEF RunEvent, Running, d
  <2>2. Whole(d, 0) /\ Same(e, d) BY AmosReleased
  <2> HIDE DEF d
  <2>3. d \in Engines BY <2>2 DEF Whole, Sane
  <2>4. Grows(e, d) BY <1>1, <2>2, <2>3, GrowsFrom
  <2> QED BY <2>1, <2>2, <2>4
<1>4. CASE Running(e) /\ now.at % 3 = 2
  <2>1. RunEvent(e, now) = SquareOffIntraday(e, now)
    <3>1. ~(e.broken # "") BY <1>4, Zenon DEF Running
    <3>2. now.at % 3 # 1 /\ now.at % 3 # 0 BY <1>4
    <3> QED BY <1>4, <3>1, <3>2, Zenon DEF RunEvent, Running
  <2> QED BY <1>4, <2>1, SquaredOff
<1>5. CASE Running(e) /\ now.at % 3 = 0
  <2>1. RunEvent(e, now) = CloseDay(e, now)
    <3>1. ~(e.broken # "") BY <1>5, Zenon DEF Running
    <3>2. now.at % 3 # 1 /\ now.at % 3 # 2 BY <1>5
    <3> QED BY <1>5, <3>1, <3>2, Zenon DEF RunEvent, Running
  <2> QED BY <1>5, <2>1, DayClosed
<1>6. now.at % 3 \in {0, 1, 2} OBVIOUS
<1> QED BY <1>2, <1>3, <1>4, <1>5, <1>6

-----------------------------------------------------------------------------
(* A sync.                                                                 *)

\* What a call knows.
Nows == [ltp : Prices \cup {None}, at : Nat]

LEMMA EventsRun ==
  ASSUME NEW e, Whole(e, 0), NEW now \in Nows
  PROVE  LET d == RunSchedule(e, now) IN
         /\ Whole(d, 0) /\ Len(d.orders) >= Len(e.orders) /\ Len(d.stops) = Len(e.stops)
<1> DEFINE V == {d \in Engines : Whole(d, 0) /\ Grows(e, d)}
           n == now.at
           At(k) == [now EXCEPT !.at = k]
           turn == [p \in (1 .. n) \X V |-> IF p[1] <= e.synced THEN e ELSE RunEvent(p[2], At(p[1]))]
           loop == CHOOSE g : g = [k \in 0 .. n |-> IF k <= e.synced THEN e ELSE RunEvent(g[k - 1], At(k))]
<1>1. e \in Engines /\ n \in Nat /\ e.synced \in Nat
  <2>1. e \in Engines BY DEF Whole, Sane
  <2>2. e.synced \in Nat BY <2>1, EngineFields
  <2> QED BY <2>1, <2>2 DEF Nows
<1>2. e \in V
  <2>1. Same(e, e) BY DEF Same
  <2> QED BY <1>1, <2>1, GrowsFrom
<1>3. ASSUME NEW k \in 1 .. n, NEW v \in V
      PROVE (IF k <= e.synced THEN e ELSE RunEvent(v, At(k))) \in V
  <2> DEFINE then == At(k)
             d == RunEvent(v, then)
  <2>1. v \in Engines /\ Whole(v, 0) /\ Grows(e, v) OBVIOUS
  <2>2. then.ltp \in Prices \cup {None} /\ then.at \in Nat BY DEF Nows
  <2> HIDE DEF then
  <2>3. Whole(d, 0) /\ Grows(v, d) BY <2>1, <2>2, EventRun
  <2> HIDE DEF d
  <2>4. d \in Engines BY <2>3 DEF Whole, Sane
  <2>5. Grows(e, d) BY <1>1, <2>1, <2>3, <2>4, GrowsFrom
  <2>6. d \in V BY <2>3, <2>4, <2>5
  <2> HIDE DEF V
  <2> QED BY <1>2, <2>6, Zenon DEF d, then
<1>4. ASSUME NEW k \in 1 .. n, NEW v \in V
      PROVE turn[<<k, v>>] = IF k <= e.synced THEN e ELSE RunEvent(v, At(k))
  <2> HIDE DEF V, n, At
  <2> QED OBVIOUS
<1>5. \A k \in 1 .. n, v \in V : turn[<<k, v>>] \in V BY <1>3, <1>4, Zenon
<1> HIDE DEF V, turn, n, At
<1>6. PICK f : /\ f = [k \in 0 .. n |-> IF k = 0 THEN e ELSE turn[<<k, f[k - 1]>>]]
               /\ \A k \in 0 .. n : f[k] \in V
  <2>1. n \in Nat BY <1>1
  <2>2. Loops(V, e, n, turn) BY <1>2, <1>5, <2>1, LoopThere
  <2> QED BY <2>2, Zenon DEF Loops
<1>7. f = [k \in 0 .. n |-> IF k <= e.synced THEN e ELSE RunEvent(f[k - 1], At(k))]
  <2>1. \A k \in 0 .. n : (IF k = 0 THEN e ELSE turn[<<k, f[k - 1]>>])
                            = IF k <= e.synced THEN e ELSE RunEvent(f[k - 1], At(k))
    <3> SUFFICES ASSUME NEW k \in 0 .. n
                 PROVE (IF k = 0 THEN e ELSE turn[<<k, f[k - 1]>>])
                         = IF k <= e.synced THEN e ELSE RunEvent(f[k - 1], At(k)) OBVIOUS
    <3>1. CASE k = 0
      <4>1. k <= e.synced BY <1>1, <3>1
      <4> QED BY <3>1, <4>1
    <3>2. CASE k # 0
      <4>1. k \in 1 .. n /\ k - 1 \in 0 .. n BY <1>1, <3>2
      <4>2. f[k - 1] \in V BY <1>6, <4>1
      <4> QED BY <1>4, <3>2, <4>1, <4>2
    <3> QED BY <3>1, <3>2
  <2> QED BY <1>6, <2>1, Zenon
<1>8. loop = [k \in 0 .. n |-> IF k <= e.synced THEN e ELSE RunEvent(loop[k - 1], At(k))]
  BY <1>7
<1>9. RunSchedule(e, now) = [loop[n] EXCEPT !.synced = n] BY DEF RunSchedule, n, At
<1> HIDE DEF loop
<1>10. loop[0] \in V
  <2>1. 0 \in 0 .. n /\ 0 <= e.synced BY <1>1
  <2>2. loop[0] = IF 0 <= e.synced THEN e ELSE RunEvent(loop[0 - 1], At(0)) BY <1>8, <2>1, Zenon
  <2> QED BY <1>2, <2>1, <2>2
<1>11. \A k \in 1 .. n : loop[k - 1] \in V => loop[k] \in V
  <2> SUFFICES ASSUME NEW k \in 1 .. n, loop[k - 1] \in V PROVE loop[k] \in V OBVIOUS
  <2>1. k \in 0 .. n BY <1>1
  <2>2. loop[k] = IF k <= e.synced THEN e ELSE RunEvent(loop[k - 1], At(k)) BY <1>8, <2>1, Zenon
  <2> QED BY <1>3, <2>2
<1>12. loop[n] \in V
  <2>1. n \in Nat BY <1>1
  <2> QED BY <1>10, <1>11, <2>1, LoopStays
<1>13. PICK v : v = loop[n] OBVIOUS
<1>14. v \in Engines /\ Whole(v, 0) /\ Grows(e, v) BY <1>12, <1>13 DEF V
<1> DEFINE d == [v EXCEPT !.synced = n]
<1>15. /\ d \in Engines
       /\ d.orders = v.orders /\ d.stops = v.stops /\ d.books = v.books /\ d.holding = v.holding
       /\ d.carried = v.carried /\ d.salesPnl = v.salesPnl /\ d.pastPnl = v.pastPnl /\ d.funds = v.funds
       /\ d.capped = v.capped /\ d.broken = v.broken
  <2>1. v \in Engines /\ n \in Nat BY <1>1, <1>14
  <2> QED BY <2>1 DEF Engines
<1>16. RunSchedule(e, now) = d BY <1>9, <1>13
<1> HIDE DEF d
<1>17. (Running(d) <=> Running(v)) /\ (Debit(d) <=> Debit(v))
  <2>1. Running(d) <=> Running(v) BY <1>15, Zenon DEF Running
  <2>2. Debit(d) <=> Debit(v) BY <1>15, Zenon DEF Debit
  <2> QED BY <2>1, <2>2
<1>18. /\ MoneyOk(v) => MoneyOk(d)
       /\ SharesOk(v) => SharesOk(d)
       /\ BlocksOk(v) => BlocksOk(d)
       /\ RestsOk(v, 0) => RestsOk(d, 0)
       /\ StopsOk(v) => StopsOk(d)
       /\ CappedOk(v) => CappedOk(d)
       /\ Net(d, "DELIVERY") = Net(v, "DELIVERY")
  <2>1. MoneyOk(v) => MoneyOk(d) BY <1>15 DEF MoneyOk, Worth
  <2>2. SharesOk(v) => SharesOk(d)
    <3>1. \A p : Bought(d, p) = Bought(v, p) /\ Net(d, p) = Net(v, p) BY <1>15 DEF Bought, Net
    <3> QED BY <1>15, <3>1 DEF SharesOk
  <2>3. BlocksOk(v) => BlocksOk(d) BY <1>15 DEF BlocksOk
  <2>4. RestsOk(v, 0) => RestsOk(d, 0) BY <1>15 DEF RestsOk
  <2>5. (StopsOk(v) => StopsOk(d)) /\ (CappedOk(v) => CappedOk(d)) BY <1>15 DEF StopsOk, CappedOk
  <2>6. Net(d, "DELIVERY") = Net(v, "DELIVERY") BY <1>15 DEF Net
  <2> QED BY <2>1, <2>2, <2>3, <2>4, <2>5, <2>6
<1>19. Sane(d, 0) BY <1>14, <1>15, <1>17, <1>18, Zenon DEF Whole, Sane
<1>20. Covered(v) => Covered(d)
  <2>1. Asked(v) = SumTo([k \in 1 .. Len(v.orders) |-> Asks(v.orders[k])], Len(v.orders)) BY <1>14, AskedIs
  <2>2. Asked(d) = SumTo([k \in 1 .. Len(d.orders) |-> Asks(d.orders[k])], Len(d.orders)) BY <1>15, AskedIs
  <2>3. Owned(d) = Owned(v) BY <1>15 DEF Owned, Net
  <2> QED BY <1>15, <2>1, <2>2, <2>3 DEF Covered
<1> QED BY <1>14, <1>15, <1>16, <1>17, <1>19, <1>20 DEF Whole, Grows

LEMMA Synced ==
  ASSUME NEW e, Whole(e, 0), NEW now \in Nows
  PROVE  LET d == Sync(e, now) IN
         /\ Whole(d, 0) /\ Len(d.orders) >= Len(e.orders) /\ Len(d.stops) = Len(e.stops)
<1> DEFINE x == RunSchedule(e, now)
           y == MatchOpen(x, now)
           z == StepStops(y, now)
<1>1. /\ Whole(x, 0) /\ Len(x.orders) >= Len(e.orders) /\ Len(x.stops) = Len(e.stops) BY EventsRun
<1>2. Sync(e, now) = z BY DEF Sync
<1>3. now.ltp \in Prices \cup {None} BY DEF Nows
<1> HIDE DEF x
<1>4. Whole(y, 0) /\ Same(x, y) BY <1>1, <1>3, OpenMatched
<1> HIDE DEF y
<1>5. Whole(z, 0) /\ Grows(y, z) BY <1>3, <1>4, StopsStepped
<1> HIDE DEF z
<1>6. e \in Engines /\ z \in Engines /\ x \in Engines BY <1>1, <1>5 DEF Whole, Sane
<1>7. Len(e.orders) \in Nat BY <1>6, EngineLens
<1>8. Len(z.orders) \in Nat BY <1>6, EngineLens
<1>9. Len(x.orders) \in Nat BY <1>6, EngineLens
<1> QED BY <1>1, <1>2, <1>4, <1>5, <1>7, <1>8, <1>9 DEF Same, Grows

-----------------------------------------------------------------------------
(* What users ask for.                                                     *)

\* Nothing but the stops, the marks and the events run is other.
LEMMA WholeBut ==
  ASSUME NEW e, Whole(e, 0), NEW d \in Engines, StopsOk(d), CappedOk(d),
         d.orders = e.orders, d.books = e.books, d.holding = e.holding, d.carried = e.carried,
         d.salesPnl = e.salesPnl, d.pastPnl = e.pastPnl, d.funds = e.funds, d.broken = e.broken
  PROVE  Whole(d, 0) /\ (Running(d) <=> Running(e))
<1>1. e \in Engines BY DEF Whole, Sane
<1>2. Running(d) <=> Running(e) BY Zenon DEF Running
<1>3. Debit(d) <=> Debit(e) BY Zenon DEF Debit
<1>4. MoneyOk(e) => MoneyOk(d) BY DEF MoneyOk, Worth
<1>5. SharesOk(e) => SharesOk(d)
  <2>1. \A p : Bought(d, p) = Bought(e, p) /\ Net(d, p) = Net(e, p) BY DEF Bought, Net
  <2> QED BY <2>1 DEF SharesOk
<1>6. (BlocksOk(e) => BlocksOk(d)) /\ (RestsOk(e, 0) => RestsOk(d, 0)) BY DEF BlocksOk, RestsOk
<1>7. Net(d, "DELIVERY") = Net(e, "DELIVERY") BY DEF Net
<1>8. Sane(d, 0) BY <1>2, <1>3, <1>4, <1>5, <1>6, <1>7, Zenon DEF Whole, Sane
<1>9. Covered(e) => Covered(d)
  <2>1. Asked(e) = SumTo([k \in 1 .. Len(e.orders) |-> Asks(e.orders[k])], Len(e.orders)) BY <1>1, AskedIs
  <2>2. Asked(d) = SumTo([k \in 1 .. Len(d.orders) |-> Asks(d.orders[k])], Len(d.orders)) BY AskedIs
  <2>3. Owned(d) = Owned(e) BY DEF Owned, Net
  <2> QED BY <2>1, <2>2, <2>3 DEF Covered
<1> QED BY <1>2, <1>8, <1>9 DEF Whole

\* What a sell that fits asks for leaves the others covered.
LEMMA SellableIs ==
  ASSUME NEW e \in Engines, NEW but \in Nat
  PROVE  /\ SellableQty(e, but) \in Int
         /\ Asked(e) - (IF but \in 1 .. Len(e.orders) THEN Asks(e.orders[but]) ELSE 0)
              <= Owned(e) - SellableQty(e, but)
<1> DEFINE n == Len(e.orders)
           U == UserSells(e) \ {but}
           D == DeliverySells(e) \ {but}
           f == [i \in 1 .. n |-> Asks(e.orders[i])]
           h == [i \in 1 .. n |-> LeftIf(e, U, i)]
           x == IF but \in 1 .. n THEN Asks(e.orders[but]) ELSE 0
<1>1. n \in Nat /\ \A i \in 1 .. n : Asks(e.orders[i]) \in Nat BY EngineLens, AsksIsNat
<1>2. Asked(e) = SumTo(f, n) BY AskedIs
<1>3. Unfilled(e, U) = SumTo(h, n) /\ Unfilled(e, U) \in Int
  <2> HIDE DEF U
  <2> QED BY UnfilledTerms
<1>4. Unfilled(e, D) \in Int
  <2> HIDE DEF D
  <2> QED BY UnfilledTerms
<1>5. Unfilled(e, U) <= Unfilled(e, D)
  <2>1. U \subseteq D BY DEF UserSells
  <2> HIDE DEF U, D
  <2>2. \A i \in 1 .. Len(e.orders) : LeftIf(e, D, i) \in Nat BY UnfilledTerms
  <2>3. \A i \in 1 .. Len(e.orders) : LeftIf(e, U, i) <= LeftIf(e, D, i)
    <3> SUFFICES ASSUME NEW i \in 1 .. Len(e.orders) PROVE LeftIf(e, U, i) <= LeftIf(e, D, i) OBVIOUS
    <3> DEFINE l == LeftIf(e, D, i)
    <3>1. l \in Nat BY <2>2
    <3>2. i \in U => LeftIf(e, U, i) = l BY <2>1 DEF LeftIf
    <3>3. i \notin U => LeftIf(e, U, i) = 0 BY DEF LeftIf
    <3> HIDE DEF l
    <3>4. l <= l /\ 0 <= l BY <3>1
    <3> QED BY <3>2, <3>3, <3>4 DEF l
  <2> QED BY <2>3, UnfilledAtMost
<1>6. \A i \in 1 .. n : i # but => h[i] = f[i]
  <2> SUFFICES ASSUME NEW i \in 1 .. n, i # but PROVE h[i] = f[i] OBVIOUS
  <2>1. i \in U <=> /\ Live(e.orders[i]) /\ e.orders[i].product = "DELIVERY"
                    /\ e.orders[i].side = "SELL" /\ ~e.orders[i].exit
    <3>1. UserSells(e) = {k \in 1 .. Len(e.orders) :
           /\ Live(e.orders[k]) /\ e.orders[k].product = "DELIVERY"
           /\ e.orders[k].side = "SELL" /\ ~e.orders[k].exit}
      BY UserSellsAre
    <3> QED BY <3>1
  <2> HIDE DEF U
  <2>2. h[i] = LeftIf(e, U, i) /\ f[i] = Asks(e.orders[i]) OBVIOUS
  <2> QED BY <2>1, <2>2 DEF LeftIf, Asks
<1>7. Unfilled(e, U) = Asked(e) - x
  <2>1. CASE but \in 1 .. n
    <3>1. h[but] = 0
      <4>1. but \notin U OBVIOUS
      <4> HIDE DEF U
      <4>2. LeftIf(e, U, but) = 0 BY <4>1 DEF LeftIf
      <4> QED BY <2>1, <4>2
    <3>2. \A i \in 1 .. n : f[i] \in Int BY <1>1
    <3> DEFINE a == SumTo(f, n)
               b == SumTo(h, n)
    <3>3. f[but] = x BY <2>1
    <3>4. a \in Int /\ x \in Int
      <4> HIDE DEF f, n, x
      <4>1. a \in Int BY <1>1, <3>2, SumIsInt
      <4>2. x \in Int BY <2>1, <3>2, <3>3
      <4> QED BY <4>1, <4>2
    <3> HIDE DEF f, h, n, x
    <3>5. h[but] \in Int BY <3>1
    <3>6. b = a - f[but] + h[but] BY <1>1, <1>6, <2>1, <3>2, <3>5, SumChange
    <3>7. b = a - x + 0 BY <3>1, <3>3, <3>6
    <3> HIDE DEF a, b
    <3>8. b = a - x BY <3>4, <3>7
    <3> QED BY <1>2, <1>3, <3>8 DEF a, b
  <2>2. CASE but \notin 1 .. n
    <3>1. \A i \in 1 .. n : f[i] \in Int /\ h[i] = f[i]
      <4>1. \A i \in 1 .. n : f[i] \in Int BY <1>1
      <4>2. \A i \in 1 .. n : i # but BY <2>2
      <4> HIDE DEF f, h, n
      <4> QED BY <1>6, <4>1, <4>2
    <3> DEFINE a == SumTo(f, n)
    <3>2. x = 0 BY <2>2
    <3> HIDE DEF f, h, n, x
    <3>3. SumTo(h, n) = a BY <1>1, <3>1, SumSame
    <3>4. a \in Int BY <1>1, <3>1, SumIsInt
    <3> HIDE DEF a
    <3>5. a = a - x BY <3>2, <3>4
    <3> QED BY <1>2, <1>3, <3>3, <3>5 DEF a
  <2> QED BY <2>1, <2>2
<1>8. Owned(e) \in Nat BY OwnedIs
<1>9. SellableQty(e, but) = Owned(e) - Unfilled(e, D) BY DEF SellableQty
<1> DEFINE w == Owned(e)
           u == Unfilled(e, D)
           v == Unfilled(e, U)
           s == SellableQty(e, but)
<1>10. w \in Nat /\ u \in Int /\ v \in Int /\ v <= u /\ s = w - u /\ v = Asked(e) - x
  BY <1>3, <1>4, <1>5, <1>7, <1>8, <1>9
<1> HIDE DEF w, u, v, s, x
<1>11. s \in Int /\ v <= w - s BY <1>10
<1> QED BY <1>10, <1>11 DEF w, s, x

\* What an order that passes the rules may cost, and ask for.
LEMMA Affordable ==
  ASSUME NEW d, d.side \in Sides, d.qty \in Nat, d.price \in Int \cup {None}, NEW now \in Nows,
         NEW cash, NEW sellable, ValidateOrder(d, now, cash, sellable)
  PROVE  LET amount == BlockAmount(d, now) IN
         /\ amount \in Nat
         /\ d.side = "SELL" => amount = 0
         /\ d.side = "BUY" => amount = d.qty * ValueAt(d, now) /\ amount <= cash
         /\ d.side = "SELL" /\ d.product = "DELIVERY" => d.qty <= sellable
         /\ d.price # None => d.price \in Circuit /\ ValueAt(d, now) = d.price
         /\ d.price = None => now.ltp # None /\ ValueAt(d, now) = now.ltp
<1>1. d.price # None => d.price \in Circuit /\ ValueAt(d, now) = d.price BY DEF ValidateOrder, ValueAt
<1>2. d.price = None => now.ltp # None /\ ValueAt(d, now) = now.ltp BY DEF ValidateOrder, ValueAt
<1>3. ValueAt(d, now) \in Nat BY <1>1, <1>2, EngineAssumption DEF Nows, Prices
<1>4. d.side = "SELL" => BlockAmount(d, now) = 0 BY DEF BlockAmount
<1>5. d.side = "SELL" /\ d.product = "DELIVERY" => d.qty <= sellable BY DEF ValidateOrder
<1>6. d.side = "BUY" => BlockAmount(d, now) = d.qty * ValueAt(d, now) /\ BlockAmount(d, now) <= cash
  BY DEF ValidateOrder, BlockAmount
<1> DEFINE q == d.qty
           v == ValueAt(d, now)
<1>7. q * v \in Nat
  <2>1. q \in Nat /\ v \in Nat BY <1>3
  <2> HIDE DEF q, v
  <2> QED BY <2>1
<1>8. BlockAmount(d, now) \in Nat BY <1>4, <1>6, <1>7 DEF Sides
<1> HIDE DEF q, v
<1> QED BY <1>1, <1>2, <1>4, <1>5, <1>6, <1>8

\* A MARKET order just stored, or one that waits.
LEMMA LastMatched ==
  ASSUME NEW e, NEW i, i = Len(e.orders), i \in OrderId, Sane(e, i), Running(e), Covered(e),
         NEW now \in Nows, ~e.orders[i].exit, e.orders[i].status \in {"OPEN", "AMO", "REJECTED"},
         e.orders[i].status = "OPEN" =>
           /\ MatchOk(e, i, now)
           /\ e.orders[i].side = "SELL" \/ e.funds.available >= 0
  PROVE  LET d == MatchLast(e, now) IN Whole(d, 0) /\ Running(d) /\ Same(e, d)
<1> DEFINE d == MatchLast(e, now)
<1>1. e \in Engines /\ i \in 1 .. Len(e.orders)
  <2>1. e \in Engines BY DEF Sane
  <2>2. OrderId \subseteq Nat \ {0} BY FundsAssumption
  <2> QED BY <2>1, <2>2
<1>2. CASE e.orders[i].status = "OPEN"
  <2>1. d = Match(e, i, now, TRUE) BY <1>2 DEF MatchLast
  <2>2. MatchOk(e, i, now) BY <1>2
  <2>3. LET x == Match(e, i, now, TRUE)
            o == e.orders[i] IN
        /\ Whole(x, 0) /\ Same(e, x)
        /\ o.exit \/ o.side = "SELL" \/ e.funds.available >= 0 => Running(x)
    BY <1>1, <2>2, MatchSane
  <2> HIDE DEF d
  <2> QED BY <1>2, <2>1, <2>3, Zenon DEF d
<1>3. CASE e.orders[i].status # "OPEN"
  <2>1. d = e BY <1>3 DEF MatchLast
  <2>2. Rests(e.orders[i], i) BY <1>3 DEF Rests
  <2>3. i \in Nat \ {0} BY <1>1
  <2>4. Sane(e, 0) BY <2>2, <2>3, SaneRests
  <2>5. Whole(e, 0) BY <2>4 DEF Whole
  <2>6. Same(e, e) BY DEF Same
  <2> HIDE DEF d
  <2> QED BY <2>1, <2>5, <2>6, Zenon DEF d
<1> QED BY <1>2, <1>3

LEMMA KeptWhole ==
  ASSUME NEW e, Whole(e, 0), Running(e), NEW i \in 1 .. Len(e.orders), NEW ioc
  PROVE  LET d == KeptUnlessIoc(e, i, ioc) IN Whole(d, 0) /\ Running(d) /\ Same(e, d)
<1>1. e \in Engines BY DEF Whole, Sane
<1>2. CASE ioc /\ e.orders[i].status = "OPEN"
  <2>1. {i} \in SUBSET LiveOrders(e)
    <3>1. Live(e.orders[i]) BY <1>2 DEF Live
    <3> QED BY <1>1, <3>1, LiveAre
  <2>2. LET d == CancelOrders(e, {i}) IN Whole(d, 0) /\ Running(d) /\ Same(e, d)
    BY <2>1, OrdersCancelledWhole
  <2> QED BY <1>2, <2>2 DEF KeptUnlessIoc
<1>3. CASE ~(ioc /\ e.orders[i].status = "OPEN")
  <2>1. KeptUnlessIoc(e, i, ioc) = e BY <1>3 DEF KeptUnlessIoc
  <2>2. Same(e, e) BY DEF Same
  <2> QED BY <2>1, <2>2
<1> QED BY <1>2, <1>3

LEMMA DraftIs ==
  ASSUME NEW d \in Drafts
  PROVE  /\ d.side \in Sides /\ d.type \in {"MARKET", "LIMIT"} /\ d.product \in Products
         /\ d.qty \in Nat \ {0} /\ d.price \in Nat \cup {None} /\ (d.type = "MARKET") = (d.price = None)
BY EngineAssumption

LEMMA NewStopIs ==
  ASSUME NEW p \in StopParams, NEW product \in Products, NEW direction \in Directions, NEW entry \in Nat \cup {None}
  PROVE  LET s == NewStop(p, product, direction, entry) IN
         /\ s \in StopRecords /\ StopOk(s) /\ (s.exitType = "MARKET") = (s.offset = None)
         /\ s.product = product
<1>1. /\ p.trail \in Trails /\ p.activation \in Nat \cup {None} /\ p.exitType \in {"MARKET", "LIMIT"}
      /\ p.offset \in Nat \cup {None} /\ (p.exitType = "MARKET") = (p.offset = None)
  BY EngineAssumption DEF Params
<1> QED BY <1>1 DEF NewStop, StopRecords, StopOk, Protecting

\* The order passes the rules.
Fits(e, d, now) == ValidateOrder(d, now, e.funds.available, SellableQty(e, 0))
\* What is blocked for it then.
CashFor(e, d, now) ==
  IF Fits(e, d, now) THEN Block(e.funds, Len(e.orders) + 1, BlockAmount(d, now)) ELSE e.funds

\* An order just stored as the last, to be matched if it is open.
Ready(x, i, o, now) ==
  /\ Sane(x, i) /\ Running(x) /\ Covered(x) /\ Len(x.orders) = i /\ x.orders[i] = o
  /\ x.orders[i].status = "OPEN" =>
       /\ MatchOk(x, i, now)
       /\ x.orders[i].side = "SELL" \/ x.funds.available >= 0

\* The order, with the cash blocked for it and the stop attached to it.
LEMMA PlacedSane ==
  ASSUME NEW e, Whole(e, 0), Running(e), NEW i, i = Len(e.orders) + 1, i \in OrderId,
         NEW d \in Drafts, NEW now \in Nows,
         NEW status, status \in IF Fits(e, d, now) THEN {"OPEN", "AMO"} ELSE {"REJECTED"},
         NEW S \in Seq(StopRecords), \A t \in 1 .. Len(S) : StopOk(S[t])
  PROVE  Ready(Stored(e, NewOrder(d, status, FALSE), CashFor(e, d, now), S), i,
               NewOrder(d, status, FALSE), now)
<1> DEFINE ok == Fits(e, d, now)
           o == NewOrder(d, status, FALSE)
           a == IF ok THEN BlockAmount(d, now) ELSE 0
           g == IF ok THEN Block(e.funds, i, BlockAmount(d, now)) ELSE e.funds
           x == Stored(e, o, CashFor(e, d, now), S)
           f == e.funds
<1>1. /\ e \in Engines /\ Sane(e, 0) /\ Covered(e) /\ BlocksOk(e)
  <2>1. Sane(e, 0) /\ Covered(e) BY DEF Whole
  <2>2. e \in Engines BY <2>1 DEF Sane
  <2>3. BlocksOk(e) BY <2>1, NotDebit, Zenon DEF Sane
  <2> QED BY <2>1, <2>2, <2>3
<1> CashFor(e, d, now) = g BY DEF CashFor
<1>2. f \in Ledgers /\ f.available \in Int /\ f.blocks[i] = 0
  <2>1. f \in Ledgers BY <1>1, EngineFields
  <2>2. Len(e.orders) \in Nat BY <1>1, EngineLens
  <2>3. ~(i <= Len(e.orders)) BY <2>2
  <2> QED BY <1>1, <2>1, <2>3, LedgerFields DEF BlocksOk
<1>3. /\ d.side \in Sides /\ d.type \in {"MARKET", "LIMIT"} /\ d.product \in Products
      /\ d.qty \in Nat \ {0} /\ d.price \in Nat \cup {None} /\ (d.type = "MARKET") = (d.price = None)
  BY DraftIs
<1>4. SellableQty(e, 0) \in Int /\ Asked(e) \in Int /\ Asked(e) <= Owned(e) - SellableQty(e, 0)
  <2> DEFINE b == Asked(e)
             c == Owned(e) - SellableQty(e, 0)
             n == IF 0 \in 1 .. Len(e.orders) THEN Asks(e.orders[0]) ELSE 0
  <2>1. b \in Int BY <1>1, AskedIsInt
  <2>2. SellableQty(e, 0) \in Int /\ b - n <= c BY <1>1, SellableIs
  <2>3. n = 0 BY <1>1, EngineLens
  <2> HIDE DEF b, c, n
  <2>4. b <= c BY <2>1, <2>2, <2>3
  <2> QED BY <2>1, <2>2, <2>4 DEF b, c
<1>5. /\ a \in Nat /\ (d.side = "SELL" \/ ~ok => a = 0)
      /\ ok /\ d.side = "BUY" => a = d.qty * ValueAt(d, now) /\ a <= f.available
      /\ ok /\ d.side = "SELL" /\ d.product = "DELIVERY" => d.qty <= SellableQty(e, 0)
      /\ ok /\ d.price # None => d.price \in Circuit /\ ValueAt(d, now) = d.price
      /\ ok /\ d.price = None => now.ltp # None /\ ValueAt(d, now) = now.ltp
  <2>1. CASE ok
    <3>1. d.qty \in Nat /\ d.price \in Int \cup {None} BY <1>3
    <3>2. ValidateOrder(d, now, f.available, SellableQty(e, 0)) BY <2>1 DEF Fits
    <3>3. LET amount == BlockAmount(d, now) IN
         /\ amount \in Nat
         /\ d.side = "SELL" => amount = 0
         /\ d.side = "BUY" => amount = d.qty * ValueAt(d, now) /\ amount <= f.available
         /\ d.side = "SELL" /\ d.product = "DELIVERY" => d.qty <= SellableQty(e, 0)
         /\ d.price # None => d.price \in Circuit /\ ValueAt(d, now) = d.price
         /\ d.price = None => now.ltp # None /\ ValueAt(d, now) = now.ltp
      BY <1>3, <3>1, <3>2, Affordable
    <3> QED BY <2>1, <3>3, Zenon
  <2>2. CASE ~ok BY <2>2
  <2> QED BY <2>1, <2>2
<1>6. /\ o \in OrderRecords
      /\ o.side = d.side /\ o.type = d.type /\ o.product = d.product /\ o.qty = d.qty
      /\ o.price = d.price /\ o.filled = 0 /\ o.status = status /\ o.exit = FALSE /\ Left(o) = d.qty
  <2>1. d.price \in Int \cup {None} /\ FALSE \in BOOLEAN /\ status \in {"AMO", "OPEN", "REJECTED"} BY <1>3
  <2>2. status # "REJECTED" => d.price \in Circuit \cup {None} BY <1>5
  <2> QED BY <1>3, <2>1, <2>2, NewOrderIs
<1>7. g \in Ledgers /\ g.blocks[i] = a /\ g.available = f.available - a
      /\ ((a = 0 /\ g = f) \/ (i \in OrderId /\ g = Moved(f, i, a, -a)))
  <2>1. CASE ok
    <3>1. a = BlockAmount(d, now) /\ g = Block(f, i, a) BY <2>1
    <3>2. a \in Int BY <1>5
    <3> HIDE DEF a, g, f
    <3>3. g = Moved(f, i, a, -a)
      <4>1. 0 \in Int OBVIOUS
      <4>2. Block(f, i, a) = Moved(f, i, a, -a) BY <1>2, <3>2, <4>1, LedgerOps
      <4> QED BY <3>1, <4>2
    <3>4. -a \in Int BY <3>2
    <3>5. Moved(f, i, a, -a) \in Ledgers BY <1>2, <3>2, <3>4, LedgerMoves
    <3>6. g.blocks[i] = f.blocks[i] + a /\ g.available = f.available + (-a)
      BY <3>3 DEF Moved
    <3>7. g.blocks[i] = a /\ g.available = f.available - a BY <1>2, <3>2, <3>6
    <3> QED BY <3>3, <3>5, <3>7
  <2>2. CASE ~ok BY <1>2, <2>2
  <2> QED BY <2>1, <2>2
<1>8. Due(o, a)
  <2>1. Live(o) <=> ok BY <1>6 DEF Live
  <2>2. a \in Nat BY <1>5
  <2>3. ~(Live(o) /\ o.side = "BUY") => a = 0 BY <1>3, <1>5, <1>6, <2>1 DEF Sides
  <2>4. ok /\ o.side = "BUY" /\ o.type = "LIMIT" => a = OrderWorth(o)
    <3> SUFFICES ASSUME ok, o.side = "BUY", o.type = "LIMIT" PROVE a = OrderWorth(o) OBVIOUS
    <3>1. d.price # None /\ a = d.qty * ValueAt(d, now) /\ ValueAt(d, now) = d.price
      BY <1>3, <1>5, <1>6
    <3> HIDE DEF a, o
    <3>2. OrderWorth(o) = d.qty * d.price BY <1>6, <3>1 DEF OrderWorth
    <3> QED BY <3>1, <3>2, Zenon
  <2> HIDE DEF a, o
  <2> QED BY <1>6, <2>1, <2>2, <2>3, <2>4 DEF Due
<1> HIDE DEF o, a, g
<1>9. /\ Sane(x, i) /\ Running(x) /\ Asked(x) = Asked(e) + Asks(o) /\ Owned(x) = Owned(e)
  <2>1. a \in Int /\ o.filled = 0 BY <1>5, <1>6
  <2>2. i \in OrderId => Due(o, a) BY <1>8
  <2> HIDE DEF x
  <2> QED BY <1>1, <1>6, <1>7, <2>1, <2>2, StoredSane DEF x
<1>10. /\ Len(x.orders) = i /\ x.orders[i] = o /\ x.funds = g
  BY <1>1, <1>6, <1>7, StoredIs
<1> HIDE DEF x
<1>11. Covered(x)
  <2>1. Asks(o) = 0 \/ (Asks(o) = d.qty /\ d.qty <= SellableQty(e, 0))
    <3>1. Live(o) => ok BY <1>6 DEF Live
    <3> QED BY <1>5, <1>6, <3>1 DEF Asks
  <2> DEFINE b == Asked(e)
             c == Owned(e)
             s == SellableQty(e, 0)
             q == Asks(o)
  <2>2. b \in Int /\ c \in Nat /\ s \in Int /\ q \in Nat /\ b <= c - s /\ b <= c /\ (q = 0 \/ q <= s)
    BY <1>1, <1>4, <1>6, <2>1, OwnedIs, AsksIsNat DEF Covered
  <2>3. Asked(x) = b + q /\ Owned(x) = c BY <1>9
  <2> HIDE DEF b, c, s, q
  <2> QED BY <2>2, <2>3 DEF Covered
<1>12. ASSUME x.orders[i].status = "OPEN"
       PROVE  MatchOk(x, i, now) /\ (x.orders[i].side = "SELL" \/ x.funds.available >= 0)
  <2>1. ok BY <1>6, <1>10, <1>12
  <2>2. o.side = "SELL" \/ x.funds.available >= 0
    <3>1. d.side = "BUY" => a <= f.available BY <1>5, <2>1
    <3> DEFINE v == f.available
    <3>2. v \in Int /\ a \in Nat /\ x.funds.available = v - a BY <1>2, <1>5, <1>7, <1>10
    <3> HIDE DEF v
    <3>3. a <= v => x.funds.available >= 0 BY <3>2
    <3> QED BY <1>3, <1>6, <3>1, <3>3 DEF v, Sides
  <2>3. o.type = "MARKET" => /\ now.ltp # None
                             /\ o.side = "BUY" => Left(o) * now.ltp <= x.funds.blocks[i]
    <3> SUFFICES ASSUME o.type = "MARKET"
                 PROVE  now.ltp # None /\ (o.side = "BUY" => Left(o) * now.ltp <= x.funds.blocks[i])
      OBVIOUS
    <3>1. d.price = None BY <1>3, <1>6
    <3>2. now.ltp # None /\ ValueAt(d, now) = now.ltp BY <1>5, <2>1, <3>1
    <3>3. o.side = "BUY" => a = Left(o) * now.ltp BY <1>5, <1>6, <2>1, <3>2, Zenon
    <3>4. x.funds.blocks[i] = a /\ a <= a BY <1>5, <1>7, <1>10
    <3> QED BY <3>2, <3>3, <3>4
  <2>4. now.ltp \in Prices \cup {None} BY DEF Nows
  <2> QED BY <1>6, <1>10, <1>12, <2>2, <2>3, <2>4 DEF MatchOk
<1>13. Ready(x, i, o, now) BY <1>9, <1>10, <1>11, <1>12, Zenon DEF Ready
<1> QED BY <1>13, Zenon DEF x, o

LEMMA StopAdded ==
  ASSUME NEW S \in Seq(StopRecords), \A t \in 1 .. Len(S) : StopOk(S[t]), NEW s \in StopRecords, StopOk(s)
  PROVE  LET T == Append(S, s) IN
         T \in Seq(StopRecords) /\ \A t \in 1 .. Len(T) : StopOk(T[t])
<1> DEFINE T == Append(S, s)
<1>1. T \in Seq(StopRecords) /\ Len(T) = Len(S) + 1 /\ T[Len(S) + 1] = s
      /\ \A t \in 1 .. Len(S) : T[t] = S[t]
  OBVIOUS
<1>2. Len(S) \in Nat OBVIOUS
<1> HIDE DEF T
<1>3. ASSUME NEW t \in 1 .. Len(T) PROVE StopOk(T[t])
  <2>1. t = Len(S) + 1 \/ t \in 1 .. Len(S) BY <1>1, <1>2
  <2> QED BY <1>1, <2>1
<1> QED BY <1>1, <1>3 DEF T

\* What the order becomes, the stops with the one attached to it, and the engine with both.
StatusFor(e, d, now) ==
  IF ~Fits(e, d, now) THEN "REJECTED" ELSE IF OpenAt(now.at) THEN "OPEN" ELSE "AMO"
Attached(e, d, params) ==
  NewStop(params, d.product, IF d.side = "BUY" THEN "LONG" ELSE "SHORT", Len(e.orders) + 1)
StopsWith(e, d, params, now) ==
  IF Fits(e, d, now) /\ params # None THEN Append(e.stops, Attached(e, d, params)) ELSE e.stops
Taken(e, d, params, now) ==
  Stored(e, NewOrder(d, StatusFor(e, d, now), FALSE), CashFor(e, d, now), StopsWith(e, d, params, now))
\* It is stored, matched, and ended if it does not wait.
Places(e, d, params, now, p) ==
  LET i == Len(e.orders) + 1
      x == Taken(e, d, params, now)
      m == MatchLast(x, now) IN
  /\ i \in OrderId /\ Ready(x, i, NewOrder(d, StatusFor(e, d, now), FALSE), now)
  /\ StopsWith(e, d, params, now) \in Seq(StopRecords)
  /\ Whole(m, 0) /\ Running(m) /\ Same(x, m) /\ i \in 1 .. Len(m.orders)
  /\ p = KeptUnlessIoc(m, i, d.validity = "IOC")

LEMMA PlacedWhole ==
  ASSUME NEW e, Whole(e, 0), Running(e), NEW d \in Drafts, NEW params \in StopParams \cup {None},
         NEW now \in Nows
  PROVE  LET p == Placed(e, d, params, now) IN
         Whole(p, 0) /\ (p = e \/ Places(e, d, params, now, p))
<1> DEFINE ok   == Fits(e, d, now)
           ioc  == d.validity = "IOC"
           i    == Len(e.orders) + 1
           side == IF d.side = "BUY" THEN "LONG" ELSE "SHORT"
           status == IF ~ok THEN "REJECTED" ELSE IF OpenAt(now.at) THEN "OPEN" ELSE "AMO"
           o == NewOrder(d, status, FALSE)
           g == CashFor(e, d, now)
           s == NewStop(params, d.product, side, i)
           S == IF ok /\ params # None THEN Append(e.stops, s) ELSE e.stops
           x == Stored(e, o, g, S)
           stored == [e EXCEPT !.orders = Append(@, o),
                          !.funds = IF ok THEN Block(@, i, BlockAmount(d, now)) ELSE @,
                          !.stops = IF ok /\ params # None THEN Append(@, s) ELSE @]
           p == Placed(e, d, params, now)
<1>1. p = e \/ (i \in OrderId /\ p = KeptUnlessIoc(MatchLast(stored, now), i, ioc))
  BY DEF Placed, Fits
<1>2. e \in Engines /\ StopsOk(e) BY DEF Whole, Sane
<1>3. i \in Nat /\ i \in Nat \cup {None}
  <2>1. Len(e.orders) \in Nat BY <1>2, EngineLens
  <2> QED BY <2>1
<1>4. stored = x
  <2> HIDE DEF ok, o, s, i
  <2>1. g = IF ok THEN Block(e.funds, i, BlockAmount(d, now)) ELSE e.funds BY DEF CashFor, i, ok
  <2> QED BY <1>2, <2>1 DEF Stored, Engines
<1>5. S \in Seq(StopRecords) /\ \A t \in 1 .. Len(S) : StopOk(S[t])
  <2>1. e.stops \in Seq(StopRecords) /\ \A t \in 1 .. Len(e.stops) : StopOk(e.stops[t])
    BY <1>2, EngineFields DEF StopsOk
  <2>2. CASE ok /\ params # None
    <3>1. params \in StopParams /\ d.product \in Products /\ side \in Directions
      BY <2>2, DraftIs DEF Directions
    <3> HIDE DEF i, ok, side
    <3>2. s \in StopRecords /\ StopOk(s) BY <1>3, <3>1, NewStopIs
    <3> HIDE DEF s
    <3> QED BY <2>1, <2>2, <3>2, StopAdded
  <2>3. CASE ~(ok /\ params # None)
    <3>1. S = e.stops BY <2>3
    <3> QED BY <2>1, <3>1
  <2> QED BY <2>2, <2>3
<1>6. status \in IF ok THEN {"OPEN", "AMO"} ELSE {"REJECTED"} OBVIOUS
<1>7. S = StopsWith(e, d, params, now) BY Zenon DEF StopsWith, Attached
<1>8. o = NewOrder(d, StatusFor(e, d, now), FALSE) BY Zenon DEF StatusFor
<1>9. i = Len(e.orders) + 1 OBVIOUS
<1> HIDE DEF ioc, i, status, S, p, stored, x
<1> SUFFICES ASSUME i \in OrderId, p = KeptUnlessIoc(MatchLast(x, now), i, ioc)
             PROVE Whole(p, 0) /\ Places(e, d, params, now, p)
  BY <1>1, <1>4, Zenon DEF p
<1> USE DEF x
<1>10. /\ Sane(x, i) /\ Running(x) /\ Covered(x) /\ Len(x.orders) = i
       /\ x.orders[i] = o
       /\ x.orders[i].status = "OPEN" =>
            /\ MatchOk(x, i, now)
            /\ x.orders[i].side = "SELL" \/ x.funds.available >= 0
  <2>1. Whole(e, 0) /\ Running(e) /\ i \in OrderId OBVIOUS
  <2>2. \A t \in 1 .. Len(S) : StopOk(S[t]) BY <1>5
  <2>3. S \in Seq(StopRecords) BY <1>5
  <2> DEFINE st == status
  <2>5. st \in IF Fits(e, d, now) THEN {"OPEN", "AMO"} ELSE {"REJECTED"} BY <1>6
  <2> HIDE DEF st
  <2>6. Ready(Stored(e, NewOrder(d, st, FALSE), CashFor(e, d, now), S), i, NewOrder(d, st, FALSE), now)
    BY <2>5, <1>9, <2>1, <2>2, <2>3, PlacedSane, Zenon
  <2>7. Ready(x, i, o, now) BY <2>6, Zenon DEF st, x, o
  <2> HIDE DEF x, o
  <2> QED BY <2>7, Zenon DEF Ready
<1>11. x.orders[i].status \in {"OPEN", "AMO", "REJECTED"} /\ ~x.orders[i].exit
  <2>1. o.status = status /\ o.exit = FALSE BY DEF NewOrder
  <2> QED BY <1>6, <1>10, <2>1
<1> HIDE DEF x
<1> DEFINE m == MatchLast(x, now)
<1>12. Whole(m, 0) /\ Running(m) /\ Same(x, m) BY <1>10, <1>11, LastMatched
<1>13. i \in 1 .. Len(m.orders)
  <2>1. i \in OrderId /\ OrderId \subseteq Nat \ {0} BY FundsAssumption
  <2> QED BY <1>10, <1>12, <2>1 DEF Same
<1> HIDE DEF m
<1>14. Whole(KeptUnlessIoc(m, i, ioc), 0) BY <1>12, <1>13, KeptWhole
<1>15. x = Taken(e, d, params, now)
  <2> HIDE DEF o
  <2> QED BY <1>7, <1>8, Zenon DEF x, Taken
<1>16. Ready(x, i, o, now)
  <2> HIDE DEF o
  <2> QED BY <1>10, Zenon DEF Ready
<1>17. Places(e, d, params, now, p)
  <2>1. /\ i \in OrderId /\ Ready(x, i, o, now) /\ S \in Seq(StopRecords)
        /\ Whole(m, 0) /\ Running(m) /\ Same(x, m) /\ i \in 1 .. Len(m.orders)
        /\ m = MatchLast(x, now) /\ p = KeptUnlessIoc(m, i, ioc)
    BY <1>5, <1>12, <1>13, <1>16, Zenon DEF m
  <2> HIDE DEF o, g
  <2> QED BY <2>1, <1>7, <1>8, <1>9, <1>15, Zenon DEF Places, ioc
<1> QED BY <1>14, <1>17, Zenon DEF m

\* What a change asks to be checked, and makes of an order.
Remains(o, change) ==
  [side |-> o.side, type |-> change.type, product |-> o.product,
   qty |-> change.qty - o.filled, price |-> change.price]
Amended(o, change) ==
  [o EXCEPT !.type = change.type, !.qty = change.qty, !.price = change.price]

LEMMA OrderAmended ==
  ASSUME NEW o \in OrderRecords, Live(o), NEW change \in Changes, o.filled < change.qty,
         change.price \in Circuit \cup {None}
  PROVE  LET r == Amended(o, change)
             d == Remains(o, change) IN
         /\ r \in OrderRecords /\ Live(r) /\ r.status = o.status /\ r.filled = o.filled
         /\ r.side = o.side /\ r.product = o.product /\ r.exit = o.exit
         /\ r.type = change.type /\ r.price = change.price /\ Left(r) = d.qty
         /\ (change.type = "MARKET") = (change.price = None)
         /\ d.side = o.side /\ d.product = o.product /\ d.qty \in Nat \ {0} /\ d.price = change.price
<1> DEFINE qty == change.qty
           type == change.type
           price == change.price
           r == [o EXCEPT !.type = type, !.qty = qty, !.price = price]
<1>1. /\ qty \in Nat \ {0} /\ type \in {"MARKET", "LIMIT"} /\ price \in Int \cup {None}
      /\ (type = "MARKET") = (price = None)
  BY EngineAssumption
<1>2. o.filled \in Nat /\ o.filled < qty /\ o.status # "EXECUTED" BY DEF OrderRecords, Live
<1>3. o.status = "AMO" => o.filled = 0 BY DEF OrderRecords, OrderOk
<1>4. price \in Circuit \cup {None} OBVIOUS
<1> HIDE DEF qty, type, price
<1>5. /\ r \in [side : Sides, type : {"MARKET", "LIMIT"}, product : Products, qty : Nat,
          price : Int \cup {None}, filled : Nat,
          status : {"AMO", "OPEN", "EXECUTED", "CANCELLED", "REJECTED"}, exit : BOOLEAN]
      /\ r.status = o.status /\ r.filled = o.filled /\ r.side = o.side /\ r.product = o.product
      /\ r.exit = o.exit /\ r.type = type /\ r.price = price /\ r.qty = qty
  BY <1>1 DEF OrderRecords
<1> HIDE DEF r
<1>6. Live(r) BY <1>5 DEF Live
<1>7. OrderOk(r) BY <1>1, <1>2, <1>3, <1>4, <1>5 DEF OrderOk, Live
<1>8. Left(r) = qty - o.filled /\ qty - o.filled \in Nat \ {0} BY <1>1, <1>2, <1>5 DEF Left
<1>9. /\ Remains(o, change).side = o.side /\ Remains(o, change).product = o.product
      /\ Remains(o, change).qty = qty - o.filled /\ Remains(o, change).price = price
  BY DEF Remains, qty, price
<1>10. r = Amended(o, change) BY DEF Amended, r, qty, type, price
<1>11. r \in OrderRecords BY <1>5, <1>7 DEF OrderRecords
<1> QED BY <1>1, <1>5, <1>6, <1>8, <1>9, <1>10, <1>11, Zenon DEF qty, type, price

\* What a change of a live order may block, and take of the shares.
LEMMA AmendedOk ==
  ASSUME NEW e, Whole(e, 0), Running(e), NEW i \in OrderId, i \in 1 .. Len(e.orders), Live(e.orders[i]),
         NEW change \in Changes, e.orders[i].filled < change.qty, NEW now \in Nows,
         ValidateOrder(Remains(e.orders[i], change), now,
                       e.funds.available + BlockedFor(e.funds, i), SellableQty(e, i))
  PROVE  LET o == e.orders[i]
             r == Amended(o, change)
             d == Remains(o, change)
             amount == BlockAmount(d, now) IN
         /\ amount \in Nat /\ change.price \in Circuit \cup {None}
         /\ amount > e.funds.blocks[i] => amount <= e.funds.available + e.funds.blocks[i]
         /\ Due(r, amount)
         /\ ~o.exit /\ r.type = "MARKET" => /\ now.ltp # None
                                            /\ r.side = "BUY" => Left(r) * now.ltp <= amount
         /\ Asks(r) = 0 \/ Asks(r) <= SellableQty(e, i)
<1> DEFINE o == e.orders[i]
           r == Amended(o, change)
           d == Remains(o, change)
           amount == BlockAmount(d, now)
           f == e.funds
<1>1. e \in Engines /\ o \in OrderRecords /\ f \in Ledgers /\ BlocksOk(e)
  <2>1. e \in Engines /\ Sane(e, 0) BY DEF Whole, Sane
  <2>2. BlocksOk(e) BY <2>1, NotDebit, Zenon DEF Sane
  <2> QED BY <2>1, <2>2, EngineFields, EngineLens
<1>2. f.available \in Int /\ f.blocks[i] \in Int /\ BlockedFor(f, i) = f.blocks[i]
  BY <1>1, LedgerFields DEF BlockedFor
<1>3. Due(o, f.blocks[i]) BY <1>1 DEF BlocksOk
<1>4. o.filled \in Nat /\ o.side \in Sides BY <1>1, OrderFields
<1>5. change.qty \in Nat /\ change.price \in Int \cup {None} BY EngineAssumption
<1>6. /\ amount \in Nat
      /\ d.side = "SELL" => amount = 0
      /\ d.side = "BUY" => amount = d.qty * ValueAt(d, now) /\ amount <= f.available + f.blocks[i]
      /\ d.side = "SELL" /\ d.product = "DELIVERY" => d.qty <= SellableQty(e, i)
      /\ d.price # None => d.price \in Circuit /\ ValueAt(d, now) = d.price
      /\ d.price = None => now.ltp # None /\ ValueAt(d, now) = now.ltp
  <2>1. d.side \in Sides /\ d.qty \in Nat /\ d.price \in Int \cup {None}
    <3>1. d.side = o.side /\ d.qty = change.qty - o.filled /\ d.price = change.price BY DEF Remains
    <3>2. o.filled < change.qty OBVIOUS
    <3> HIDE DEF d, o
    <3> QED BY <1>4, <1>5, <3>1, <3>2
  <2> DEFINE cash == f.available + BlockedFor(f, i)
             sellable == SellableQty(e, i)
  <2>2. cash = f.available + f.blocks[i] BY <1>2
  <2>3. ValidateOrder(d, now, cash, sellable) OBVIOUS
  <2> HIDE DEF d, cash, sellable
  <2>4. LET a == BlockAmount(d, now) IN
         /\ a \in Nat
         /\ d.side = "SELL" => a = 0
         /\ d.side = "BUY" => a = d.qty * ValueAt(d, now) /\ a <= cash
         /\ d.side = "SELL" /\ d.product = "DELIVERY" => d.qty <= sellable
         /\ d.price # None => d.price \in Circuit /\ ValueAt(d, now) = d.price
         /\ d.price = None => now.ltp # None /\ ValueAt(d, now) = now.ltp
    BY <2>1, <2>3, Affordable
  <2> QED BY <2>2, <2>4, Zenon DEF sellable
<1>7. change.price \in Circuit \cup {None}
  <2>1. d.price = change.price BY DEF Remains
  <2> HIDE DEF d
  <2> QED BY <1>6, <2>1
<1>8. /\ r \in OrderRecords /\ Live(r) /\ r.side = o.side /\ r.product = o.product /\ r.exit = o.exit
      /\ r.type = change.type /\ r.price = change.price /\ Left(r) = d.qty
      /\ (change.type = "MARKET") = (change.price = None)
      /\ d.side = o.side /\ d.product = o.product /\ d.qty \in Nat \ {0} /\ d.price = change.price
  BY <1>1, <1>7, OrderAmended
<1>9. Live(o) OBVIOUS
<1> HIDE DEF o, r, d, amount
<1>10. amount > f.blocks[i] => amount <= f.available + f.blocks[i]
  <2>1. o.side = "SELL" => f.blocks[i] = 0 BY <1>3 DEF Due
  <2>2. o.side = "SELL" => amount = 0 BY <1>6, <1>8
  <2>3. o.side = "BUY" => amount <= f.available + f.blocks[i] BY <1>6, <1>8
  <2> DEFINE av == f.available
             held == f.blocks[i]
  <2>4. o.side = "SELL" => ~(amount > held)
    <3>1. ~(0 > 0) OBVIOUS
    <3> QED BY <2>1, <2>2, <3>1
  <2> QED BY <1>4, <2>3, <2>4 DEF Sides
<1>11. Due(r, amount)
  <2>1. r.side # "BUY" => amount = 0 BY <1>4, <1>6, <1>8 DEF Sides
  <2>2. r.side = "BUY" /\ r.type = "LIMIT" => amount = OrderWorth(r)
    <3> SUFFICES ASSUME r.side = "BUY", r.type = "LIMIT" PROVE amount = OrderWorth(r) OBVIOUS
    <3>1. d.price # None /\ r.price = d.price BY <1>8
    <3>2. amount = d.qty * d.price BY <1>6, <1>8, <3>1
    <3>3. OrderWorth(r) = d.qty * d.price BY <1>8, <3>1 DEF OrderWorth
    <3> QED BY <3>2, <3>3
  <2>3. amount <= amount /\ amount >= 0 BY <1>6
  <2> QED BY <1>8, <2>1, <2>2, <2>3 DEF Due
<1>12. r.type = "MARKET" => now.ltp # None /\ (r.side = "BUY" => Left(r) * now.ltp <= amount)
  <2> SUFFICES ASSUME r.type = "MARKET"
               PROVE now.ltp # None /\ (r.side = "BUY" => Left(r) * now.ltp <= amount)
    OBVIOUS
  <2>1. now.ltp # None /\ ValueAt(d, now) = now.ltp BY <1>6, <1>8
  <2>2. r.side = "BUY" => amount = Left(r) * now.ltp BY <1>6, <1>8, <2>1, Zenon
  <2>3. amount <= amount BY <1>6
  <2> QED BY <2>1, <2>2, <2>3
<1>13. Asks(r) = 0 \/ Asks(r) <= SellableQty(e, i)
  <2>1. r.product = "DELIVERY" /\ r.side = "SELL" => Left(r) <= SellableQty(e, i)
    BY <1>6, <1>8
  <2> QED BY <2>1 DEF Asks
<1> QED BY <1>6, <1>7, <1>10, <1>11, <1>12, <1>13, Zenon DEF o, r, d, amount

\* The order is changed, and matched again if it is open.
Amends(e, i, change, now, d) ==
  LET r == Amended(e.orders[i], change) IN
  /\ Live(e.orders[i]) /\ e.orders[i].filled < change.qty /\ change.price \in Circuit \cup {None}
  /\ \E x : /\ Sane(x, i) /\ Running(x) /\ Covered(x) /\ Same(e, x) /\ x = Changed(e, i, r, x.funds)
           /\ IF e.orders[i].status = "OPEN" THEN MatchOk(x, i, now) /\ d = Match(x, i, now, TRUE) ELSE d = x

LEMMA ModifiedWhole ==
  ASSUME NEW e, Whole(e, 0), Running(e), NEW i \in OrderId, i \in 1 .. Len(e.orders),
         NEW change \in Changes, NEW now \in Nows
  PROVE  LET d == Modified(e, i, change, now) IN
         Whole(d, 0) /\ Same(e, d) /\ (d = e \/ Amends(e, i, change, now, d))
<1> DEFINE o == e.orders[i]
           r == Amended(o, change)
           d == Remains(o, change)
           amount == BlockAmount(d, now)
           booked == Reblock(e, i, amount)
           kept == [booked EXCEPT
             !.orders[i] = [@ EXCEPT !.type = d.type, !.qty = change.qty, !.price = d.price]]
           m == Match(kept, i, now, TRUE)
           z == Modified(e, i, change, now)
           fits == ValidateOrder(d, now, e.funds.available + BlockedFor(e.funds, i), SellableQty(e, i))
<1>1. z = IF ~Live(o) \/ change.qty <= o.filled \/ ~fits THEN e
          ELSE IF o.status = "OPEN" THEN m ELSE kept
  BY DEF Modified, Remains
<1>2. e \in Engines /\ Sane(e, 0) /\ Covered(e) /\ e.funds \in Ledgers /\ o \in OrderRecords
  <2>1. e \in Engines /\ Sane(e, 0) /\ Covered(e) BY DEF Whole, Sane
  <2> QED BY <2>1, EngineFields, EngineLens
<1>3. ~(change.qty <= o.filled) => o.filled < change.qty
  <2>1. o.filled \in Nat /\ change.qty \in Nat BY <1>2, OrderFields, EngineAssumption
  <2> HIDE DEF o
  <2> QED BY <2>1
<1> HIDE DEF z
<1> SUFFICES ASSUME Live(o), o.filled < change.qty, fits,
                    z = IF o.status = "OPEN" THEN m ELSE kept
             PROVE  Whole(z, 0) /\ Same(e, z) /\ Amends(e, i, change, now, z)
  <2>1. Same(e, e) BY DEF Same
  <2> HIDE DEF fits, m, kept, o
  <2> QED BY <1>1, <1>3, <2>1 DEF z
<1>4. /\ amount \in Nat /\ change.price \in Circuit \cup {None}
      /\ amount > e.funds.blocks[i] => amount <= e.funds.available + e.funds.blocks[i]
      /\ Due(r, amount)
      /\ ~o.exit /\ r.type = "MARKET" => /\ now.ltp # None
                                         /\ r.side = "BUY" => Left(r) * now.ltp <= amount
      /\ Asks(r) = 0 \/ Asks(r) <= SellableQty(e, i)
  BY AmendedOk
<1> HIDE DEF fits
<1>5. /\ r \in OrderRecords /\ Live(r) /\ r.status = o.status /\ r.filled = o.filled
      /\ r.side = o.side /\ r.product = o.product /\ r.exit = o.exit
  BY <1>2, <1>4, OrderAmended
<1> DEFINE g == booked.funds
<1>6. booked = WithCash(e, g) /\ Rebooked(e.funds, g, i) /\ g.blocks[i] = amount
  <2> HIDE DEF amount
  <2> QED BY <1>2, <1>4, Reblocked
<1> DEFINE x == Changed(e, i, r, g)
<1>7. kept = x
  <2>1. d.type = change.type /\ d.price = change.price BY DEF Remains
  <2> HIDE DEF d, amount
  <2>2. kept = [booked EXCEPT !.orders[i] = Amended(@, change)] BY <2>1 DEF Amended
  <2>3. [WithCash(e, g) EXCEPT !.orders[i] = Amended(@, change)] = Changed(e, i, r, g)
    <3>1. o = e.orders[i] /\ r = Amended(o, change) OBVIOUS
    <3> HIDE DEF o, g, r
    <3> QED BY <1>2, <3>1 DEF WithCash, Changed, Engines
  <2> HIDE DEF booked
  <2> QED BY <1>6, <2>2, <2>3
<1>8. /\ Sane(x, i) /\ Running(x) /\ Same(e, x) /\ x.orders[i] = r /\ x.funds = g
      /\ Asked(x) = Asked(e) - Asks(o) + Asks(r) /\ Owned(x) = Owned(e)
  <2>1. i \in Nat \ {0} BY FundsAssumption
  <2>2. Sane(e, i) BY <1>2, <2>1, SaneRests
  <2>3. i \in OrderId => Due(r, g.blocks[i]) BY <1>4, <1>6
  <2>4. o.status = "OPEN" => r.status = "OPEN" BY <1>5
  <2> HIDE DEF g, r
  <2>5. LET y == Changed(e, i, r, g) IN
         /\ Sane(y, i) /\ Running(y) /\ Same(e, y) /\ y.orders[i] = r /\ y.funds = g
         /\ Asked(y) = Asked(e) - Asks(e.orders[i]) + Asks(r) /\ Owned(y) = Owned(e)
    BY <1>5, <1>6, <2>2, <2>3, <2>4, ChangedSane
  <2> QED BY <2>5
<1> HIDE DEF g, x, r, kept, amount
<1>9. Covered(x)
  <2> DEFINE a == Asked(e)
             b == Asks(o)
             c == Asks(r)
             w == Owned(e)
             s == SellableQty(e, i)
  <2>1. a \in Int /\ b \in Nat /\ c \in Nat /\ w \in Nat
    <3>1. b \in Nat BY <1>2, AsksIsNat
    <3>2. c \in Nat BY <1>5, AsksIsNat
    <3>3. w \in Nat BY <1>2, OwnedIs
    <3>4. a \in Int BY <1>2, AskedIsInt
    <3> QED BY <3>1, <3>2, <3>3, <3>4
  <2>2. s \in Int /\ a - b <= w - s
    <3>1. i \in Nat BY FundsAssumption
    <3>2. /\ s \in Int
          /\ Asked(e) - (IF i \in 1 .. Len(e.orders) THEN Asks(e.orders[i]) ELSE 0) <= Owned(e) - s
      BY <1>2, <3>1, SellableIs
    <3> QED BY <3>2
  <2>3. a <= w BY <1>2 DEF Covered
  <2>4. c = 0 \/ c <= s BY <1>4
  <2>5. Asked(x) = a - b + c /\ Owned(x) = w BY <1>8
  <2> HIDE DEF a, b, c, w, s
  <2>6. a - b + c <= w BY <2>1, <2>2, <2>3, <2>4
  <2> QED BY <2>5, <2>6 DEF Covered
<1>10. x = Changed(e, i, r, x.funds) BY <1>8 DEF x
<1>11. CASE o.status = "OPEN"
  <2>1. i \in 1 .. Len(x.orders) BY <1>8 DEF Same
  <2>2. MatchOk(x, i, now)
    <3>1. now.ltp \in Prices \cup {None} BY DEF Nows
    <3>2. x.orders[i] = r /\ r.status = "OPEN" /\ r.exit = o.exit /\ x.funds.blocks[i] = amount
      BY <1>5, <1>6, <1>8, <1>11
    <3> HIDE DEF o
    <3>3. ~o.exit /\ r.type = "MARKET" => /\ now.ltp # None
                                          /\ r.side = "BUY" => Left(r) * now.ltp <= x.funds.blocks[i]
      BY <1>4, <3>2
    <3> QED BY <3>1, <3>2, <3>3 DEF MatchOk
  <2>3. TRUE \in BOOLEAN OBVIOUS
  <2>4. Whole(Match(x, i, now, TRUE), 0) /\ Same(x, Match(x, i, now, TRUE))
    BY <1>8, <1>9, <2>1, <2>2, <2>3, MatchSane
  <2>5. z = Match(x, i, now, TRUE) BY <1>7, <1>11
  <2>6. Same(e, z)
    <3> HIDE DEF z
    <3> QED BY <1>8, <2>4, <2>5 DEF Same
  <2>7. Amends(e, i, change, now, z)
    <3> HIDE DEF z
    <3> QED BY <1>4, <1>8, <1>9, <1>11, <1>10, <2>2, <2>5, Zenon DEF Amends, o, r
  <2> QED BY <2>4, <2>5, <2>6, <2>7
<1>12. CASE o.status # "OPEN"
  <2>1. z = x BY <1>7, <1>12
  <2>2. Rests(r, i) BY <1>5, <1>12 DEF Rests
  <2>3. i \in Nat \ {0} BY FundsAssumption
  <2>4. Sane(x, 0) BY <1>8, <2>2, <2>3, SaneRests
  <2>5. Whole(x, 0) BY <1>9, <2>4 DEF Whole
  <2>6. Amends(e, i, change, now, z)
    <3> HIDE DEF z
    <3> QED BY <1>4, <1>8, <1>9, <1>12, <1>10, <2>1, Zenon DEF Amends, o, r
  <2> QED BY <1>8, <2>1, <2>5, <2>6
<1> QED BY <1>11, <1>12

\* With other stops.
WithStops(e, S) == [e EXCEPT !.stops = S]

LEMMA StopsWhole ==
  ASSUME NEW e, Whole(e, 0), NEW S \in Seq(StopRecords), \A t \in 1 .. Len(S) : StopOk(S[t])
  PROVE  Whole(WithStops(e, S), 0)
<1> DEFINE d == WithStops(e, S)
<1>1. e \in Engines /\ CappedOk(e) BY DEF Whole, Sane
<1>2. /\ d \in Engines /\ d.stops = S
      /\ d.orders = e.orders /\ d.books = e.books /\ d.holding = e.holding /\ d.carried = e.carried
      /\ d.salesPnl = e.salesPnl /\ d.pastPnl = e.pastPnl /\ d.funds = e.funds /\ d.broken = e.broken
      /\ d.capped = e.capped
  BY <1>1 DEF WithStops, Engines
<1> HIDE DEF d
<1>3. StopsOk(d) BY <1>2 DEF StopsOk
<1>4. CappedOk(d) BY <1>1, <1>2 DEF CappedOk
<1>5. Whole(d, 0) BY <1>2, <1>3, <1>4, WholeBut
<1> QED BY <1>5 DEF d

\* The position's stop is replaced.
Replaces(e, product, d) ==
  LET replaced == CancelStops(e, ProtectingStops(e, product))
      net      == Net(e, product) IN
  /\ net # 0
  /\ \E s \in StopRecords :
       /\ StopOk(s) /\ s.status \in {"ARMED", "TRAILING"} /\ s.product = product
       /\ s.direction = DirectionOf(net) /\ s.qty = Abs(net) /\ s.exit = None
       /\ d = WithStops(replaced, Append(replaced.stops, s))

LEMMA StopPlacedWhole ==
  ASSUME NEW e, Whole(e, 0), Running(e), NEW product \in Products, NEW p \in StopParams, NEW now \in Nows
  PROVE  LET d == StopPlaced(e, product, p, now) IN
         Whole(d, 0) /\ (d = e \/ Replaces(e, product, d))
<1> DEFINE net == Net(e, product)
           new == NewStop(p, product, DirectionOf(net), None)
           fresh == [new EXCEPT !.status = "ARMED", !.qty = Abs(net)]
           stop == StepTrailingStop(fresh, now.ltp)
           replaced == CancelStops(e, ProtectingStops(e, product))
           d == StopPlaced(e, product, p, now)
           z == [replaced EXCEPT !.stops = Append(@, stop)]
<1>1. d = e \/ (net # 0 /\ now.ltp # None /\ d = z) BY DEF StopPlaced
<1>2. e \in Engines BY DEF Whole, Sane
<1> HIDE DEF d, replaced
<1> SUFFICES ASSUME net # 0, now.ltp # None, d = z PROVE Whole(d, 0) /\ Replaces(e, product, d)
  <2> HIDE DEF net, z
  <2> QED BY <1>1, Zenon DEF d
<1>3. net \in Int BY <1>2, BookFields
<1>4. now.ltp \in Prices BY DEF Nows
<1>5. Abs(net) \in Nat /\ Abs(net) > 0
  <2> HIDE DEF net
  <2> QED BY <1>3 DEF Abs
<1>6. /\ new \in StopRecords /\ StopOk(new) /\ (new.exitType = "MARKET") = (new.offset = None)
      /\ new.product = product /\ new.direction = DirectionOf(net) /\ new.exit = None
  <2>1. DirectionOf(net) \in Directions BY DEF DirectionOf, Directions
  <2>2. None \in Nat \cup {None} OBVIOUS
  <2>3. new.product = product /\ new.direction = DirectionOf(net) /\ new.exit = None BY DEF NewStop
  <2> HIDE DEF net
  <2> QED BY <2>1, <2>2, <2>3, NewStopIs
<1> HIDE DEF new
<1>7. /\ fresh \in StopRecords /\ StopOk(fresh) /\ fresh.status = "ARMED" /\ fresh.qty = Abs(net)
      /\ fresh.product = product /\ fresh.direction = DirectionOf(net) /\ fresh.exit = None
  <2> DEFINE q == Abs(net)
  <2>1. q \in Nat /\ q > 0 BY <1>5
  <2>2. fresh = [new EXCEPT !.status = "ARMED", !.qty = q] OBVIOUS
  <2> HIDE DEF q, fresh
  <2>3. /\ fresh \in StopRecords /\ StopOk(fresh) /\ fresh.status = "ARMED" /\ fresh.qty = q
        /\ fresh.product = new.product /\ fresh.direction = new.direction /\ fresh.exit = new.exit
    BY <1>6, <2>1, <2>2 DEF StopRecords, StopOk, Protecting
  <2> QED BY <1>6, <2>3, Zenon DEF q
<1> HIDE DEF fresh
<1>8. /\ stop \in StopRecords /\ StopOk(stop) /\ stop.status \in {"ARMED", "TRAILING"}
      /\ stop.product = product /\ stop.direction = DirectionOf(net) /\ stop.qty = Abs(net) /\ stop.exit = None
  <2>1. stop = Activated(fresh, now.ltp) \/ stop = fresh BY <1>7 DEF StepTrailingStop
  <2>2. Activated(fresh, now.ltp).status = "TRAILING" BY <1>7 DEF Activated, StopRecords
  <2>3. /\ stop \in StopRecords /\ StopOk(stop) /\ stop.product = fresh.product
        /\ stop.direction = fresh.direction /\ stop.qty = fresh.qty /\ stop.exit = fresh.exit
    BY <1>4, <1>7, StopSteps
  <2> HIDE DEF stop, net
  <2> QED BY <1>7, <2>1, <2>2, <2>3
<1> HIDE DEF stop
<1>9. Whole(replaced, 0)
  <2> DEFINE T == ProtectingStops(e, product)
  <2> HIDE DEF T
  <2>1. Whole(CancelStops(e, T), 0) BY StopsCancelledWhole
  <2> QED BY <2>1 DEF replaced, T
<1>10. replaced.stops \in Seq(StopRecords) /\ \A t \in 1 .. Len(replaced.stops) : StopOk(replaced.stops[t])
  <2>1. replaced \in Engines /\ StopsOk(replaced) BY <1>9 DEF Whole, Sane
  <2> QED BY <2>1, EngineFields DEF StopsOk
<1> DEFINE S == Append(replaced.stops, stop)
<1>11. S \in Seq(StopRecords) /\ \A t \in 1 .. Len(S) : StopOk(S[t]) BY <1>8, <1>10, StopAdded
<1>12. z = WithStops(replaced, S) BY DEF WithStops
<1> HIDE DEF S
<1>13. Whole(WithStops(replaced, S), 0) BY <1>9, <1>11, StopsWhole
<1>14. Replaces(e, product, d)
  <2>1. d = WithStops(replaced, Append(replaced.stops, stop)) BY <1>12 DEF S
  <2> HIDE DEF z
  <2> QED BY <1>8, <2>1, Zenon DEF Replaces, replaced, net
<1> QED BY <1>12, <1>13, <1>14

\* A stop follows at another distance.
Retrails(e, t, d) ==
  \E r \in StopRecords :
    LET s == e.stops[t] IN
    /\ s.status \in {"PENDING_ENTRY", "ARMED", "TRAILING"} /\ r.status = s.status /\ r.product = s.product
    /\ r.direction = s.direction /\ r.qty = s.qty /\ r.entry = s.entry /\ r.exit = s.exit
    /\ d = StopSet(e, t, r)

LEMMA StopModifiedWhole ==
  ASSUME NEW e, Whole(e, 0), Running(e), NEW t \in 1 .. Len(e.stops), NEW p \in StopParams,
         NEW dragTo \in StopPrices \cup {None}, NEW now \in Nows
  PROVE  LET d == StopModified(e, t, p, dragTo, now) IN
         Whole(d, 0) /\ Same(e, d) /\ (d = e \/ Retrails(e, t, d))
<1> DEFINE old   == e.stops[t]
           s     == [e.stops[t] EXCEPT !.activation = p.activation]
           trail == IF dragTo = None THEN p.trail ELSE Dragged(s, dragTo)
           stop  == IF s.status = "TRAILING" THEN StopFromWatermark(s.direction, trail, s.watermark)
                    ELSE s.stop
           r     == [s EXCEPT !.trail = trail, !.stop = stop, !.exitType = p.exitType, !.offset = p.offset]
           z     == [e EXCEPT !.stops[t] = r]
           d     == StopModified(e, t, p, dragTo, now)
<1>1. \/ d = e
      \/ /\ s.status \in {"PENDING_ENTRY", "ARMED", "TRAILING"}
         /\ dragTo # None => Reference(s) # None /\ Dragged(s, dragTo).size > 0
         /\ d = z
  BY DEF StopModified
<1>2. e \in Engines /\ StopsOk(e) /\ old \in StopRecords /\ StopOk(old)
  <2>1. e \in Engines /\ StopsOk(e) BY DEF Whole, Sane
  <2> QED BY <2>1, EngineLens DEF StopsOk
<1> HIDE DEF d
<1> SUFFICES ASSUME s.status \in {"PENDING_ENTRY", "ARMED", "TRAILING"},
                    dragTo # None => Reference(s) # None /\ Dragged(s, dragTo).size > 0,
                    d = z
             PROVE  Whole(d, 0) /\ Same(e, d) /\ Retrails(e, t, d)
  <2>1. Same(e, e) BY DEF Same
  <2> HIDE DEF s, z
  <2> QED BY <1>1, <2>1, Zenon DEF d
<1>3. /\ p.trail \in Trails /\ p.activation \in Nat \cup {None} /\ p.exitType \in {"MARKET", "LIMIT"}
      /\ p.offset \in Nat \cup {None} /\ (p.exitType = "MARKET") = (p.offset = None)
  BY EngineAssumption DEF Params
<1>4. /\ s \in StopRecords /\ s.status = old.status /\ s.qty = old.qty
      /\ s.watermark = old.watermark /\ s.stop = old.stop /\ s.product = old.product
      /\ s.direction = old.direction /\ s.entry = old.entry /\ s.exit = old.exit
  <2> DEFINE a == p.activation
  <2>1. a \in Nat \cup {None} BY <1>3
  <2>2. s = [old EXCEPT !.activation = a] OBVIOUS
  <2> HIDE DEF a, s, old
  <2> QED BY <1>2, <2>1, <2>2 DEF StopRecords
<1> HIDE DEF s
<1>5. trail \in Trails
  <2>1. CASE dragTo = None BY <1>3, <2>1
  <2>2. CASE dragTo # None
    <3>1. Reference(s) \in Nat /\ dragTo \in Nat
      <4>1. s.watermark \in Nat \cup {None} /\ s.activation \in Nat \cup {None} BY <1>4 DEF StopRecords
      <4>2. Reference(s) \in Nat \cup {None} BY <4>1 DEF Reference
      <4>3. Reference(s) # None BY <2>2
      <4> QED BY <2>2, <4>2, <4>3, EngineAssumption
    <3> DEFINE ref == Reference(s)
               size == IF s.direction = "LONG" THEN ref - dragTo ELSE dragTo - ref
    <3>2. Dragged(s, dragTo) = [unit |-> "AMOUNT", size |-> size] BY DEF Dragged
    <3>3. size \in Int
      <4> HIDE DEF ref
      <4> QED BY <3>1 DEF ref
    <3>4. Dragged(s, dragTo).size > 0 BY <2>2
    <3> HIDE DEF size
    <3>5. size > 0 BY <3>2, <3>4
    <3>6. [unit |-> "AMOUNT", size |-> size] \in Trails BY <3>3, <3>5 DEF Trails
    <3> QED BY <2>2, <3>2, <3>6
  <2> QED BY <2>1, <2>2
<1> HIDE DEF trail
<1>6. stop \in Int \cup {None} /\ (s.status = "TRAILING" => stop \in Int /\ s.watermark \in Prices)
  <2>1. s.stop \in Int \cup {None} /\ s.direction \in Directions BY <1>4 DEF StopRecords
  <2>2. CASE s.status = "TRAILING"
    <3>1. s.watermark \in Prices BY <1>2, <1>4, <2>2 DEF StopOk
    <3>2. StopFromWatermark(s.direction, trail, s.watermark) \in Int BY <1>5, <2>1, <3>1, StopIsPaise
    <3> QED BY <2>2, <3>1, <3>2
  <2>3. CASE s.status # "TRAILING" BY <2>1, <2>3
  <2> QED BY <2>2, <2>3
<1> HIDE DEF stop
<1>7. /\ r \in StopRecords /\ StopOk(r) /\ r.status = s.status /\ r.product = s.product
      /\ r.direction = s.direction /\ r.qty = s.qty /\ r.entry = s.entry /\ r.exit = s.exit
  <2> DEFINE type == p.exitType
             offset == p.offset
  <2>1. type \in {"MARKET", "LIMIT"} /\ offset \in Nat \cup {None} /\ (type = "MARKET") = (offset = None)
    BY <1>3
  <2>2. r = [s EXCEPT !.trail = trail, !.stop = stop, !.exitType = type, !.offset = offset] OBVIOUS
  <2> HIDE DEF type, offset, r
  <2>3. /\ r \in StopRecords /\ r.status = s.status /\ r.stop = stop /\ r.watermark = s.watermark
        /\ r.exitType = type /\ r.offset = offset /\ r.qty = s.qty /\ r.product = s.product
        /\ r.direction = s.direction /\ r.entry = s.entry /\ r.exit = s.exit
    BY <1>4, <1>5, <1>6, <2>1, <2>2 DEF StopRecords
  <2>4. Protecting(r) => r.qty > 0 BY <1>2, <1>4, <2>3 DEF StopOk, Protecting
  <2>5. s.status # "TRIGGERED" OBVIOUS
  <2>6. r.status \in {"TRAILING", "TRIGGERED"} => r.stop \in Int /\ r.watermark \in Prices
    BY <1>6, <2>3, <2>5
  <2> QED BY <2>1, <2>3, <2>4, <2>6 DEF StopOk
<1> HIDE DEF r
<1>8. z = StopSet(e, t, r) BY DEF StopSet
<1>9. StopSet(e, t, r) \in After(e) /\ StopsOk(StopSet(e, t, r)) BY <1>2, <1>7, StopChanged
<1> DEFINE c == StopSet(e, t, r)
<1> HIDE DEF c
<1>10. Whole(c, 0) /\ Same(e, c) BY <1>9, WholeAfter DEF c
<1>11. Retrails(e, t, d)
  <2>1. /\ old.status \in {"PENDING_ENTRY", "ARMED", "TRAILING"} /\ r.status = old.status
        /\ r.product = old.product /\ r.direction = old.direction /\ r.qty = old.qty
        /\ r.entry = old.entry /\ r.exit = old.exit
    BY <1>4, <1>7
  <2> HIDE DEF z, c
  <2>2. d = StopSet(e, t, r) BY <1>8
  <2> QED BY <1>7, <2>1, <2>2, Zenon DEF Retrails
<1> QED BY <1>8, <1>10, <1>11 DEF c

LEMMA PositionClosedWhole ==
  ASSUME NEW e, Whole(e, 0), Running(e), NEW product \in Products, NEW now \in Nows
  PROVE  Whole(PositionClosed(e, product, now), 0)
<1> DEFINE net == Net(e, product)
           unprotected == CancelStops(e, ProtectingStops(e, product))
           alone == CancelOrders(unprotected, LiveOrders(unprotected) \cap OrdersIn(e, product))
           side == IF net > 0 THEN "SELL" ELSE "BUY"
           qty == Abs(net)
           d == [side |-> side, type |-> "MARKET", product |-> product, qty |-> qty, price |-> None]
           placed == PlaceExit(alone, d, now)
           m == MatchLast(placed, now)
           z == PositionClosed(e, product, now)
<1>1. e \in Engines BY DEF Whole, Sane
<1>2. Whole(unprotected, 0) /\ Running(unprotected) /\ Same(e, unprotected)
  <2> DEFINE T == ProtectingStops(e, product)
  <2> HIDE DEF T
  <2>1. LET c == CancelStops(e, T) IN Whole(c, 0) /\ Running(c) /\ Same(e, c) BY StopsCancelledWhole
  <2> QED BY <2>1 DEF T
<1>3. z = IF net = 0 THEN e ELSE m
  <2>1. CancelOrders(unprotected, LiveOrders(unprotected) \cap OrdersIn(e, product)) = alone OBVIOUS
  <2> HIDE DEF alone, unprotected
  <2> QED BY <2>1 DEF PositionClosed, unprotected
<1> HIDE DEF unprotected
<1>4. Whole(alone, 0) /\ Running(alone)
  <2> DEFINE I == LiveOrders(unprotected) \cap OrdersIn(e, product)
  <2>1. I \in SUBSET LiveOrders(unprotected) OBVIOUS
  <2> HIDE DEF I
  <2>2. LET c == CancelOrders(unprotected, I) IN Whole(c, 0) /\ Running(c) BY <1>2, <2>1, OrdersCancelledWhole
  <2> QED BY <2>2 DEF I
<1> HIDE DEF alone
<1>5. CASE net # 0
  <2>1. net \in Int BY <1>1, BookFields
  <2>2. qty \in Nat \ {0}
    <3> HIDE DEF net
    <3> QED BY <1>5, <2>1 DEF Abs
  <2>3. side \in Sides BY DEF Sides
  <2> HIDE DEF qty, side
  <2>4. ExitDraft(d)
    <3>1. /\ d.side = side /\ d.type = "MARKET" /\ d.product = product /\ d.qty = qty /\ d.price = None OBVIOUS
    <3> QED BY <2>2, <2>3, <3>1 DEF ExitDraft
  <2> HIDE DEF d
  <2>5. /\ Whole(placed, 0) /\ Running(placed) /\ Len(placed.orders) = Len(alone.orders) + 1
        /\ placed.orders[Len(placed.orders)].exit
    BY <1>4, <2>4, ExitPlaced
  <2>6. Len(placed.orders) > 0
    <3>1. alone \in Engines BY <1>4 DEF Whole, Sane
    <3>2. Len(alone.orders) \in Nat BY <3>1, EngineLens
    <3> QED BY <2>5, <3>2
  <2> HIDE DEF placed
  <2>7. now.ltp \in Prices \cup {None} BY DEF Nows
  <2>8. Whole(MatchLast(placed, now), 0) BY <2>5, <2>6, <2>7, ExitMatched
  <2> HIDE DEF z, net
  <2> QED BY <1>3, <1>5, <2>8 DEF z
<1>6. CASE net = 0
  <2> HIDE DEF z, m
  <2> QED BY <1>3, <1>6 DEF z
<1> QED BY <1>5, <1>6

\* Nothing is blocked when no order is live.
LEMMA NothingBlocked ==
  ASSUME NEW e, Sane(e, 0), Running(e), \A i \in 1 .. Len(e.orders) : ~Live(e.orders[i])
  PROVE  e.funds.blocked = 0 /\ Total(e.funds) = 0 /\ \A i \in OrderId : e.funds.blocks[i] = 0
<1>1. BlocksOk(e) BY NotDebit, Zenon DEF Sane
<1>2. \A i \in OrderId : e.funds.blocks[i] = 0
  <2>1. OrderId \subseteq Nat \ {0} BY FundsAssumption
  <2>2. Len(e.orders) \in Nat
    <3>1. e \in Engines BY DEF Sane
    <3> QED BY <3>1, EngineLens
  <2>3. ASSUME NEW i \in OrderId, i <= Len(e.orders) PROVE ~Live(e.orders[i])
    <3>1. i \in 1 .. Len(e.orders) BY <2>1, <2>2, <2>3
    <3> QED BY <3>1
  <2> QED BY <1>1, <2>3 DEF BlocksOk, Due
<1> DEFINE b == e.funds.blocks
           n == Cardinality(OrderId)
<1>3. n \in Nat /\ 1 .. n = OrderId /\ 0 \in Nat /\ 0 <= n BY FundsAssumption
<1>4. \A i \in 1 .. n : b[i] \in Int /\ b[i] = 0 BY <1>2, <1>3
<1> HIDE DEF b, n
<1>5. SumTo(b, n) = SumTo(b, 0)
  <2>1. \A i \in 0 + 1 .. n : b[i] = 0 BY <1>4
  <2> QED BY <1>3, <1>4, <2>1, SumShort
<1>6. SumTo(b, 0) = 0
  <2>1. \A i \in 1 .. 0 : b[i] \in Int OBVIOUS
  <2>2. \E s \in [0 .. 0 -> Int] :
           s[0] = 0 /\ (\A k \in 1 .. 0 : s[k] = s[k - 1] + b[k]) /\ SumTo(b, 0) = s[0]
    BY <1>3, <2>1, SumSteps
  <2> QED BY <2>2
<1>7. Total(e.funds) = 0 BY <1>5, <1>6 DEF Total, b, n
<1> QED BY <1>1, <1>2, <1>7 DEF BlocksOk

LEMMA SumNone ==
  ASSUME NEW f
  PROVE  SumTo(f, 0) = 0
<1>1. 0 \in Nat /\ \A i \in 1 .. 0 : f[i] \in Int OBVIOUS
<1>2. \E s \in [0 .. 0 -> Int] :
           s[0] = 0 /\ (\A k \in 1 .. 0 : s[k] = s[k - 1] + f[k]) /\ SumTo(f, 0) = s[0]
  BY <1>1, SumSteps
<1> QED BY <1>2

\* The account as it opens, without what it carries in.
Fresh(e, g, lots) ==
  [e EXCEPT !.funds = g, !.orders = <<>>, !.stops = <<>>, !.capped = {},
     !.books = [p \in Products |-> EmptyPosition], !.holding = lots,
     !.salesPnl = 0, !.pastPnl = 0, !.carried = lots]

\* An account with no order, stop or position, and all its cash free.
Opened(d, lots) ==
  /\ d.orders = <<>> /\ d.stops = <<>> /\ d.capped = {}
  /\ d.holding = lots /\ d.carried = lots /\ d.salesPnl = 0 /\ d.pastPnl = 0
  /\ \A p \in Products : d.books[p] = EmptyPosition
  /\ d.funds.available = OpeningBalance /\ d.funds.blocked = 0 /\ Total(d.funds) = 0
  /\ \A i \in OrderId : d.funds.blocks[i] = 0

\* With no order, no stop and no position.
Bare(d) == Len(d.orders) = 0 /\ Len(d.stops) = 0 /\ \A p \in Products : Net(d, p) = 0

LEMMA OpenedWhole ==
  ASSUME NEW d \in Engines, Running(d), NEW lots \in Lots, Opened(d, lots)
  PROVE  Whole(d, 0) /\ Len(d.orders) = 0 /\ Bare(d)
<1>3. /\ d.orders = <<>> /\ d.stops = <<>> /\ d.capped = {}
      /\ d.holding = lots /\ d.carried = lots /\ d.salesPnl = 0 /\ d.pastPnl = 0
      /\ \A p \in Products : d.books[p] = EmptyPosition
      /\ d.funds.available = OpeningBalance /\ d.funds.blocked = 0 /\ Total(d.funds) = 0
      /\ \A i \in OrderId : d.funds.blocks[i] = 0
  BY DEF Opened
<1>4. Len(d.orders) = 0 /\ Len(d.stops) = 0 BY <1>3
<1>5. /\ \A p \in Products : Net(d, p) = 0
      /\ SignedCost(d.books["INTRADAY"]) = 0 /\ SignedCost(d.books["DELIVERY"]) = 0
      /\ d.books["INTRADAY"].realisedPnl = 0 /\ d.books["DELIVERY"].realisedPnl = 0
  <2>1. EmptyPosition.netQty = 0 /\ EmptyPosition.realisedPnl = 0 BY DEF EmptyPosition
  <2>2. SignedCost(EmptyPosition) = 0 BY <2>1 DEF SignedCost
    <2> QED BY <2>1, <2>2, <1>3 DEF Net, Products
<1>6. Net(d, "INTRADAY") = 0 /\ Net(d, "DELIVERY") = 0 BY <1>5 DEF Products
<1>7. lots.qty \in Nat /\ lots.cost \in Nat /\ OpeningBalance \in Nat BY FundsAssumption DEF Lots
<1>8. MoneyOk(d)
  <2> DEFINE c == lots.cost
             o == OpeningBalance
  <2>1. Worth(d) = c + 0 + 0 - c - 0 - 0 - 0 - 0 BY <1>3, <1>5 DEF Worth
  <2>2. c \in Nat /\ o \in Nat BY <1>7
  <2>3. d.funds.available = o /\ d.funds.blocked = 0 BY <1>3
  <2> HIDE DEF c, o
  <2>4. (o + 0) + (c + 0 + 0 - c - 0 - 0 - 0 - 0) = o BY <2>2
  <2>5. (d.funds.available + d.funds.blocked) + Worth(d) = o BY <2>1, <2>3, <2>4
  <2> QED BY <2>5 DEF MoneyOk, o
<1>9. \A p : Bought(d, p) = 0
  <2> TAKE p
  <2> DEFINE f == [i \in 1 .. Len(d.orders) |-> Signed(d.orders[i], p)]
  <2>1. Bought(d, p) = SumTo(f, 0) BY <1>4 DEF Bought
  <2> HIDE DEF f
  <2> QED BY <2>1, SumNone
<1>10. SharesOk(d) BY <1>3, <1>6, <1>7, <1>9 DEF SharesOk
<1>11. BlocksOk(d)
  <2>1. \A i \in OrderId : ~(i <= Len(d.orders))
    <3>1. OrderId \subseteq Nat \ {0} BY FundsAssumption
    <3> QED BY <1>4, <3>1
  <2> QED BY <1>3, <2>1 DEF BlocksOk
<1>12. RestsOk(d, 0) /\ StopsOk(d) /\ CappedOk(d) BY <1>3, <1>4 DEF RestsOk, StopsOk, CappedOk
<1>14. Sane(d, 0) BY <1>3, <1>6, <1>8, <1>10, <1>11, <1>12 DEF Sane
<1>15. Covered(d)
  <2> DEFINE f == [i \in 1 .. Len(d.orders) |-> Asks(d.orders[i])]
  <2>1. Asked(d) = SumTo(f, 0)
    <3>1. Asked(d) = SumTo([i \in 1 .. Len(d.orders) |-> Asks(d.orders[i])], Len(d.orders)) BY <1>3, AskedIs
    <3> QED BY <1>4, <3>1
  <2> HIDE DEF f
  <2>2. Asked(d) = 0 BY <2>1, SumNone
  <2>3. Owned(d) \in Nat BY <1>3, OwnedIs
  <2> QED BY <2>2, <2>3 DEF Covered
<1>16. Bare(d) BY <1>4, <1>5 DEF Bare
<1> QED BY <1>4, <1>14, <1>15, <1>16 DEF Whole

LEMMA FreshWhole ==
  ASSUME NEW e \in Engines, Running(e), NEW g \in Ledgers, NEW lots \in Lots,
         g.available = OpeningBalance, g.blocked = 0, Total(g) = 0, \A i \in OrderId : g.blocks[i] = 0
  PROVE  LET d == Fresh(e, g, lots) IN
         Whole(d, 0) /\ Len(d.orders) = 0 /\ Bare(d) /\ d.synced = e.synced
<1> DEFINE flat == [p \in Products |-> EmptyPosition]
           d == Fresh(e, g, lots)
<1>1. flat \in [Products -> Positions] /\ \A p \in Products : flat[p] = EmptyPosition
  <2>1. EmptyPosition \in Positions BY DEF EmptyPosition, Positions, Books
  <2> QED BY <2>1
<1>2. <<>> \in Seq(OrderRecords) /\ <<>> \in Seq(StopRecords) /\ {} \in SUBSET Nat /\ 0 \in Int OBVIOUS
<1> HIDE DEF flat
<1>3. /\ d \in Engines /\ d.orders = <<>> /\ d.stops = <<>> /\ d.funds = g /\ d.capped = {}
      /\ d.books = flat /\ d.holding = lots /\ d.carried = lots /\ d.salesPnl = 0 /\ d.pastPnl = 0
      /\ d.broken = e.broken /\ d.synced = e.synced
  BY <1>1, <1>2 DEF Fresh, flat, Engines
<1> HIDE DEF d
<1>4. Opened(d, lots) BY <1>1, <1>3 DEF Opened
<1>5. Running(d) BY <1>3, Zenon DEF Running
<1> QED BY <1>3, <1>4, <1>5, OpenedWhole DEF d

LEMMA EmptiedWhole ==
  ASSUME NEW e, Whole(e, 0), Running(e)
  PROVE  LET d == Emptied(e) IN Whole(d, 0) /\ Len(d.orders) = 0 /\ Bare(d) /\ d.synced = e.synced
<1> DEFINE unprotected == CancelStops(e, DOMAIN e.stops)
           I == LiveOrders(unprotected)
           alone == CancelOrders(unprotected, I)
           lots == [qty |-> 0, cost |-> 0]
           g == Reset(alone.funds)
           d == Emptied(e)
<1>1. Whole(unprotected, 0) /\ Running(unprotected) /\ Same(e, unprotected)
  <2> DEFINE T == DOMAIN e.stops
  <2> HIDE DEF T
  <2>1. LET c == CancelStops(e, T) IN Whole(c, 0) /\ Running(c) /\ Same(e, c) BY StopsCancelledWhole
  <2> QED BY <2>1 DEF T
<1>2. d = IF ~CanReset(alone.funds) THEN Broken(alone, "RESET") ELSE Fresh(alone, g, lots)
  <2> HIDE DEF unprotected
  <2> QED BY DEF Emptied, Fresh, unprotected
<1> HIDE DEF unprotected, d
<1>3. unprotected \in Engines BY <1>1 DEF Whole, Sane
<1>4. Whole(alone, 0) /\ Running(alone) /\ Same(unprotected, alone)
  <2>1. I \in SUBSET LiveOrders(unprotected) OBVIOUS
  <2> HIDE DEF I
  <2>2. LET c == CancelOrders(unprotected, I) IN Whole(c, 0) /\ Running(c) /\ Same(unprotected, c)
    BY <1>1, <2>1, OrdersCancelledWhole
  <2> QED BY <2>2
<1>5. Len(alone.orders) = Len(unprotected.orders)
      /\ \A i \in 1 .. Len(unprotected.orders) : ~Live(alone.orders[i])
  <2>1. I \in SUBSET LiveOrders(unprotected) OBVIOUS
  <2>2. \A i \in 1 .. Len(unprotected.orders) : Live(unprotected.orders[i]) => i \in I BY <1>3, LiveAre
  <2> HIDE DEF I
  <2>3. /\ alone \in After(unprotected)
        /\ \A i \in 1 .. Len(unprotected.orders) :
             IF i \in I THEN Ends(unprotected, alone, i) ELSE Stays(unprotected, alone, i)
    BY <1>3, <2>1, OrdersCancelled
  <2> HIDE DEF alone
  <2>4. Len(alone.orders) = Len(unprotected.orders) BY <2>3 DEF After
  <2>5. ASSUME NEW i \in 1 .. Len(unprotected.orders) PROVE ~Live(alone.orders[i])
    <3>1. CASE i \in I
      <4>1. Ends(unprotected, alone, i) BY <2>3, <3>1
      <4>2. alone.orders[i] = Cancelled(unprotected.orders[i]) /\ Live(unprotected.orders[i]) BY <4>1 DEF Ends
      <4>3. unprotected.orders[i] \in OrderRecords BY <1>3, EngineLens
      <4>4. Cancelled(unprotected.orders[i]).status = "CANCELLED" BY <4>2, <4>3, CancelledOrder
      <4> QED BY <4>2, <4>4 DEF Live
    <3>2. CASE i \notin I
      <4>1. alone.orders[i] = unprotected.orders[i] BY <2>3, <3>2 DEF Stays
      <4> QED BY <2>2, <3>2, <4>1
    <3> QED BY <3>1, <3>2
  <2> QED BY <2>4, <2>5
<1> HIDE DEF alone, I
<1>6. alone \in Engines /\ Sane(alone, 0) BY <1>4 DEF Whole, Sane
<1>7. alone.funds.blocked = 0 /\ Total(alone.funds) = 0 /\ \A i \in OrderId : alone.funds.blocks[i] = 0
  <2>1. \A i \in 1 .. Len(alone.orders) : ~Live(alone.orders[i]) BY <1>5
  <2> QED BY <1>4, <1>6, <2>1, NothingBlocked
<1>8. d = Fresh(alone, g, lots) BY <1>2, <1>7 DEF CanReset
<1>9. /\ g \in Ledgers /\ g.available = OpeningBalance /\ g.blocked = 0 /\ Total(g) = 0
      /\ \A i \in OrderId : g.blocks[i] = 0
  <2>1. alone.funds \in Ledgers BY <1>6, EngineFields
  <2>2. OpeningBalance \in Int BY FundsAssumption
  <2>3. g = [alone.funds EXCEPT !.available = OpeningBalance] BY DEF Reset
  <2> HIDE DEF g
  <2>4. g \in Ledgers /\ g.available = OpeningBalance /\ g.blocked = alone.funds.blocked
        /\ g.blocks = alone.funds.blocks
    BY <2>1, <2>2, <2>3 DEF Ledgers
  <2> QED BY <1>7, <2>4 DEF Total
<1>10. lots \in Lots BY DEF Lots
<1> HIDE DEF g, lots
<1> DEFINE z == Fresh(alone, g, lots)
<1>11. Whole(z, 0) /\ Len(z.orders) = 0 /\ Bare(z) /\ z.synced = alone.synced
  BY <1>4, <1>6, <1>9, <1>10, FreshWhole
<1>12. alone.synced = e.synced BY <1>1, <1>4 DEF Same
<1> HIDE DEF z
<1> QED BY <1>8, <1>11, <1>12 DEF z, d

-----------------------------------------------------------------------------
(* The invariant.                                                          *)

EngineInv ==
  /\ Whole(engine, 0)
  /\ Len(engine.orders) <= Cardinality(OrderId)
  /\ ltp \in Price \cup {None}
  /\ clock \in Nat

\* What a call knows, and leaves: what its sync leaves when that throws.
Now == [ltp |-> ltp, at |-> clock]
Caught == Sync(engine, Now)
Called(z) ==
  /\ Running(engine)
  /\ engine' = IF Running(Caught) THEN z ELSE Caught
  /\ Len(engine'.orders) <= Cardinality(OrderId)
  /\ ltp' = ltp /\ clock' = clock

LEMMA OpensWhole == Init => EngineInv
<1> SUFFICES ASSUME Init PROVE EngineInv OBVIOUS
<1> DEFINE lots == [qty |-> HeldQty, cost |-> HeldCost]
           flat == [p \in Products |-> EmptyPosition]
<1>1. PICK none : none = "" OBVIOUS
<1>2. engine = [orders |-> <<>>, stops |-> <<>>, books |-> flat, holding |-> lots, carried |-> lots,
               salesPnl |-> 0, pastPnl |-> 0, funds |-> OpeningCredit, capped |-> {},
               synced |-> 0, broken |-> none]
  BY <1>1, Zenon DEF Init
<1>3. none \in {"", "FUNDS", "HOLDINGS", "RESET"} BY <1>1, Zenon
<1>4. lots \in Lots BY EngineAssumption DEF Lots
<1>5. flat \in [Products -> Positions]
  <2>1. EmptyPosition \in Positions BY DEF EmptyPosition, Positions, Books
  <2> QED BY <2>1
<1>6. /\ OpeningCredit \in Ledgers /\ OpeningCredit.available = OpeningBalance
      /\ OpeningCredit.blocked = 0 /\ \A i \in OrderId : OpeningCredit.blocks[i] = 0
  BY FundsAssumption DEF OpeningCredit, Ledgers
<1>7. Total(OpeningCredit) = 0
  <2> DEFINE b == OpeningCredit.blocks
             n == Cardinality(OrderId)
  <2>1. n \in Nat /\ 1 .. n = OrderId /\ 0 \in Nat /\ 0 <= n BY FundsAssumption
  <2>2. \A i \in 1 .. n : b[i] \in Int /\ b[i] = 0 BY <1>6, <2>1
  <2> HIDE DEF b, n
  <2>3. \A i \in 0 + 1 .. n : b[i] = 0 BY <2>2
  <2>4. SumTo(b, n) = SumTo(b, 0) BY <2>1, <2>2, <2>3, SumShort
  <2> QED BY <2>4, SumNone DEF Total, b, n
<1>8. <<>> \in Seq(OrderRecords) /\ <<>> \in Seq(StopRecords) /\ {} \in SUBSET Nat /\ 0 \in Int /\ 0 \in Nat
  OBVIOUS
<1> HIDE DEF lots
<1>9. engine \in Engines /\ engine.broken = none
  <2> HIDE DEF flat
  <2> QED BY <1>2, <1>3, <1>4, <1>5, <1>6, <1>8 DEF Engines
<1>10. Opened(engine, lots)
  <2>1. \A p \in Products : flat[p] = EmptyPosition OBVIOUS
  <2> HIDE DEF flat
  <2>2. /\ engine.orders = <<>> /\ engine.stops = <<>> /\ engine.capped = {} /\ engine.books = flat
        /\ engine.holding = lots /\ engine.carried = lots /\ engine.salesPnl = 0 /\ engine.pastPnl = 0
        /\ engine.funds = OpeningCredit
    BY <1>2
  <2> QED BY <1>6, <1>7, <2>1, <2>2 DEF Opened
<1>11. Running(engine) BY <1>1, <1>9, Zenon DEF Running
<1>12. Whole(engine, 0) /\ Len(engine.orders) = 0 /\ Bare(engine) BY <1>4, <1>9, <1>10, <1>11, OpenedWhole
<1>13. ltp \in Price \cup {None} /\ clock \in Nat BY DEF Init
<1> QED BY <1>12, <1>13, FundsAssumption DEF EngineInv

LEMMA NowIs ==
  ASSUME EngineInv, NEW at \in Nat
  PROVE  [ltp |-> ltp, at |-> at] \in Nows
BY EngineAssumption DEF EngineInv, Nows, Prices

LEMMA CaughtWhole ==
  ASSUME EngineInv
  PROVE  /\ Now \in Nows /\ Whole(Caught, 0)
         /\ Len(Caught.orders) >= Len(engine.orders) /\ Len(Caught.stops) = Len(engine.stops)
<1>1. Now \in Nows BY NowIs DEF Now, EngineInv
<1>2. Whole(engine, 0) BY DEF EngineInv
<1> QED BY <1>1, <1>2, Synced DEF Caught

\* A call keeps it if what was asked does, from what the sync leaves.
LEMMA CallKeeps ==
  ASSUME EngineInv, NEW z, Called(z), Running(Caught) => Whole(z, 0)
  PROVE  EngineInv'
<1>1. Whole(Caught, 0) BY CaughtWhole
<1>2. engine' = IF Running(Caught) THEN z ELSE Caught BY DEF Called
<1>3. Whole(engine', 0) BY <1>1, <1>2
<1>4. Whole(engine, 0)' BY <1>3
<1>5. Len(engine'.orders) <= Cardinality(OrderId) /\ ltp' = ltp /\ clock' = clock BY DEF Called
<1> QED BY <1>4, <1>5 DEF EngineInv

LEMMA TickKeeps == EngineInv /\ Tick => EngineInv'
<1> SUFFICES ASSUME EngineInv, Tick PROVE EngineInv' OBVIOUS
<1>1. Whole(engine, 0) /\ engine \in Engines /\ StopsOk(engine) BY DEF EngineInv, Whole, Sane
<1>2. engine' = [engine EXCEPT !.capped = {}] /\ ltp' \in Price /\ clock' = clock BY DEF Tick
<1> DEFINE d == [engine EXCEPT !.capped = {}]
<1>3. /\ d \in Engines /\ d.capped = {}
      /\ d.orders = engine.orders /\ d.books = engine.books /\ d.holding = engine.holding
      /\ d.carried = engine.carried /\ d.salesPnl = engine.salesPnl /\ d.pastPnl = engine.pastPnl
      /\ d.funds = engine.funds /\ d.broken = engine.broken /\ d.stops = engine.stops
  BY <1>1 DEF Engines
<1> HIDE DEF d
<1>4. StopsOk(d) /\ CappedOk(d) BY <1>1, <1>3 DEF StopsOk, CappedOk
<1>5. Whole(d, 0) BY <1>1, <1>3, <1>4, WholeBut
<1>6. Whole(engine', 0) BY <1>2, <1>5 DEF d
<1>7. Len(engine'.orders) = Len(engine.orders) BY <1>2, <1>3 DEF d
<1> QED BY <1>2, <1>6, <1>7 DEF EngineInv

LEMMA SyncKeeps == EngineInv /\ SyncAt => EngineInv'
<1> SUFFICES ASSUME EngineInv, SyncAt PROVE EngineInv' OBVIOUS
<1>1. /\ \E at \in Most(0, clock - Replay) .. clock : engine' = Sync(engine, [ltp |-> ltp, at |-> at])
      /\ Len(engine'.orders) <= Cardinality(OrderId) /\ ltp' = ltp /\ clock' = clock
  BY DEF SyncAt
<1>2. PICK at \in Most(0, clock - Replay) .. clock : engine' = Sync(engine, [ltp |-> ltp, at |-> at])
  BY <1>1
<1>3. at \in Nat
  <2>1. clock \in Nat /\ Replay \in Nat BY EngineAssumption DEF EngineInv
  <2> QED BY <2>1 DEF Most
<1> DEFINE now == [ltp |-> ltp, at |-> at]
<1>4. now \in Nows BY <1>3, NowIs
<1> HIDE DEF now
<1>5. Whole(Sync(engine, now), 0) BY <1>4, Synced DEF EngineInv
<1>6. Whole(engine', 0) BY <1>2, <1>5 DEF now
<1> QED BY <1>1, <1>6 DEF EngineInv

-----------------------------------------------------------------------------
(* The actions.                                                            *)

\* Where a call's order and stop are after its sync.
LEMMA CaughtPlaces ==
  ASSUME EngineInv
  PROVE  /\ \A i \in DOMAIN engine.orders : i \in 1 .. Len(Caught.orders)
         /\ \A t \in DOMAIN engine.stops : t \in 1 .. Len(Caught.stops)
<1>1. engine \in Engines BY DEF EngineInv, Whole, Sane
<1>2. engine.orders \in Seq(OrderRecords) /\ engine.stops \in Seq(StopRecords) BY <1>1, EngineFields
<1>3. /\ DOMAIN engine.orders = 1 .. Len(engine.orders) /\ Len(engine.orders) \in Nat
      /\ DOMAIN engine.stops = 1 .. Len(engine.stops) /\ Len(engine.stops) \in Nat
  BY <1>2, SeqPlaces
<1>4. Whole(Caught, 0) /\ Len(Caught.orders) >= Len(engine.orders) /\ Len(Caught.stops) = Len(engine.stops)
  BY CaughtWhole
<1>5. Caught.orders \in Seq(OrderRecords) BY <1>4, EngineFields DEF Whole, Sane
<1>6. Len(Caught.orders) \in Nat BY <1>5, SeqPlaces
<1>7. \A i \in 1 .. Len(engine.orders) : i \in 1 .. Len(Caught.orders) BY <1>3, <1>4, <1>6
<1> QED BY <1>3, <1>4, <1>7

LEMMA PlaceKeeps == EngineInv /\ Place => EngineInv'
<1> SUFFICES ASSUME EngineInv, Place PROVE EngineInv' OBVIOUS
<1>1. PICK d \in Drafts : Called(Placed(Caught, d, None, Now))
  BY Zenon DEF Place, Call, Called, Caught, Now, Running
<1> DEFINE z == Placed(Caught, d, None, Now)
<1>2. Running(Caught) => Whole(z, 0)
  <2>1. Whole(Caught, 0) /\ Now \in Nows BY CaughtWhole
  <2>2. None \in StopParams \cup {None} OBVIOUS
  <2> QED BY <2>1, <2>2, PlacedWhole, Zenon
<1>3. Called(z) BY <1>1
<1> HIDE DEF z
<1> QED BY <1>2, <1>3, CallKeeps

LEMMA PlaceWithStopKeeps == EngineInv /\ PlaceWithStop => EngineInv'
<1> SUFFICES ASSUME EngineInv, PlaceWithStop PROVE EngineInv' OBVIOUS
<1>1. PICK d \in Drafts, p \in StopParams : Called(Placed(Caught, d, p, Now))
  BY Zenon DEF PlaceWithStop, Call, Called, Caught, Now, Running
<1> DEFINE z == Placed(Caught, d, p, Now)
<1>2. Running(Caught) => Whole(z, 0)
  <2>1. Whole(Caught, 0) /\ Now \in Nows BY CaughtWhole
  <2>2. p \in StopParams \cup {None} OBVIOUS
  <2> QED BY <2>1, <2>2, PlacedWhole, Zenon
<1>3. Called(z) BY <1>1
<1> HIDE DEF z
<1> QED BY <1>2, <1>3, CallKeeps

LEMMA ModifyKeeps == EngineInv /\ Modify => EngineInv'
<1> SUFFICES ASSUME EngineInv, Modify PROVE EngineInv' OBVIOUS
<1>1. PICK i \in DOMAIN engine.orders, c \in Changes : Called(Modified(Caught, i, c, Now))
  BY Zenon DEF Modify, Call, Called, Caught, Now, Running
<1> DEFINE z == Modified(Caught, i, c, Now)
<1>2. Running(Caught) => Whole(z, 0)
  <2>1. Whole(Caught, 0) /\ Now \in Nows BY CaughtWhole
  <2>2. i \in 1 .. Len(Caught.orders) BY CaughtPlaces
  <2>3. i \in OrderId
    <3>1. engine.orders \in Seq(OrderRecords) BY EngineFields DEF EngineInv, Whole, Sane
    <3>2. DOMAIN engine.orders = 1 .. Len(engine.orders) /\ Len(engine.orders) \in Nat BY <3>1, SeqPlaces
    <3>3. Len(engine.orders) <= Cardinality(OrderId) BY DEF EngineInv
    <3> QED BY <3>2, <3>3, FundsAssumption
  <2> QED BY <2>1, <2>2, <2>3, ModifiedWhole, Zenon
<1>3. Called(z) BY <1>1
<1> HIDE DEF z
<1> QED BY <1>2, <1>3, CallKeeps

LEMMA CancelOrderKeeps == EngineInv /\ CancelOrder => EngineInv'
<1> SUFFICES ASSUME EngineInv, CancelOrder PROVE EngineInv' OBVIOUS
<1>1. PICK i \in DOMAIN engine.orders : Called(CancelOrders(Caught, {i} \cap LiveOrders(Caught)))
  BY Zenon DEF CancelOrder, Call, Called, Caught, Now, Running
<1> DEFINE z == CancelOrders(Caught, {i} \cap LiveOrders(Caught))
<1>2. Running(Caught) => Whole(z, 0)
  <2>1. Whole(Caught, 0) /\ Now \in Nows BY CaughtWhole
  <2> DEFINE I == {i} \cap LiveOrders(Caught)
  <2>2. I \in SUBSET LiveOrders(Caught) OBVIOUS
  <2> HIDE DEF I
  <2>3. ASSUME Running(Caught) PROVE Whole(CancelOrders(Caught, I), 0) BY <2>1, <2>2, <2>3, OrdersCancelledWhole
  <2> QED BY <2>3 DEF I
<1>3. Called(z) BY <1>1
<1> HIDE DEF z
<1> QED BY <1>2, <1>3, CallKeeps

LEMMA PlaceTrailingStopKeeps == EngineInv /\ PlaceTrailingStop => EngineInv'
<1> SUFFICES ASSUME EngineInv, PlaceTrailingStop PROVE EngineInv' OBVIOUS
<1>1. PICK product \in Products, p \in StopParams : Called(StopPlaced(Caught, product, p, Now))
  BY Zenon DEF PlaceTrailingStop, Call, Called, Caught, Now, Running
<1> DEFINE z == StopPlaced(Caught, product, p, Now)
<1>2. Running(Caught) => Whole(z, 0)
  <2>1. Whole(Caught, 0) /\ Now \in Nows BY CaughtWhole
  <2> QED BY <2>1, StopPlacedWhole, Zenon
<1>3. Called(z) BY <1>1
<1> HIDE DEF z
<1> QED BY <1>2, <1>3, CallKeeps

LEMMA ModifyTrailingStopKeeps == EngineInv /\ ModifyTrailingStop => EngineInv'
<1> SUFFICES ASSUME EngineInv, ModifyTrailingStop PROVE EngineInv' OBVIOUS
<1>1. PICK t \in DOMAIN engine.stops, p \in StopParams, price \in StopPrices \cup {None} :
           Called(StopModified(Caught, t, p, price, Now))
  BY Zenon DEF ModifyTrailingStop, Call, Called, Caught, Now, Running
<1> DEFINE z == StopModified(Caught, t, p, price, Now)
<1>2. Running(Caught) => Whole(z, 0)
  <2>1. Whole(Caught, 0) /\ Now \in Nows BY CaughtWhole
  <2>2. t \in 1 .. Len(Caught.stops) BY CaughtPlaces
  <2> QED BY <2>1, <2>2, StopModifiedWhole, Zenon
<1>3. Called(z) BY <1>1
<1> HIDE DEF z
<1> QED BY <1>2, <1>3, CallKeeps

LEMMA CancelTrailingStopKeeps == EngineInv /\ CancelTrailingStop => EngineInv'
<1> SUFFICES ASSUME EngineInv, CancelTrailingStop PROVE EngineInv' OBVIOUS
<1>1. PICK t \in DOMAIN engine.stops : Called(CancelStops(Caught, {t}))
  BY Zenon DEF CancelTrailingStop, Call, Called, Caught, Now, Running
<1> DEFINE z == CancelStops(Caught, {t})
<1>2. Running(Caught) => Whole(z, 0)
  <2>1. Whole(Caught, 0) /\ Now \in Nows BY CaughtWhole
  <2>2. ASSUME Running(Caught) PROVE Whole(z, 0) BY <2>1, <2>2, StopsCancelledWhole
  <2> QED BY <2>2
<1>3. Called(z) BY <1>1
<1> HIDE DEF z
<1> QED BY <1>2, <1>3, CallKeeps

LEMMA ClosePositionKeeps == EngineInv /\ ClosePosition => EngineInv'
<1> SUFFICES ASSUME EngineInv, ClosePosition PROVE EngineInv' OBVIOUS
<1>1. PICK product \in Products : Called(PositionClosed(Caught, product, Now))
  BY Zenon DEF ClosePosition, Call, Called, Caught, Now, Running
<1> DEFINE z == PositionClosed(Caught, product, Now)
<1>2. Running(Caught) => Whole(z, 0)
  <2>1. Whole(Caught, 0) /\ Now \in Nows BY CaughtWhole
  <2> QED BY <2>1, PositionClosedWhole, Zenon
<1>3. Called(z) BY <1>1
<1> HIDE DEF z
<1> QED BY <1>2, <1>3, CallKeeps

LEMMA ResetAccountKeeps == EngineInv /\ ResetAccount => EngineInv'
<1> SUFFICES ASSUME EngineInv, ResetAccount PROVE EngineInv' OBVIOUS
<1>1. Called(Emptied(Caught))
  BY Zenon DEF ResetAccount, Call, Called, Caught, Now, Running
<1> DEFINE z == Emptied(Caught)
<1>2. Running(Caught) => Whole(z, 0)
  <2>1. Whole(Caught, 0) /\ Now \in Nows BY CaughtWhole
  <2>2. ASSUME Running(Caught) PROVE Whole(z, 0) BY <2>1, <2>2, EmptiedWhole
  <2> QED BY <2>2
<1>3. Called(z) BY <1>1
<1> HIDE DEF z
<1> QED BY <1>2, <1>3, CallKeeps

LEMMA ElapseKeeps == EngineInv /\ Elapse => EngineInv'
<1> SUFFICES ASSUME EngineInv, Elapse PROVE EngineInv' OBVIOUS
<1>1. engine' = engine /\ ltp' = ltp /\ clock' = clock + 1 BY DEF Elapse
<1>2. Whole(engine', 0) BY <1>1 DEF EngineInv
<1>3. clock' \in Nat BY <1>1 DEF EngineInv
<1> QED BY <1>1, <1>2, <1>3 DEF EngineInv

\* The inductive invariant: what a call leaves is whole again, and is handed to the next.
THEOREM EngineInvariant == Spec => []EngineInv
<1>1. Init => EngineInv BY OpensWhole
<1>2. EngineInv /\ [Next]_vars => EngineInv'
  <2>1. CASE Next
    <3> QED BY <2>1, TickKeeps, ElapseKeeps, SyncKeeps, PlaceKeeps, PlaceWithStopKeeps, ModifyKeeps,
            CancelOrderKeeps, PlaceTrailingStopKeeps, ModifyTrailingStopKeeps, CancelTrailingStopKeeps,
            ClosePositionKeeps, ResetAccountKeeps, Zenon DEF Next
  <2>2. CASE UNCHANGED vars
    <3> SUFFICES ASSUME EngineInv PROVE EngineInv' OBVIOUS
    <3>1. engine' = engine /\ ltp' = ltp /\ clock' = clock BY <2>2 DEF vars
    <3>2. Whole(engine', 0) BY <3>1 DEF EngineInv
    <3> QED BY <3>1, <3>2 DEF EngineInv
  <2> QED BY <2>1, <2>2, Zenon
<1> QED BY <1>1, <1>2, PTL DEF Spec

-----------------------------------------------------------------------------
(* What the invariant gives.                                               *)

\* Every field holds a value of its kind, and no order is filled beyond what it asked for.
THEOREM EngineTypes == Spec => []TypeOK
<1>1. EngineInv => TypeOK
  <2> SUFFICES ASSUME EngineInv PROVE TypeOK OBVIOUS
  <2>1. engine \in Engines /\ CappedOk(engine) BY DEF EngineInv, Whole, Sane
  <2>2. engine.orders \in Seq(OrderRecords) /\ engine.books \in [Products -> Positions]
        /\ engine.holding \in Lots /\ engine.funds \in Ledgers
    BY <2>1, EngineFields
  <2>3. engine.broken \in {"", "FUNDS", "HOLDINGS", "RESET"} BY <2>1, EngineFields, Zenon
  <2>4. engine.books \in [Products -> Books] /\ engine.holding \in [qty : Nat, cost : Nat]
    BY <2>2 DEF Positions, Lots
  <2>5. DOMAIN engine.orders = 1 .. Len(engine.orders) BY <2>2, SeqPlaces
  <2>6. engine.capped \subseteq {i \in DOMAIN engine.orders : Live(engine.orders[i])}
    BY <2>1, <2>5 DEF CappedOk, Live
  <2>7. ASSUME NEW i \in DOMAIN engine.orders
        PROVE  LET o == engine.orders[i] IN
               /\ o.status \in {"AMO", "OPEN", "EXECUTED", "CANCELLED", "REJECTED"}
               /\ o.filled \in 0 .. o.qty /\ (o.filled = o.qty) = (o.status = "EXECUTED")
    <3> DEFINE o == engine.orders[i]
    <3>1. o \in OrderRecords BY <2>2, <2>5, SeqPlaces
    <3> HIDE DEF o
    <3>2. /\ o.status \in {"AMO", "OPEN", "EXECUTED", "CANCELLED", "REJECTED"}
          /\ o.filled \in Nat /\ o.qty \in Nat /\ OrderOk(o)
      BY <3>1, OrderFields
    <3>3. o.filled <= o.qty /\ (o.filled = o.qty) = (o.status = "EXECUTED") BY <3>2 DEF OrderOk
    <3> QED BY <3>2, <3>3 DEF o
  <2> QED BY <2>2, <2>3, <2>4, <2>6, <2>7, Zenon DEF TypeOK
<1> QED BY <1>1, EngineInvariant, PTL

\* What holds of an engine that has not thrown.
LEMMA SoundHas ==
  ASSUME EngineInv, Sound
  PROVE  /\ engine \in Engines /\ MoneyOk(engine) /\ SharesOk(engine) /\ BlocksOk(engine)
         /\ Covered(engine) /\ Net(engine, "DELIVERY") >= 0
<1>1. Running(engine) BY Zenon DEF Sound, Running
<1>2. Whole(engine, 0) BY DEF EngineInv
<1>3. Sane(engine, 0) /\ Covered(engine) BY <1>1, <1>2 DEF Whole
<1>4. MoneyOk(engine) /\ SharesOk(engine) /\ BlocksOk(engine) BY <1>1, <1>3, NotDebit, Zenon DEF Sane
<1> QED BY <1>3, <1>4 DEF Sane

\* No paisa is made or lost, for any prices, orders and opening balance.
THEOREM EngineMoney == Spec => []MoneyAddsUp
<1>1. EngineInv => MoneyAddsUp
  <2> SUFFICES ASSUME EngineInv, Sound
      PROVE engine.funds.available + engine.funds.blocked + engine.holding.cost
              + SignedCost(engine.books["INTRADAY"]) + SignedCost(engine.books["DELIVERY"])
            = OpeningBalance + engine.carried.cost + engine.pastPnl + engine.salesPnl
              + engine.books["INTRADAY"].realisedPnl + engine.books["DELIVERY"].realisedPnl
    BY DEF MoneyAddsUp
  <2>1. engine \in Engines /\ MoneyOk(engine) BY SoundHas
  <2> DEFINE a == engine.funds.available
             b == engine.funds.blocked
             c == engine.holding.cost
             x == SignedCost(engine.books["INTRADAY"])
             y == SignedCost(engine.books["DELIVERY"])
             k == engine.carried.cost
             p == engine.pastPnl
             s == engine.salesPnl
             u == engine.books["INTRADAY"].realisedPnl
             v == engine.books["DELIVERY"].realisedPnl
  <2>2. /\ a \in Int /\ b \in Int /\ c \in Int /\ k \in Int /\ p \in Int /\ s \in Int
        /\ u \in Int /\ v \in Int /\ x \in Int /\ y \in Int
    <3>1. /\ engine.funds \in Ledgers /\ engine.holding \in Lots /\ engine.carried \in Lots
          /\ p \in Int /\ s \in Int /\ engine.books \in [Products -> Positions]
      BY <2>1, EngineFields
    <3>2. engine.books["INTRADAY"] \in Books /\ engine.books["DELIVERY"] \in Books
      BY <3>1 DEF Products, Positions
    <3>3. x \in Int /\ y \in Int /\ u \in Int /\ v \in Int
      BY <3>2 DEF SignedCost, Books
    <3>4. a \in Int /\ b \in Int /\ c \in Int /\ k \in Int BY <3>1 DEF Ledgers, Lots
    <3> QED BY <3>1, <3>3, <3>4
  <2>3. (a + b) + (c + x + y - k - p - s - u - v) = OpeningBalance BY <2>1 DEF MoneyOk, Worth
  <2>4. OpeningBalance \in Int BY FundsAssumption
  <2> HIDE DEF a, b, c, x, y, k, p, s, u, v
  <2>5. a + b + c + x + y = OpeningBalance + k + p + s + u + v BY <2>2, <2>3, <2>4
  <2> QED BY <2>5 DEF a, b, c, x, y, k, p, s, u, v
<1> QED BY <1>1, EngineInvariant, PTL

\* No share is made or lost.
THEOREM EngineShares == Spec => []SharesAddUp
<1>1. EngineInv => SharesAddUp
  <2> SUFFICES ASSUME EngineInv, Sound PROVE SharesAddUp BY DEF SharesAddUp
  <2>1. SharesOk(engine) BY SoundHas
  <2>2. ASSUME NEW product
        PROVE  Amounts(LAMBDA i : IF engine.orders[i].product # product THEN 0
                 ELSE IF engine.orders[i].side = "BUY" THEN engine.orders[i].filled
                 ELSE -engine.orders[i].filled) = Bought(engine, product)
    BY DEF Amounts, Bought, Signed
  <2> QED BY <2>1, <2>2 DEF SharesAddUp, SharesOk
<1> QED BY <1>1, EngineInvariant, PTL

\* No delivery sell is left uncovered.
THEOREM EngineSells == Spec => []SellsAreCovered
<1>1. EngineInv => SellsAreCovered
  <2> SUFFICES ASSUME EngineInv, Sound PROVE SellsAreCovered BY DEF SellsAreCovered
  <2>1. Covered(engine) /\ Net(engine, "DELIVERY") >= 0 BY SoundHas
  <2> QED BY <2>1 DEF SellsAreCovered, Covered, Asked, UserSells
<1> QED BY <1>1, EngineInvariant, PTL

\* A call throws only on a debit balance.
THEOREM EngineThrows == Spec => []OnlyDebitBreaks
<1>1. EngineInv => OnlyDebitBreaks
  <2> SUFFICES ASSUME EngineInv, ~Sound PROVE OnlyDebitBreaks BY DEF OnlyDebitBreaks
  <2>1. ~Running(engine) BY Zenon DEF Sound, Running
  <2>2. Debit(engine) BY <2>1 DEF EngineInv, Whole, Sane
  <2> QED BY <2>2, Zenon DEF OnlyDebitBreaks, Debit
<1> QED BY <1>1, EngineInvariant, PTL

\* What is due for an order, as its property says it.
BlockIsRight(o, block) ==
  LET worth == IF o.price = None THEN 0 ELSE (o.qty - o.filled) * o.price
  IN  CASE ~(Live(o) /\ o.side = "BUY") -> block = 0
        [] Live(o) /\ o.side = "BUY" /\ o.type = "LIMIT" ->
             block \in IF o.exit THEN 0 .. worth ELSE {worth}
        [] OTHER -> block >= 0

LEMMA DueIsRight ==
  ASSUME NEW o \in OrderRecords, NEW block \in Int, Due(o, block)
  PROVE  BlockIsRight(o, block)
<1> DEFINE worth == IF o.price = None THEN 0 ELSE (o.qty - o.filled) * o.price
<1>1. CASE ~(Live(o) /\ o.side = "BUY")
  <2>1. block = 0 BY <1>1 DEF Due
  <2> QED BY <1>1, <2>1 DEF BlockIsRight
<1>2. CASE Live(o) /\ o.side = "BUY" /\ o.type = "LIMIT"
  <2>1. block >= 0 /\ IF o.exit THEN block <= OrderWorth(o) ELSE block = OrderWorth(o) BY <1>2 DEF Due
  <2>2. OrderWorth(o) = worth /\ worth \in Int
    <3>1. o.price \in Circuit \cup {None} /\ (o.type = "MARKET") = (o.price = None)
      BY <1>2, OrderFields DEF OrderOk
    <3>2. o.price # None BY <1>2, <3>1
    <3>4. Circuit \subseteq Int BY EngineAssumption
    <3>3. o.qty \in Nat /\ o.filled \in Nat BY OrderFields
    <3>5. OrderWorth(o) = worth
      <4>1. OrderWorth(o) = Left(o) * o.price BY <3>2 DEF OrderWorth
      <4>2. Left(o) = o.qty - o.filled BY DEF Left
      <4>3. worth = (o.qty - o.filled) * o.price BY <3>2
      <4> HIDE DEF worth
      <4> QED BY <4>1, <4>2, <4>3
    <3>6. o.price \in Int /\ o.qty - o.filled \in Int
      <4>1. o.price \in Circuit BY <3>1, <3>2, Zenon
      <4>2. o.price \in Int BY <3>4, <4>1
      <4>3. \A x \in Nat, y \in Nat : x - y \in Int OBVIOUS
      <4> QED BY <3>3, <4>2, <4>3, Zenon
    <3>7. \A x \in Int, y \in Int : x * y \in Int OBVIOUS
    <3>8. (o.qty - o.filled) * o.price \in Int BY <3>6, <3>7, Zenon
    <3>9. worth = (o.qty - o.filled) * o.price BY <3>2, Zenon
    <3> QED BY <3>5, <3>8, <3>9, Zenon
  <2> HIDE DEF worth
  <2>3. block \in IF o.exit THEN 0 .. worth ELSE {worth} BY <2>1, <2>2
  <2> QED BY <1>2, <2>3 DEF BlockIsRight, worth
<1>3. CASE Live(o) /\ o.side = "BUY" /\ o.type # "LIMIT"
  <2>1. block >= 0 BY <1>3 DEF Due
  <2> QED BY <1>3, <2>1 DEF BlockIsRight
<1> QED BY <1>1, <1>2, <1>3

\* Cash is blocked exactly for what live BUY orders may still cost.
THEOREM EngineBlocks == Spec => []BlocksCoverBuys
<1>1. EngineInv => BlocksCoverBuys
  <2> SUFFICES ASSUME EngineInv, Sound PROVE BlocksCoverBuys BY DEF BlocksCoverBuys
  <2> DEFINE n == Cardinality(OrderId)
             m == Len(engine.orders)
             b == engine.funds.blocks
             f == [i \in 1 .. m |-> b[i]]
  <2>1. engine \in Engines /\ BlocksOk(engine) BY SoundHas
  <2>2. /\ m \in Nat /\ DOMAIN engine.orders = 1 .. m
        /\ \A i \in 1 .. m : engine.orders[i] \in OrderRecords
    BY <2>1, EngineLens
  <2>3. n \in Nat /\ OrderId = 1 .. n /\ m <= n BY FundsAssumption DEF EngineInv
  <2>4. engine.funds \in Ledgers BY <2>1, EngineFields
  <2>5. \A i \in 1 .. n : b[i] \in Int BY <2>3, <2>4, LedgerFields
  <2>6. \A i \in 1 .. n : IF i <= m THEN Due(engine.orders[i], b[i]) ELSE b[i] = 0
    BY <2>1, <2>3 DEF BlocksOk
  <2>7. engine.funds.blocked = SumTo(b, n) BY <2>1 DEF BlocksOk, Total
  <2>8. SumTo(f, m) = SumTo(b, n)
    <3>1. \A i \in 1 .. m : f[i] = b[i] OBVIOUS
    <3> HIDE DEF m, n, b, f
    <3>2. \A i \in m + 1 .. n : b[i] = 0 BY <2>2, <2>3, <2>6
    <3>3. SumTo(b, n) = SumTo(b, m) BY <2>2, <2>3, <2>5, <3>2, SumShort
    <3>4. \A i \in 1 .. m : b[i] \in Int /\ f[i] = b[i] BY <2>2, <2>3, <2>5, <3>1
    <3>5. SumTo(f, m) = SumTo(b, m) BY <2>2, <3>4, SumSame
    <3> QED BY <3>3, <3>5
  <2>9. Amounts(LAMBDA i : engine.funds.blocks[i]) = SumTo(f, m) BY DEF Amounts
  <2>10. ASSUME NEW i \in DOMAIN engine.orders PROVE BlockIsRight(engine.orders[i], engine.funds.blocks[i])
    <3>1. i \in 1 .. m /\ i \in 1 .. n BY <2>2, <2>3
    <3>2. Due(engine.orders[i], b[i]) /\ b[i] \in Int /\ engine.orders[i] \in OrderRecords
      BY <2>2, <2>5, <2>6, <3>1
    <3> QED BY <3>2, DueIsRight
  <2> QED BY <2>7, <2>8, <2>9, <2>10 DEF BlocksCoverBuys, BlockIsRight
<1> QED BY <1>1, EngineInvariant, PTL
=============================================================================
