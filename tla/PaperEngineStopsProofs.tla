------------------------ MODULE PaperEngineStopsProofs -----------------------
(***************************************************************************)
(* What the paper engine leaves in order between calls, for every          *)
(* instrument, opening balance and holding, and whatever is asked for: the *)
(* stops, the orders they end with and the positions they follow, and what *)
(* the market's hours leave open.                                          *)
(*                                                                         *)
(* Beside EngineInv, the invariant is TidyInv: an engine that has not      *)
(* thrown is Tidy.  Inside a call the stops lag behind the position that a *)
(* fill has changed and the order that filled is not yet seen to, which    *)
(* TiedBut says.  The lemmas follow the code's order again: a stop at a    *)
(* price, a fill, what follows a fill, a match, the exits, the events of   *)
(* the session one by one and all that are due, and then each call.        *)
(***************************************************************************)
EXTENDS PaperEngineProofs

-----------------------------------------------------------------------------
(* Stops, the orders they end with and the positions they follow.          *)

\* The stop's exit is one of its product, which works only while the stop is triggered; a triggered
\* stop has one, a waiting one a live entry order; and one that protects has its position's side and
\* quantity.  Two of them wait for what follows a fill: that of the order i which opened a position,
\* and, when loose, that of the position the stop has still to follow.
StopTied(e, s, i, loose) ==
  /\ s.exit # None => /\ s.exit \in 1 .. Len(e.orders)
                      /\ e.orders[s.exit].exit /\ e.orders[s.exit].product = s.product
                      /\ Live(e.orders[s.exit]) => s.status = "TRIGGERED"
  /\ s.status = "TRIGGERED" =>
       s.exit # None /\ (Live(e.orders[s.exit]) \/ (loose /\ e.orders[s.exit].status = "EXECUTED"))
  /\ s.status = "PENDING_ENTRY" =>
       /\ s.exit = None /\ s.entry \in 1 .. Len(e.orders) /\ e.orders[s.entry].product = s.product
       /\ Live(e.orders[s.entry]) \/ (s.entry = i /\ e.orders[s.entry].status = "EXECUTED")
  /\ s.status \in {"ARMED", "TRAILING"} => s.exit = None
  /\ Protecting(s) =>
       loose \/ (Opens(Net(e, s.product), s.direction) /\ s.qty = Abs(Net(e, s.product)))
\* One stop protects a position.
Alone(e) ==
  \A t, u \in 1 .. Len(e.stops) :
    Protecting(e.stops[t]) /\ Protecting(e.stops[u]) /\ e.stops[t].product = e.stops[u].product => t = u

TiedBut(e, i, late) ==
  (\A t \in 1 .. Len(e.stops) : StopTied(e, e.stops[t], i, t \in late)) /\ Alone(e)

\* Exits are placed at a price: without one none works.
Quoted(e, price) == price = None => \A i \in 1 .. Len(e.orders) : Live(e.orders[i]) => ~e.orders[i].exit

\* What rests at a time of the day: nothing in the products of m.still, none of m.amo is an AMO and
\* none of m.open is open.  An intraday order never waits for a session.
Calm(e, m) ==
  /\ \A p \in m.still : Net(e, p) = 0
  /\ \A i \in 1 .. Len(e.orders) :
       /\ Live(e.orders[i]) => e.orders[i].product \notin m.still
       /\ e.orders[i].status = "AMO" => i \notin m.amo /\ e.orders[i].product # "INTRADAY"
       /\ e.orders[i].status = "OPEN" => i \notin m.open
  /\ \A t \in 1 .. Len(e.stops) : Active(e.stops[t]) => e.stops[t].product \notin m.still

Tidy(e, price, m) == TiedBut(e, 0, {}) /\ Quoted(e, price) /\ Calm(e, m)

\* The stops of d are those of e, none of them made active.
Kept(e, d) ==
  \A t \in 1 .. Len(e.stops) :
    /\ d.stops[t].product = e.stops[t].product /\ d.stops[t].exit = e.stops[t].exit
    /\ Active(d.stops[t]) => Active(e.stops[t])

LEMMA OrderAfter ==
  ASSUME NEW e \in Engines, NEW d \in After(e), NEW i \in 1 .. Len(e.orders)
  PROVE  /\ d.orders[i].product = e.orders[i].product /\ d.orders[i].exit = e.orders[i].exit
         /\ Live(d.orders[i]) => d.orders[i] = e.orders[i]
         /\ Live(e.orders[i]) \/ d.orders[i] = e.orders[i]
         /\ (d.orders[i].status = "EXECUTED") <=> (e.orders[i].status = "EXECUTED")
<1>1. e.orders[i] \in OrderRecords BY EngineLens
<1>2. CASE Stays(e, d, i) BY <1>2 DEF Stays
<1>3. CASE Ends(e, d, i)
  <2>1. Live(e.orders[i]) /\ d.orders[i] = Cancelled(e.orders[i]) BY <1>3 DEF Ends
  <2>2. /\ d.orders[i].status = "CANCELLED" /\ d.orders[i].product = e.orders[i].product
        /\ d.orders[i].exit = e.orders[i].exit
    BY <1>1, <2>1, CancelledOrder
  <2> QED BY <2>1, <2>2 DEF Live
<1>4. Stays(e, d, i) \/ Ends(e, d, i) BY DEF After
<1> QED BY <1>2, <1>3, <1>4

LEMMA NetAfter ==
  ASSUME NEW e, NEW d \in After(e), NEW p
  PROVE  Net(d, p) = Net(e, p)
BY DEF After, Net

\* What only ends orders and stops leaves the rest calm.
LEMMA AfterCalm ==
  ASSUME NEW e \in Engines, NEW d \in After(e), Kept(e, d), NEW m, Calm(e, m), NEW price, Quoted(e, price)
  PROVE  Calm(d, m) /\ Quoted(d, price)
<1>1. d \in Engines /\ Len(d.stops) = Len(e.stops) /\ Len(d.orders) = Len(e.orders) BY AfterIs
<1>2. \A p \in m.still : Net(d, p) = 0 BY NetAfter DEF Calm
<1>3. ASSUME NEW i \in 1 .. Len(d.orders)
      PROVE  /\ Live(d.orders[i]) => d.orders[i].product \notin m.still
             /\ d.orders[i].status = "AMO" => i \notin m.amo /\ d.orders[i].product # "INTRADAY"
             /\ d.orders[i].status = "OPEN" => i \notin m.open
             /\ Live(d.orders[i]) => d.orders[i] = e.orders[i]
  <2>1. i \in 1 .. Len(e.orders) BY <1>1
  <2>2. Live(d.orders[i]) => d.orders[i] = e.orders[i] BY <2>1, OrderAfter
  <2>3. /\ Live(e.orders[i]) => e.orders[i].product \notin m.still
        /\ e.orders[i].status = "AMO" => i \notin m.amo /\ e.orders[i].product # "INTRADAY"
        /\ e.orders[i].status = "OPEN" => i \notin m.open
    BY <2>1 DEF Calm
  <2> QED BY <2>2, <2>3 DEF Live
<1>4. ASSUME NEW t \in 1 .. Len(d.stops), Active(d.stops[t]) PROVE d.stops[t].product \notin m.still
  BY <1>1, <1>4 DEF Kept, Calm
<1>5. Quoted(d, price) BY <1>1, <1>3 DEF Quoted
<1> QED BY <1>2, <1>3, <1>4, <1>5 DEF Calm

LEMMA OnlyEndKept ==
  ASSUME NEW e \in Engines, NEW d, OnlyEnd(e, d)
  PROVE  Kept(e, d)
<1> SUFFICES ASSUME NEW t \in 1 .. Len(e.stops)
             PROVE  /\ d.stops[t].product = e.stops[t].product /\ d.stops[t].exit = e.stops[t].exit
                    /\ Active(d.stops[t]) => Active(e.stops[t])
  BY DEF Kept
<1>1. e.stops[t] \in StopRecords BY EngineLens
<1>2. /\ Cancelled(e.stops[t]).product = e.stops[t].product /\ Cancelled(e.stops[t]).exit = e.stops[t].exit
      /\ ~Active(Cancelled(e.stops[t]))
  BY <1>1 DEF Cancelled, StopRecords, Active
<1> QED BY <1>2 DEF OnlyEnd

LEMMA KeptKept ==
  ASSUME NEW e, NEW d, NEW c, Len(d.stops) = Len(e.stops), Kept(e, d), Kept(d, c)
  PROVE  Kept(e, c)
BY DEF Kept

\* The stops that end with these orders.
LEMMA StopsOfCancelled ==
  ASSUME NEW e \in Engines, NEW I \in SUBSET LiveOrders(e)
  PROVE  LET d == CancelOrders(e, I) IN
         \A t \in 1 .. Len(e.stops) :
           d.stops[t] = IF \/ e.stops[t].status = "PENDING_ENTRY" /\ e.stops[t].entry \in I
                           \/ e.stops[t].status = "TRIGGERED" /\ e.stops[t].exit \in I
                        THEN Cancelled(e.stops[t]) ELSE e.stops[t]
<1> DEFINE freed  == [e EXCEPT !.funds = ReleaseAll(@, I), !.capped = @ \ I]
           ended  == EndOrders(freed, I)
           closed == EntryClosed(ended, I)
           d      == ExitEnded(closed, I)
           n      == Len(e.stops)
<1>1. ended.stops = e.stops /\ ended \in Engines
  <2> DEFINE orders == CancelIn(e.orders, I)
  <2>1. e.orders \in Seq(OrderRecords) /\ e.funds \in Ledgers /\ e.capped \subseteq Nat BY EngineFields
  <2>2. \A i \in 1 .. Len(e.orders) : i \in I => Cancelled(e.orders[i]) \in OrderRecords
    BY LiveAre, EngineLens, CancelledOrder
  <2>3. orders \in Seq(OrderRecords) BY <2>1, <2>2, CancelledIn
  <2>4. ReleaseAll(e.funds, I) \in Ledgers BY <2>1, LedgerFreed
  <2>5. freed.orders = e.orders BY DEF Engines
  <2>6. ended = [freed EXCEPT !.orders = orders] BY <2>5 DEF EndOrders
  <2> DEFINE funds == ReleaseAll(e.funds, I)
             capped == e.capped \ I
  <2>7. ended = [e EXCEPT !.orders = orders, !.funds = funds, !.capped = capped]
    <3> HIDE DEF orders, ended
    <3>1. freed = [e EXCEPT !.funds = funds, !.capped = capped] OBVIOUS
    <3> HIDE DEF freed, funds, capped
    <3> QED BY <2>6, <3>1 DEF Engines
  <2>8. funds \in Ledgers /\ capped \in SUBSET Nat BY <2>1, <2>4
  <2> HIDE DEF orders, funds, capped, ended
  <2> QED BY <2>3, <2>7, <2>8 DEF Engines
<1> HIDE DEF freed, ended
<1>2. DOMAIN ended.stops = 1 .. n /\ Len(ended.stops) = n BY <1>1, EngineLens
<1> DEFINE A == {t \in DOMAIN ended.stops :
                   ended.stops[t].entry \in I /\ ended.stops[t].status = "PENDING_ENTRY"}
           B == {t \in DOMAIN closed.stops :
                   closed.stops[t].exit \in I /\ closed.stops[t].status = "TRIGGERED"}
<1>3. /\ closed \in After(ended)
      /\ \A t \in 1 .. n : closed.stops[t] = IF t \in A THEN Cancelled(e.stops[t]) ELSE e.stops[t]
  <2>1. closed = EndStops(ended, A) BY DEF EntryClosed
  <2> HIDE DEF A, closed
  <2> QED BY <1>1, <1>2, <2>1, StopsEnd
<1> HIDE DEF closed
<1>4. closed \in Engines /\ Len(closed.stops) = n BY <1>2, <1>3, AfterIs, <1>1
<1>5. DOMAIN closed.stops = 1 .. n BY <1>4, EngineLens
<1>6. \A t \in 1 .. n : d.stops[t] = IF t \in B THEN Cancelled(closed.stops[t]) ELSE closed.stops[t]
  <2>1. d = EndStops(closed, B) BY DEF ExitEnded
  <2> HIDE DEF B, d
  <2> QED BY <1>4, <2>1, StopsEnd
<1>7. \A t \in 1 .. n :
        d.stops[t] = IF \/ e.stops[t].status = "PENDING_ENTRY" /\ e.stops[t].entry \in I
                        \/ e.stops[t].status = "TRIGGERED" /\ e.stops[t].exit \in I
                     THEN Cancelled(e.stops[t]) ELSE e.stops[t]
  <2> TAKE t \in 1 .. n
  <2>1. t \in A <=> e.stops[t].entry \in I /\ e.stops[t].status = "PENDING_ENTRY" BY <1>1, <1>2
  <2>2. t \in B <=> closed.stops[t].exit \in I /\ closed.stops[t].status = "TRIGGERED" BY <1>5
  <2>3. Cancelled(e.stops[t]).status = "CANCELLED" BY EngineLens, CancelledStop
  <2> HIDE DEF A, B, d
  <2>4. CASE t \in A BY <1>3, <1>6, <2>1, <2>2, <2>3, <2>4
  <2>5. CASE t \notin A BY <1>3, <1>6, <2>1, <2>2, <2>5
  <2> QED BY <2>4, <2>5
<1>8. CancelOrders(e, I) = d BY DEF CancelOrders, d, closed, ended, freed
<1> HIDE DEF d
<1> QED BY <1>7, <1>8

\* A stop that stays or is cancelled while these orders end.
Cut(e, d, I, s, r, i, loose) ==
  /\ e \in Engines /\ d \in After(e)
  /\ \A j \in 1 .. Len(e.orders) : IF j \in I THEN Ends(e, d, j) ELSE Stays(e, d, j)
  /\ s \in StopRecords /\ loose \in BOOLEAN /\ StopTied(e, s, i, loose)
  /\ \/ r = Cancelled(s) /\ (s.exit # None => s.exit \in I \/ ~Live(e.orders[s.exit]))
     \/ r = s /\ (s.status = "TRIGGERED" => s.exit \notin I)
              /\ (s.status = "PENDING_ENTRY" => s.entry \notin I)

LEMMA CutTied ==
  ASSUME NEW e, NEW d, NEW I, NEW s, NEW r, NEW i, NEW loose, Cut(e, d, I, s, r, i, loose)
  PROVE  StopTied(d, r, i, loose)
<1>0. /\ e \in Engines /\ d \in After(e) /\ s \in StopRecords /\ StopTied(e, s, i, loose)
      /\ loose \in BOOLEAN
      /\ \A j \in 1 .. Len(e.orders) : IF j \in I THEN Ends(e, d, j) ELSE Stays(e, d, j)
      /\ \/ r = Cancelled(s) /\ (s.exit # None => s.exit \in I \/ ~Live(e.orders[s.exit]))
         \/ r = s /\ (s.status = "TRIGGERED" => s.exit \notin I)
                  /\ (s.status = "PENDING_ENTRY" => s.entry \notin I)
  BY DEF Cut
<1>1. Len(d.orders) = Len(e.orders) BY <1>0, AfterIs
<1>2. \A j \in 1 .. Len(e.orders) :
        /\ d.orders[j].product = e.orders[j].product /\ d.orders[j].exit = e.orders[j].exit
        /\ Live(d.orders[j]) => d.orders[j] = e.orders[j]
  BY <1>0, OrderAfter
<1>3. \A j \in 1 .. Len(e.orders) : j \notin I => d.orders[j] = e.orders[j] BY <1>0 DEF Stays
<1>4. \A j \in 1 .. Len(e.orders) : j \in I => ~Live(d.orders[j])
  <2> SUFFICES ASSUME NEW j \in 1 .. Len(e.orders), j \in I PROVE ~Live(d.orders[j]) OBVIOUS
  <2>1. Live(e.orders[j]) /\ d.orders[j] = Cancelled(e.orders[j]) BY <1>0 DEF Ends
  <2>2. e.orders[j] \in OrderRecords BY <1>0, EngineLens
  <2> QED BY <2>1, <2>2, CancelledOrder DEF Live
<1>5. \A p : Net(d, p) = Net(e, p) BY <1>0, NetAfter
<1>6. CASE r = Cancelled(s) /\ (s.exit # None => s.exit \in I \/ ~Live(e.orders[s.exit]))
  <2>1. r.status = "CANCELLED" /\ r.exit = s.exit /\ r.product = s.product
    BY <1>0, <1>6 DEF Cancelled, StopRecords
  <2>2. s.exit # None => /\ s.exit \in 1 .. Len(e.orders)
                         /\ e.orders[s.exit].exit /\ e.orders[s.exit].product = s.product
    BY <1>0 DEF StopTied
  <2>3. s.exit # None => ~Live(d.orders[s.exit]) BY <1>2, <1>4, <1>6, <2>2
  <2> QED BY <1>1, <1>2, <2>1, <2>2, <2>3 DEF StopTied, Protecting
<1>7. CASE r = s /\ (s.status = "TRIGGERED" => s.exit \notin I) /\ (s.status = "PENDING_ENTRY" => s.entry \notin I)
  <2>1. s.exit # None => /\ s.exit \in 1 .. Len(d.orders)
                         /\ d.orders[s.exit].exit /\ d.orders[s.exit].product = s.product
                         /\ Live(d.orders[s.exit]) => s.status = "TRIGGERED"
    BY <1>0, <1>1, <1>2 DEF StopTied
  <2>2. s.status = "TRIGGERED" =>
          s.exit # None /\ (Live(d.orders[s.exit]) \/ (loose /\ d.orders[s.exit].status = "EXECUTED"))
    BY <1>0, <1>3, <1>7 DEF StopTied
  <2>3. s.status = "PENDING_ENTRY" =>
          /\ s.exit = None /\ s.entry \in 1 .. Len(d.orders) /\ d.orders[s.entry].product = s.product
          /\ Live(d.orders[s.entry]) \/ (s.entry = i /\ d.orders[s.entry].status = "EXECUTED")
    BY <1>0, <1>1, <1>3, <1>7 DEF StopTied
  <2>4. s.status \in {"ARMED", "TRAILING"} => s.exit = None BY <1>0 DEF StopTied
  <2>5. Protecting(s) =>
          loose \/ (Opens(Net(d, s.product), s.direction) /\ s.qty = Abs(Net(d, s.product)))
    BY <1>0, <1>5 DEF StopTied
  <2> QED BY <1>7, <2>1, <2>2, <2>3, <2>4, <2>5 DEF StopTied
<1> QED BY <1>0, <1>6, <1>7

LEMMA EndedAlone ==
  ASSUME NEW e \in Engines, NEW d \in After(e), OnlyEnd(e, d), Alone(e)
  PROVE  Alone(d)
<1> SUFFICES ASSUME NEW t \in 1 .. Len(d.stops), NEW u \in 1 .. Len(d.stops),
                    Protecting(d.stops[t]), Protecting(d.stops[u]), d.stops[t].product = d.stops[u].product
             PROVE  t = u
  BY DEF Alone
<1>1. Len(d.stops) = Len(e.stops) BY AfterIs
<1>2. \A v \in 1 .. Len(e.stops) : Protecting(d.stops[v]) => d.stops[v] = e.stops[v]
  <2> SUFFICES ASSUME NEW v \in 1 .. Len(e.stops), Protecting(d.stops[v]) PROVE d.stops[v] = e.stops[v]
    OBVIOUS
  <2>1. Cancelled(e.stops[v]).status = "CANCELLED" BY EngineLens, CancelledStop
  <2> QED BY <2>1 DEF OnlyEnd, Protecting
<1> QED BY <1>1, <1>2 DEF Alone

\* Orders end with their stops.
LEMMA CancelTied ==
  ASSUME NEW e \in Engines, NEW I \in SUBSET LiveOrders(e), NEW i, NEW late, TiedBut(e, i, late)
  PROVE  LET d == CancelOrders(e, I) IN
         /\ d \in After(e) /\ OnlyEnd(e, d) /\ Kept(e, d) /\ TiedBut(d, i, late)
<1> DEFINE d == CancelOrders(e, I)
<1>1. /\ d \in After(e) /\ OnlyEnd(e, d)
      /\ \A j \in 1 .. Len(e.orders) : IF j \in I THEN Ends(e, d, j) ELSE Stays(e, d, j)
  BY OrdersCancelled
<1>2. \A t \in 1 .. Len(e.stops) :
           d.stops[t] = IF \/ e.stops[t].status = "PENDING_ENTRY" /\ e.stops[t].entry \in I
                           \/ e.stops[t].status = "TRIGGERED" /\ e.stops[t].exit \in I
                        THEN Cancelled(e.stops[t]) ELSE e.stops[t]
  BY StopsOfCancelled
<1> HIDE DEF d
<1>3. Len(d.stops) = Len(e.stops) BY <1>1, AfterIs
<1>4. ASSUME NEW t \in 1 .. Len(d.stops) PROVE StopTied(d, d.stops[t], i, t \in late)
  <2>1. t \in 1 .. Len(e.stops) BY <1>3
  <2> DEFINE s == e.stops[t]
             r == d.stops[t]
             loose == t \in late
  <2>2. s \in StopRecords BY <2>1, EngineLens
  <2>3. StopTied(e, s, i, loose) BY <2>1 DEF TiedBut
  <2>4. loose \in BOOLEAN OBVIOUS
  <2>5. \/ r = Cancelled(s) /\ (s.exit # None => s.exit \in I \/ ~Live(e.orders[s.exit]))
        \/ r = s /\ (s.status = "TRIGGERED" => s.exit \notin I)
                 /\ (s.status = "PENDING_ENTRY" => s.entry \notin I)
    <3>1. s.status = "PENDING_ENTRY" => s.exit = None BY <2>3 DEF StopTied
    <3>2. r = IF \/ s.status = "PENDING_ENTRY" /\ s.entry \in I
                 \/ s.status = "TRIGGERED" /\ s.exit \in I
              THEN Cancelled(s) ELSE s
      BY <1>2, <2>1
    <3> HIDE DEF r, s
    <3> QED BY <3>1, <3>2
  <2> HIDE DEF r, s, loose
  <2>6. Cut(e, d, I, s, r, i, loose) BY <1>1, <2>2, <2>3, <2>4, <2>5 DEF Cut
  <2>7. StopTied(d, r, i, loose) BY <2>6, CutTied, Zenon
  <2> QED BY <2>7 DEF r, loose
<1>5. Alone(d) BY <1>1, EndedAlone DEF TiedBut
<1>6. TiedBut(d, i, late) BY <1>4, <1>5 DEF TiedBut
<1>7. Kept(e, d) BY <1>1, OnlyEndKept
<1> QED BY <1>1, <1>6, <1>7 DEF d

\* CancelStops, stop by stop.
LEMMA StopsOfEnded ==
  ASSUME NEW e \in Engines, NEW T
  PROVE  LET d == CancelStops(e, T)
             A == {t \in T : Active(e.stops[t])}
             I == {i \in LiveOrders(e) : \E t \in A : e.stops[t].exit = i} IN
         /\ d \in After(e) /\ OnlyEnd(e, d)
         /\ \A j \in 1 .. Len(e.orders) : IF j \in I THEN Ends(e, d, j) ELSE Stays(e, d, j)
         /\ \A t \in 1 .. Len(e.stops) :
              d.stops[t] = IF \/ t \in A
                              \/ e.stops[t].status = "PENDING_ENTRY" /\ e.stops[t].entry \in I
                              \/ e.stops[t].status = "TRIGGERED" /\ e.stops[t].exit \in I
                           THEN Cancelled(e.stops[t]) ELSE e.stops[t]
<1> DEFINE A == {t \in T : Active(e.stops[t])}
           I == {i \in LiveOrders(e) : \E t \in A : e.stops[t].exit = i}
           ended == EndStops(e, A)
           d == CancelOrders(ended, I)
<1>1. /\ ended \in After(e) /\ OnlyEnd(e, ended) /\ ended.orders = e.orders /\ ended.funds = e.funds
      /\ \A t \in 1 .. Len(e.stops) : ended.stops[t] = IF t \in A THEN Cancelled(e.stops[t]) ELSE e.stops[t]
  <2> HIDE DEF A
  <2> QED BY StopsEnd
<1>2. ended \in Engines /\ Len(ended.stops) = Len(e.stops) BY <1>1, AfterIs
<1>3. I \in SUBSET LiveOrders(ended) BY <1>1 DEF LiveOrders
<1>4. d = CancelStops(e, T) BY DEF CancelStops
<1>5. /\ d \in After(e) /\ OnlyEnd(e, d) BY <1>4, StopsCancelled
<1> HIDE DEF ended, A, I
<1>6. /\ d \in After(ended)
      /\ \A j \in 1 .. Len(ended.orders) : IF j \in I THEN Ends(ended, d, j) ELSE Stays(ended, d, j)
      /\ \A t \in 1 .. Len(ended.stops) :
           d.stops[t] = IF \/ ended.stops[t].status = "PENDING_ENTRY" /\ ended.stops[t].entry \in I
                           \/ ended.stops[t].status = "TRIGGERED" /\ ended.stops[t].exit \in I
                        THEN Cancelled(ended.stops[t]) ELSE ended.stops[t]
  BY <1>2, <1>3, OrdersCancelled, StopsOfCancelled
<1> HIDE DEF d
<1>7. \A j \in 1 .. Len(e.orders) : IF j \in I THEN Ends(e, d, j) ELSE Stays(e, d, j)
  BY <1>1, <1>6 DEF Ends, Stays
<1>8. \A t \in 1 .. Len(e.stops) :
        d.stops[t] = IF \/ t \in A
                        \/ e.stops[t].status = "PENDING_ENTRY" /\ e.stops[t].entry \in I
                        \/ e.stops[t].status = "TRIGGERED" /\ e.stops[t].exit \in I
                     THEN Cancelled(e.stops[t]) ELSE e.stops[t]
  <2> TAKE t \in 1 .. Len(e.stops)
  <2>1. Cancelled(e.stops[t]).status = "CANCELLED" BY EngineLens, CancelledStop
  <2>2. t \in 1 .. Len(ended.stops) BY <1>2
  <2>3. CASE t \in A BY <1>1, <1>6, <2>1, <2>2, <2>3
  <2>4. CASE t \notin A BY <1>1, <1>6, <2>2, <2>4
  <2> QED BY <2>3, <2>4
<1> QED BY <1>4, <1>5, <1>7, <1>8 DEF A, I

\* Stops end with their exits.
LEMMA StopsEndTied ==
  ASSUME NEW e \in Engines, NEW T, NEW i, NEW late, TiedBut(e, i, late)
  PROVE  LET d == CancelStops(e, T) IN
         /\ d \in After(e) /\ OnlyEnd(e, d) /\ Kept(e, d) /\ TiedBut(d, i, late)
         /\ \A t \in 1 .. Len(e.stops) : t \in T => ~Active(d.stops[t])
<1> DEFINE d == CancelStops(e, T)
           A == {t \in T : Active(e.stops[t])}
           I == {j \in LiveOrders(e) : \E t \in A : e.stops[t].exit = j}
<1>1. /\ d \in After(e) /\ OnlyEnd(e, d)
      /\ \A j \in 1 .. Len(e.orders) : IF j \in I THEN Ends(e, d, j) ELSE Stays(e, d, j)
      /\ \A t \in 1 .. Len(e.stops) :
           d.stops[t] = IF \/ t \in A
                           \/ e.stops[t].status = "PENDING_ENTRY" /\ e.stops[t].entry \in I
                           \/ e.stops[t].status = "TRIGGERED" /\ e.stops[t].exit \in I
                        THEN Cancelled(e.stops[t]) ELSE e.stops[t]
  BY StopsOfEnded
<1>2. \A t \in 1 .. Len(e.stops) : t \in T => ~Active(d.stops[t]) BY StopsCancelled
<1>3. \A t \in A, j \in LiveOrders(e) : e.stops[t].exit = j => j \in I OBVIOUS
<1> HIDE DEF d, A, I
<1>4. Len(d.stops) = Len(e.stops) BY <1>1, AfterIs
<1>5. ASSUME NEW t \in 1 .. Len(d.stops) PROVE StopTied(d, d.stops[t], i, t \in late)
  <2>1. t \in 1 .. Len(e.stops) BY <1>4
  <2> DEFINE s == e.stops[t]
             r == d.stops[t]
             loose == t \in late
  <2>2. s \in StopRecords BY <2>1, EngineLens
  <2>3. StopTied(e, s, i, loose) BY <2>1 DEF TiedBut
  <2>4. loose \in BOOLEAN OBVIOUS
  <2>5. \/ r = Cancelled(s) /\ (s.exit # None => s.exit \in I \/ ~Live(e.orders[s.exit]))
        \/ r = s /\ (s.status = "TRIGGERED" => s.exit \notin I)
                 /\ (s.status = "PENDING_ENTRY" => s.entry \notin I)
    <3>1. s.status = "PENDING_ENTRY" => s.exit = None BY <2>3 DEF StopTied
    <3>2. r = IF \/ t \in A
                 \/ s.status = "PENDING_ENTRY" /\ s.entry \in I
                 \/ s.status = "TRIGGERED" /\ s.exit \in I
              THEN Cancelled(s) ELSE s
      BY <1>1, <2>1
    <3>3. t \in A /\ s.exit # None => s.exit \in I \/ ~Live(e.orders[s.exit])
      <4>1. s.exit # None => s.exit \in 1 .. Len(e.orders) BY <2>3 DEF StopTied
      <4>2. s.exit # None /\ Live(e.orders[s.exit]) => s.exit \in LiveOrders(e) BY <4>1, LiveAre
      <4> QED BY <1>3, <4>2
    <3> HIDE DEF r, s
    <3> QED BY <3>1, <3>2, <3>3
  <2> HIDE DEF r, s, loose
  <2>6. Cut(e, d, I, s, r, i, loose) BY <1>1, <2>2, <2>3, <2>4, <2>5 DEF Cut
  <2>7. StopTied(d, r, i, loose) BY <2>6, CutTied, Zenon
  <2> QED BY <2>7 DEF r, loose
<1>6. Alone(d) BY <1>1, EndedAlone DEF TiedBut
<1>7. TiedBut(d, i, late) BY <1>5, <1>6 DEF TiedBut
<1>8. Kept(e, d) BY <1>1, OnlyEndKept
<1> QED BY <1>1, <1>2, <1>7, <1>8 DEF d

\* The entry order j has ended: the stops that waited for it are ended too.
LEMMA EntryTied ==
  ASSUME NEW e \in Engines, NEW J, NEW i, NEW late, TiedBut(e, i, late)
  PROVE  LET d == EntryClosed(e, J) IN
         /\ d \in After(e) /\ OnlyEnd(e, d) /\ Kept(e, d) /\ TiedBut(d, i, late) /\ d.orders = e.orders
         /\ \A t \in 1 .. Len(e.stops) :
              d.stops[t].status = "PENDING_ENTRY" => d.stops[t] = e.stops[t] /\ e.stops[t].entry \notin J
<1> DEFINE T == {t \in DOMAIN e.stops : e.stops[t].entry \in J /\ e.stops[t].status = "PENDING_ENTRY"}
           d == EndStops(e, T)
<1>1. EntryClosed(e, J) = d BY DEF EntryClosed
<1>2. \A t \in 1 .. Len(e.stops) : t \in T <=> e.stops[t].entry \in J /\ e.stops[t].status = "PENDING_ENTRY"
  BY EngineLens
<1> HIDE DEF T
<1>3. /\ d \in After(e) /\ OnlyEnd(e, d) /\ d.orders = e.orders /\ d.funds = e.funds
      /\ \A t \in 1 .. Len(e.stops) : d.stops[t] = IF t \in T THEN Cancelled(e.stops[t]) ELSE e.stops[t]
  BY StopsEnd
<1> HIDE DEF d
<1>4. Len(d.stops) = Len(e.stops) BY <1>3, AfterIs
<1> DEFINE none == {}
<1>5. \A k \in 1 .. Len(e.orders) : IF k \in none THEN Ends(e, d, k) ELSE Stays(e, d, k)
  BY <1>3 DEF Stays
<1>6. ASSUME NEW t \in 1 .. Len(d.stops) PROVE StopTied(d, d.stops[t], i, t \in late)
  <2>1. t \in 1 .. Len(e.stops) BY <1>4
  <2> DEFINE s == e.stops[t]
             r == d.stops[t]
             loose == t \in late
  <2>2. s \in StopRecords BY <2>1, EngineLens
  <2>3. StopTied(e, s, i, loose) BY <2>1 DEF TiedBut
  <2>4. loose \in BOOLEAN OBVIOUS
  <2>5. \/ r = Cancelled(s) /\ (s.exit # None => s.exit \in none \/ ~Live(e.orders[s.exit]))
        \/ r = s /\ (s.status = "TRIGGERED" => s.exit \notin none)
                 /\ (s.status = "PENDING_ENTRY" => s.entry \notin none)
    <3>1. s.status = "PENDING_ENTRY" => s.exit = None BY <2>3 DEF StopTied
    <3>2. r = IF t \in T THEN Cancelled(s) ELSE s BY <1>3, <2>1
    <3>3. t \in T => s.status = "PENDING_ENTRY" BY <1>2, <2>1
    <3> HIDE DEF r, s
    <3> QED BY <3>1, <3>2, <3>3
  <2> HIDE DEF r, s, loose, none
  <2>6. Cut(e, d, none, s, r, i, loose)
    <3>1. d \in After(e) BY <1>3
    <3> QED BY <1>5, <2>2, <2>3, <2>4, <2>5, <3>1 DEF Cut
  <2>7. StopTied(d, r, i, loose) BY <2>6, CutTied, Zenon
  <2> QED BY <2>7 DEF r, loose
<1>7. Alone(d) BY <1>3, EndedAlone DEF TiedBut
<1>8. TiedBut(d, i, late) BY <1>6, <1>7 DEF TiedBut
<1>9. Kept(e, d) BY <1>3, OnlyEndKept
<1>10. ASSUME NEW t \in 1 .. Len(e.stops), d.stops[t].status = "PENDING_ENTRY"
       PROVE  d.stops[t] = e.stops[t] /\ e.stops[t].entry \notin J
  <2>1. Cancelled(e.stops[t]).status = "CANCELLED" BY EngineLens, CancelledStop
  <2> QED BY <1>2, <1>3, <1>10, <2>1
<1> QED BY <1>1, <1>3, <1>8, <1>9, <1>10

LEMMA TiedSame ==
  ASSUME NEW e, NEW d, d.orders = e.orders, \A p : Net(d, p) = Net(e, p),
         NEW s, NEW i, NEW loose, StopTied(e, s, i, loose)
  PROVE  StopTied(d, s, i, loose)
BY DEF StopTied

LEMMA Loosened ==
  ASSUME NEW e, NEW s, NEW i, NEW a \in BOOLEAN, NEW b \in BOOLEAN, a => b, StopTied(e, s, i, a)
  PROVE  StopTied(e, s, i, b)
BY DEF StopTied

\* One that does not protect is not loose.
LEMMA Tightened ==
  ASSUME NEW e, NEW i, NEW late, NEW T, TiedBut(e, i, late),
         \A t \in 1 .. Len(e.stops) : t \in late /\ t \notin T => ~Protecting(e.stops[t])
  PROVE  TiedBut(e, i, T)
<1> SUFFICES ASSUME NEW t \in 1 .. Len(e.stops) PROVE StopTied(e, e.stops[t], i, t \in T)
  BY DEF TiedBut
<1> DEFINE s == e.stops[t]
<1>1. StopTied(e, s, i, t \in late) BY DEF TiedBut
<1>2. t \in late => t \in T \/ ~Protecting(s) OBVIOUS
<1> HIDE DEF s
<1>3. ~Protecting(s) => s.status # "TRIGGERED" BY DEF Protecting
<1>4. \A j : StopTied(e, s, j, t \in late) => StopTied(e, s, j, t \in T) BY <1>2, <1>3 DEF StopTied
<1>5. StopTied(e, s, i, t \in T) BY <1>1, <1>4
<1> QED BY <1>5 DEF s

\* One stop changed.
LEMMA SetTied ==
  ASSUME NEW e \in Engines, NEW t \in 1 .. Len(e.stops), NEW r \in StopRecords,
         NEW i, NEW late, NEW T, TiedBut(e, i, late), StopTied(e, r, i, t \in T),
         \A u \in 1 .. Len(e.stops) : u \in late /\ u # t => u \in T,
         \A u \in 1 .. Len(e.stops) :
           Protecting(r) /\ Protecting(e.stops[u]) /\ e.stops[u].product = r.product => u = t
  PROVE  TiedBut(StopSet(e, t, r), i, T)
<1> DEFINE d == StopSet(e, t, r)
<1>1. /\ d \in After(e) /\ d.orders = e.orders /\ Len(d.stops) = Len(e.stops)
      /\ \A u \in 1 .. Len(e.stops) : d.stops[u] = IF u = t THEN r ELSE e.stops[u]
  BY StopChanged
<1> HIDE DEF d
<1>2. \A p : Net(d, p) = Net(e, p) BY <1>1, NetAfter
<1>3. ASSUME NEW u \in 1 .. Len(d.stops) PROVE StopTied(d, d.stops[u], i, u \in T)
  <2> DEFINE s == e.stops[u]
             a == u \in late
             b == u \in T
  <2>1. CASE u = t
    <3>1. d.stops[u] = r BY <1>1, <2>1
    <3>2. StopTied(d, r, i, t \in T) BY <1>1, <1>2, TiedSame
    <3> QED BY <2>1, <3>1, <3>2
  <2>2. CASE u # t
    <3>1. d.stops[u] = s /\ StopTied(e, s, i, a) BY <1>1, <2>2 DEF TiedBut
    <3>2. a \in BOOLEAN /\ b \in BOOLEAN /\ (a => b) BY <1>1, <2>2
    <3> HIDE DEF a, b, s
    <3>3. StopTied(e, s, i, b) BY <3>1, <3>2, Loosened
    <3>4. StopTied(d, s, i, b) BY <1>1, <1>2, <3>3, TiedSame
    <3> QED BY <3>1, <3>4 DEF b
  <2> QED BY <2>1, <2>2
<1>4. Alone(d)
  <2> SUFFICES ASSUME NEW u \in 1 .. Len(e.stops), NEW v \in 1 .. Len(e.stops),
                      Protecting(d.stops[u]), Protecting(d.stops[v]), d.stops[u].product = d.stops[v].product
               PROVE  u = v
    BY <1>1 DEF Alone
  <2>1. Alone(e) BY DEF TiedBut
  <2>2. CASE u # t /\ v # t BY <1>1, <2>1, <2>2 DEF Alone
  <2>3. CASE u = t \/ v = t BY <1>1, <2>3
  <2> QED BY <2>2, <2>3
<1>5. TiedBut(d, i, T) BY <1>3, <1>4 DEF TiedBut
<1> QED BY <1>5 DEF d

\* A stop follows its position: it no longer waits to.
LEMMA FollowTied ==
  ASSUME NEW e \in Engines, StopsOk(e), NEW t \in 1 .. Len(e.stops), NEW net \in Int,
         net = Net(e, e.stops[t].product), NEW i, NEW late, TiedBut(e, i, late)
  PROVE  LET d == FollowPosition(e, t, net) IN Kept(e, d) /\ TiedBut(d, i, late \ {t})
<1> DEFINE s == e.stops[t]
           open == Opens(net, s.direction)
           done == s.exit # None /\ e.orders[s.exit].status = "EXECUTED"
           sold == s.exit # None /\ e.orders[s.exit].filled > 0
           d == FollowPosition(e, t, net)
           T == late \ {t}
<1>1. s \in StopRecords BY EngineLens
<1>2. Abs(net) \in Nat /\ (open => Abs(net) > 0) BY DEF Abs, Opens
<1>3. StopTied(e, s, i, t \in late) /\ Alone(e) BY DEF TiedBut
<1>4. /\ \A u \in 1 .. Len(e.stops) : u \in late /\ u # t => u \in T
      /\ t \notin T
  OBVIOUS
<1>5. \A u \in 1 .. Len(e.stops) : Protecting(s) /\ Protecting(e.stops[u]) /\ e.stops[u].product = s.product => u = t
  BY <1>3 DEF Alone
<1>6. CASE open /\ ~done
  <2> DEFINE q == Abs(net)
             r == [s EXCEPT !.qty = q]
  <2>1. d = [e EXCEPT !.stops[t].qty = q] BY <1>6 DEF FollowPosition
  <2>2. d = StopSet(e, t, r) /\ r \in StopRecords
    <3>1. q \in Nat BY <1>2
    <3> HIDE DEF q, d
    <3>2. [e EXCEPT !.stops[t].qty = q] = StopSet(e, t, [s EXCEPT !.qty = q]) /\ [s EXCEPT !.qty = q] \in StopRecords
      BY <3>1, StopQty
    <3> QED BY <2>1, <3>2, Zenon
  <2>3. /\ r.status = s.status /\ r.exit = s.exit /\ r.entry = s.entry /\ r.product = s.product
        /\ r.direction = s.direction /\ r.qty = q
    BY <1>1 DEF StopRecords
  <2>4. Protecting(r) <=> Protecting(s) BY <2>3 DEF Protecting
  <2>5. StopTied(e, r, i, FALSE)
    <3>1. Opens(Net(e, s.product), s.direction) /\ q = Abs(Net(e, s.product)) BY <1>6
    <3>2. s.exit # None => e.orders[s.exit].status # "EXECUTED" BY <1>6
    <3> HIDE DEF r, q, s
    <3> QED BY <1>3, <2>3, <3>1, <3>2 DEF StopTied
  <2> HIDE DEF r, d, s, q
  <2>6. (t \in T) = FALSE BY <1>4
  <2>7. StopTied(e, r, i, t \in T) BY <2>5, <2>6
  <2> HIDE DEF T
  <2>8. TiedBut(StopSet(e, t, r), i, T) BY <1>4, <1>5, <2>2, <2>3, <2>4, <2>7, SetTied
  <2>9. Kept(e, StopSet(e, t, r))
    <3>1. \A u \in 1 .. Len(e.stops) : StopSet(e, t, r).stops[u] = IF u = t THEN r ELSE e.stops[u]
      BY <2>2, StopChanged
    <3>2. Active(r) => Active(s) BY <2>3 DEF Active
    <3> QED BY <2>3, <3>1, <3>2 DEF Kept, s
  <2> QED BY <2>2, <2>8, <2>9 DEF d, T
<1>7. CASE ~(open /\ ~done) /\ sold
  <2> DEFINE q == IF open THEN Abs(net) ELSE 0
             r == [s EXCEPT !.status = "EXECUTED", !.qty = q]
             executed == [e EXCEPT !.stops[t].status = "EXECUTED", !.stops[t].qty = q]
             J == {s.exit} \cap LiveOrders(e)
             c == CancelOrders(executed, J)
  <2>1. d = c BY <1>7 DEF FollowPosition
  <2>2. q \in Nat BY <1>2
  <2>3. executed = StopSet(e, t, r)
    <3> HIDE DEF q
    <3> QED BY DEF StopSet, Engines
  <2>4. /\ r \in StopRecords /\ r.status = "EXECUTED" /\ r.exit = s.exit /\ r.product = s.product
    <3> HIDE DEF q
    <3> QED BY <1>1, <2>2 DEF StopRecords
  <2>5. s.exit # None BY <1>7
  <2> HIDE DEF q, r, executed, d
  <2>6. /\ executed \in After(e) /\ executed.orders = e.orders /\ Len(executed.stops) = Len(e.stops)
        /\ \A u \in 1 .. Len(e.stops) : executed.stops[u] = IF u = t THEN r ELSE e.stops[u]
    BY <2>3, <2>4, StopChanged
  <2>7. executed \in Engines BY <2>6, AfterIs
  <2>8. J \in SUBSET LiveOrders(executed) BY <2>6 DEF LiveOrders
  <2>9. s.exit \in 1 .. Len(e.orders) /\ e.orders[s.exit].exit /\ e.orders[s.exit].product = s.product
    BY <1>3, <2>5 DEF StopTied
  <2>10. s.exit \in J \/ ~Live(e.orders[s.exit]) BY <2>9, LiveAre
  <2> HIDE DEF J, s
  <2>11. /\ c \in After(executed) /\ OnlyEnd(executed, c)
         /\ \A j \in 1 .. Len(executed.orders) : IF j \in J THEN Ends(executed, c, j) ELSE Stays(executed, c, j)
         /\ \A u \in 1 .. Len(executed.stops) :
              c.stops[u] = IF \/ executed.stops[u].status = "PENDING_ENTRY" /\ executed.stops[u].entry \in J
                              \/ executed.stops[u].status = "TRIGGERED" /\ executed.stops[u].exit \in J
                           THEN Cancelled(executed.stops[u]) ELSE executed.stops[u]
    BY <2>7, <2>8, OrdersCancelled, StopsOfCancelled
  <2> HIDE DEF c
  <2>12. Len(c.stops) = Len(e.stops) /\ Len(c.orders) = Len(e.orders) BY <2>6, <2>7, <2>11, AfterIs
  <2>13. c.stops[t] = r BY <2>4, <2>6, <2>11
  <2>14. \A p : Net(executed, p) = Net(e, p) BY <2>6, NetAfter
  <2>15. ASSUME NEW u \in 1 .. Len(c.stops) PROVE StopTied(c, c.stops[u], i, u \in T)
    <3>1. CASE u = t
      <4>1. /\ c.orders[s.exit].product = e.orders[s.exit].product
            /\ c.orders[s.exit].exit = e.orders[s.exit].exit
            /\ Live(c.orders[s.exit]) => c.orders[s.exit] = e.orders[s.exit]
        <5>1. \A j \in 1 .. Len(executed.orders) :
                /\ c.orders[j].product = executed.orders[j].product
                /\ c.orders[j].exit = executed.orders[j].exit
                /\ Live(c.orders[j]) => c.orders[j] = executed.orders[j]
          BY <2>7, <2>11, OrderAfter
        <5>2. s.exit \in 1 .. Len(executed.orders) BY <2>6, <2>9
        <5>3. /\ c.orders[s.exit].product = executed.orders[s.exit].product
              /\ c.orders[s.exit].exit = executed.orders[s.exit].exit
              /\ Live(c.orders[s.exit]) => c.orders[s.exit] = executed.orders[s.exit]
          BY <5>1, <5>2, Zenon
        <5>4. executed.orders = e.orders BY <2>6
        <5> QED BY <5>3, <5>4, Zenon
      <4>2. s.exit \in J => ~Live(c.orders[s.exit])
        <5> SUFFICES ASSUME s.exit \in J PROVE ~Live(c.orders[s.exit]) OBVIOUS
        <5>1. c.orders[s.exit] = Cancelled(executed.orders[s.exit]) /\ Live(executed.orders[s.exit])
          BY <2>6, <2>9, <2>11 DEF Ends
        <5>2. executed.orders[s.exit] \in OrderRecords BY <2>6, <2>9, EngineLens
        <5> QED BY <5>1, <5>2, CancelledOrder DEF Live
      <4>3. ~Live(c.orders[s.exit]) BY <2>10, <4>1, <4>2
      <4>4. ~Protecting(r) BY <2>4 DEF Protecting
      <4>5. StopTied(c, r, i, FALSE) BY <2>4, <2>9, <2>12, <4>1, <4>3, <4>4 DEF StopTied
      <4>6. (u \in T) = FALSE BY <1>4, <3>1
      <4> QED BY <2>13, <3>1, <4>5, <4>6
    <3>2. CASE u # t
      <4>1. u \in 1 .. Len(e.stops) BY <2>12
      <4> DEFINE x == e.stops[u]
                 y == c.stops[u]
                 a == u \in late
      <4>2. x \in StopRecords /\ StopTied(e, x, i, a) BY <4>1, EngineLens DEF TiedBut
      <4>3. executed.stops[u] = x BY <2>6, <3>2, <4>1
      <4>4. y = IF \/ x.status = "PENDING_ENTRY" /\ x.entry \in J
                   \/ x.status = "TRIGGERED" /\ x.exit \in J
                THEN Cancelled(x) ELSE x
        BY <2>6, <2>11, <4>1, <4>3
      <4>5. a \in BOOLEAN /\ (u \in T) = a BY <3>2
      <4> HIDE DEF x, y, a
      <4>6. StopTied(executed, x, i, a) BY <2>6, <2>14, <4>2, TiedSame
      <4>7. \/ y = Cancelled(x) /\ (x.exit # None => x.exit \in J \/ ~Live(executed.orders[x.exit]))
            \/ y = x /\ (x.status = "TRIGGERED" => x.exit \notin J)
                     /\ (x.status = "PENDING_ENTRY" => x.entry \notin J)
        <5>1. x.status = "PENDING_ENTRY" => x.exit = None BY <4>2 DEF StopTied
        <5> QED BY <4>4, <5>1
      <4>8. StopTied(c, y, i, a)
        <5>1. /\ c \in After(executed)
              /\ \A j \in 1 .. Len(executed.orders) :
                   IF j \in J THEN Ends(executed, c, j) ELSE Stays(executed, c, j)
          BY <2>11
        <5>2. x \in StopRecords /\ a \in BOOLEAN BY <4>2, <4>5
        <5>3. Cut(executed, c, J, x, y, i, a) BY <2>7, <4>6, <4>7, <5>1, <5>2 DEF Cut
        <5> QED BY <5>3, CutTied, Zenon
      <4> QED BY <4>5, <4>8 DEF y
    <3> QED BY <3>1, <3>2
  <2>16. \A u \in 1 .. Len(e.stops) :
           /\ c.stops[u].product = e.stops[u].product /\ c.stops[u].exit = e.stops[u].exit
           /\ Active(c.stops[u]) => u # t /\ c.stops[u] = e.stops[u]
    <3> TAKE u \in 1 .. Len(e.stops)
    <3>1. CASE u = t BY <2>4, <2>13, <3>1 DEF Active, s
    <3>2. CASE u # t
      <4>1. executed.stops[u] = e.stops[u] /\ e.stops[u] \in StopRecords BY <2>6, <3>2, EngineLens
      <4>2. c.stops[u] = e.stops[u] \/ c.stops[u] = Cancelled(e.stops[u]) BY <2>6, <2>11, <4>1
      <4>3. /\ Cancelled(e.stops[u]).product = e.stops[u].product
            /\ Cancelled(e.stops[u]).exit = e.stops[u].exit /\ ~Active(Cancelled(e.stops[u]))
        BY <4>1 DEF Cancelled, StopRecords, Active
      <4> QED BY <3>2, <4>2, <4>3
    <3> QED BY <3>1, <3>2
  <2>17. Kept(e, c) BY <2>16 DEF Kept
  <2>18. Alone(c)
    <3>1. \A u \in 1 .. Len(e.stops) : Protecting(c.stops[u]) => c.stops[u] = e.stops[u]
      BY <2>16 DEF Protecting, Active
    <3> QED BY <1>3, <2>12, <3>1 DEF Alone
  <2>19. TiedBut(c, i, T) BY <2>15, <2>18 DEF TiedBut
  <2> QED BY <2>1, <2>17, <2>19 DEF d
<1>8. CASE ~(open /\ ~done) /\ ~sold
  <2> DEFINE r == [s EXCEPT !.qty = 0]
             idle == [e EXCEPT !.stops[t].qty = 0]
             c == CancelStops(idle, {t})
             L == late \cup {t}
  <2>1. d = c BY <1>8 DEF FollowPosition
  <2>2. idle = StopSet(e, t, r) /\ r \in StopRecords BY StopQty
  <2>3. /\ r.status = s.status /\ r.exit = s.exit /\ r.entry = s.entry /\ r.product = s.product
    BY <1>1 DEF StopRecords
  <2>4. Protecting(r) <=> Protecting(s) BY <2>3 DEF Protecting
  <2>5. StopTied(e, r, i, TRUE)
    <3> HIDE DEF r, s
    <3> QED BY <1>3, <2>3 DEF StopTied
  <2>6. (t \in L) = TRUE OBVIOUS
  <2>7. \A u \in 1 .. Len(e.stops) : u \in late /\ u # t => u \in L OBVIOUS
  <2> HIDE DEF r, idle, s, d
  <2>8. StopTied(e, r, i, t \in L) BY <2>5, <2>6
  <2>9. \A u \in 1 .. Len(e.stops) : u \in L /\ u \notin T => u = t OBVIOUS
  <2> HIDE DEF L, T
  <2>10. TiedBut(idle, i, L) BY <1>5, <2>2, <2>3, <2>4, <2>7, <2>8, SetTied
  <2>11. /\ idle \in After(e) /\ Len(idle.stops) = Len(e.stops)
         /\ \A u \in 1 .. Len(e.stops) : idle.stops[u] = IF u = t THEN r ELSE e.stops[u]
    BY <2>2, StopChanged
  <2>12. idle \in Engines BY <2>11, AfterIs
  <2>13. /\ c \in After(idle) /\ Kept(idle, c) /\ TiedBut(c, i, L)
         /\ \A u \in 1 .. Len(idle.stops) : u \in {t} => ~Active(c.stops[u])
    BY <2>10, <2>12, StopsEndTied
  <2> HIDE DEF c
  <2>14. Len(c.stops) = Len(e.stops) BY <2>11, <2>12, <2>13, AfterIs
  <2>15. ~Protecting(c.stops[t]) BY <2>11, <2>13 DEF Active, Protecting
  <2>16. TiedBut(c, i, T) BY <2>9, <2>13, <2>14, <2>15, Tightened
  <2>17. Kept(e, idle)
    <3>1. Active(r) => Active(s) BY <2>3 DEF Active
    <3> QED BY <2>3, <2>11, <3>1 DEF Kept, s
  <2>18. Kept(e, c) BY <2>11, <2>13, <2>17, KeptKept
  <2> QED BY <2>1, <2>16, <2>18 DEF d, T
<1> QED BY <1>6, <1>7, <1>8

LEMMA ArmedSteps ==
  ASSUME NEW s \in StopRecords, StopOk(s), s.status = "ARMED", NEW price \in Prices
  PROVE  LET r == StepTrailingStop(s, price) IN
         /\ r \in StopRecords /\ StopOk(r) /\ r.status \in {"ARMED", "TRAILING"}
         /\ r.product = s.product /\ r.direction = s.direction /\ r.qty = s.qty /\ r.exit = s.exit
<1> DEFINE r == StepTrailingStop(s, price)
<1>1. /\ r \in StopRecords /\ StopOk(r)
      /\ r.product = s.product /\ r.direction = s.direction /\ r.qty = s.qty /\ r.exit = s.exit
  BY StopSteps
<1>2. r = Activated(s, price) \/ r = s BY DEF StepTrailingStop
<1>3. Activated(s, price).status = "TRAILING" BY DEF Activated, StopRecords
<1> HIDE DEF r
<1>4. r.status \in {"ARMED", "TRAILING"} BY <1>2, <1>3
<1> QED BY <1>1, <1>4 DEF r

\* A stop is armed in the place of its position's stop.
LEMMA ArmTied ==
  ASSUME NEW e \in Engines, StopsOk(e), NEW t \in 1 .. Len(e.stops), NEW net \in Int, net # 0,
         NEW price \in Prices, NEW i, NEW late, TiedBut(e, i, late), t \in late, e.stops[t].exit = None
  PROVE  LET d == Arm(e, t, net, price) IN
         /\ TiedBut(d, i, late)
         /\ \A u \in 1 .. Len(e.stops) :
              /\ d.stops[u].product = e.stops[u].product /\ d.stops[u].exit = e.stops[u].exit
              /\ Active(d.stops[u]) => u = t \/ Active(e.stops[u])
<1> DEFINE P == ProtectingStops(e, e.stops[t].product)
           c == CancelStops(e, P)
           s == [c.stops[t] EXCEPT !.status = "ARMED", !.qty = Abs(net)]
           r == StepTrailingStop(s, price)
<1>1. /\ c \in After(e) /\ OnlyEnd(e, c) /\ Kept(e, c) /\ TiedBut(c, i, late)
      /\ \A u \in 1 .. Len(e.stops) : u \in P => ~Active(c.stops[u])
  BY StopsEndTied
<1>2. c \in Engines /\ Len(c.stops) = Len(e.stops) BY <1>1, AfterIs
<1>3. \A u \in 1 .. Len(e.stops) : u \in P <=> e.stops[u].product = e.stops[t].product /\ Protecting(e.stops[u])
  BY EngineLens DEF ProtectingStops, StopsOn
<1> HIDE DEF c, P
<1>4. StopsOk(c) BY <1>1, OnlyEndOk
<1>5. c.stops[t] \in StopRecords /\ StopOk(c.stops[t]) BY <1>2, <1>4, EngineLens DEF StopsOk
<1>6. Abs(net) \in Nat /\ Abs(net) > 0 BY DEF Abs
<1>7. /\ s \in StopRecords /\ s.status = "ARMED" /\ s.qty = Abs(net) /\ s.product = c.stops[t].product
      /\ s.exit = c.stops[t].exit
  BY <1>5, <1>6 DEF StopRecords
<1>8. StopOk(s) BY <1>5, <1>6 DEF StopRecords, StopOk, Protecting
<1>9. Arm(e, t, net, price) = StopSet(c, t, r) BY DEF Arm, StopSet, c, P
<1> HIDE DEF s
<1>10. /\ r \in StopRecords /\ StopOk(r) /\ r.status \in {"ARMED", "TRAILING"}
       /\ r.product = s.product /\ r.exit = s.exit
  BY <1>7, <1>8, ArmedSteps
<1> HIDE DEF r
<1>11. r.exit = None /\ r.product = e.stops[t].product BY <1>1, <1>7, <1>10 DEF Kept
<1>12. StopTied(c, r, i, TRUE) BY <1>10, <1>11 DEF StopTied
<1>13. (t \in late) = TRUE OBVIOUS
<1>15. \A u \in 1 .. Len(c.stops) :
         Protecting(r) /\ Protecting(c.stops[u]) /\ c.stops[u].product = r.product => u = t
  <2> SUFFICES ASSUME NEW u \in 1 .. Len(e.stops), Protecting(c.stops[u]), c.stops[u].product = r.product
               PROVE  FALSE
    BY <1>2
  <2>1. Cancelled(e.stops[u]).status = "CANCELLED" BY EngineLens, CancelledStop
  <2>2. c.stops[u] = e.stops[u] BY <1>1, <2>1 DEF OnlyEnd, Protecting
  <2>3. u \in P BY <1>3, <1>11, <2>2
  <2> QED BY <1>1, <2>3 DEF Active, Protecting
<1> DEFINE d == StopSet(c, t, r)
<1>16. TiedBut(d, i, late)
  <2>1. StopTied(c, r, i, t \in late) BY <1>12, <1>13
  <2>2. \A u \in 1 .. Len(c.stops) : u \in late /\ u # t => u \in late OBVIOUS
  <2>3. t \in 1 .. Len(c.stops) BY <1>2
  <2> QED BY <1>1, <1>2, <1>10, <1>15, <2>1, <2>2, <2>3, SetTied
<1>17. \A u \in 1 .. Len(e.stops) : d.stops[u] = IF u = t THEN r ELSE c.stops[u]
  BY <1>2, <1>10, StopChanged
<1> HIDE DEF d
<1>18. \A u \in 1 .. Len(e.stops) :
         /\ d.stops[u].product = e.stops[u].product /\ d.stops[u].exit = e.stops[u].exit
         /\ Active(d.stops[u]) => u = t \/ Active(e.stops[u])
  BY <1>1, <1>11, <1>17 DEF Kept
<1> QED BY <1>9, <1>16, <1>18 DEF d

\* What holds before the first turn, and goes on from each to the next.
LEMMA LoopPasses ==
  ASSUME NEW W, NEW n \in Nat, NEW g, g[0] \in W[0], \A k \in 1 .. n : g[k - 1] \in W[k - 1] => g[k] \in W[k]
  PROVE  g[n] \in W[n]
<1> DEFINE P == {k \in Nat : k <= n => g[k] \in W[k]}
<1>1. 0 \in P OBVIOUS
<1>2. ASSUME NEW k \in Nat, k \in P PROVE k + 1 \in P
  <2> SUFFICES ASSUME k + 1 <= n PROVE g[k + 1] \in W[k + 1] OBVIOUS
  <2>1. k + 1 \in 1 .. n /\ (k + 1) - 1 = k OBVIOUS
  <2> QED BY <1>2, <2>1
<1> HIDE DEF P
<1>3. Nat \subseteq P BY <1>1, <1>2, NatSetInduction
<1> QED BY <1>3 DEF P

\* The turns of StopsFollow.
LEMMA StopsFollowTurns ==
  ASSUME NEW e \in Engines, StopsOk(e), NEW product, NEW net \in Int
  PROVE  \E f : /\ f[0] = e /\ StopsFollow(e, product, net) = f[Len(e.stops)]
                /\ \A t \in 1 .. Len(e.stops) :
                     f[t] = FollowIf(t \in ProtectingStops(e, product), f[t - 1], t, net)
<1> DEFINE V == {d \in After(e) : StopsOk(d)}
           n == Len(e.stops)
           held == ProtectingStops(e, product)
           turn == [p \in (1 .. n) \X V |-> FollowIf(p[1] \in held, p[2], p[1], net)]
           loop == CHOOSE g : g = [t \in 0 .. n |-> IF t = 0 THEN e ELSE FollowIf(t \in held, g[t - 1], t, net)]
<1>1. n \in Nat BY EngineLens
<1>2. e \in V BY AfterSelf
<1>3. ASSUME NEW t \in 1 .. n, NEW v \in V PROVE FollowIf(t \in held, v, t, net) \in V
  <2>1. v \in After(e) /\ StopsOk(v) /\ v \in Engines /\ Len(v.stops) = n BY AfterIs
  <2> HIDE DEF held
  <2> DEFINE d == FollowPosition(v, t, net)
  <2>2. d \in After(v) /\ StopsOk(d) BY <2>1, Follows
  <2> HIDE DEF d
  <2>3. d \in After(e) BY <2>1, <2>2, AfterAfter
  <2> QED BY <2>2, <2>3 DEF FollowIf, d
<1>4. ASSUME NEW t \in 1 .. n, NEW v \in V PROVE turn[<<t, v>>] = FollowIf(t \in held, v, t, net)
  <2> HIDE DEF V, n, held
  <2> QED OBVIOUS
<1>5. \A t \in 1 .. n, v \in V : turn[<<t, v>>] \in V BY <1>3, <1>4, Zenon
<1> HIDE DEF V, turn, held, n
<1>6. PICK f : /\ f = [t \in 0 .. n |-> IF t = 0 THEN e ELSE turn[<<t, f[t - 1]>>]]
               /\ \A t \in 0 .. n : f[t] \in V
  <2>1. Loops(V, e, n, turn) BY <1>1, <1>2, <1>5, LoopThere
  <2> QED BY <2>1, Zenon DEF Loops
<1>7. f = [t \in 0 .. n |-> IF t = 0 THEN e ELSE FollowIf(t \in held, f[t - 1], t, net)]
  <2>1. \A t \in 0 .. n : t # 0 => turn[<<t, f[t - 1]>>] = FollowIf(t \in held, f[t - 1], t, net)
    <3> SUFFICES ASSUME NEW t \in 0 .. n, t # 0
                 PROVE turn[<<t, f[t - 1]>>] = FollowIf(t \in held, f[t - 1], t, net) OBVIOUS
    <3>1. t \in 1 .. n /\ t - 1 \in 0 .. n BY <1>1
    <3> QED BY <1>4, <1>6, <3>1
  <2> QED BY <1>6, <2>1, Zenon
<1>8. loop = [t \in 0 .. n |-> IF t = 0 THEN e ELSE FollowIf(t \in held, loop[t - 1], t, net)]
  BY <1>7
<1>9. StopsFollow(e, product, net) = loop[n] BY DEF StopsFollow, held, n
<1> HIDE DEF loop
<1>10. loop[0] = e BY <1>1, <1>8
<1>11. \A t \in 1 .. n : loop[t] = FollowIf(t \in held, loop[t - 1], t, net) BY <1>1, <1>8
<1> QED BY <1>9, <1>10, <1>11 DEF held, n

\* Every stop that protects a position follows it.
LEMMA StopsFollowTied ==
  ASSUME NEW e \in Engines, StopsOk(e), NEW product, NEW net \in Int, net = Net(e, product),
         NEW i, TiedBut(e, i, StopsOn(e, product))
  PROVE  LET d == StopsFollow(e, product, net) IN Kept(e, d) /\ TiedBut(d, i, {})
<1> DEFINE n == Len(e.stops)
           held == ProtectingStops(e, product)
           W == [k \in 0 .. n |-> {d \in After(e) : /\ StopsOk(d) /\ Kept(e, d)
                                                    /\ TiedBut(d, i, {u \in held : u > k})}]
<1>1. n \in Nat BY EngineLens
<1>2. PICK f : /\ f[0] = e /\ StopsFollow(e, product, net) = f[n]
               /\ \A t \in 1 .. n : f[t] = FollowIf(t \in held, f[t - 1], t, net)
  BY StopsFollowTurns
<1>3. held \subseteq 1 .. n /\ \A t \in held : e.stops[t].product = product
  BY EngineLens DEF ProtectingStops, StopsOn
<1>4. f[0] \in W[0]
  <2> DEFINE all == {u \in held : u > 0}
             on == StopsOn(e, product)
  <2>1. \A t \in 1 .. n : t \in on /\ t \notin all => ~Protecting(e.stops[t])
    BY <1>1 DEF ProtectingStops
  <2>5. TiedBut(e, i, on) OBVIOUS
  <2> HIDE DEF all, on, held
  <2>2. TiedBut(e, i, all) BY <2>1, <2>5, Tightened
  <2>3. Kept(e, e) BY DEF Kept
  <2>4. 0 \in 0 .. n /\ e \in After(e) BY <1>1, AfterSelf
  <2> QED BY <1>2, <2>2, <2>3, <2>4 DEF all
<1> HIDE DEF held
<1>5. ASSUME NEW t \in 1 .. n, f[t - 1] \in W[t - 1] PROVE f[t] \in W[t]
  <2> DEFINE v == f[t - 1]
             before == {u \in held : u > t - 1}
             now == {u \in held : u > t}
  <2>1. t - 1 \in 0 .. n /\ t \in 0 .. n BY <1>1
  <2>2. v \in After(e) /\ StopsOk(v) /\ Kept(e, v) /\ TiedBut(v, i, before) BY <1>5, <2>1
  <2>3. v \in Engines /\ Len(v.stops) = n BY <2>2, AfterIs
  <2>4. f[t] = FollowIf(t \in held, v, t, net) BY <1>2
  <2>5. now = IF t \in held THEN before \ {t} ELSE before
    <3>1. \A u \in held : u \in Nat BY <1>1, <1>3
    <3>2. \A u \in held : u > t - 1 <=> u > t \/ u = t BY <3>1, <1>1
    <3>3. t > t - 1 /\ ~(t > t) BY <1>1
    <3> HIDE DEF W, v
    <3>4. CASE t \in held
      <4>1. \A u : u \in now <=> u \in before /\ u # t BY <3>2, <3>3
      <4> HIDE DEF now, before
      <4> QED BY <3>4, <4>1
    <3>5. CASE t \notin held
      <4>1. \A u : u \in now <=> u \in before BY <3>2, <3>5
      <4> HIDE DEF now, before
      <4> QED BY <3>5, <4>1
    <3> QED BY <3>4, <3>5
  <2> HIDE DEF v, before, now, W
  <2>6. f[t] \in After(e) /\ StopsOk(f[t]) /\ Kept(e, f[t]) /\ TiedBut(f[t], i, now)
    <3>1. CASE t \notin held BY <2>2, <2>4, <2>5, <3>1 DEF FollowIf
    <3>2. CASE t \in held
      <4> DEFINE d == FollowPosition(v, t, net)
      <4>1. f[t] = d BY <2>4, <3>2 DEF FollowIf
      <4>2. net = Net(v, v.stops[t].product) BY <1>3, <2>2, <3>2, NetAfter DEF Kept
      <4>3. d \in After(v) /\ StopsOk(d) BY <2>2, <2>3, Follows
      <4>4. Kept(v, d) /\ TiedBut(d, i, before \ {t}) BY <2>2, <2>3, <4>2, FollowTied
      <4> HIDE DEF d
      <4>5. d \in After(e) BY <2>2, <2>3, <4>3, AfterAfter
      <4>6. Kept(e, d) BY <2>2, <2>3, <4>4, KeptKept
      <4> QED BY <2>5, <3>2, <4>1, <4>3, <4>4, <4>5, <4>6
    <3> QED BY <3>1, <3>2
  <2> QED BY <2>1, <2>6 DEF W, now
<1> HIDE DEF W
<1>6. f[n] \in W[n] BY <1>1, <1>4, <1>5, LoopPasses
<1> DEFINE last == {u \in held : u > n}
           d == f[n]
<1>7. last = {}
  <2>1. ASSUME NEW u \in held PROVE ~(u > n)
    <3>1. u \in 1 .. n BY <1>3
    <3> HIDE DEF n
    <3> QED BY <1>1, <3>1
  <2> HIDE DEF n
  <2> QED BY <2>1
<1>8. n \in 0 .. n BY <1>1
<1>9. Kept(e, d) /\ TiedBut(d, i, last) BY <1>6, <1>8 DEF W
<1>10. StopsFollow(e, product, net) = d BY <1>2
<1> HIDE DEF last, d
<1>11. Kept(e, d) /\ TiedBut(d, i, {}) BY <1>7, <1>9, Zenon
<1> QED BY <1>10, <1>11

\* The sells that no longer fit are live orders.
LEMMA SellsOver ==
  ASSUME NEW e \in Engines
  PROVE  \E I \in SUBSET LiveOrders(e) : CoverDeliverySells(e) = CancelOrders(e, I)
<1> DEFINE n == Len(e.orders)
           all == LiveOrders(e)
           V == [over : SUBSET all, sellable : Int]
           first == [over |-> {}, sellable |-> Owned(e)]
           left(i) == Left(e.orders[i])
           Keep(v, i) == IF i \notin DeliverySells(e) \/ e.orders[i].exit THEN v
                         ELSE IF left(i) <= v.sellable THEN [v EXCEPT !.sellable = @ - left(i)]
                         ELSE [v EXCEPT !.over = @ \cup {i}]
           turn == [p \in (1 .. n) \X V |-> Keep(p[2], p[1])]
           loop == CHOOSE g : g = [i \in 0 .. n |-> IF i = 0 THEN first ELSE Keep(g[i - 1], i)]
<1>1. /\ n \in Nat /\ \A i \in 1 .. n : e.orders[i] \in OrderRecords /\ left(i) \in Nat
      /\ Owned(e) \in Nat
  BY EngineLens, OrderFields, OwnedIs
<1>2. first \in V BY <1>1
<1>3. ASSUME NEW i \in 1 .. n, NEW v \in V PROVE Keep(v, i) \in V
  <2>1. left(i) \in Nat /\ v.sellable \in Int /\ v.over \in SUBSET all BY <1>1
  <2>2. i \in DeliverySells(e) => i \in all BY LiveAre
  <2> HIDE DEF left, n, all
  <2>3. [v EXCEPT !.sellable = @ - left(i)] \in V BY <2>1
  <2>4. i \in all => [v EXCEPT !.over = @ \cup {i}] \in V BY <2>1
  <2> HIDE DEF V
  <2> QED BY <2>2, <2>3, <2>4
<1> HIDE DEF Keep, all
<1>4. ASSUME NEW i \in 1 .. n, NEW v \in V PROVE turn[<<i, v>>] = Keep(v, i)
  <2> HIDE DEF V, n
  <2> QED OBVIOUS
<1>5. \A i \in 1 .. n, v \in V : turn[<<i, v>>] \in V BY <1>3, <1>4, Zenon
<1> HIDE DEF V, turn, n, first
<1>6. PICK f : /\ f = [i \in 0 .. n |-> IF i = 0 THEN first ELSE turn[<<i, f[i - 1]>>]]
               /\ \A i \in 0 .. n : f[i] \in V
  <2>1. Loops(V, first, n, turn) BY <1>1, <1>2, <1>5, LoopThere
  <2> QED BY <2>1, Zenon DEF Loops
<1>7. f = [i \in 0 .. n |-> IF i = 0 THEN first ELSE Keep(f[i - 1], i)]
  <2>1. \A i \in 0 .. n : i # 0 => turn[<<i, f[i - 1]>>] = Keep(f[i - 1], i)
    <3> SUFFICES ASSUME NEW i \in 0 .. n, i # 0 PROVE turn[<<i, f[i - 1]>>] = Keep(f[i - 1], i) OBVIOUS
    <3>1. i \in 1 .. n /\ i - 1 \in 0 .. n BY <1>1
    <3> QED BY <1>4, <1>6, <3>1
  <2> QED BY <1>6, <2>1, Zenon
<1>8. loop = [i \in 0 .. n |-> IF i = 0 THEN first ELSE Keep(loop[i - 1], i)] BY <1>7
<1>9. CoverDeliverySells(e) = CancelOrders(e, loop[n].over)
  BY DEF CoverDeliverySells, n, first, Keep, left
<1> HIDE DEF loop
<1>10. loop[0] \in V BY <1>1, <1>2, <1>8
<1>11. \A i \in 1 .. n : loop[i - 1] \in V => loop[i] \in V
  <2> SUFFICES ASSUME NEW i \in 1 .. n, loop[i - 1] \in V PROVE loop[i] \in V OBVIOUS
  <2>1. loop[i] = Keep(loop[i - 1], i) BY <1>1, <1>8
  <2> QED BY <1>3, <2>1
<1>12. loop[n] \in V
  <2>1. n \in Nat /\ n \in 0 .. n BY <1>1
  <2>2. \A i \in 0 .. n : loop[i] \in V BY <1>10, <1>11, <2>1, LoopStays, Zenon
  <2> QED BY <2>1, <2>2, Zenon
<1>13. loop[n].over \in SUBSET all BY <1>12 DEF V
<1> QED BY <1>9, <1>13 DEF all

\* What follows a fill ties the stops again.
LEMMA FillTied ==
  ASSUME NEW e \in Engines, StopsOk(e), NEW i \in 1 .. Len(e.orders), NEW price \in Prices,
         TiedBut(e, i, StopsOn(e, e.orders[i].product))
  PROVE  LET d == AfterFill(e, i, price) IN
         d \in After(e) /\ StopsOk(d) /\ Kept(e, d) /\ TiedBut(d, 0, {})
<1> DEFINE o    == e.orders[i]
           net  == Net(e, o.product)
           n    == Len(e.stops)
           late == StopsOn(e, o.product)
           mine == {t \in DOMAIN e.stops : /\ e.stops[t].entry = i /\ e.stops[t].status = "PENDING_ENTRY"
                                           /\ Opens(net, e.stops[t].direction)}
           V    == {d \in After(e) : StopsOk(d) /\ Kept(e, d) /\ TiedBut(d, i, late)}
           turn == [p \in (1 .. n) \X V |-> ArmIf(p[1] \in mine, p[2], p[1], net, price)]
           loop == CHOOSE g : g = [t \in 0 .. n |-> IF t = 0 THEN e ELSE ArmIf(t \in mine, g[t - 1], t, net, price)]
           done == IF o.status = "EXECUTED" THEN {i} ELSE {}
           sold == o.product = "DELIVERY" /\ o.side = "SELL" /\ o.exit
<1>1. n \in Nat /\ o \in OrderRecords /\ DOMAIN e.stops = 1 .. n BY EngineLens
<1>2. e \in V BY AfterSelf DEF Kept
<1>3. net \in Int BY <1>1, BookFields, OrderFields
<1>4. \A t \in mine : /\ net # 0 /\ t \in 1 .. n /\ t \in late /\ Active(e.stops[t]) /\ e.stops[t].exit = None
  <2> SUFFICES ASSUME NEW t \in mine
               PROVE  net # 0 /\ t \in 1 .. n /\ t \in late /\ Active(e.stops[t]) /\ e.stops[t].exit = None
    OBVIOUS
  <2>1. /\ t \in 1 .. n /\ e.stops[t].entry = i /\ e.stops[t].status = "PENDING_ENTRY"
        /\ Opens(net, e.stops[t].direction)
    BY <1>1
  <2>2. StopTied(e, e.stops[t], i, t \in late) BY <2>1 DEF TiedBut
  <2> HIDE DEF net, late
  <2>3. e.stops[t].exit = None /\ e.stops[t].product = o.product BY <2>1, <2>2 DEF StopTied
  <2>4. t \in late BY <1>1, <2>1, <2>3 DEF late, StopsOn
  <2> QED BY <2>1, <2>3, <2>4 DEF Opens, Active
<1> HIDE DEF mine, net, late
<1>5. ASSUME NEW t \in 1 .. n, NEW v \in V PROVE ArmIf(t \in mine, v, t, net, price) \in V
  <2>1. v \in After(e) /\ StopsOk(v) /\ v \in Engines /\ Len(v.stops) = n /\ Kept(e, v) /\ TiedBut(v, i, late)
    BY AfterIs
  <2>2. CASE t \in mine
    <3> DEFINE d == Arm(v, t, net, price)
    <3>1. d \in After(v) /\ StopsOk(d) BY <1>3, <1>4, <2>1, <2>2, Arms
    <3>2. v.stops[t].exit = None /\ t \in 1 .. Len(v.stops) /\ t \in late /\ net # 0
      BY <1>4, <2>1, <2>2 DEF Kept
    <3>3. /\ TiedBut(d, i, late)
          /\ \A u \in 1 .. Len(v.stops) :
               /\ d.stops[u].product = v.stops[u].product /\ d.stops[u].exit = v.stops[u].exit
               /\ Active(d.stops[u]) => u = t \/ Active(v.stops[u])
      BY <1>3, <2>1, <3>2, ArmTied
    <3> HIDE DEF d
    <3>4. d \in After(e) BY <2>1, <3>1, AfterAfter
    <3>5. Kept(e, d) BY <1>4, <2>1, <2>2, <3>3 DEF Kept
    <3> QED BY <2>2, <3>1, <3>3, <3>4, <3>5 DEF ArmIf, d
  <2>3. CASE t \notin mine BY <2>3 DEF ArmIf
  <2> QED BY <2>2, <2>3
<1>6. ASSUME NEW t \in 1 .. n, NEW v \in V PROVE turn[<<t, v>>] = ArmIf(t \in mine, v, t, net, price)
  <2> HIDE DEF V, n
  <2> QED OBVIOUS
<1>7. \A t \in 1 .. n, v \in V : turn[<<t, v>>] \in V BY <1>5, <1>6, Zenon
<1> HIDE DEF V, turn, n
<1>8. PICK f : /\ f = [t \in 0 .. n |-> IF t = 0 THEN e ELSE turn[<<t, f[t - 1]>>]]
               /\ \A t \in 0 .. n : f[t] \in V
  <2>1. Loops(V, e, n, turn) BY <1>1, <1>2, <1>7, LoopThere
  <2> QED BY <2>1, Zenon DEF Loops
<1>9. f = [t \in 0 .. n |-> IF t = 0 THEN e ELSE ArmIf(t \in mine, f[t - 1], t, net, price)]
  <2>1. \A t \in 0 .. n : t # 0 => turn[<<t, f[t - 1]>>] = ArmIf(t \in mine, f[t - 1], t, net, price)
    <3> SUFFICES ASSUME NEW t \in 0 .. n, t # 0
                 PROVE turn[<<t, f[t - 1]>>] = ArmIf(t \in mine, f[t - 1], t, net, price) OBVIOUS
    <3>1. t \in 1 .. n /\ t - 1 \in 0 .. n BY <1>1
    <3> QED BY <1>6, <1>8, <3>1
  <2> QED BY <1>8, <2>1, Zenon
<1>10. loop = [t \in 0 .. n |-> IF t = 0 THEN e ELSE ArmIf(t \in mine, loop[t - 1], t, net, price)]
  BY <1>9
<1>11. AfterFill(e, i, price) = CoveredIf(sold, EntryClosed(IdleExitsEnd(
         StopsFollow(loop[n], o.product, net), o.product), done))
  BY DEF AfterFill, mine, net, n
<1> HIDE DEF loop
<1>12. loop[0] \in V BY <1>1, <1>2, <1>10
<1>13. \A t \in 1 .. n : loop[t - 1] \in V => loop[t] \in V
  <2> SUFFICES ASSUME NEW t \in 1 .. n, loop[t - 1] \in V PROVE loop[t] \in V OBVIOUS
  <2>1. loop[t] = ArmIf(t \in mine, loop[t - 1], t, net, price) BY <1>1, <1>10
  <2> QED BY <1>5, <2>1
<1>14. loop[n] \in V
  <2>1. n \in Nat /\ n \in 0 .. n BY <1>1
  <2>2. \A t \in 0 .. n : loop[t] \in V BY <1>12, <1>13, <2>1, LoopStays, Zenon
  <2> QED BY <2>1, <2>2, Zenon
<1> DEFINE armed    == loop[n]
           followed == StopsFollow(armed, o.product, net)
           I        == {x \in LiveOrders(followed) \cap OrdersIn(followed, o.product) :
                          followed.orders[x].exit /\ ClosableQty(followed, followed.orders[x]) = 0}
           idle     == IdleExitsEnd(followed, o.product)
           closed   == EntryClosed(idle, done)
           d        == CoveredIf(sold, closed)
           none     == {}
<1>15. armed \in After(e) /\ StopsOk(armed) /\ armed \in Engines /\ Kept(e, armed) /\ TiedBut(armed, i, late)
       /\ Len(armed.stops) = n
  BY <1>14, AfterIs DEF V, n
<1> HIDE DEF armed
<1>16. /\ net = Net(armed, o.product)
       /\ late = StopsOn(armed, o.product)
  <2>1. net = Net(armed, o.product) BY <1>15, NetAfter DEF net
  <2>2. \A t \in 1 .. n : armed.stops[t].product = e.stops[t].product BY <1>15 DEF Kept, n
  <2>3. DOMAIN armed.stops = 1 .. n BY <1>15, EngineLens
  <2>4. \A t : t \in late <=> t \in StopsOn(armed, o.product) BY <1>1, <2>2, <2>3 DEF late, StopsOn
  <2> QED BY <2>1, <2>4
<1>17. Kept(armed, followed) /\ TiedBut(followed, i, none)
  <2>1. TiedBut(armed, i, StopsOn(armed, o.product)) BY <1>15, <1>16
  <2> QED BY <1>3, <1>15, <1>16, <2>1, StopsFollowTied
<1>18. followed \in After(armed) /\ StopsOk(followed) BY <1>3, <1>15, StopsFollowed
<1>19. idle = CancelOrders(followed, I) BY DEF IdleExitsEnd
<1>20. I \in SUBSET LiveOrders(followed) OBVIOUS
<1> HIDE DEF followed, I, none
<1>21. followed \in After(e) /\ followed \in Engines /\ Kept(e, followed)
       /\ Len(followed.stops) = n /\ Len(followed.orders) = Len(e.orders)
  <2>1. followed \in After(e) BY <1>15, <1>18, AfterAfter
  <2>2. followed \in Engines /\ Len(followed.stops) = n /\ Len(followed.orders) = Len(e.orders)
    BY <2>1, AfterIs DEF n
  <2>3. Kept(e, followed) BY <1>15, <1>17, KeptKept DEF n
  <2> QED BY <2>1, <2>2, <2>3
<1>22. idle \in After(followed) /\ OnlyEnd(followed, idle) /\ Kept(followed, idle) /\ TiedBut(idle, i, none)
  BY <1>17, <1>19, <1>20, <1>21, CancelTied
<1> HIDE DEF idle
<1>23. idle \in After(e) /\ idle \in Engines /\ Kept(e, idle)
       /\ Len(idle.stops) = n /\ Len(idle.orders) = Len(e.orders)
  <2>1. idle \in After(e) BY <1>21, <1>22, AfterAfter
  <2>2. idle \in Engines /\ Len(idle.stops) = n /\ Len(idle.orders) = Len(e.orders)
    BY <2>1, AfterIs DEF n
  <2>3. Kept(e, idle) BY <1>21, <1>22, KeptKept DEF n
  <2> QED BY <2>1, <2>2, <2>3
<1>24. /\ closed \in After(idle) /\ OnlyEnd(idle, closed) /\ Kept(idle, closed) /\ TiedBut(closed, i, none)
       /\ closed.orders = idle.orders
       /\ \A t \in 1 .. Len(idle.stops) :
            closed.stops[t].status = "PENDING_ENTRY"
              => closed.stops[t] = idle.stops[t] /\ idle.stops[t].entry \notin done
  <2> HIDE DEF done
  <2> QED BY <1>22, <1>23, EntryTied
<1> HIDE DEF closed
<1>25. closed \in After(e) /\ closed \in Engines /\ Kept(e, closed)
       /\ Len(closed.stops) = n /\ Len(closed.orders) = Len(e.orders)
  <2>1. closed \in After(e) BY <1>23, <1>24, AfterAfter
  <2>2. closed \in Engines /\ Len(closed.stops) = n /\ Len(closed.orders) = Len(e.orders)
    BY <2>1, AfterIs DEF n
  <2>3. Kept(e, closed) BY <1>23, <1>24, KeptKept DEF n
  <2> QED BY <2>1, <2>2, <2>3
<1>26. TiedBut(closed, 0, none)
  <2> SUFFICES ASSUME NEW t \in 1 .. Len(closed.stops) PROVE StopTied(closed, closed.stops[t], 0, t \in none)
    BY <1>24 DEF TiedBut
  <2> DEFINE s == closed.stops[t]
  <2>1. StopTied(closed, s, i, t \in none) BY <1>24 DEF TiedBut
  <2>2. s.status = "PENDING_ENTRY" => s.entry \notin done BY <1>23, <1>24, <1>25
  <2>3. s.status = "PENDING_ENTRY" /\ s.entry = i => closed.orders[s.entry].status # "EXECUTED"
    <3> SUFFICES ASSUME s.status = "PENDING_ENTRY", s.entry = i PROVE closed.orders[i].status # "EXECUTED"
      OBVIOUS
    <3>1. o.status # "EXECUTED" BY <2>2
    <3> QED BY <1>25, <3>1, OrderAfter
  <2> HIDE DEF s
  <2>4. StopTied(closed, s, 0, t \in none) BY <2>1, <2>3 DEF StopTied
  <2> QED BY <2>4 DEF s
<1>27. d \in After(closed) /\ OnlyEnd(closed, d) /\ Kept(closed, d) /\ TiedBut(d, 0, none)
  <2>1. CASE sold
    <3>1. PICK J \in SUBSET LiveOrders(closed) : CoverDeliverySells(closed) = CancelOrders(closed, J)
      BY <1>25, SellsOver
    <3>2. d = CancelOrders(closed, J) BY <2>1, <3>1 DEF CoveredIf
    <3> QED BY <1>25, <1>26, <3>2, CancelTied
  <2>2. CASE ~sold
    <3>1. d = closed BY <2>2 DEF CoveredIf
    <3>2. Kept(closed, closed) /\ OnlyEnd(closed, closed) BY DEF Kept, OnlyEnd
    <3> QED BY <1>25, <1>26, <3>1, <3>2, AfterSelf
  <2> QED BY <2>1, <2>2
<1>28. AfterFill(e, i, price) = d BY <1>11 DEF armed, followed, idle, closed
<1> HIDE DEF d
<1>29. d \in After(e) /\ Kept(e, d) BY <1>25, <1>27, AfterAfter, KeptKept DEF n
<1>30. StopsOk(d)
  <2>1. StopsOk(idle) BY <1>18, <1>21, <1>22, OnlyEndOk
  <2>2. StopsOk(closed) BY <1>23, <1>24, <2>1, OnlyEndOk
  <2> QED BY <1>25, <1>27, <2>2, OnlyEndOk
<1>31. d \in After(e) /\ StopsOk(d) /\ Kept(e, d) /\ TiedBut(d, 0, {}) BY <1>27, <1>29, <1>30 DEF none
<1> QED BY <1>28, <1>31, Zenon

Modes == [still : SUBSET {"INTRADAY"}, amo : SUBSET Nat, open : SUBSET Nat]

\* A fill books nothing in the other product.
LEMMA BooksApart ==
  ASSUME NEW e \in Engines, Net(e, "DELIVERY") >= 0, NEW i \in 1 .. Len(e.orders),
         NEW qty \in Nat \ {0}, NEW price \in Nat,
         e.orders[i].side = "SELL" /\ e.orders[i].product = "DELIVERY" => qty <= Owned(e),
         NEW p \in Products, p # e.orders[i].product
  PROVE  Net(Booked(e, i, qty, price), p) = Net(e, p)
<1> DEFINE o == e.orders[i]
           d == Booked(e, i, qty, price)
<1>1. o.product \in Products /\ o.side \in Sides BY EngineLens, OrderFields
<1>2. CASE o.product = "DELIVERY"
  <2>1. Net(d, "INTRADAY") = Net(e, "INTRADAY") + Traded(o, "INTRADAY", qty) BY BookedIs
  <2>2. Traded(o, "INTRADAY", qty) = 0 BY <1>2 DEF Traded
  <2>3. p = "INTRADAY" BY <1>2 DEF Products
  <2>4. Net(e, "INTRADAY") \in Int BY BookFields DEF Products
  <2> HIDE DEF d, o
  <2> QED BY <2>1, <2>2, <2>3, <2>4 DEF d
<1>3. CASE o.product = "INTRADAY"
  <2> DEFINE c == TradedIn(e, "INTRADAY", o.side, qty, price)
  <2>1. d = c BY <1>3 DEF Booked, TradedIn
  <2>2. TradesIn(e, c, "INTRADAY", o.side, qty, price) BY <1>1, BookTraded DEF Products
  <2> HIDE DEF c
  <2>3. \A q \in Products : q # "INTRADAY" => Net(c, q) = Net(e, q) BY <2>2 DEF TradesIn
  <2> QED BY <1>3, <2>1, <2>3
<1> QED BY <1>1, <1>2, <1>3 DEF Products

\* The engine when a fill is recorded, before what follows it.
Filling(e, x, i, qty) ==
  /\ x \in Engines /\ StopsOk(x) /\ x.stops = e.stops /\ Len(x.orders) = Len(e.orders)
  /\ x.orders[i] = FilledBy(e.orders[i], qty)
  /\ \A k \in 1 .. Len(e.orders) : k # i => x.orders[k] = e.orders[k]
  /\ \A p \in Products : p # e.orders[i].product => Net(x, p) = Net(e, p)

LEMMA FillParts ==
  ASSUME NEW e, NEW i \in 1 .. Len(e.orders), Sane(e, i), Running(e),
         NEW qty, NEW price, NEW forced, FillOk(e, i, qty, price, forced),
         Running(FillOf(e, i, qty, price, forced))
  PROVE  \E x : Filling(e, x, i, qty) /\ FillOf(e, i, qty, price, forced) = AfterFill(x, i, price)
<1> DEFINE o == e.orders[i]
           s == Settled(e, i, qty, price, forced)
           b == Booked(s, i, qty, price)
           x == Recorded(b, i, qty)
           d == FillOf(e, i, qty, price, forced)
<1>1. e \in Engines /\ StopsOk(e) /\ Net(e, "DELIVERY") >= 0 BY DEF Sane
<1>2. /\ o.status = "OPEN" /\ qty \in 1 .. Left(o) /\ price \in Prices /\ forced \in BOOLEAN
      /\ o.side = "SELL" /\ o.product = "DELIVERY" => qty <= Owned(e)
  BY DEF FillOk
<1>3. o \in OrderRecords /\ i \in Nat \ {0} /\ Len(e.orders) \in Nat BY <1>1, EngineLens
<1>4. qty \in Nat \ {0} /\ price \in Nat /\ Left(o) \in Nat /\ Left(o) > 0
  <2>1. Left(o) \in Nat BY <1>3, OrderFields
  <2> QED BY <1>2, <2>1 DEF Prices
<1>5. d = Filled(b, i, qty, price) BY DEF FillOf
<1>6. \/ o.side = "BUY" /\ ~forced /\ s = Broken(e, "FUNDS")
      \/ s = WithCash(e, s.funds) /\ s.funds \in Ledgers
  <2>1. qty \in Nat /\ price \in Nat /\ Left(e.orders[i]) > 0 /\ forced \in BOOLEAN BY <1>2, <1>4
  <2>2. \/ /\ o.side = "BUY" /\ ~forced /\ s = Broken(e, "FUNDS")
           /\ e.funds.available + ReleaseOf(e, i, qty) < qty * price
        \/ /\ s = WithCash(e, s.funds)
           /\ Paid(e, s.funds, i, Amount(o, qty, price), Freed(e, i, qty, forced))
    BY <1>1, <2>1, SettledIs, Zenon
  <2> QED BY <2>2, Zenon DEF Paid
<1>7. /\ s \in Engines /\ s.orders = e.orders /\ s.stops = e.stops /\ s.books = e.books /\ s.holding = e.holding
      /\ s = Broken(e, "FUNDS") => ~Running(s)
      /\ s # Broken(e, "FUNDS") => Running(s)
  <2>1. CASE s = Broken(e, "FUNDS")
    <3>1. Broken(e, "FUNDS") \in Engines /\ ~Running(Broken(e, "FUNDS")) BY <1>1, BrokenIs
    <3>2. /\ Broken(e, "FUNDS").orders = e.orders /\ Broken(e, "FUNDS").stops = e.stops
          /\ Broken(e, "FUNDS").books = e.books /\ Broken(e, "FUNDS").holding = e.holding
      BY <1>1, BrokenIs
    <3> HIDE DEF s
    <3> QED BY <2>1, <3>1, <3>2
  <2>2. CASE s # Broken(e, "FUNDS")
    <3>1. s = WithCash(e, s.funds) /\ s.funds \in Ledgers BY <1>6, <2>2
    <3> DEFINE f == s.funds
               k == WithCash(e, f)
    <3> HIDE DEF f
    <3>2. /\ k \in Engines /\ k.orders = e.orders /\ k.stops = e.stops /\ k.books = e.books
          /\ k.holding = e.holding /\ k.broken = e.broken
      BY <1>1, <3>1, WithFunds DEF f
    <3>3. s = k BY <3>1, Zenon DEF f
    <3> HIDE DEF k, s
    <3> QED BY <2>2, <3>2, <3>3, Zenon DEF Running
  <2> QED BY <2>1, <2>2
<1> HIDE DEF s, o
<1>8. /\ Net(s, "DELIVERY") >= 0 /\ i \in 1 .. Len(s.orders) /\ s.orders[i] = o /\ Owned(s) = Owned(e)
      /\ \A p : Net(s, p) = Net(e, p)
  BY <1>1, <1>7 DEF Net, Owned, o
<1>9. /\ b \in Engines /\ b.orders = s.orders /\ b.stops = s.stops /\ b.broken = s.broken
      /\ \A p \in Products : p # o.product => Net(b, p) = Net(s, p)
  <2>1. s.orders[i].side = "SELL" /\ s.orders[i].product = "DELIVERY" => qty <= Owned(s) BY <1>2, <1>8
  <2>2. b \in Engines /\ SameBut(s, b) BY <1>4, <1>7, <1>8, <2>1, BookedIs
  <2>3. \A p \in Products : p # s.orders[i].product => Net(b, p) = Net(s, p)
    BY <1>4, <1>7, <1>8, <2>1, BooksApart
  <2> HIDE DEF b
  <2> QED BY <1>8, <2>2, <2>3, Zenon DEF SameBut
<1> HIDE DEF b
<1>10. Running(b)
  <2>1. ~Running(b) => d = b BY <1>5, Zenon DEF Filled, Running
  <2>2. Running(d) OBVIOUS
  <2> HIDE DEF d
  <2> QED BY <2>1, <2>2
<1>11. d = AfterFill(x, i, price) BY <1>5, <1>7, <1>8, <1>9, <1>10, FilledIs
<1>12. b.orders = e.orders /\ b.stops = e.stops /\ (\A p \in Products : p # o.product => Net(b, p) = Net(e, p))
  BY <1>7, <1>8, <1>9
<1>13. /\ x \in Engines /\ Len(x.orders) = Len(b.orders)
       /\ x.orders[i] = FilledBy(b.orders[i], qty)
       /\ \A k \in 1 .. Len(b.orders) : k # i => x.orders[k] = b.orders[k]
       /\ x.stops = b.stops /\ x.books = b.books
  <2>1. i \in 1 .. Len(b.orders) /\ qty \in 1 .. Left(b.orders[i]) /\ b.orders[i].status = "OPEN"
    BY <1>2, <1>12 DEF o
  <2> QED BY <1>9, <2>1, RecordedIs
<1> HIDE DEF x
<1>14. StopsOk(x) BY <1>1, <1>12, <1>13 DEF StopsOk
<1>15. \A p : Net(x, p) = Net(b, p) BY <1>13 DEF Net
<1>16. Filling(e, x, i, qty) BY <1>12, <1>13, <1>14, <1>15 DEF Filling, o
<1> HIDE DEF d
<1>17. Filling(e, x, i, qty) /\ d = AfterFill(x, i, price) BY <1>11, <1>16
<1> QED BY <1>17, Zenon DEF d

\* A fill unties the stops of its product, and no other.
LEMMA FillLoosens ==
  ASSUME NEW e \in Engines, NEW i \in 1 .. Len(e.orders), e.orders[i].status = "OPEN",
         NEW qty \in 1 .. Left(e.orders[i]), NEW x, Filling(e, x, i, qty), TiedBut(e, 0, {})
  PROVE  TiedBut(x, i, StopsOn(x, x.orders[i].product))
<1> DEFINE o == e.orders[i]
           r == x.orders[i]
           late == StopsOn(x, r.product)
<1>1. /\ x \in Engines /\ x.stops = e.stops /\ Len(x.orders) = Len(e.orders)
      /\ r = FilledBy(o, qty) /\ \A k \in 1 .. Len(e.orders) : k # i => x.orders[k] = e.orders[k]
      /\ \A p \in Products : p # o.product => Net(x, p) = Net(e, p)
  BY DEF Filling
<1>2. /\ r.status \in {"EXECUTED", "OPEN"} /\ r.product = o.product /\ r.exit = o.exit
  <2>1. o \in OrderRecords BY EngineLens
  <2> QED BY <1>1, <2>1, FilledOrder
<1>3. \A t : t \in late <=> t \in 1 .. Len(e.stops) /\ e.stops[t].product = o.product
  BY <1>1, <1>2, EngineLens DEF StopsOn
<1>4. \A k \in 1 .. Len(e.orders) :
        /\ x.orders[k].exit = e.orders[k].exit /\ x.orders[k].product = e.orders[k].product
        /\ Live(x.orders[k]) => Live(e.orders[k])
        /\ Live(e.orders[k]) => Live(x.orders[k]) \/ (k = i /\ x.orders[k].status = "EXECUTED")
  BY <1>1, <1>2 DEF Live
<1> HIDE DEF late
<1>5. ASSUME NEW t \in 1 .. Len(x.stops) PROVE StopTied(x, x.stops[t], i, t \in late)
  <2> DEFINE s == e.stops[t]
  <2>1. t \in 1 .. Len(e.stops) /\ x.stops[t] = s BY <1>1
  <2>2. s \in StopRecords BY <2>1, EngineLens
  <2>3. s.product \in Products BY <2>2 DEF StopRecords
  <2>4. StopTied(e, s, 0, FALSE)
    <3> DEFINE a == t \in {}
    <3>1. StopTied(e, s, 0, a) BY <2>1 DEF TiedBut
    <3>2. a = FALSE OBVIOUS
    <3> HIDE DEF a, s
    <3> QED BY <3>1, <3>2
  <2>5. t \in late <=> s.product = o.product BY <1>3, <2>1
  <2> DEFINE loose == t \in late
  <2>6. loose <=> s.product = o.product BY <2>5
  <2> HIDE DEF s, loose
  <2>7. s.exit # None => /\ s.exit \in 1 .. Len(x.orders)
                         /\ x.orders[s.exit].exit /\ x.orders[s.exit].product = s.product
                         /\ Live(x.orders[s.exit]) => s.status = "TRIGGERED"
    BY <1>1, <1>4, <2>4 DEF StopTied
  <2>8. s.status = "TRIGGERED" =>
          s.exit # None /\ (Live(x.orders[s.exit]) \/ (loose /\ x.orders[s.exit].status = "EXECUTED"))
    BY <1>1, <1>4, <2>4, <2>6 DEF StopTied
  <2>9. s.status = "PENDING_ENTRY" =>
          /\ s.exit = None /\ s.entry \in 1 .. Len(x.orders) /\ x.orders[s.entry].product = s.product
          /\ Live(x.orders[s.entry]) \/ (s.entry = i /\ x.orders[s.entry].status = "EXECUTED")
    <3> SUFFICES ASSUME s.status = "PENDING_ENTRY"
                 PROVE /\ s.exit = None /\ s.entry \in 1 .. Len(x.orders)
                       /\ x.orders[s.entry].product = s.product
                       /\ Live(x.orders[s.entry]) \/ (s.entry = i /\ x.orders[s.entry].status = "EXECUTED")
      OBVIOUS
    <3>1. /\ s.exit = None /\ s.entry \in 1 .. Len(e.orders) /\ e.orders[s.entry].product = s.product
          /\ Live(e.orders[s.entry]) \/ s.entry = 0
      BY <2>4 DEF StopTied
    <3>2. s.entry # 0 BY <3>1, EngineLens
    <3> QED BY <1>1, <1>4, <3>1, <3>2
  <2>10. s.status \in {"ARMED", "TRAILING"} => s.exit = None BY <2>4 DEF StopTied
  <2>11. Protecting(s) =>
           loose \/ (Opens(Net(x, s.product), s.direction) /\ s.qty = Abs(Net(x, s.product)))
    BY <1>1, <2>3, <2>4, <2>6 DEF StopTied
  <2>12. StopTied(x, s, i, loose) BY <2>7, <2>8, <2>9, <2>10, <2>11 DEF StopTied
  <2> QED BY <2>1, <2>12 DEF loose
<1>6. Alone(x) BY <1>1 DEF TiedBut, Alone
<1> QED BY <1>5, <1>6 DEF TiedBut, late

LEMMA FillTidy ==
  ASSUME NEW e, NEW i \in 1 .. Len(e.orders), Sane(e, i), Running(e),
         NEW qty, NEW price, NEW forced, FillOk(e, i, qty, price, forced),
         Running(FillOf(e, i, qty, price, forced)), NEW quote, NEW m \in Modes, Tidy(e, quote, m)
  PROVE  Tidy(FillOf(e, i, qty, price, forced), quote, m)
<1> DEFINE o == e.orders[i]
           d == FillOf(e, i, qty, price, forced)
<1>1. e \in Engines /\ o.status = "OPEN" /\ qty \in 1 .. Left(o) /\ price \in Prices BY DEF Sane, FillOk
<1>2. TiedBut(e, 0, {}) /\ Quoted(e, quote) /\ Calm(e, m) BY DEF Tidy
<1>3. PICK x : Filling(e, x, i, qty) /\ d = AfterFill(x, i, price)
  <2>1. \E x : Filling(e, x, i, qty) /\ FillOf(e, i, qty, price, forced) = AfterFill(x, i, price)
    BY FillParts
  <2> QED BY <2>1
<1> HIDE DEF d
<1>4. TiedBut(x, i, StopsOn(x, x.orders[i].product)) BY <1>1, <1>2, <1>3, FillLoosens
<1>5. /\ x \in Engines /\ StopsOk(x) /\ x.stops = e.stops /\ Len(x.orders) = Len(e.orders)
      /\ x.orders[i] = FilledBy(o, qty) /\ \A k \in 1 .. Len(e.orders) : k # i => x.orders[k] = e.orders[k]
      /\ \A p \in Products : p # o.product => Net(x, p) = Net(e, p)
  BY <1>3 DEF Filling
<1>6. d \in After(x) /\ Kept(x, d) /\ TiedBut(d, 0, {})
  <2>1. i \in 1 .. Len(x.orders) BY <1>5
  <2>2. /\ AfterFill(x, i, price) \in After(x) /\ Kept(x, AfterFill(x, i, price))
        /\ TiedBut(AfterFill(x, i, price), 0, {})
    BY <1>1, <1>4, <1>5, <2>1, FillTied
  <2> QED BY <1>3, <2>2, Zenon
<1>7. x.orders[i].status \in {"EXECUTED", "OPEN"} /\ x.orders[i].product = o.product /\ x.orders[i].exit = o.exit
  <2>1. o \in OrderRecords BY <1>1, EngineLens
  <2> QED BY <1>1, <1>5, <2>1, FilledOrder
<1>8. Calm(x, m)
  <2>1. m.still \subseteq Products /\ o.product \notin m.still BY <1>1, <1>2 DEF Modes, Products, Calm, Live
  <2>2. \A p \in m.still : Net(x, p) = 0 BY <1>2, <1>5, <2>1 DEF Calm
  <2>3. ASSUME NEW k \in 1 .. Len(x.orders)
        PROVE  /\ Live(x.orders[k]) => x.orders[k].product \notin m.still
               /\ x.orders[k].status = "AMO" => k \notin m.amo /\ x.orders[k].product # "INTRADAY"
               /\ x.orders[k].status = "OPEN" => k \notin m.open
    <3>1. CASE k # i BY <1>2, <1>5, <3>1 DEF Calm
    <3>2. CASE k = i BY <1>1, <1>2, <1>7, <2>1, <3>2 DEF Calm
    <3> QED BY <3>1, <3>2
  <2>4. \A t \in 1 .. Len(x.stops) : Active(x.stops[t]) => x.stops[t].product \notin m.still
    BY <1>2, <1>5 DEF Calm
  <2> QED BY <2>2, <2>3, <2>4 DEF Calm
<1>9. Quoted(x, quote)
  <2> SUFFICES ASSUME quote = None, NEW k \in 1 .. Len(x.orders), Live(x.orders[k]) PROVE ~x.orders[k].exit
    BY DEF Quoted
  <2>1. k \in 1 .. Len(e.orders) /\ (Live(e.orders[k]) => ~e.orders[k].exit) BY <1>2, <1>5 DEF Quoted
  <2>2. CASE k # i BY <1>5, <2>1, <2>2
  <2>3. CASE k = i BY <1>1, <1>7, <2>1, <2>3 DEF Live
  <2> QED BY <2>2, <2>3
<1>10. Calm(d, m) /\ Quoted(d, quote) BY <1>5, <1>6, <1>8, <1>9, AfterCalm
<1>11. Tidy(d, quote, m) BY <1>6, <1>10 DEF Tidy
<1> QED BY <1>11 DEF d

\* Orders that are cancelled, and stops that are ended, leave the rest tidy.
LEMMA CancelTidy ==
  ASSUME NEW e \in Engines, NEW I \in SUBSET LiveOrders(e), NEW quote, NEW m, Tidy(e, quote, m)
  PROVE  Tidy(CancelOrders(e, I), quote, m)
<1> DEFINE d == CancelOrders(e, I)
           none == {}
<1>1. TiedBut(e, 0, none) /\ Quoted(e, quote) /\ Calm(e, m) BY DEF Tidy
<1> HIDE DEF none
<1>2. d \in After(e) /\ Kept(e, d) /\ TiedBut(d, 0, none) BY <1>1, CancelTied
<1> HIDE DEF d
<1>3. Calm(d, m) /\ Quoted(d, quote) BY <1>1, <1>2, AfterCalm
<1>4. Tidy(d, quote, m) BY <1>2, <1>3 DEF Tidy, none
<1> QED BY <1>4 DEF d

LEMMA StopsEndTidy ==
  ASSUME NEW e \in Engines, NEW T, NEW quote, NEW m, Tidy(e, quote, m)
  PROVE  LET d == CancelStops(e, T) IN
         /\ Tidy(d, quote, m) /\ d \in After(e) /\ Kept(e, d)
         /\ \A t \in 1 .. Len(e.stops) : t \in T => ~Active(d.stops[t])
<1> DEFINE d == CancelStops(e, T)
           none == {}
<1>1. TiedBut(e, 0, none) /\ Quoted(e, quote) /\ Calm(e, m) BY DEF Tidy
<1> HIDE DEF none
<1>2. /\ d \in After(e) /\ Kept(e, d) /\ TiedBut(d, 0, none)
      /\ \A t \in 1 .. Len(e.stops) : t \in T => ~Active(d.stops[t])
  BY <1>1, StopsEndTied
<1> HIDE DEF d
<1>3. Calm(d, m) /\ Quoted(d, quote) BY <1>1, <1>2, AfterCalm
<1>4. Tidy(d, quote, m) BY <1>2, <1>3 DEF Tidy, none
<1> QED BY <1>2, <1>4 DEF d

\* What an order must find to be executed.
ExecuteOk(e, i, n, price, sq) ==
  LET o == e.orders[i] IN
  /\ i \in 1 .. Len(e.orders) /\ o.status = "OPEN" /\ n \in 1 .. Left(o)
  /\ price \in Prices /\ sq \in BOOLEAN
  /\ sq => ~o.exit /\ n = Left(o)
  /\ ~o.exit /\ ~sq => n = Left(o) \/ Rests(o, i)
  /\ ~o.exit /\ ~sq /\ o.side = "BUY" => n * price <= ReleaseOf(e, i, n)

\* It is cancelled, or filled.
LEMMA ExecuteParts ==
  ASSUME NEW e, NEW i, Sane(e, i), Running(e), Covered(e), NEW n, NEW price, NEW sq,
         ExecuteOk(e, i, n, price, sq)
  PROVE  LET d == Execute(e, i, n, price, sq)
             o == e.orders[i] IN
         \/ {i} \in SUBSET LiveOrders(e) /\ d = CancelOrders(e, {i}) /\ ~sq
         \/ \E qty : /\ FillOk(e, i, qty, price, sq \/ o.exit) /\ d = FillOf(e, i, qty, price, sq \/ o.exit)
                     /\ sq => qty = n
<1> DEFINE o == e.orders[i]
           qty == IF o.exit THEN Least(n, ClosableQty(e, o)) ELSE n
           forced == sq \/ o.exit
           d == Execute(e, i, n, price, sq)
           f == FillOf(e, i, qty, price, forced)
<1>0. /\ i \in 1 .. Len(e.orders) /\ o.status = "OPEN" /\ n \in 1 .. Left(o)
      /\ price \in Prices /\ sq \in BOOLEAN
      /\ sq => ~o.exit /\ n = Left(o)
      /\ ~o.exit /\ ~sq => n = Left(o) \/ Rests(o, i)
      /\ ~o.exit /\ ~sq /\ o.side = "BUY" => n * price <= ReleaseOf(e, i, n)
  BY DEF ExecuteOk
<1>1. e \in Engines /\ Net(e, "DELIVERY") >= 0 BY DEF Sane
<1>2. o \in OrderRecords /\ i \in Nat \ {0} /\ Len(e.orders) \in Nat /\ DOMAIN e.orders = 1 .. Len(e.orders)
  BY <1>0, <1>1, EngineLens
<1>3. Left(o) \in Nat /\ o.side \in {"BUY", "SELL"} /\ o.product \in Products /\ o.exit \in BOOLEAN
  BY <1>2, OrderFields DEF Sides
<1>4. ClosableQty(e, o) \in Nat /\ (o.side = "SELL" => ClosableQty(e, o) = Most(0, Net(e, o.product)))
  <2>1. Net(e, o.product) \in Int BY <1>1, <1>3, BookFields
  <2> HIDE DEF o
  <2> QED BY <2>1 DEF ClosableQty, Most
<1>5. n \in 1 .. Left(o) /\ n \in Nat \ {0} BY <1>0, <1>3
<1>6. qty \in 0 .. Left(o) /\ (o.exit => qty <= ClosableQty(e, o)) /\ (~o.exit => qty = n)
  <2> DEFINE left == Left(o)
             c == ClosableQty(e, o)
  <2>1. left \in Nat /\ c \in Nat /\ n \in 1 .. left /\ qty = IF o.exit THEN Least(n, c) ELSE n
    BY <1>3, <1>4, <1>5
  <2> HIDE DEF left, c, qty
  <2>2. Least(n, c) \in 0 .. left /\ Least(n, c) <= c BY <2>1 DEF Least
  <2>3. qty \in 0 .. left /\ (o.exit => qty <= c) /\ (~o.exit => qty = n)
    <3> HIDE DEF o
    <3> QED BY <2>1, <2>2
  <2> QED BY <2>3 DEF left, c
<1>7. d = IF qty = 0 THEN CancelOrders(e, {i}) ELSE f BY Zenon DEF Execute, FillOf
<1> HIDE DEF d, qty
<1>8. CASE qty = 0
  <2>1. {i} \in SUBSET LiveOrders(e) BY <1>0, <1>2 DEF LiveOrders, Live
  <2>2. ~sq BY <1>0, <1>5, <1>6, <1>8
  <2>3. d = CancelOrders(e, {i}) BY <1>7, <1>8
  <2> QED BY <2>1, <2>2, <2>3 DEF d
<1>9. CASE qty # 0
  <2>1. qty \in 1 .. Left(o) BY <1>3, <1>6, <1>9
  <2>2. o.side = "SELL" /\ o.product = "DELIVERY" => qty <= Owned(e)
    <3> SUFFICES ASSUME o.side = "SELL", o.product = "DELIVERY" PROVE qty <= Owned(e) OBVIOUS
    <3>1. Owned(e) \in Nat /\ e.holding.qty \in Nat BY <1>1, OwnedIs
    <3>2. CASE o.exit
      <4>1. qty <= Most(0, Net(e, "DELIVERY")) BY <1>4, <1>6, <3>2
      <4>2. Owned(e) = e.holding.qty + Most(0, Net(e, "DELIVERY")) BY DEF Owned
      <4>3. Most(0, Net(e, "DELIVERY")) \in Nat
        <5>1. Net(e, "DELIVERY") \in Int BY <1>1, BookFields DEF Products
        <5> QED BY <5>1 DEF Most
      <4> DEFINE m == Most(0, Net(e, "DELIVERY"))
                 h == e.holding.qty
      <4>4. m \in Nat /\ h \in Nat /\ qty <= m /\ Owned(e) = h + m BY <3>1, <4>1, <4>2, <4>3
      <4>5. qty \in Nat BY <1>3, <2>1
      <4> HIDE DEF m, h
      <4> QED BY <4>4, <4>5
    <3>3. CASE ~o.exit
      <4>1. Asks(o) = Left(o) BY <1>0, <3>3 DEF Asks, Live
      <4>2. Asks(o) <= Asked(e) BY <1>0, <1>1, OneAsks
      <4>3. Asked(e) \in Int /\ Asked(e) <= Owned(e) BY <1>1, AskedIsInt DEF Covered
      <4> DEFINE left == Left(o)
                 a == Asked(e)
      <4>4. left <= a /\ a <= Owned(e) /\ a \in Int /\ left \in Nat /\ qty \in 1 .. left
        BY <1>3, <2>1, <4>1, <4>2, <4>3
      <4> HIDE DEF left, a
      <4> QED BY <3>1, <4>4
    <3> QED BY <3>2, <3>3
  <2>3. FillOk(e, i, qty, price, forced)
    <3>1. forced \in BOOLEAN BY <1>0, <1>3
    <3>2. forced /\ ~o.exit => qty = Left(o) BY <1>0, <1>6
    <3>3. qty = Left(o) \/ Rests(o, i)
      <4>1. o.exit => Rests(o, i) BY DEF Rests
      <4> QED BY <1>0, <1>6, <4>1
    <3>4. o.side = "BUY" /\ ~forced => qty * price <= ReleaseOf(e, i, qty) BY <1>0, <1>6
    <3> HIDE DEF forced
    <3>5. o.exit => forced BY DEF forced
    <3> QED BY <1>0, <2>1, <2>2, <3>1, <3>2, <3>3, <3>4, <3>5 DEF FillOk
  <2>4. d = f BY <1>7, <1>9
  <2>5. sq => qty = n BY <1>0, <1>6
  <2> HIDE DEF forced
  <2>6. \E q : FillOk(e, i, q, price, forced) /\ d = FillOf(e, i, q, price, forced) /\ (sq => q = n)
    BY <2>3, <2>4, <2>5
  <2> QED BY <2>6, Zenon DEF d, forced
<1> QED BY <1>8, <1>9

LEMMA ExecuteTidy ==
  ASSUME NEW e, NEW i, Sane(e, i), Running(e), Covered(e), NEW n, NEW price, NEW sq,
         ExecuteOk(e, i, n, price, sq), Running(Execute(e, i, n, price, sq)),
         NEW quote, NEW m \in Modes, Tidy(e, quote, m)
  PROVE  Tidy(Execute(e, i, n, price, sq), quote, m)
<1> DEFINE d == Execute(e, i, n, price, sq)
           forced == sq \/ e.orders[i].exit
           one == {i}
<1>1. e \in Engines /\ i \in 1 .. Len(e.orders) BY DEF Sane, ExecuteOk
<1>2. \/ one \in SUBSET LiveOrders(e) /\ d = CancelOrders(e, one) /\ ~sq
      \/ \E qty : /\ FillOk(e, i, qty, price, forced) /\ d = FillOf(e, i, qty, price, forced)
                  /\ sq => qty = n
  BY ExecuteParts
<1>3. Running(d) OBVIOUS
<1> HIDE DEF d, one, forced
<1>4. CASE one \in SUBSET LiveOrders(e) /\ d = CancelOrders(e, one)
  <2>1. Tidy(CancelOrders(e, one), quote, m) BY <1>1, <1>4, CancelTidy
  <2> QED BY <1>4, <2>1 DEF d
<1>5. ASSUME NEW qty, FillOk(e, i, qty, price, forced), d = FillOf(e, i, qty, price, forced)
      PROVE  Tidy(d, quote, m)
  <2>1. Running(FillOf(e, i, qty, price, forced)) BY <1>3, <1>5
  <2>2. Tidy(FillOf(e, i, qty, price, forced), quote, m) BY <1>1, <1>5, <2>1, FillTidy
  <2> QED BY <1>5, <2>2
<1>6. Tidy(d, quote, m) BY <1>2, <1>4, <1>5 DEF d
<1> QED BY <1>6 DEF d

\* The engine whose order is executed, of those a match may leave alone.
Matching(e, x, i) ==
  /\ Sane(x, i) /\ Running(x) /\ Covered(x)
  /\ x.orders = e.orders /\ x.stops = e.stops /\ x.books = e.books /\ x.funds = e.funds

Executes(e, d, i) ==
  \E x, n, price : Matching(e, x, i) /\ ExecuteOk(x, i, n, price, FALSE)
                   /\ d = Execute(x, i, n, price, FALSE)

LEMMA MatchParts ==
  ASSUME NEW e, NEW i \in 1 .. Len(e.orders), Sane(e, i), Running(e), Covered(e),
         NEW now, MatchOk(e, i, now), NEW onArrival \in BOOLEAN
  PROVE  Match(e, i, now, onArrival) = e \/ Executes(e, Match(e, i, now, onArrival), i)
<1> DEFINE o == e.orders[i]
           limit == o.type = "LIMIT"
           capped == limit /\ Cap # None
           crosses == ~limit \/ (IF o.side = "BUY" THEN now.ltp <= o.price ELSE now.ltp >= o.price)
           left == Left(o)
           qty == IF capped THEN Least(left, Cap) ELSE left
           price == IF limit /\ ~onArrival THEN o.price ELSE now.ltp
           marked == IF capped THEN [e EXCEPT !.capped = @ \cup {i}] ELSE e
           fills == now.ltp # None /\ ~(capped /\ i \in e.capped) /\ crosses
           d == Match(e, i, now, onArrival)
<1>1. e \in Engines /\ BlocksOk(e) BY NotDebit DEF Sane
<1>2. o \in OrderRecords /\ i \in Nat \ {0} /\ Len(e.orders) \in Nat BY <1>1, EngineLens
<1>3. /\ o.status = "OPEN" /\ now.ltp \in Prices \cup {None}
      /\ ~o.exit => i \in OrderId
      /\ ~o.exit /\ o.type = "MARKET" => /\ now.ltp # None
                                         /\ o.side = "BUY" => left * now.ltp <= e.funds.blocks[i]
  BY DEF MatchOk
<1>4. /\ left \in Nat \ {0} /\ o.side \in {"BUY", "SELL"} /\ o.type \in {"MARKET", "LIMIT"}
      /\ limit => o.price \in Prices
  <2>1. Live(o) BY <1>3 DEF Live
  <2>2. left \in Nat /\ left > 0 /\ OrderOk(o) /\ o.type \in {"MARKET", "LIMIT"} /\ o.side \in {"BUY", "SELL"}
    BY <1>2, <2>1, OrderFields DEF Sides
  <2>3. limit => o.price \in Circuit BY <2>1, <2>2 DEF OrderOk
  <2>4. limit => o.price \in Prices BY <2>3, EngineAssumption DEF Prices
  <2> QED BY <2>2, <2>4
<1>5. qty \in 1 .. left /\ (~limit => qty = left)
  <2> HIDE DEF left, limit
  <2> QED BY <1>4, EngineAssumption DEF Least
<1>6. d = IF fills THEN Execute(marked, i, qty, price, FALSE) ELSE e BY DEF Match, Left
<1>7. Matching(e, marked, i)
  <2>1. CASE capped
    <3> DEFINE m == [e EXCEPT !.capped = @ \cup {i}]
    <3>1. marked = m BY <2>1
    <3>2. Sane(m, i) /\ Running(m) /\ (Covered(e) => Covered(m)) /\ m.orders = e.orders /\ m.funds = e.funds
      BY <1>3, MarkedSane
    <3>3. m.stops = e.stops /\ m.books = e.books BY <1>1 DEF Engines
    <3> HIDE DEF marked, m
    <3> QED BY <3>1, <3>2, <3>3 DEF Matching
  <2>2. CASE ~capped
    <3>1. marked = e BY <2>2
    <3> HIDE DEF marked
    <3> QED BY <3>1 DEF Matching
  <2> QED BY <2>1, <2>2
<1> HIDE DEF d, marked, qty
<1>8. Rests(o, i) \/ (~o.exit /\ ~limit)
  <2>1. limit \/ o.exit => Rests(o, i) BY <1>3 DEF Rests
  <2> QED BY <2>1
<1>9. CASE fills
  <2>1. price \in Prices BY <1>3, <1>4, <1>9
  <2>2. ~o.exit /\ o.side = "BUY" => qty * price <= ReleaseOf(e, i, qty)
    <3> SUFFICES ASSUME ~o.exit, o.side = "BUY" PROVE qty * price <= ReleaseOf(e, i, qty) OBVIOUS
    <3> DEFINE held == e.funds.blocks[i]
    <3>1. i \in OrderId /\ BlockedFor(e.funds, i) = held BY <1>3 DEF BlockedFor
    <3>2. Due(o, held) BY <1>1, <1>2, <3>1 DEF BlocksOk
    <3>3. ReleaseOf(e, i, qty) = IF qty = left THEN held ELSE MulDivRound(held, qty, left)
      BY <3>1 DEF ReleaseOf
    <3>4. CASE limit
      <4>1. held = left * o.price
        <5>1. o.price # None BY <1>4, <3>4, TrailAssumption DEF Prices
        <5>2. Live(o) BY <1>3 DEF Live
        <5> QED BY <3>2, <3>4, <5>1, <5>2 DEF Due, OrderWorth
      <4> DEFINE p == o.price
      <4>2. p \in Nat /\ price \in Nat /\ price <= p
        <5>1. o.price \in Nat BY <1>4, <3>4 DEF Prices
        <5>2. now.ltp \in Nat /\ now.ltp <= o.price BY <1>3, <1>9, <3>4 DEF Prices
        <5> QED BY <5>1, <5>2
      <4>3. ReleaseOf(e, i, qty) = qty * p
        <5>1. CASE qty = left BY <3>3, <4>1, <5>1
        <5>2. CASE qty # left
          <6> HIDE DEF left, p
          <6>1. qty \in Nat BY <1>4, <1>5
          <6>2. MulDivRound(left * p, qty, left) = qty * p BY <1>4, <4>2, <6>1, RoundBlock
          <6> QED BY <3>3, <4>1, <5>2, <6>2 DEF p
        <5> QED BY <5>1, <5>2
      <4>4. qty \in Nat BY <1>4, <1>5
      <4> HIDE DEF p, price, left
      <4>5. \A a, b, c \in Nat : a <= b => c * a <= c * b OBVIOUS
      <4> QED BY <4>2, <4>3, <4>4, <4>5
    <3>5. CASE ~limit
      <4>1. qty = left /\ o.type = "MARKET" /\ price = now.ltp BY <1>4, <1>5, <3>5
      <4>2. ReleaseOf(e, i, qty) = held BY <3>3, <4>1
      <4>3. left * now.ltp <= held BY <1>3, <4>1
      <4> QED BY <4>1, <4>2, <4>3
    <3> QED BY <3>4, <3>5
  <2>3. ReleaseOf(marked, i, qty) = ReleaseOf(e, i, qty) BY <1>7 DEF ReleaseOf, Matching
  <2>4. ~o.exit => qty = left \/ Rests(o, i) BY <1>5, <1>8
  <2>5. ExecuteOk(marked, i, qty, price, FALSE)
    <3>1. i \in 1 .. Len(marked.orders) /\ marked.orders[i] = o BY <1>7 DEF Matching
    <3> HIDE DEF o, price
    <3> QED BY <1>3, <1>5, <2>1, <2>2, <2>3, <2>4, <3>1 DEF ExecuteOk
  <2>6. d = Execute(marked, i, qty, price, FALSE) BY <1>6, <1>9
  <2> HIDE DEF price
  <2>7. Executes(e, d, i) BY <1>7, <2>5, <2>6 DEF Executes
  <2> QED BY <2>7, Zenon DEF d
<1>10. CASE ~fills
  <2>1. d = e BY <1>6, <1>10
  <2> QED BY <2>1 DEF d
<1> QED BY <1>9, <1>10

\* Only orders, stops and books are tidied.
LEMMA TidySame ==
  ASSUME NEW e, NEW d, d.orders = e.orders, d.stops = e.stops, \A p : Net(d, p) = Net(e, p),
         NEW quote, NEW m, Tidy(e, quote, m)
  PROVE  Tidy(d, quote, m)
<1> DEFINE none == {}
<1>1. TiedBut(e, 0, none) /\ Quoted(e, quote) /\ Calm(e, m) BY DEF Tidy
<1> HIDE DEF none
<1>2. ASSUME NEW t \in 1 .. Len(d.stops) PROVE StopTied(d, d.stops[t], 0, t \in none)
  <2> DEFINE a == t \in none
  <2>1. StopTied(e, e.stops[t], 0, a) BY <1>1 DEF TiedBut
  <2> HIDE DEF a
  <2>2. StopTied(d, e.stops[t], 0, a) BY <2>1, TiedSame
  <2> QED BY <2>2 DEF a
<1>3. Alone(d) BY <1>1 DEF TiedBut, Alone
<1>4. TiedBut(d, 0, none) BY <1>2, <1>3 DEF TiedBut
<1>5. Quoted(d, quote) BY <1>1 DEF Quoted
<1>6. Calm(d, m) BY <1>1 DEF Calm
<1> QED BY <1>4, <1>5, <1>6 DEF Tidy, none

LEMMA MatchTidy ==
  ASSUME NEW e, NEW i \in 1 .. Len(e.orders), Sane(e, i), Running(e), Covered(e),
         NEW now, MatchOk(e, i, now), NEW onArrival \in BOOLEAN, Running(Match(e, i, now, onArrival)),
         NEW quote, NEW m \in Modes, Tidy(e, quote, m)
  PROVE  Tidy(Match(e, i, now, onArrival), quote, m)
<1> DEFINE d == Match(e, i, now, onArrival)
<1>1. d = e \/ Executes(e, d, i) BY MatchParts
<1>2. Running(d) OBVIOUS
<1> HIDE DEF d
<1>3. ASSUME NEW x, NEW n, NEW price, Matching(e, x, i), ExecuteOk(x, i, n, price, FALSE),
             d = Execute(x, i, n, price, FALSE)
      PROVE  Tidy(d, quote, m)
  <2>1. Tidy(x, quote, m) BY <1>3, TidySame DEF Matching, Net
  <2>2. Sane(x, i) /\ Running(x) /\ Covered(x) BY <1>3 DEF Matching
  <2> DEFINE sq == FALSE
  <2>3. ExecuteOk(x, i, n, price, sq) /\ d = Execute(x, i, n, price, sq) BY <1>3
  <2> HIDE DEF sq
  <2>4. Running(Execute(x, i, n, price, sq)) BY <1>2, <2>3
  <2>5. Tidy(Execute(x, i, n, price, sq), quote, m) BY <2>1, <2>2, <2>3, <2>4, ExecuteTidy
  <2> QED BY <2>3, <2>5
<1>4. Tidy(d, quote, m) BY <1>1, <1>3 DEF Executes
<1> QED BY <1>4 DEF d

LEMMA LastTidy ==
  ASSUME NEW e, NEW i, i = Len(e.orders), i \in Nat \ {0}, Sane(e, i), Running(e), Covered(e),
         NEW now, e.orders[i].status = "OPEN" => MatchOk(e, i, now), Running(MatchLast(e, now)),
         NEW quote, NEW m \in Modes, Tidy(e, quote, m)
  PROVE  Tidy(MatchLast(e, now), quote, m)
<1> DEFINE d == MatchLast(e, now)
           on == TRUE
<1>1. i \in 1 .. Len(e.orders) /\ on \in BOOLEAN OBVIOUS
<1>2. d = IF e.orders[i].status = "OPEN" THEN Match(e, i, now, on) ELSE e BY DEF MatchLast
<1>3. Running(d) OBVIOUS
<1> HIDE DEF d, on
<1>4. CASE e.orders[i].status = "OPEN"
  <2>1. MatchOk(e, i, now) /\ d = Match(e, i, now, on) BY <1>2, <1>4
  <2>2. Running(Match(e, i, now, on)) BY <1>3, <2>1
  <2>3. Tidy(Match(e, i, now, on), quote, m) BY <1>1, <2>1, <2>2, MatchTidy
  <2> QED BY <2>1, <2>3 DEF d
<1>5. CASE e.orders[i].status # "OPEN"
  <2>1. d = e BY <1>2, <1>5
  <2> QED BY <2>1 DEF d
<1> QED BY <1>4, <1>5

\* An order that may rest at that price and that time of the day.
Fine(o, k, quote, m) ==
  /\ Live(o) => o.product \notin m.still
  /\ o.status = "AMO" => k \notin m.amo /\ o.product # "INTRADAY"
  /\ o.status = "OPEN" => k \notin m.open
  /\ quote = None => ~(Live(o) /\ o.exit)

\* One order more, and no stop but the t-th changed or added.
Adds(e, d, o, t) ==
  /\ e \in Engines /\ d \in Engines /\ Len(d.orders) = Len(e.orders) + 1 /\ d.orders[Len(e.orders) + 1] = o
  /\ \A k \in 1 .. Len(e.orders) : d.orders[k] = e.orders[k]
  /\ \A p : Net(d, p) = Net(e, p)
  /\ \A u \in 1 .. Len(d.stops) : u # t => u \in 1 .. Len(e.stops) /\ d.stops[u] = e.stops[u]
AddsTied(e, d, t, still) ==
  t \in 1 .. Len(d.stops) =>
    /\ StopTied(d, d.stops[t], 0, FALSE)
    /\ Protecting(d.stops[t]) => /\ t \in 1 .. Len(e.stops) /\ Protecting(e.stops[t])
                                 /\ e.stops[t].product = d.stops[t].product
    /\ Active(d.stops[t]) => d.stops[t].product \notin still

LEMMA MoreTied ==
  ASSUME NEW e \in Engines, NEW d, Len(d.orders) = Len(e.orders) + 1,
         \A k \in 1 .. Len(e.orders) : d.orders[k] = e.orders[k], \A p : Net(d, p) = Net(e, p),
         NEW s, NEW i, NEW loose, StopTied(e, s, i, loose)
  PROVE  StopTied(d, s, i, loose)
<1>1. Len(e.orders) \in Nat BY EngineLens
<1>2. \A k \in 1 .. Len(e.orders) : k \in 1 .. Len(d.orders) /\ d.orders[k] = e.orders[k] BY <1>1
<1>3. s.exit # None => s.exit \in 1 .. Len(e.orders) BY DEF StopTied
<1>4. s.status = "PENDING_ENTRY" => s.entry \in 1 .. Len(e.orders) BY DEF StopTied
<1>5. s.exit # None => s.exit \in 1 .. Len(d.orders) /\ d.orders[s.exit] = e.orders[s.exit] BY <1>2, <1>3
<1>6. s.status = "PENDING_ENTRY" => s.entry \in 1 .. Len(d.orders) /\ d.orders[s.entry] = e.orders[s.entry]
  BY <1>2, <1>4
<1>7. Net(d, s.product) = Net(e, s.product) OBVIOUS
<1>8. s.exit # None => /\ s.exit \in 1 .. Len(d.orders)
                       /\ d.orders[s.exit].exit /\ d.orders[s.exit].product = s.product
                       /\ Live(d.orders[s.exit]) => s.status = "TRIGGERED"
  BY <1>5 DEF StopTied
<1>9. s.status = "TRIGGERED" =>
        s.exit # None /\ (Live(d.orders[s.exit]) \/ (loose /\ d.orders[s.exit].status = "EXECUTED"))
  BY <1>5 DEF StopTied
<1>10. s.status = "PENDING_ENTRY" =>
         /\ s.exit = None /\ s.entry \in 1 .. Len(d.orders) /\ d.orders[s.entry].product = s.product
         /\ Live(d.orders[s.entry]) \/ (s.entry = i /\ d.orders[s.entry].status = "EXECUTED")
  BY <1>6 DEF StopTied
<1>11. /\ s.status \in {"ARMED", "TRAILING"} => s.exit = None
       /\ Protecting(s) =>
            loose \/ (Opens(Net(d, s.product), s.direction) /\ s.qty = Abs(Net(d, s.product)))
  BY <1>7 DEF StopTied
<1> QED BY <1>8, <1>9, <1>10, <1>11 DEF StopTied

LEMMA AddTidy ==
  ASSUME NEW e, NEW d, NEW o, NEW t, Adds(e, d, o, t), NEW quote, NEW m, Tidy(e, quote, m),
         AddsTied(e, d, t, m.still), Fine(o, Len(e.orders) + 1, quote, m)
  PROVE  Tidy(d, quote, m)
<1> DEFINE none == {}
<1>1. TiedBut(e, 0, none) /\ Quoted(e, quote) /\ Calm(e, m) BY DEF Tidy
<1>2. /\ e \in Engines /\ d \in Engines /\ Len(d.orders) = Len(e.orders) + 1 /\ d.orders[Len(e.orders) + 1] = o
      /\ \A k \in 1 .. Len(e.orders) : d.orders[k] = e.orders[k]
      /\ \A p : Net(d, p) = Net(e, p)
      /\ \A u \in 1 .. Len(d.stops) : u # t => u \in 1 .. Len(e.stops) /\ d.stops[u] = e.stops[u]
  BY DEF Adds
<1>3. Len(e.orders) \in Nat BY <1>2, EngineLens
<1>4. \A u : (u \in none) = FALSE OBVIOUS
<1> HIDE DEF none
<1>5. ASSUME NEW u \in 1 .. Len(d.stops) PROVE StopTied(d, d.stops[u], 0, u \in none)
  <2> DEFINE a == u \in none
  <2>1. CASE u = t
    <3> DEFINE b == FALSE
    <3>1. StopTied(d, d.stops[u], 0, b) BY <2>1 DEF AddsTied
    <3>2. a = b BY <1>4
    <3> HIDE DEF a, b
    <3>3. StopTied(d, d.stops[u], 0, a) BY <3>1, <3>2
    <3> QED BY <3>3 DEF a
  <2>2. CASE u # t
    <3>1. u \in 1 .. Len(e.stops) /\ d.stops[u] = e.stops[u] BY <1>2, <2>2
    <3>2. StopTied(e, e.stops[u], 0, a) BY <1>1, <3>1 DEF TiedBut
    <3> HIDE DEF a
    <3>3. StopTied(d, e.stops[u], 0, a) BY <1>2, <3>2, MoreTied
    <3> QED BY <3>1, <3>3 DEF a
  <2> QED BY <2>1, <2>2
<1>6. Alone(d)
  <2> SUFFICES ASSUME NEW u \in 1 .. Len(d.stops), NEW v \in 1 .. Len(d.stops),
                      Protecting(d.stops[u]), Protecting(d.stops[v]), d.stops[u].product = d.stops[v].product
               PROVE  u = v
    BY DEF Alone
  <2>1. \A w \in 1 .. Len(d.stops) : Protecting(d.stops[w]) =>
          /\ w \in 1 .. Len(e.stops) /\ Protecting(e.stops[w]) /\ e.stops[w].product = d.stops[w].product
    BY <1>2 DEF AddsTied
  <2> QED BY <1>1, <2>1 DEF TiedBut, Alone
<1>7. TiedBut(d, 0, none) BY <1>5, <1>6 DEF TiedBut
<1>8. ASSUME NEW k \in 1 .. Len(d.orders)
      PROVE  \/ k \in 1 .. Len(e.orders) /\ d.orders[k] = e.orders[k]
             \/ k = Len(e.orders) + 1 /\ d.orders[k] = o
  BY <1>2, <1>3
<1>9. Quoted(d, quote)
  <2> SUFFICES ASSUME quote = None, NEW k \in 1 .. Len(d.orders), Live(d.orders[k]) PROVE ~d.orders[k].exit
    BY DEF Quoted
  <2> QED BY <1>1, <1>8 DEF Quoted, Fine
<1>10. Calm(d, m)
  <2>1. \A p \in m.still : Net(d, p) = 0 BY <1>1, <1>2 DEF Calm
  <2>2. ASSUME NEW k \in 1 .. Len(d.orders)
        PROVE  /\ Live(d.orders[k]) => d.orders[k].product \notin m.still
               /\ d.orders[k].status = "AMO" => k \notin m.amo /\ d.orders[k].product # "INTRADAY"
               /\ d.orders[k].status = "OPEN" => k \notin m.open
    <3>1. CASE k \in 1 .. Len(e.orders) /\ d.orders[k] = e.orders[k] BY <1>1, <3>1 DEF Calm
    <3>2. CASE k = Len(e.orders) + 1 /\ d.orders[k] = o BY <3>2 DEF Fine
    <3> QED BY <1>8, <3>1, <3>2
  <2>3. ASSUME NEW u \in 1 .. Len(d.stops), Active(d.stops[u]) PROVE d.stops[u].product \notin m.still
    <3>1. CASE u = t BY <2>3, <3>1 DEF AddsTied
    <3>2. CASE u # t BY <1>1, <1>2, <2>3, <3>2 DEF Calm
    <3> QED BY <3>1, <3>2
  <2> QED BY <2>1, <2>2, <2>3 DEF Calm
<1> QED BY <1>7, <1>9, <1>10 DEF Tidy, none

\* What may be placed at a time of the day where that rests.
Permits(m, at) ==
  /\ m.still # {} => ~IntradayAt(at)
  /\ m.amo # {} => OpenAt(at)
  /\ m.open # {} => ~OpenAt(at)

LEMMA Permitted ==
  ASSUME NEW d, d.product \in Products, NEW now, now.at \in Nat, NEW cash, NEW sellable,
         ValidateOrder(d, now, cash, sellable),
         NEW m \in Modes, Permits(m, now.at), NEW o, o.product = d.product, NEW k,
         o.status = IF OpenAt(now.at) THEN "OPEN" ELSE "AMO", now.ltp = None => ~o.exit
  PROVE  Fine(o, k, now.ltp, m)
<1>1. m.still \subseteq {"INTRADAY"} BY DEF Modes
<1>2. d.product = "INTRADAY" => IntradayAt(now.at) BY DEF ValidateOrder
<1>3. IntradayAt(now.at) => OpenAt(now.at) BY DEF IntradayAt, OpenAt
<1>4. o.product = "INTRADAY" => m.still = {} /\ o.status = "OPEN" BY <1>2, <1>3 DEF Permits
<1>5. o.product \notin m.still BY <1>1, <1>4
<1>6. o.status = "AMO" => m.amo = {} /\ o.product # "INTRADAY" BY <1>4 DEF Permits
<1>7. o.status = "OPEN" => m.open = {} BY DEF Permits
<1> QED BY <1>5, <1>6, <1>7 DEF Fine

LEMMA ProtectingSteps ==
  ASSUME NEW s \in StopRecords, NEW price
  PROVE  LET r == StepTrailingStop(s, price) IN
         s.status \in {"ARMED", "TRAILING"} => r.status \in {"ARMED", "TRAILING", "TRIGGERED"}
<1> DEFINE r == StepTrailingStop(s, price)
<1>1. CASE s.status = "ARMED"
  <2>1. r = Activated(s, price) \/ r = s BY <1>1 DEF StepTrailingStop
  <2>2. Activated(s, price).status = "TRAILING" BY DEF Activated, StopRecords
  <2> HIDE DEF r
  <2>3. r.status \in {"ARMED", "TRAILING", "TRIGGERED"} BY <1>1, <2>1, <2>2
  <2> QED BY <2>3 DEF r
<1>2. CASE s.status = "TRAILING"
  <2> DEFINE moved == Ratcheted(s, price)
  <2>1. r = moved \/ r = [moved EXCEPT !.status = "TRIGGERED"] BY <1>2 DEF StepTrailingStop
  <2>2. moved.status = "TRAILING" /\ [moved EXCEPT !.status = "TRIGGERED"].status = "TRIGGERED"
    BY <1>2 DEF Ratcheted, StopRecords
  <2> HIDE DEF r, moved
  <2>3. r.status \in {"ARMED", "TRAILING", "TRIGGERED"} BY <2>1, <2>2
  <2> QED BY <2>3 DEF r
<1> QED BY <1>1, <1>2

\* An exit of the engine's, as it is stored.
ExitOf(e, x, d, o, now, m) ==
  /\ o \in OrderRecords /\ x = Stored(e, o, e.funds, e.stops)
  /\ o.exit /\ o.product = d.product /\ o.status \in {"AMO", "OPEN", "REJECTED"}
  /\ Fine(o, Len(e.orders) + 1, now.ltp, m)

LEMMA ExitFine ==
  ASSUME NEW e \in Engines, NEW d, ExitDraft(d), NEW now \in Nows, now.ltp = None => d.price = None,
         NEW m \in Modes, Permits(m, now.at)
  PROVE  \E o : ExitOf(e, PlaceExit(e, d, now), d, o, now, m)
<1> DEFINE ok == /\ d.price # None => d.price >= TickSize
                 /\ ValidateOrder(d, now, d.qty * ValueAt(d, now), d.qty)
           status == IF ~ok THEN "REJECTED" ELSE IF OpenAt(now.at) THEN "OPEN" ELSE "AMO"
           yes == TRUE
           o == NewOrder(d, status, yes)
           x == Stored(e, o, e.funds, e.stops)
           k == Len(e.orders) + 1
<1>1. /\ d.side \in Sides /\ d.type \in {"MARKET", "LIMIT"} /\ d.product \in Products
      /\ d.qty \in Nat \ {0} /\ d.price \in Int \cup {None} /\ (d.type = "MARKET") = (d.price = None)
  BY DEF ExitDraft
<1>2. status \in {"AMO", "OPEN", "REJECTED"} /\ (status # "REJECTED" => d.price \in Circuit \cup {None})
  <2>1. ok => d.price \in Circuit \cup {None} BY <1>1 DEF ValidateOrder
  <2> HIDE DEF ok
  <2> QED BY <2>1
<1>3. now.at \in Nat BY DEF Nows
<1>4. ok => ValueAt(d, now) # None /\ ValidateOrder(d, now, d.qty * ValueAt(d, now), d.qty)
  BY DEF ValidateOrder
<1>5. ok => now.ltp # None BY <1>4 DEF ValueAt
<1>6. PlaceExit(e, d, now) = x
  <2>1. PlaceExit(e, d, now) = [e EXCEPT !.orders = Append(e.orders, o)] BY DEF PlaceExit
  <2>2. [e EXCEPT !.orders = Append(e.orders, o)] = x BY DEF Stored, Engines
  <2> QED BY <2>1, <2>2, Zenon
<1>7. o \in OrderRecords /\ o.exit = yes /\ o.status = status /\ o.product = d.product
  <2>1. yes \in BOOLEAN OBVIOUS
  <2> HIDE DEF status, yes
  <2> QED BY <1>1, <1>2, <2>1, NewOrderIs
<1>8. o.exit BY <1>7
<1> HIDE DEF ok, x, k
<1>9. status # "REJECTED" => ok /\ status = IF OpenAt(now.at) THEN "OPEN" ELSE "AMO" OBVIOUS
<1> HIDE DEF o, status
<1>10. Fine(o, k, now.ltp, m)
  <2>1. CASE o.status = "REJECTED" BY <2>1 DEF Fine, Live
  <2>2. CASE o.status # "REJECTED"
    <3>1. /\ ok /\ o.status = IF OpenAt(now.at) THEN "OPEN" ELSE "AMO" BY <1>7, <1>9, <2>2
    <3>2. now.ltp = None => ~o.exit BY <1>5, <3>1
    <3> DEFINE cash == d.qty * ValueAt(d, now)
               sellable == d.qty
    <3>3. ValidateOrder(d, now, cash, sellable) BY <1>4, <3>1
    <3> HIDE DEF cash, sellable
    <3> QED BY <1>1, <1>3, <1>7, <3>1, <3>2, <3>3, Permitted
  <2> QED BY <2>1, <2>2
<1>11. ExitOf(e, x, d, o, now, m) BY <1>2, <1>7, <1>8, <1>10 DEF ExitOf, x, k
<1> QED BY <1>6, <1>11

\* What it adds.
LEMMA ExitAdds ==
  ASSUME NEW e \in Engines, NEW x, NEW d, NEW o, NEW now, NEW m, ExitOf(e, x, d, o, now, m)
  PROVE  Adds(e, x, o, 0) /\ x.stops = e.stops
<1>1. e.funds \in Ledgers /\ e.stops \in Seq(StopRecords) BY EngineFields
<1>2. o \in OrderRecords /\ x = Stored(e, o, e.funds, e.stops) BY DEF ExitOf
<1>3. /\ x \in Engines /\ Len(x.orders) = Len(e.orders) + 1 /\ x.orders[Len(e.orders) + 1] = o
      /\ \A k \in 1 .. Len(e.orders) : x.orders[k] = e.orders[k]
      /\ x.stops = e.stops /\ x.books = e.books
  BY <1>1, <1>2, StoredIs
<1> QED BY <1>3 DEF Adds, Net

TriggerDraft(s) ==
  [side |-> IF s.direction = "LONG" THEN "SELL" ELSE "BUY", type |-> s.exitType,
   product |-> s.product, qty |-> s.qty,
   price |-> IF s.exitType = "MARKET" THEN None
             ELSE IF s.direction = "LONG" THEN s.stop - s.offset ELSE s.stop + s.offset]

LEMMA TriggerDrafts ==
  ASSUME NEW s \in StopRecords, StopOk(s), s.status = "TRIGGERED"
  PROVE  ExitDraft(TriggerDraft(s))
<1> DEFINE d == TriggerDraft(s)
           long == s.direction = "LONG"
<1>1. /\ s.exitType \in {"MARKET", "LIMIT"} /\ s.product \in Products /\ s.qty \in Nat \ {0}
      /\ s.stop \in Int /\ s.offset \in Nat \cup {None} /\ (s.exitType = "MARKET") = (s.offset = None)
  <2>1. s.qty > 0 /\ s.stop \in Int /\ (s.exitType = "MARKET") = (s.offset = None) BY DEF StopOk, Protecting
  <2>2. s.exitType \in {"MARKET", "LIMIT"} /\ s.product \in Products /\ s.qty \in Nat /\ s.offset \in Nat \cup {None}
    BY DEF StopRecords
  <2> QED BY <2>1, <2>2
<1>2. d.price \in Int \cup {None} /\ (d.type = "MARKET") = (d.price = None)
  <2>1. CASE s.exitType = "MARKET" BY <2>1 DEF TriggerDraft
  <2>2. CASE s.exitType = "LIMIT"
    <3> DEFINE a == s.stop
               b == s.offset
    <3>1. a \in Int /\ b \in Int BY <1>1, <2>2
    <3>2. d.price = (IF long THEN a - b ELSE a + b) /\ d.type = "LIMIT" BY <2>2 DEF TriggerDraft
    <3> HIDE DEF a, b, d
    <3>3. d.price \in Int BY <3>1, <3>2
    <3>4. d.price # None BY <3>3, TrailAssumption
    <3> QED BY <3>2, <3>3, <3>4
  <2> QED BY <1>1, <2>1, <2>2
<1>3. d.side \in Sides /\ d.type \in {"MARKET", "LIMIT"} /\ d.product \in Products /\ d.qty \in Nat \ {0}
  BY <1>1 DEF Sides, TriggerDraft
<1> HIDE DEF d
<1>4. ExitDraft(d) BY <1>2, <1>3 DEF ExitDraft
<1> QED BY <1>4 DEF d

\* One stop changed.
LEMMA SetTidy ==
  ASSUME NEW e \in Engines, NEW t \in 1 .. Len(e.stops), NEW r \in StopRecords,
         NEW quote, NEW m, Tidy(e, quote, m), StopTied(e, r, 0, FALSE),
         Protecting(r) => Protecting(e.stops[t]) /\ e.stops[t].product = r.product,
         Active(r) => r.product \notin m.still
  PROVE  Tidy(StopSet(e, t, r), quote, m)
<1> DEFINE none == {}
           zero == 0
           d == StopSet(e, t, r)
<1>1. TiedBut(e, zero, none) /\ Quoted(e, quote) /\ Calm(e, m) BY DEF Tidy
<1>2. \A u : (u \in none) = FALSE OBVIOUS
<1>3. StopTied(e, r, zero, t \in none)
  <2> DEFINE a == t \in none
             b == FALSE
  <2>1. StopTied(e, r, zero, b) /\ a = b BY <1>2
  <2> HIDE DEF a, b
  <2>2. StopTied(e, r, zero, a) BY <2>1
  <2> QED BY <2>2 DEF a
<1> HIDE DEF none, zero
<1>4. \A u \in 1 .. Len(e.stops) :
        Protecting(r) /\ Protecting(e.stops[u]) /\ e.stops[u].product = r.product => u = t
  BY <1>1 DEF TiedBut, Alone
<1>5. \A u \in 1 .. Len(e.stops) : u \in none /\ u # t => u \in none OBVIOUS
<1>6. TiedBut(d, zero, none) BY <1>1, <1>3, <1>4, <1>5, SetTied
<1>7. /\ d \in After(e) /\ d.orders = e.orders /\ Len(d.stops) = Len(e.stops)
      /\ \A u \in 1 .. Len(e.stops) : d.stops[u] = IF u = t THEN r ELSE e.stops[u]
  BY StopChanged
<1> HIDE DEF d
<1>8. \A p : Net(d, p) = Net(e, p) BY <1>7, NetAfter
<1>9. Quoted(d, quote) BY <1>1, <1>7 DEF Quoted
<1>10. Calm(d, m)
  <2>1. \A u \in 1 .. Len(d.stops) : Active(d.stops[u]) => d.stops[u].product \notin m.still
    BY <1>1, <1>7 DEF Calm
  <2> QED BY <1>1, <1>7, <1>8, <2>1 DEF Calm
<1> QED BY <1>6, <1>9, <1>10 DEF Tidy, none, zero, d

\* A tied stop of a tidy engine.
LEMMA StopOfTidy ==
  ASSUME NEW e, NEW quote, NEW m, Tidy(e, quote, m), NEW t \in 1 .. Len(e.stops)
  PROVE  StopTied(e, e.stops[t], 0, FALSE) /\ (Active(e.stops[t]) => e.stops[t].product \notin m.still)
<1> DEFINE none == {}
           s == e.stops[t]
           a == t \in none
           b == FALSE
<1>1. TiedBut(e, 0, none) /\ Calm(e, m) BY DEF Tidy
<1>2. a = b OBVIOUS
<1>3. StopTied(e, s, 0, a) BY <1>1 DEF TiedBut
<1>4. Active(s) => s.product \notin m.still BY <1>1 DEF Calm
<1> HIDE DEF a, b, s
<1>5. StopTied(e, s, 0, b) BY <1>2, <1>3
<1> QED BY <1>4, <1>5 DEF b, s

\* A stop that triggers is left with its exit, which is then matched.
LEMMA TriggerTidy ==
  ASSUME NEW e, Whole(e, 0), Running(e), NEW t \in 1 .. Len(e.stops),
         Protecting(e.stops[t]), NEW r \in StopRecords, StopOk(r), r.status = "TRIGGERED",
         r.product = e.stops[t].product, r.direction = e.stops[t].direction, r.qty = e.stops[t].qty,
         NEW now \in Nows, now.ltp \in Prices, NEW m \in Modes, Permits(m, now.at), Tidy(e, now.ltp, m)
  PROVE  Tidy(TriggerStop(StopSet(e, t, r), t, now), now.ltp, m)
<1> DEFINE s == e.stops[t]
           y == StopSet(e, t, r)
           d == TriggerDraft(r)
           x == PlaceExit(y, d, now)
           i == Len(e.orders) + 1
           quote == now.ltp
<1>1. e \in Engines /\ StopsOk(e) /\ Len(e.orders) \in Nat
  <2>1. e \in Engines /\ StopsOk(e) BY DEF Whole, Sane
  <2> QED BY <2>1, EngineLens
<1>2. s \in StopRecords /\ t \in Nat /\ t # 0 BY <1>1, EngineLens
<1>3. /\ y \in After(e) /\ y.orders = e.orders /\ Len(y.stops) = Len(e.stops) /\ StopsOk(y)
      /\ \A u \in 1 .. Len(e.stops) : y.stops[u] = IF u = t THEN r ELSE e.stops[u]
  BY <1>1, StopChanged
<1> HIDE DEF y
<1>4. y \in Engines /\ (\A p : Net(y, p) = Net(e, p)) /\ y.stops[t] = r /\ t \in 1 .. Len(y.stops)
  BY <1>1, <1>3, AfterIs, NetAfter
<1>5. Whole(y, 0) /\ Running(y) BY <1>3, WholeAfter
<1>6. ExitDraft(d) BY TriggerDrafts
<1>7. quote # None /\ (quote = None => d.price = None)
  BY TrailAssumption DEF Prices
<1>8. Whole(x, 0) /\ Running(x)
  <2> HIDE DEF d
  <2> QED BY <1>5, <1>6, ExitPlaced
<1>9. \E o : ExitOf(y, x, d, o, now, m)
  <2> HIDE DEF d
  <2> QED BY <1>4, <1>6, <1>7, ExitFine
<1>10. PICK o : ExitOf(y, x, d, o, now, m) BY <1>9
<1>11. /\ o \in OrderRecords /\ o.exit /\ o.product = r.product /\ o.status \in {"AMO", "OPEN", "REJECTED"}
       /\ Fine(o, i, quote, m)
  <2>1. d.product = r.product BY DEF TriggerDraft
  <2> HIDE DEF d
  <2> QED BY <1>3, <1>10, <2>1 DEF ExitOf
<1> HIDE DEF d
<1>12. Adds(y, x, o, 0) /\ x.stops = y.stops BY <1>4, <1>10, ExitAdds
<1> HIDE DEF x
<1>13. /\ x \in Engines /\ Len(x.orders) = i /\ x.orders[i] = o
       /\ \A k \in 1 .. Len(e.orders) : x.orders[k] = e.orders[k]
       /\ \A p : Net(x, p) = Net(e, p)
       /\ Len(x.stops) = Len(e.stops) /\ StopsOk(x)
       /\ \A u \in 1 .. Len(e.stops) : x.stops[u] = IF u = t THEN r ELSE e.stops[u]
  BY <1>3, <1>4, <1>8, <1>12 DEF Adds, Whole, Sane
<1> DEFINE gone == [r EXCEPT !.exit = i, !.status = "REJECTED"]
           kept == [r EXCEPT !.exit = i]
<1>14. /\ gone \in StopRecords /\ gone.status = "REJECTED" /\ gone.exit = i
       /\ gone.product = r.product /\ gone.direction = r.direction /\ gone.qty = r.qty
       /\ gone.exitType = r.exitType /\ gone.offset = r.offset
  <2>1. i \in Nat BY <1>1
  <2> HIDE DEF i
  <2>2. gone \in StopRecords BY <2>1 DEF StopRecords
  <2> QED BY <2>2 DEF StopRecords
<1>15. /\ kept \in StopRecords /\ kept.status = "TRIGGERED" /\ kept.exit = i
       /\ kept.product = r.product /\ kept.direction = r.direction /\ kept.qty = r.qty
       /\ kept.exitType = r.exitType /\ kept.offset = r.offset
       /\ kept.stop = r.stop /\ kept.watermark = r.watermark
  <2>1. i \in Nat BY <1>1
  <2> HIDE DEF i
  <2>2. kept \in StopRecords BY <2>1 DEF StopRecords
  <2> QED BY <2>2 DEF StopRecords
<1>16. [x EXCEPT !.stops[t].exit = i, !.stops[t].status = "REJECTED"] = StopSet(x, t, gone)
  <2>1. x.stops[t] = r BY <1>13
  <2> QED BY <1>13, <2>1 DEF StopSet, Engines
<1>17. [x EXCEPT !.stops[t].exit = i] = StopSet(x, t, kept)
  <2>1. x.stops[t] = r BY <1>13
  <2> QED BY <1>13, <2>1 DEF StopSet, Engines
<1>18. TriggerStop(y, t, now) =
         IF o.status = "REJECTED" THEN StopSet(x, t, gone) ELSE MatchLast(StopSet(x, t, kept), now)
  <2>1. TriggerStop(y, t, now) =
          IF x.orders[Len(x.orders)].status = "REJECTED"
            THEN [x EXCEPT !.stops[t].exit = Len(x.orders), !.stops[t].status = "REJECTED"]
            ELSE MatchLast([x EXCEPT !.stops[t].exit = Len(x.orders)], now)
    <3> DEFINE u == PlaceExit(y, TriggerDraft(y.stops[t]), now)
    <3>1. TriggerStop(y, t, now) =
            IF u.orders[Len(u.orders)].status = "REJECTED"
              THEN [u EXCEPT !.stops[t].exit = Len(u.orders), !.stops[t].status = "REJECTED"]
              ELSE MatchLast([u EXCEPT !.stops[t].exit = Len(u.orders)], now)
      BY DEF TriggerStop, TriggerDraft
    <3>2. u = x BY <1>4, Zenon DEF x, d
    <3> HIDE DEF u
    <3> QED BY <3>1, <3>2, Zenon
  <2>2. Len(x.orders) = i /\ x.orders[i] = o BY <1>13
  <2>3. TriggerStop(y, t, now) =
          IF o.status = "REJECTED"
            THEN [x EXCEPT !.stops[t].exit = i, !.stops[t].status = "REJECTED"]
            ELSE MatchLast([x EXCEPT !.stops[t].exit = i], now)
    BY <2>1, <2>2, Zenon
  <2> QED BY <1>16, <1>17, <2>3, Zenon
<1> HIDE DEF gone, kept
<1>19. StopOk(r) /\ StopOk(gone) /\ StopOk(kept)
  BY <1>14, <1>15 DEF StopOk, Protecting
<1>20. StopTied(e, s, 0, FALSE) /\ (Active(s) => s.product \notin m.still) BY StopOfTidy
<1>21. ASSUME NEW q \in {gone, kept}, q.status = "TRIGGERED" <=> Live(o)
       PROVE  /\ Tidy(StopSet(x, t, q), quote, m) /\ Whole(StopSet(x, t, q), 0) /\ Running(StopSet(x, t, q))
              /\ StopSet(x, t, q).orders = x.orders
  <2> DEFINE z == StopSet(x, t, q)
  <2>1. /\ q \in StopRecords /\ StopOk(q) /\ q.exit = i /\ q.product = s.product /\ q.direction = s.direction
        /\ q.qty = s.qty /\ q.status \in {"REJECTED", "TRIGGERED"}
    BY <1>14, <1>15, <1>19
  <2>2. t \in 1 .. Len(x.stops) BY <1>13
  <2>3. /\ z \in After(x) /\ z.orders = x.orders /\ Len(z.stops) = Len(x.stops) /\ StopsOk(z)
        /\ \A u \in 1 .. Len(x.stops) : z.stops[u] = IF u = t THEN q ELSE x.stops[u]
    BY <1>13, <2>1, <2>2, StopChanged
  <2> HIDE DEF z
  <2>4. Whole(z, 0) /\ Running(z) BY <1>8, <2>3, WholeAfter
  <2>5. z \in Engines /\ \A p : Net(z, p) = Net(x, p) BY <1>13, <2>3, AfterIs, NetAfter
  <2>6. \A p : Net(z, p) = Net(e, p) BY <1>13, <2>5
  <2>7. Adds(e, z, o, t) BY <1>1, <1>13, <2>3, <2>5, <2>6 DEF Adds
  <2>8. StopTied(z, q, 0, FALSE)
    <3>1. i \in 1 .. Len(z.orders) /\ z.orders[i] = o /\ i \in Nat BY <1>1, <1>13, <2>3
    <3>2. i # None BY <3>1, TrailAssumption
    <3>3. q.exit # None => /\ q.exit \in 1 .. Len(z.orders)
                           /\ z.orders[q.exit].exit /\ z.orders[q.exit].product = q.product
                           /\ Live(z.orders[q.exit]) => q.status = "TRIGGERED"
      BY <1>11, <1>21, <2>1, <3>1
    <3>4. q.status = "TRIGGERED" => q.exit # None /\ Live(z.orders[q.exit]) BY <1>21, <2>1, <3>1, <3>2
    <3>5. Opens(Net(e, s.product), s.direction) /\ s.qty = Abs(Net(e, s.product)) BY <1>20 DEF StopTied
    <3>6. Opens(Net(z, q.product), q.direction) /\ q.qty = Abs(Net(z, q.product)) BY <2>1, <2>6, <3>5
    <3> QED BY <2>1, <3>3, <3>4, <3>6 DEF StopTied
  <2>9. Active(s) BY DEF Active, Protecting
  <2>10. AddsTied(e, z, t, m.still)
    <3>1. z.stops[t] = q BY <2>2, <2>3
    <3>2. Protecting(s) /\ e.stops[t].product = q.product BY <2>1
    <3> QED BY <1>20, <2>1, <2>8, <2>9, <3>1, <3>2 DEF AddsTied
  <2>11. Tidy(z, quote, m)
    <3> HIDE DEF quote
    <3>1. Tidy(e, quote, m) BY DEF quote
    <3>2. Fine(o, Len(e.orders) + 1, quote, m) BY <1>11
    <3> QED BY <2>7, <2>10, <3>1, <3>2, AddTidy
  <2> QED BY <2>3, <2>4, <2>11 DEF z
<1>22. CASE o.status = "REJECTED"
  <2>1. ~Live(o) BY <1>22 DEF Live
  <2>2. gone.status # "TRIGGERED" BY <1>14
  <2>3. Tidy(StopSet(x, t, gone), quote, m) BY <1>21, <2>1, <2>2
  <2>4. TriggerStop(y, t, now) = StopSet(x, t, gone) BY <1>18, <1>22
  <2>5. Tidy(TriggerStop(y, t, now), quote, m) BY <2>3, <2>4
  <2> QED BY <2>5 DEF y
<1>23. CASE o.status # "REJECTED"
  <2> DEFINE z == StopSet(x, t, kept)
             c == MatchLast(z, now)
  <2>1. Live(o) BY <1>11, <1>23 DEF Live
  <2>2. Tidy(z, quote, m) /\ Whole(z, 0) /\ Running(z) /\ z.orders = x.orders BY <1>15, <1>21, <2>1
  <2>3. TriggerStop(y, t, now) = c BY <1>18, <1>23
  <2> HIDE DEF z
  <2>4. i = Len(z.orders) /\ i \in Nat \ {0} /\ z.orders[i] = o BY <1>1, <1>13, <2>2
  <2>5. Len(z.orders) > 0 /\ z.orders[Len(z.orders)].exit BY <1>11, <2>4
  <2>6. now.ltp \in Prices \cup {None} OBVIOUS
  <2>7. Running(c) BY <2>2, <2>5, <2>6, ExitMatched
  <2>8. z.orders[i].status = "OPEN" => MatchOk(z, i, now) BY <1>11, <2>4, <2>6 DEF MatchOk
  <2>9. Covered(z) /\ Sane(z, i) BY <2>2, <2>4, SaneRests DEF Whole
  <2> HIDE DEF i
  <2>10. Tidy(c, quote, m)
    <3> HIDE DEF quote
    <3> QED BY <2>2, <2>4, <2>7, <2>8, <2>9, LastTidy
  <2>11. Tidy(TriggerStop(y, t, now), quote, m) BY <2>3, <2>10
  <2> QED BY <2>11 DEF y
<1> QED BY <1>22, <1>23

LEMMA StepTidy ==
  ASSUME NEW e, Whole(e, 0), Running(e), NEW t \in 1 .. Len(e.stops),
         e.stops[t].status \in {"ARMED", "TRAILING"},
         NEW now \in Nows, now.ltp \in Prices, NEW m \in Modes, Permits(m, now.at), Tidy(e, now.ltp, m)
  PROVE  Tidy(StepStop(e, t, now), now.ltp, m)
<1> DEFINE s == e.stops[t]
           r == StepTrailingStop(s, now.ltp)
           y == StopSet(e, t, r)
           quote == now.ltp
<1>1. e \in Engines /\ StopsOk(e) BY DEF Whole, Sane
<1>2. s \in StopRecords /\ StopOk(s) BY <1>1, EngineLens DEF StopsOk
<1>3. /\ r \in StopRecords /\ StopOk(r) /\ r.product = s.product /\ r.direction = s.direction /\ r.qty = s.qty
      /\ r.exit = s.exit
  BY <1>2, StopSteps
<1>4. r.status \in {"ARMED", "TRAILING", "TRIGGERED"} BY <1>2, ProtectingSteps
<1>5. [e EXCEPT !.stops[t] = r] = y BY <1>1 DEF StopSet, Engines
<1>6. StepStop(e, t, now) = IF r.status = "TRIGGERED" THEN TriggerStop(y, t, now) ELSE y
  BY <1>5 DEF StepStop
<1> HIDE DEF r
<1>7. Protecting(s) /\ Active(s) BY DEF Protecting, Active
<1>8. CASE r.status = "TRIGGERED"
  <2>1. StepStop(e, t, now) = TriggerStop(y, t, now) BY <1>6, <1>8
  <2>2. Tidy(TriggerStop(y, t, now), now.ltp, m) BY <1>3, <1>7, <1>8, TriggerTidy
  <2> QED BY <2>1, <2>2
<1>9. CASE r.status # "TRIGGERED"
  <2>1. StepStop(e, t, now) = y BY <1>6, <1>9
  <2>2. r.status \in {"ARMED", "TRAILING"} BY <1>4, <1>9
  <2>3. StopTied(e, s, 0, FALSE) /\ (Active(s) => s.product \notin m.still) BY StopOfTidy
  <2>4. StopTied(e, r, 0, FALSE)
    <3>1. s.exit = None /\ Opens(Net(e, s.product), s.direction) /\ s.qty = Abs(Net(e, s.product))
      BY <1>7, <2>3 DEF StopTied
    <3> QED BY <1>3, <2>2, <3>1 DEF StopTied
  <2>5. Tidy(y, quote, m)
    <3>1. Tidy(e, quote, m) OBVIOUS
    <3>2. Active(r) => r.product \notin m.still BY <1>3, <1>7, <2>3
    <3>3. Protecting(r) => Protecting(s) /\ s.product = r.product BY <1>3, <1>7
    <3> HIDE DEF quote
    <3> QED BY <1>1, <1>3, <2>4, <3>1, <3>2, <3>3, SetTidy
  <2> QED BY <2>1, <2>5
<1> QED BY <1>8, <1>9

-----------------------------------------------------------------------------
(* Tidy through a sync.                                                    *)

Well(e, quote, m) == Whole(e, 0) /\ (Running(e) => Tidy(e, quote, m))

LEMMA MatchAtWell ==
  ASSUME NEW e, NEW now, now.ltp \in Prices \cup {None}, NEW quote, NEW m \in Modes, Well(e, quote, m),
         NEW k \in 1 .. Len(e.orders)
  PROVE  LET d == MatchAt(e, k, now) IN Well(d, quote, m) /\ Same(e, d)
<1> DEFINE arrival == FALSE
           d == MatchAt(e, k, now)
           c == Match(e, k, now, arrival)
<1>1. e \in Engines /\ Whole(e, 0) BY DEF Well, Whole, Sane
<1>2. CASE d = e
  <2> HIDE DEF d
  <2>1. Well(d, quote, m) /\ Same(e, d) BY <1>2 DEF Same
  <2> QED BY <2>1 DEF d
<1>3. CASE d # e
  <2>1. Running(e) /\ e.orders[k].status = "OPEN" /\ d = c
    BY <1>3, Zenon DEF MatchAt, Running
  <2>2. k \in Nat \ {0} BY <1>1, EngineLens
  <2>3. Sane(e, 0) /\ Covered(e) /\ Tidy(e, quote, m) BY <1>1, <2>1 DEF Whole, Well
  <2>4. Sane(e, k) BY <2>2, <2>3, SaneRests
  <2>5. MatchOk(e, k, now)
    <3>1. Rests(e.orders[k], k)
      <4>1. RestsOk(e, 0) BY <2>1, <2>3, NotDebit DEF Sane
      <4> QED BY <2>2, <4>1 DEF RestsOk
    <3>2. ~e.orders[k].exit => e.orders[k].type = "LIMIT" /\ k \in OrderId BY <2>1, <3>1 DEF Rests, Live
    <3> QED BY <2>1, <3>2 DEF MatchOk
  <2>6. arrival \in BOOLEAN OBVIOUS
  <2> HIDE DEF arrival
  <2>7. Whole(c, 0) /\ Same(e, c) BY <2>1, <2>3, <2>4, <2>5, <2>6, MatchSane
  <2>8. Running(c) => Tidy(c, quote, m) BY <2>1, <2>3, <2>4, <2>5, <2>6, MatchTidy
  <2> HIDE DEF c, d
  <2>9. Well(d, quote, m) /\ Same(e, d) BY <2>1, <2>7, <2>8 DEF Well
  <2> QED BY <2>9 DEF d
<1> QED BY <1>2, <1>3

LEMMA MatchOpenWell ==
  ASSUME NEW e, NEW now, now.ltp \in Prices \cup {None}, NEW quote, NEW m \in Modes, Well(e, quote, m)
  PROVE  LET d == MatchOpen(e, now) IN Well(d, quote, m) /\ Same(e, d)
<1> DEFINE V == {d \in Engines : Well(d, quote, m) /\ Same(e, d)}
           n == Len(e.orders)
           turn == [p \in (1 .. n) \X V |-> MatchAt(p[2], p[1], now)]
           loop == CHOOSE g : g = [k \in 0 .. n |-> IF k = 0 THEN e ELSE MatchAt(g[k - 1], k, now)]
<1>1. e \in Engines /\ n \in Nat /\ Len(e.orders) \in Nat
  <2>1. e \in Engines BY DEF Well, Whole, Sane
  <2> QED BY <2>1, EngineLens
<1>2. e \in V BY <1>1 DEF Same
<1>3. ASSUME NEW k \in 1 .. n, NEW v \in V PROVE MatchAt(v, k, now) \in V
  <2> DEFINE d == MatchAt(v, k, now)
  <2>1. v \in Engines /\ Well(v, quote, m) /\ Same(e, v) OBVIOUS
  <2>2. k \in 1 .. Len(v.orders) BY <1>1, <2>1 DEF Same
  <2>3. Well(d, quote, m) /\ Same(v, d) BY <2>1, <2>2, MatchAtWell
  <2> HIDE DEF d
  <2>4. d \in Engines BY <2>3 DEF Well, Whole, Sane
  <2>5. Same(e, d) BY <2>1, <2>3 DEF Same
  <2> QED BY <2>3, <2>4, <2>5 DEF d
<1>4. ASSUME NEW k \in 1 .. n, NEW v \in V PROVE turn[<<k, v>>] = MatchAt(v, k, now)
  <2> HIDE DEF V, n
  <2> QED OBVIOUS
<1>5. \A k \in 1 .. n, v \in V : turn[<<k, v>>] \in V BY <1>3, <1>4, Zenon
<1> HIDE DEF V, turn, n
<1>6. PICK f : /\ f = [k \in 0 .. n |-> IF k = 0 THEN e ELSE turn[<<k, f[k - 1]>>]]
               /\ \A k \in 0 .. n : f[k] \in V
  <2>1. Loops(V, e, n, turn) BY <1>1, <1>2, <1>5, LoopThere
  <2> QED BY <2>1, Zenon DEF Loops
<1>7. f = [k \in 0 .. n |-> IF k = 0 THEN e ELSE MatchAt(f[k - 1], k, now)]
  <2>1. \A k \in 0 .. n : k # 0 => turn[<<k, f[k - 1]>>] = MatchAt(f[k - 1], k, now)
    <3> SUFFICES ASSUME NEW k \in 0 .. n, k # 0
                 PROVE turn[<<k, f[k - 1]>>] = MatchAt(f[k - 1], k, now) OBVIOUS
    <3>1. k \in 1 .. n /\ k - 1 \in 0 .. n BY <1>1
    <3> QED BY <1>4, <1>6, <3>1
  <2> QED BY <1>6, <2>1, Zenon
<1>8. loop = [k \in 0 .. n |-> IF k = 0 THEN e ELSE MatchAt(loop[k - 1], k, now)]
  BY <1>7
<1>9. MatchOpen(e, now) = loop[n] BY DEF MatchOpen, n
<1> HIDE DEF loop
<1>10. loop[0] \in V BY <1>1, <1>2, <1>8
<1>11. \A k \in 1 .. n : loop[k - 1] \in V => loop[k] \in V
  <2> SUFFICES ASSUME NEW k \in 1 .. n, loop[k - 1] \in V PROVE loop[k] \in V OBVIOUS
  <2>1. loop[k] = MatchAt(loop[k - 1], k, now) BY <1>1, <1>8
  <2> QED BY <1>3, <2>1
<1>12. loop[n] \in V
  <2>1. n \in Nat BY <1>1
  <2> QED BY <1>10, <1>11, <2>1, LoopStays
<1> QED BY <1>9, <1>12 DEF V

LEMMA StepAtWell ==
  ASSUME NEW e, NEW now \in Nows, NEW m \in Modes, Permits(m, now.at), Well(e, now.ltp, m),
         NEW t \in 1 .. Len(e.stops)
  PROVE  LET d == StepAt(e, t, now) IN Well(d, now.ltp, m) /\ Grows(e, d)
<1> DEFINE d == StepAt(e, t, now)
           c == StepStop(e, t, now)
<1>1. e \in Engines /\ Whole(e, 0) BY DEF Well, Whole, Sane
<1>2. CASE d = e
  <2>1. Len(e.orders) \in Nat BY <1>1, EngineLens
  <2> HIDE DEF d
  <2>2. Well(d, now.ltp, m) /\ Grows(e, d) BY <1>2, <2>1 DEF Grows
  <2> QED BY <2>2 DEF d
<1>3. CASE d # e
  <2>1. Running(e) /\ now.ltp # None /\ e.stops[t].status \in {"ARMED", "TRAILING"} /\ d = c
    BY <1>3, Zenon DEF StepAt, Running
  <2>2. now.ltp \in Prices BY <2>1 DEF Nows
  <2>3. Tidy(e, now.ltp, m) BY <2>1 DEF Well
  <2>4. Whole(c, 0) /\ Grows(e, c) BY <1>1, <2>1, <2>2, StopStepped
  <2>5. Tidy(c, now.ltp, m) BY <1>1, <2>1, <2>2, <2>3, StepTidy
  <2> HIDE DEF c, d
  <2>6. Well(d, now.ltp, m) /\ Grows(e, d) BY <2>1, <2>4, <2>5 DEF Well
  <2> QED BY <2>6 DEF d
<1> QED BY <1>2, <1>3

LEMMA StepStopsWell ==
  ASSUME NEW e, NEW now \in Nows, NEW m \in Modes, Permits(m, now.at), Well(e, now.ltp, m)
  PROVE  LET d == StepStops(e, now) IN Well(d, now.ltp, m) /\ Grows(e, d)
<1> DEFINE V == {d \in Engines : Well(d, now.ltp, m) /\ Grows(e, d)}
           n == Len(e.stops)
           turn == [p \in (1 .. n) \X V |-> StepAt(p[2], p[1], now)]
           loop == CHOOSE g : g = [k \in 0 .. n |-> IF k = 0 THEN e ELSE StepAt(g[k - 1], k, now)]
<1>1. e \in Engines /\ n \in Nat /\ Len(e.orders) \in Nat
  <2>1. e \in Engines BY DEF Well, Whole, Sane
  <2> QED BY <2>1, EngineLens
<1>2. e \in V BY <1>1 DEF Grows
<1>3. ASSUME NEW k \in 1 .. n, NEW v \in V PROVE StepAt(v, k, now) \in V
  <2> DEFINE d == StepAt(v, k, now)
  <2>1. v \in Engines /\ Well(v, now.ltp, m) /\ Grows(e, v) OBVIOUS
  <2>2. k \in 1 .. Len(v.stops) BY <2>1 DEF Grows
  <2>3. Well(d, now.ltp, m) /\ Grows(v, d) BY <2>1, <2>2, StepAtWell
  <2> HIDE DEF d
  <2>4. d \in Engines BY <2>3 DEF Well, Whole, Sane
  <2>5. Grows(e, d) BY <1>1, <2>1, <2>3, <2>4, GrowsFrom
  <2> QED BY <2>3, <2>4, <2>5 DEF d
<1>4. ASSUME NEW k \in 1 .. n, NEW v \in V PROVE turn[<<k, v>>] = StepAt(v, k, now)
  <2> HIDE DEF V, n
  <2> QED OBVIOUS
<1>5. \A k \in 1 .. n, v \in V : turn[<<k, v>>] \in V BY <1>3, <1>4, Zenon
<1> HIDE DEF V, turn, n
<1>6. PICK f : /\ f = [k \in 0 .. n |-> IF k = 0 THEN e ELSE turn[<<k, f[k - 1]>>]]
               /\ \A k \in 0 .. n : f[k] \in V
  <2>1. Loops(V, e, n, turn) BY <1>1, <1>2, <1>5, LoopThere
  <2> QED BY <2>1, Zenon DEF Loops
<1>7. f = [k \in 0 .. n |-> IF k = 0 THEN e ELSE StepAt(f[k - 1], k, now)]
  <2>1. \A k \in 0 .. n : k # 0 => turn[<<k, f[k - 1]>>] = StepAt(f[k - 1], k, now)
    <3> SUFFICES ASSUME NEW k \in 0 .. n, k # 0
                 PROVE turn[<<k, f[k - 1]>>] = StepAt(f[k - 1], k, now) OBVIOUS
    <3>1. k \in 1 .. n /\ k - 1 \in 0 .. n BY <1>1
    <3> QED BY <1>4, <1>6, <3>1
  <2> QED BY <1>6, <2>1, Zenon
<1>8. loop = [k \in 0 .. n |-> IF k = 0 THEN e ELSE StepAt(loop[k - 1], k, now)]
  BY <1>7
<1>9. StepStops(e, now) = loop[n] BY DEF StepStops, n
<1> HIDE DEF loop
<1>10. loop[0] \in V BY <1>1, <1>2, <1>8
<1>11. \A k \in 1 .. n : loop[k - 1] \in V => loop[k] \in V
  <2> SUFFICES ASSUME NEW k \in 1 .. n, loop[k - 1] \in V PROVE loop[k] \in V OBVIOUS
  <2>1. loop[k] = StepAt(loop[k - 1], k, now) BY <1>1, <1>8
  <2> QED BY <1>3, <2>1
<1>12. loop[n] \in V
  <2>1. n \in Nat BY <1>1
  <2> QED BY <1>10, <1>11, <2>1, LoopStays
<1> QED BY <1>9, <1>12 DEF V

\* A mode asks less than another.
Calmer(m, n) == m.still \subseteq n.still /\ m.amo \subseteq n.amo /\ m.open \subseteq n.open

LEMMA TidyLess ==
  ASSUME NEW e, NEW quote, NEW n, Tidy(e, quote, n), NEW m, Calmer(m, n)
  PROVE  Tidy(e, quote, m)
<1> DEFINE none == {}
<1>1. TiedBut(e, 0, none) /\ Quoted(e, quote) /\ Calm(e, n) BY DEF Tidy
<1>2. Calm(e, m) BY <1>1 DEF Calm, Calmer
<1> HIDE DEF none
<1> QED BY <1>1, <1>2 DEF Tidy, none

\* A live order that is changed: it stays live, of its product.
Reshapes(e, d, i, r) ==
  /\ e \in Engines /\ d \in Engines /\ i \in 1 .. Len(e.orders)
  /\ Len(d.orders) = Len(e.orders) /\ d.orders[i] = r
  /\ \A k \in 1 .. Len(e.orders) : k # i => d.orders[k] = e.orders[k]
  /\ d.stops = e.stops /\ \A p : Net(d, p) = Net(e, p)
  /\ r.product = e.orders[i].product /\ r.exit = e.orders[i].exit

LEMMA TurnedTidy ==
  ASSUME NEW e, NEW d, NEW i, NEW r, Reshapes(e, d, i, r), Live(e.orders[i]), Live(r),
         NEW quote, NEW m, Tidy(e, quote, m),
         r.status = "AMO" => i \notin m.amo /\ r.product # "INTRADAY", r.status = "OPEN" => i \notin m.open
  PROVE  Tidy(d, quote, m)
<1> DEFINE none == {}
<1>1. TiedBut(e, 0, none) /\ Quoted(e, quote) /\ Calm(e, m) BY DEF Tidy
<1> HIDE DEF none
<1>2. /\ e \in Engines /\ d \in Engines /\ i \in 1 .. Len(e.orders)
      /\ Len(d.orders) = Len(e.orders) /\ d.orders[i] = r
      /\ \A k \in 1 .. Len(e.orders) : k # i => d.orders[k] = e.orders[k]
      /\ d.stops = e.stops /\ \A p : Net(d, p) = Net(e, p)
      /\ r.product = e.orders[i].product /\ r.exit = e.orders[i].exit
  BY DEF Reshapes
<1>3. \A k \in 1 .. Len(e.orders) :
        /\ d.orders[k].product = e.orders[k].product /\ d.orders[k].exit = e.orders[k].exit
        /\ Live(d.orders[k]) <=> Live(e.orders[k])
        /\ ~Live(e.orders[k]) => d.orders[k] = e.orders[k]
  BY <1>2
<1>4. ASSUME NEW t \in 1 .. Len(d.stops) PROVE StopTied(d, d.stops[t], 0, t \in none)
  <2> DEFINE a == t \in none
             s == e.stops[t]
  <2>1. StopTied(e, s, 0, a) /\ d.stops[t] = s BY <1>1, <1>2 DEF TiedBut
  <2> HIDE DEF a, s
  <2>2. s.exit # None => /\ s.exit \in 1 .. Len(d.orders)
                         /\ d.orders[s.exit].exit /\ d.orders[s.exit].product = s.product
                         /\ Live(d.orders[s.exit]) => s.status = "TRIGGERED"
    BY <1>2, <1>3, <2>1 DEF StopTied
  <2>3. s.exit # None => (Live(d.orders[s.exit]) <=> Live(e.orders[s.exit]))
                         /\ (e.orders[s.exit].status = "EXECUTED" => d.orders[s.exit].status = "EXECUTED")
    <3>1. s.exit # None => s.exit \in 1 .. Len(e.orders) BY <2>1 DEF StopTied
    <3>2. \A o : o.status = "EXECUTED" => ~Live(o) BY DEF Live
    <3> QED BY <1>3, <3>1, <3>2
  <2>4. s.status = "TRIGGERED" =>
          s.exit # None /\ (Live(d.orders[s.exit]) \/ (a /\ d.orders[s.exit].status = "EXECUTED"))
    BY <2>1, <2>3 DEF StopTied
  <2>5. s.status = "PENDING_ENTRY" =>
          /\ s.exit = None /\ s.entry \in 1 .. Len(d.orders) /\ d.orders[s.entry].product = s.product
          /\ Live(d.orders[s.entry]) \/ (s.entry = 0 /\ d.orders[s.entry].status = "EXECUTED")
    <3>1. s.status = "PENDING_ENTRY" => s.entry \in 1 .. Len(e.orders) BY <2>1 DEF StopTied
    <3>2. Len(e.orders) \in Nat BY <1>2, EngineLens
    <3> QED BY <1>2, <1>3, <2>1, <3>1, <3>2 DEF StopTied
  <2>6. /\ s.status \in {"ARMED", "TRAILING"} => s.exit = None
        /\ Protecting(s) =>
             a \/ (Opens(Net(d, s.product), s.direction) /\ s.qty = Abs(Net(d, s.product)))
    BY <1>2, <2>1 DEF StopTied
  <2>7. StopTied(d, s, 0, a) BY <2>2, <2>4, <2>5, <2>6 DEF StopTied
  <2> QED BY <2>1, <2>7 DEF a
<1>5. Alone(d) BY <1>1, <1>2 DEF TiedBut, Alone
<1>6. TiedBut(d, 0, none) BY <1>4, <1>5 DEF TiedBut
<1>7. Quoted(d, quote) BY <1>1, <1>2, <1>3 DEF Quoted
<1>8. Calm(d, m)
  <2>1. \A p \in m.still : Net(d, p) = 0 BY <1>1, <1>2 DEF Calm
  <2>2. ASSUME NEW k \in 1 .. Len(d.orders)
        PROVE  /\ Live(d.orders[k]) => d.orders[k].product \notin m.still
               /\ d.orders[k].status = "AMO" => k \notin m.amo /\ d.orders[k].product # "INTRADAY"
               /\ d.orders[k].status = "OPEN" => k \notin m.open
    <3>1. k \in 1 .. Len(e.orders) BY <1>2
    <3>2. /\ Live(e.orders[k]) => e.orders[k].product \notin m.still
          /\ e.orders[k].status = "AMO" => k \notin m.amo /\ e.orders[k].product # "INTRADAY"
          /\ e.orders[k].status = "OPEN" => k \notin m.open
      BY <1>1, <3>1 DEF Calm
    <3> QED BY <1>2, <1>3, <3>1, <3>2
  <2>3. \A t \in 1 .. Len(d.stops) : Active(d.stops[t]) => d.stops[t].product \notin m.still
    BY <1>1, <1>2 DEF Calm
  <2> QED BY <2>1, <2>2, <2>3 DEF Calm
<1> QED BY <1>6, <1>7, <1>8 DEF Tidy, none

\* A user's order that is refused at the open: the stops that waited for it end.
LEMMA RefusedTidy ==
  ASSUME NEW e, NEW y, NEW i, NEW r, Reshapes(e, y, i, r), Live(e.orders[i]), ~Live(r), ~r.exit,
         NEW quote, NEW m, Tidy(e, quote, m)
  PROVE  Tidy(EntryClosed(y, {i}), quote, m)
<1> DEFINE none == {}
           T == {t \in DOMAIN y.stops : y.stops[t].entry \in {i} /\ y.stops[t].status = "PENDING_ENTRY"}
           d == EndStops(y, T)
<1>1. TiedBut(e, 0, none) /\ Quoted(e, quote) /\ Calm(e, m) BY DEF Tidy
<1>2. \A u : (u \in none) = FALSE OBVIOUS
<1> HIDE DEF none
<1>3. /\ e \in Engines /\ y \in Engines /\ i \in 1 .. Len(e.orders)
      /\ Len(y.orders) = Len(e.orders) /\ y.orders[i] = r
      /\ \A k \in 1 .. Len(e.orders) : k # i => y.orders[k] = e.orders[k]
      /\ y.stops = e.stops /\ \A p : Net(y, p) = Net(e, p)
      /\ r.product = e.orders[i].product /\ r.exit = e.orders[i].exit
  BY DEF Reshapes
<1>4. EntryClosed(y, {i}) = d BY DEF EntryClosed
<1>5. \A t \in 1 .. Len(e.stops) : t \in T <=> e.stops[t].entry = i /\ e.stops[t].status = "PENDING_ENTRY"
  BY <1>3, EngineLens
<1> HIDE DEF T
<1>6. /\ d \in After(y) /\ OnlyEnd(y, d) /\ d.orders = y.orders
      /\ \A t \in 1 .. Len(y.stops) : d.stops[t] = IF t \in T THEN Cancelled(y.stops[t]) ELSE y.stops[t]
  BY <1>3, StopsEnd
<1> HIDE DEF d
<1>7. Len(d.stops) = Len(e.stops) /\ Kept(y, d) /\ \A p : Net(d, p) = Net(e, p)
  <2>1. Len(d.stops) = Len(y.stops) BY <1>3, <1>6, AfterIs
  <2>2. \A p : Net(d, p) = Net(y, p) BY <1>6, NetAfter
  <2> QED BY <1>3, <1>6, <2>1, <2>2, OnlyEndKept
<1>8. ASSUME NEW t \in 1 .. Len(d.stops) PROVE StopTied(d, d.stops[t], 0, t \in none)
  <2> DEFINE a == t \in none
             s == e.stops[t]
             c == d.stops[t]
  <2>1. StopTied(e, s, 0, a) BY <1>1, <1>7 DEF TiedBut
  <2>2. c = IF t \in T THEN Cancelled(s) ELSE s BY <1>3, <1>6, <1>7
  <2>3. t \in T <=> s.entry = i /\ s.status = "PENDING_ENTRY" BY <1>5, <1>7
  <2>4. s \in StopRecords BY <1>3, <1>7, EngineLens
  <2> HIDE DEF a, s, c
  <2>5. CASE t \in T
    <3>1. c.status = "CANCELLED" /\ c.exit = s.exit BY <2>2, <2>4, <2>5 DEF Cancelled, StopRecords
    <3>2. s.exit = None BY <2>1, <2>3, <2>5 DEF StopTied
    <3>3. ~Protecting(c) BY <3>1 DEF Protecting
    <3>4. StopTied(d, c, 0, a) BY <3>1, <3>2, <3>3 DEF StopTied
    <3> QED BY <3>4 DEF a, c
  <2>6. CASE t \notin T
    <3>1. c = s BY <2>2, <2>6
    <3>2. s.exit # None => s.exit \in 1 .. Len(e.orders) /\ y.orders[s.exit] = e.orders[s.exit]
      <4>1. s.exit # None => s.exit \in 1 .. Len(e.orders) /\ e.orders[s.exit].exit BY <2>1 DEF StopTied
      <4> QED BY <1>3, <4>1
    <3>3. s.status = "PENDING_ENTRY" => s.entry \in 1 .. Len(e.orders) /\ y.orders[s.entry] = e.orders[s.entry]
      <4>1. s.status = "PENDING_ENTRY" => s.entry \in 1 .. Len(e.orders) BY <2>1 DEF StopTied
      <4> QED BY <1>3, <2>3, <2>6, <4>1
    <3>4. Len(d.orders) = Len(e.orders) BY <1>3, <1>6
    <3>5. s.exit # None => /\ s.exit \in 1 .. Len(d.orders)
                           /\ d.orders[s.exit].exit /\ d.orders[s.exit].product = s.product
                           /\ Live(d.orders[s.exit]) => s.status = "TRIGGERED"
      BY <1>6, <2>1, <3>2, <3>4 DEF StopTied
    <3>6. s.status = "TRIGGERED" =>
            s.exit # None /\ (Live(d.orders[s.exit]) \/ (a /\ d.orders[s.exit].status = "EXECUTED"))
      BY <1>6, <2>1, <3>2 DEF StopTied
    <3>7. s.status = "PENDING_ENTRY" =>
            /\ s.exit = None /\ s.entry \in 1 .. Len(d.orders) /\ d.orders[s.entry].product = s.product
            /\ Live(d.orders[s.entry]) \/ (s.entry = 0 /\ d.orders[s.entry].status = "EXECUTED")
      BY <1>6, <2>1, <3>3, <3>4 DEF StopTied
    <3>8. /\ s.status \in {"ARMED", "TRAILING"} => s.exit = None
          /\ Protecting(s) =>
               a \/ (Opens(Net(d, s.product), s.direction) /\ s.qty = Abs(Net(d, s.product)))
      BY <1>7, <2>1 DEF StopTied
    <3>9. StopTied(d, s, 0, a) BY <3>5, <3>6, <3>7, <3>8 DEF StopTied
    <3> QED BY <3>1, <3>9 DEF a, c
  <2> QED BY <2>5, <2>6
<1>9. Alone(d)
  <2>1. Alone(y) BY <1>1, <1>3 DEF TiedBut, Alone
  <2> QED BY <1>3, <1>6, <2>1, EndedAlone
<1>10. TiedBut(d, 0, none) BY <1>8, <1>9 DEF TiedBut
<1>11. \A k \in 1 .. Len(d.orders) : k \in 1 .. Len(e.orders) /\ (Live(d.orders[k]) => d.orders[k] = e.orders[k])
  BY <1>3, <1>6
<1>12. Quoted(d, quote) BY <1>1, <1>11 DEF Quoted
<1>13. Calm(d, m)
  <2>1. \A p \in m.still : Net(d, p) = 0 BY <1>1, <1>7 DEF Calm
  <2>2. ASSUME NEW k \in 1 .. Len(d.orders)
        PROVE  /\ Live(d.orders[k]) => d.orders[k].product \notin m.still
               /\ d.orders[k].status = "AMO" => k \notin m.amo /\ d.orders[k].product # "INTRADAY"
               /\ d.orders[k].status = "OPEN" => k \notin m.open
    <3>1. /\ Live(e.orders[k]) => e.orders[k].product \notin m.still
          /\ e.orders[k].status = "AMO" => k \notin m.amo /\ e.orders[k].product # "INTRADAY"
          /\ e.orders[k].status = "OPEN" => k \notin m.open
      BY <1>1, <1>11 DEF Calm
    <3> QED BY <1>11, <3>1 DEF Live
  <2>3. ASSUME NEW t \in 1 .. Len(d.stops), Active(d.stops[t]) PROVE d.stops[t].product \notin m.still
    <3>1. t \in 1 .. Len(e.stops) BY <1>7
    <3>2. Active(e.stops[t]) /\ d.stops[t].product = e.stops[t].product BY <1>3, <1>7, <2>3, <3>1 DEF Kept
    <3> QED BY <1>1, <3>1, <3>2 DEF Calm
  <2> QED BY <2>1, <2>2, <2>3 DEF Calm
<1> QED BY <1>4, <1>10, <1>12, <1>13 DEF Tidy, none

\* The mode when the AMOs up to k were released.
Released(m, k) == [m EXCEPT !.amo = 1 .. k]

LEMMA ReleasedIs ==
  ASSUME NEW m \in Modes, NEW k \in Nat
  PROVE  LET n == Released(m, k) IN
         n \in Modes /\ n.still = m.still /\ n.open = m.open /\ n.amo = 1 .. k
<1> DEFINE w == 1 .. k
<1>1. w \in SUBSET Nat OBVIOUS
<1> HIDE DEF w
<1>2. LET n == [m EXCEPT !.amo = w] IN n \in Modes /\ n.still = m.still /\ n.open = m.open /\ n.amo = w
  BY <1>1 DEF Modes
<1> QED BY <1>2 DEF Released, w

LEMMA AmoTidy ==
  ASSUME NEW e, Whole(e, 0), Running(e), NEW i \in 1 .. Len(e.orders), e.orders[i].status = "AMO",
         NEW now, now.ltp \in Prices \cup {None}, Running(ReleaseAmo(e, i, now)),
         NEW m \in Modes, m.open = {}, Tidy(e, now.ltp, Released(m, i - 1))
  PROVE  Tidy(ReleaseAmo(e, i, now), now.ltp, Released(m, i))
<1> DEFINE d == ReleaseAmo(e, i, now)
           n == Released(m, i)
           o == e.orders[i]
           quote == now.ltp
<1>1. e \in Engines BY DEF Whole, Sane
<1>2. i \in Nat \ {0} /\ o \in OrderRecords /\ Live(o) BY <1>1, EngineLens DEF Live
<1>3. AmoOpened(e, i, now, d) \/ AmoRefused(e, i, now, d) BY AmoReleased
<1>4. Running(d) OBVIOUS
<1> HIDE DEF d
<1>5. o.product # "INTRADAY" /\ Quoted(e, quote) BY DEF Tidy, Calm
<1>6. n \in Modes /\ n.open = {} /\ n.still = m.still /\ n.amo = 1 .. i BY <1>2, ReleasedIs
<1>7. Calmer([n EXCEPT !.amo = n.amo \ {i}], Released(m, i - 1))
  <2> DEFINE l == [n EXCEPT !.amo = n.amo \ {i}]
             r == Released(m, i - 1)
  <2>1. l.still = m.still /\ l.open = {} /\ l.amo = (1 .. i) \ {i}
    <3> HIDE DEF n
    <3> QED BY <1>6 DEF Modes
  <2>2. r.still = m.still /\ r.amo = 1 .. (i - 1) BY DEF Released, Modes
  <2>3. (1 .. i) \ {i} \subseteq 1 .. (i - 1) BY <1>2
  <2> HIDE DEF l, r
  <2>4. Calmer(l, r) BY <2>1, <2>2, <2>3 DEF Calmer
  <2> QED BY <2>4 DEF l, r
<1> DEFINE l == [n EXCEPT !.amo = n.amo \ {i}]
<1>8. Tidy(e, quote, l) BY <1>7, TidyLess
<1>9. l.open = {} /\ l.still = n.still /\ l.amo = n.amo \ {i}
  <2> HIDE DEF n
  <2> QED BY <1>6 DEF Modes
<1> HIDE DEF l, n
\* The order changed, what only the i-th of the mode tells apart is gone.
<1>10. ASSUME NEW x, Tidy(x, quote, l), i \in 1 .. Len(x.orders), x.orders[i].status # "AMO"
       PROVE  Tidy(x, quote, n)
  <2> DEFINE none == {}
  <2>1. TiedBut(x, 0, none) /\ Quoted(x, quote) /\ Calm(x, l) BY <1>10 DEF Tidy
  <2> HIDE DEF none
  <2>2. Calm(x, n)
    <3>1. \A k \in 1 .. Len(x.orders) : x.orders[k].status = "AMO" => k \notin n.amo
      BY <1>9, <1>10, <2>1 DEF Calm
    <3> QED BY <1>6, <1>9, <2>1, <3>1 DEF Calm
  <2> QED BY <2>1, <2>2 DEF Tidy, none
<1>11. ASSUME NEW x, NEW r, NEW status \in {"OPEN", "REJECTED"}, r = StatusOf(o, status),
              x \in Engines, x = Changed(e, i, r, x.funds)
       PROVE  Reshapes(e, x, i, r) /\ r.status = status /\ r.exit = o.exit
  <2>1. r \in OrderRecords /\ r.status = status /\ r.product = o.product /\ r.exit = o.exit
    BY <1>2, <1>11, StatusChanged
  <2>2. x.funds \in Ledgers BY <1>11, EngineFields
  <2> DEFINE g == x.funds
  <2> HIDE DEF o, g
  <2>3. LET c == Changed(e, i, r, g) IN
        /\ c \in Engines /\ Len(c.orders) = Len(e.orders) /\ c.orders[i] = r
        /\ \A k \in 1 .. Len(e.orders) : k # i => c.orders[k] = e.orders[k]
        /\ c.stops = e.stops /\ c.books = e.books
    BY <1>1, <2>1, <2>2, ChangedIs DEF g
  <2>4. x = Changed(e, i, r, g) BY <1>11 DEF g
  <2>5. /\ x \in Engines /\ Len(x.orders) = Len(e.orders) /\ x.orders[i] = r
        /\ \A k \in 1 .. Len(e.orders) : k # i => x.orders[k] = e.orders[k]
        /\ x.stops = e.stops /\ x.books = e.books
    BY <2>3, <2>4
  <2>6. \A p : Net(x, p) = Net(e, p) BY <2>5 DEF Net
  <2> QED BY <1>1, <2>1, <2>5, <2>6 DEF Reshapes, o
<1>12. CASE AmoOpened(e, i, now, d)
  <2> DEFINE r == StatusOf(o, "OPEN")
             on == TRUE
  <2>1. PICK x : /\ Sane(x, i) /\ Running(x) /\ Covered(x) /\ MatchOk(x, i, now)
                 /\ x = Changed(e, i, r, x.funds) /\ d = Match(x, i, now, TRUE)
    BY <1>12 DEF AmoOpened
  <2>2. x \in Engines BY <2>1 DEF Sane
  <2>3. Reshapes(e, x, i, r) /\ r.status = "OPEN" BY <1>11, <2>1, <2>2
  <2> HIDE DEF r
  <2>4. Live(r) BY <2>3 DEF Live
  <2>5. Tidy(x, quote, l)
    <3>1. i \notin l.open BY <1>9
    <3> QED BY <1>2, <1>8, <2>3, <2>4, <3>1, TurnedTidy
  <2>6. i \in 1 .. Len(x.orders) /\ x.orders[i] = r BY <2>3 DEF Reshapes
  <2>7. Tidy(x, quote, n) BY <1>10, <2>3, <2>5, <2>6
  <2>8. on \in BOOLEAN /\ d = Match(x, i, now, on) BY <2>1
  <2> HIDE DEF on
  <2>9. Running(Match(x, i, now, on)) BY <1>4, <2>8
  <2>10. Tidy(Match(x, i, now, on), quote, n) BY <1>6, <2>1, <2>6, <2>7, <2>8, <2>9, MatchTidy
  <2> QED BY <2>8, <2>10 DEF d, n
<1>13. CASE AmoRefused(e, i, now, d)
  <2> DEFINE r == StatusOf(o, "REJECTED")
             cost == o.qty * ValueAt(o, now)
  <2>1. PICK y \in Engines : y = Changed(e, i, r, y.funds) /\ d = EntryClosed(y, {i})
    BY <1>13 DEF AmoRefused
  <2>2. Reshapes(e, y, i, r) /\ r.status = "REJECTED" /\ r.exit = o.exit BY <1>11, <2>1
  <2> HIDE DEF r
  <2>3. ~Live(r) BY <2>2 DEF Live
  <2>4. ~o.exit
    <3> SUFFICES ASSUME o.exit PROVE FALSE OBVIOUS
    <3>1. now.ltp # None BY <1>2, <1>5 DEF Quoted
    <3>2. OrderOk(o) /\ o.qty \in Nat /\ o.side \in {"BUY", "SELL"} BY <1>2, OrderFields DEF Sides
    <3>3. o.price \in Circuit \cup {None} BY <1>2, <3>2 DEF OrderOk
    <3>4. ValueAt(o, now) # None /\ ValueAt(o, now) \in Nat
      <4>1. Circuit \subseteq Nat \ {0} BY EngineAssumption
      <4>2. now.ltp \in Nat BY <3>1 DEF Prices
      <4>3. \A p \in Nat : p # None BY TrailAssumption
      <4> HIDE DEF o
      <4> QED BY <3>3, <4>1, <4>2, <4>3 DEF ValueAt
    <3>5. cost <= cost /\ o.qty <= o.qty
      <4> DEFINE v == ValueAt(o, now)
                 q == o.qty
      <4>1. v \in Nat /\ q \in Nat BY <3>2, <3>4
      <4> HIDE DEF v, q
      <4>2. q * v \in Nat BY <4>1
      <4> QED BY <4>1, <4>2 DEF v, q
    <3> HIDE DEF cost
    <3>6. cost = o.qty * ValueAt(o, now) BY DEF cost
    <3>7. ValidateOrder(o, now, cost, o.qty) BY <1>5, <3>3, <3>4, <3>5, <3>6 DEF ValidateOrder
    <3>8. ~ValidateOrder(o, now, o.qty * ValueAt(o, now), o.qty) BY <1>13 DEF AmoRefused
    <3> QED BY <3>6, <3>7, <3>8
  <2>5. Tidy(d, quote, l) BY <1>2, <1>8, <2>1, <2>2, <2>3, <2>4, RefusedTidy
  <2>6. i \in 1 .. Len(d.orders) /\ d.orders[i] = r
    <3> DEFINE T == {t \in DOMAIN y.stops : y.stops[t].entry \in {i} /\ y.stops[t].status = "PENDING_ENTRY"}
               c == EndStops(y, T)
    <3>1. d = c BY <2>1 DEF EntryClosed
    <3> HIDE DEF T
    <3>2. c.orders = y.orders BY <2>1, StopsEnd
    <3> QED BY <2>2, <3>1, <3>2 DEF Reshapes
  <2>7. Tidy(d, quote, n) BY <1>10, <2>2, <2>5, <2>6
  <2> QED BY <2>7 DEF d, n
<1> QED BY <1>3, <1>12, <1>13

\* No AMO waits any more.
LEMMA AmosTidy ==
  ASSUME NEW e, Whole(e, 0), Running(e), NEW now, now.ltp \in Prices \cup {None},
         NEW m \in Modes, m.open = {}, Tidy(e, now.ltp, m), Running(ReleaseAmos(e, now))
  PROVE  Tidy(ReleaseAmos(e, now), now.ltp, [m EXCEPT !.amo = Nat])
<1> DEFINE V == {d \in Engines : Whole(d, 0) /\ Same(e, d)}
           quote == now.ltp
           W(k) == {d \in V : Running(d) => Tidy(d, quote, Released(m, k))}
           n == Len(e.orders)
           turn == [p \in (1 .. n) \X V |-> ReleaseAt(p[2], p[1], now)]
           loop == CHOOSE g : g = [k \in 0 .. n |-> IF k = 0 THEN e ELSE ReleaseAt(g[k - 1], k, now)]
<1>1. e \in Engines /\ n \in Nat /\ Len(e.orders) \in Nat
  <2>1. e \in Engines BY DEF Whole, Sane
  <2> QED BY <2>1, EngineLens
<1>2. e \in V BY <1>1 DEF Same
<1>3. ASSUME NEW k \in 1 .. n, NEW v \in V
      PROVE  /\ ReleaseAt(v, k, now) \in V
             /\ v \in W(k - 1) => ReleaseAt(v, k, now) \in W(k)
  <2> DEFINE d == ReleaseAmo(v, k, now)
             c == ReleaseAt(v, k, now)
  <2>1. v \in Engines /\ Whole(v, 0) /\ Same(e, v) OBVIOUS
  <2>2. k \in 1 .. Len(v.orders) /\ Len(v.orders) \in Nat BY <1>1, <2>1 DEF Same
  <2>3. CASE ~(Running(v) /\ v.orders[k].status = "AMO")
    <3>1. c = v BY <2>3, Zenon DEF ReleaseAt, Running
    <3> HIDE DEF c
    <3>2. ASSUME Running(v), Tidy(v, quote, Released(m, k - 1)) PROVE Tidy(v, quote, Released(m, k))
      <4> DEFINE none == {}
      <4>1. TiedBut(v, 0, none) /\ Quoted(v, quote) /\ Calm(v, Released(m, k - 1)) BY <3>2 DEF Tidy
      <4> HIDE DEF none
      <4>2. v.orders[k].status # "AMO" BY <2>3, <3>2
      <4> DEFINE a == Released(m, k - 1)
                 b == Released(m, k)
      <4>3. /\ a.still = b.still /\ a.open = b.open /\ a.amo = 1 .. (k - 1) /\ b.amo = 1 .. k
        BY DEF Released, Modes
      <4>4. \A j \in Nat : j \in b.amo => j \in a.amo \/ j = k BY <4>3
      <4> HIDE DEF a, b
      <4>5. Calm(v, b)
        <5>1. Calm(v, a) BY <4>1 DEF a
        <5>2. \A j \in 1 .. Len(v.orders) : v.orders[j].status = "AMO" => j \notin b.amo
          BY <4>2, <4>4, <5>1 DEF Calm
        <5> QED BY <4>3, <5>1, <5>2 DEF Calm
      <4> QED BY <4>1, <4>5 DEF Tidy, none, b
    <3> QED BY <3>1, <3>2 DEF c
  <2>4. CASE Running(v) /\ v.orders[k].status = "AMO"
    <3>1. c = d BY <2>4, Zenon DEF ReleaseAt, Running
    <3>2. Whole(d, 0) /\ Same(v, d) BY <2>1, <2>2, <2>4, AmoReleased
    <3>3. Running(d) /\ Tidy(v, quote, Released(m, k - 1)) => Tidy(d, quote, Released(m, k))
      BY <2>1, <2>2, <2>4, AmoTidy
    <3> HIDE DEF d, c
    <3>4. d \in Engines BY <3>2 DEF Whole, Sane
    <3>5. Same(e, d) BY <2>1, <3>2 DEF Same
    <3> QED BY <2>4, <3>1, <3>2, <3>3, <3>4, <3>5 DEF c
  <2> QED BY <2>3, <2>4
<1>4. ASSUME NEW k \in 1 .. n, NEW v \in V PROVE turn[<<k, v>>] = ReleaseAt(v, k, now)
  <2> HIDE DEF V, n
  <2> QED OBVIOUS
<1>5. \A k \in 1 .. n, v \in V : turn[<<k, v>>] \in V BY <1>3, <1>4, Zenon
<1>6. e \in W(0)
  <2> DEFINE a == Released(m, 0)
  <2>1. a.still = m.still /\ a.open = m.open /\ a.amo = 1 .. 0 BY DEF Released, Modes
  <2>2. 1 .. 0 \subseteq m.amo OBVIOUS
  <2> HIDE DEF a
  <2>3. Calmer(a, m) BY <2>1, <2>2 DEF Calmer
  <2>4. Tidy(e, quote, a) BY <2>3, TidyLess
  <2> QED BY <1>2, <2>4 DEF a
<1>7. \A k : W(k) \subseteq V OBVIOUS
<1> HIDE DEF V, turn, n, W
<1>8. PICK f : /\ f = [k \in 0 .. n |-> IF k = 0 THEN e ELSE turn[<<k, f[k - 1]>>]]
               /\ \A k \in 0 .. n : f[k] \in V
  <2>1. Loops(V, e, n, turn) BY <1>1, <1>2, <1>5, LoopThere
  <2> QED BY <2>1, Zenon DEF Loops
<1>9. f = [k \in 0 .. n |-> IF k = 0 THEN e ELSE ReleaseAt(f[k - 1], k, now)]
  <2>1. \A k \in 0 .. n : k # 0 => turn[<<k, f[k - 1]>>] = ReleaseAt(f[k - 1], k, now)
    <3> SUFFICES ASSUME NEW k \in 0 .. n, k # 0
                 PROVE turn[<<k, f[k - 1]>>] = ReleaseAt(f[k - 1], k, now) OBVIOUS
    <3>1. k \in 1 .. n /\ k - 1 \in 0 .. n BY <1>1
    <3> QED BY <1>4, <1>8, <3>1
  <2> QED BY <1>8, <2>1, Zenon
<1>10. loop = [k \in 0 .. n |-> IF k = 0 THEN e ELSE ReleaseAt(loop[k - 1], k, now)]
  BY <1>9
<1>11. ReleaseAmos(e, now) = loop[n] BY DEF ReleaseAmos, n
<1> HIDE DEF loop
<1> DEFINE U == [k \in 0 .. n |-> W(k)]
<1>12. loop[0] \in U[0] BY <1>1, <1>6, <1>10
<1>13. \A k \in 1 .. n : loop[k - 1] \in U[k - 1] => loop[k] \in U[k]
  <2> SUFFICES ASSUME NEW k \in 1 .. n, loop[k - 1] \in U[k - 1] PROVE loop[k] \in U[k] OBVIOUS
  <2>1. k - 1 \in 0 .. n /\ k \in 0 .. n BY <1>1
  <2>2. loop[k] = ReleaseAt(loop[k - 1], k, now) BY <1>1, <1>10
  <2>3. loop[k - 1] \in W(k - 1) BY <2>1
  <2>4. loop[k] \in W(k) BY <1>3, <1>7, <2>2, <2>3
  <2> QED BY <2>1, <2>4
<1>14. loop[n] \in W(n)
  <2>1. n \in Nat BY <1>1
  <2> HIDE DEF U
  <2>2. loop[n] \in U[n] BY <1>12, <1>13, <2>1, LoopPasses
  <2> QED BY <2>1, <2>2 DEF U
<1> DEFINE d == ReleaseAmos(e, now)
           a == Released(m, n)
           b == [m EXCEPT !.amo = Nat]
           none == {}
<1>15. d \in Engines /\ Same(e, d) /\ Tidy(d, quote, a) BY <1>11, <1>14 DEF W, V
<1> HIDE DEF d
<1>16. a.still = b.still /\ a.open = b.open /\ a.amo = 1 .. Len(d.orders) BY <1>15 DEF Released, Modes, Same, n
<1> HIDE DEF a, b, none
<1>17. TiedBut(d, 0, none) /\ Quoted(d, quote) /\ Calm(d, a) BY <1>15 DEF Tidy, none
<1>18. Calm(d, b) BY <1>16, <1>17 DEF Calm
<1> QED BY <1>17, <1>18 DEF Tidy, none, b, d

\* The i-th order has ended, and no other lives that did not.
AllFilled(e, d, i) ==
  /\ Len(d.orders) = Len(e.orders)
  /\ \A k \in 1 .. Len(e.orders) : Live(d.orders[k]) => k # i /\ d.orders[k] = e.orders[k]

LEMMA FillLives ==
  ASSUME NEW e, NEW i \in 1 .. Len(e.orders), Sane(e, i), Running(e),
         NEW qty, NEW price, NEW forced, FillOk(e, i, qty, price, forced), qty = Left(e.orders[i]),
         Running(FillOf(e, i, qty, price, forced))
  PROVE  AllFilled(e, FillOf(e, i, qty, price, forced), i)
<1> DEFINE o == e.orders[i]
           d == FillOf(e, i, qty, price, forced)
<1>1. e \in Engines /\ o.status = "OPEN" /\ qty \in 1 .. Left(o) /\ price \in Prices BY DEF Sane, FillOk
<1>2. PICK x : Filling(e, x, i, qty) /\ d = AfterFill(x, i, price)
  <2>1. \E x : Filling(e, x, i, qty) /\ FillOf(e, i, qty, price, forced) = AfterFill(x, i, price)
    BY FillParts
  <2> QED BY <2>1
<1> HIDE DEF d
<1>3. /\ x \in Engines /\ StopsOk(x) /\ Len(x.orders) = Len(e.orders)
      /\ x.orders[i] = FilledBy(o, qty) /\ \A k \in 1 .. Len(e.orders) : k # i => x.orders[k] = e.orders[k]
  BY <1>2 DEF Filling
<1>4. d \in After(x)
  <2>1. i \in 1 .. Len(x.orders) BY <1>3
  <2>2. AfterFill(x, i, price) \in After(x) BY <1>1, <1>3, <2>1, FillFollowed
  <2> QED BY <1>2, <2>2
<1>5. ~Live(x.orders[i])
  <2>1. o \in OrderRecords BY <1>1, EngineLens
  <2>2. x.orders[i].status = "EXECUTED" BY <1>1, <1>3, <2>1, FilledOrder
  <2> QED BY <2>2 DEF Live
<1>6. d \in Engines /\ Len(d.orders) = Len(x.orders) BY <1>3, <1>4, AfterIs
<1>7. \A k \in 1 .. Len(x.orders) : Live(d.orders[k]) => d.orders[k] = x.orders[k] BY <1>3, <1>4, OrderAfter
<1>8. AllFilled(e, d, i) BY <1>3, <1>5, <1>6, <1>7 DEF AllFilled
<1> QED BY <1>8 DEF d

LEMMA ExecuteLives ==
  ASSUME NEW e, NEW i, Sane(e, i), Running(e), Covered(e), NEW n, NEW price, NEW sq,
         ExecuteOk(e, i, n, price, sq), Running(Execute(e, i, n, price, sq))
  PROVE  sq => AllFilled(e, Execute(e, i, n, price, sq), i)
<1> DEFINE d == Execute(e, i, n, price, sq)
           forced == sq \/ e.orders[i].exit
           one == {i}
<1>1. i \in 1 .. Len(e.orders) /\ (sq => n = Left(e.orders[i])) BY DEF ExecuteOk
<1>2. \/ one \in SUBSET LiveOrders(e) /\ d = CancelOrders(e, one) /\ ~sq
      \/ \E qty : /\ FillOk(e, i, qty, price, forced) /\ d = FillOf(e, i, qty, price, forced)
                  /\ sq => qty = n
  BY ExecuteParts
<1>3. Running(d) OBVIOUS
<1> HIDE DEF d, one, forced
<1> SUFFICES ASSUME sq PROVE AllFilled(e, Execute(e, i, n, price, sq), i) OBVIOUS
<1>4. PICK qty : FillOk(e, i, qty, price, forced) /\ d = FillOf(e, i, qty, price, forced) /\ qty = n
  BY <1>2
<1>5. qty = Left(e.orders[i]) BY <1>1, <1>4
<1>6. Running(FillOf(e, i, qty, price, forced)) BY <1>3, <1>4
<1>7. FillOk(e, i, qty, price, forced) BY <1>4
<1>8. AllFilled(e, FillOf(e, i, qty, price, forced), i)
  BY <1>1, <1>5, <1>6, <1>7, FillLives, Zenon
<1>9. AllFilled(e, d, i) BY <1>4, <1>8
<1> QED BY <1>9 DEF d

\* Nothing intraday is live.
Idle(e) == \A k \in 1 .. Len(e.orders) : Live(e.orders[k]) => e.orders[k].product # "INTRADAY"

LEMMA ClosedTidy ==
  ASSUME NEW e, Whole(e, 0), Running(e), NEW now, now.ltp \in Prices \cup {None},
         NEW quote, NEW m \in Modes, m.open = {}, Tidy(e, quote, m), Idle(e)
  PROVE  LET d == ClosePositionOnly(e, now) IN Tidy(d, quote, m) /\ Idle(d)
<1> DEFINE d == ClosePositionOnly(e, now)
           sq == TRUE
           no == 0
<1>1. Running(d) /\ (d = e \/ SquaresOff(e, d)) BY PositionClosedOnly
<1> HIDE DEF d, sq, no
<1>2. CASE d = e BY <1>2 DEF d
<1>3. ASSUME NEW x, NEW i, NEW o, NEW price, Squares(e, x, i, o, price, d)
      PROVE  Tidy(d, quote, m) /\ Idle(d)
  <2> DEFINE n == Left(o)
  <2>1. /\ Net(e, "INTRADAY") # 0
        /\ o \in OrderRecords /\ o.status = "OPEN" /\ o.product = "INTRADAY" /\ ~o.exit
        /\ n \in Nat \ {0}
        /\ i = Len(e.orders) + 1 /\ x = Stored(e, o, e.funds, e.stops)
        /\ Sane(x, i) /\ Running(x) /\ Covered(x) /\ price \in Prices
        /\ d = Execute(x, i, n, price, sq)
    BY <1>3 DEF Squares, sq
  <2>2. e \in Engines /\ e.funds \in Ledgers /\ e.stops \in Seq(StopRecords) /\ Len(e.orders) \in Nat
    <3>1. e \in Engines BY DEF Whole, Sane
    <3> QED BY <3>1, EngineFields, EngineLens
  <2> DEFINE c == Stored(e, o, e.funds, e.stops)
  <2>3. /\ c \in Engines /\ Len(c.orders) = Len(e.orders) + 1 /\ c.orders[Len(e.orders) + 1] = o
        /\ \A k \in 1 .. Len(e.orders) : c.orders[k] = e.orders[k]
        /\ c.stops = e.stops /\ c.books = e.books
    BY <2>1, <2>2, StoredIs
  <2>4. x = c BY <2>1
  <2> HIDE DEF c, n
  <2>5. /\ x \in Engines /\ Len(x.orders) = i /\ x.orders[i] = o
        /\ \A k \in 1 .. Len(e.orders) : x.orders[k] = e.orders[k]
        /\ x.stops = e.stops /\ x.books = e.books
    BY <2>1, <2>3, <2>4
  <2>6. Adds(e, x, o, no)
    <3>1. \A p : Net(x, p) = Net(e, p) BY <2>5 DEF Net
    <3> QED BY <2>1, <2>2, <2>5, <3>1 DEF Adds
  <2>7. AddsTied(e, x, no, m.still)
    <3>1. no \notin 1 .. Len(x.stops) BY DEF no
    <3> QED BY <3>1 DEF AddsTied
  <2>8. Fine(o, Len(e.orders) + 1, quote, m)
    <3>1. "INTRADAY" \notin m.still BY <2>1 DEF Tidy, Calm
    <3> QED BY <2>1, <3>1 DEF Fine
  <2>9. Tidy(x, quote, m) BY <2>6, <2>7, <2>8, AddTidy
  <2>10. i \in 1 .. Len(x.orders) /\ i \in Nat BY <2>1, <2>2, <2>5
  <2>11. ExecuteOk(x, i, n, price, sq)
    <3>1. n \in 1 .. Left(x.orders[i]) /\ n = Left(x.orders[i]) BY <2>1, <2>5 DEF n
    <3>2. sq = TRUE BY DEF sq
    <3> QED BY <2>1, <2>5, <2>10, <3>1, <3>2 DEF ExecuteOk
  <2>12. Running(Execute(x, i, n, price, sq)) BY <1>1, <2>1
  <2>13. Tidy(Execute(x, i, n, price, sq), quote, m) BY <2>1, <2>9, <2>11, <2>12, ExecuteTidy
  <2>14. /\ Len(d.orders) = Len(x.orders)
         /\ \A k \in 1 .. Len(x.orders) : Live(d.orders[k]) => k # i /\ d.orders[k] = x.orders[k]
    <3>1. Sane(x, i) /\ Running(x) /\ Covered(x) BY <2>1
    <3>2. sq BY DEF sq
    <3>3. AllFilled(x, Execute(x, i, n, price, sq), i) BY <2>11, <2>12, <3>1, <3>2, ExecuteLives, Zenon
    <3> QED BY <2>1, <3>3 DEF AllFilled
  <2>15. Idle(d)
    <3> SUFFICES ASSUME NEW k \in 1 .. Len(d.orders), Live(d.orders[k]) PROVE d.orders[k].product # "INTRADAY"
      BY DEF Idle
    <3>1. k \in 1 .. Len(x.orders) /\ k # i /\ d.orders[k] = x.orders[k] BY <2>14
    <3>2. k \in 1 .. Len(e.orders) BY <2>1, <2>2, <2>5, <3>1
    <3>3. d.orders[k] = e.orders[k] BY <2>5, <3>1, <3>2
    <3> QED BY <3>2, <3>3 DEF Idle
  <2> QED BY <2>1, <2>13, <2>15
<1>4. Tidy(d, quote, m) /\ Idle(d) BY <1>1, <1>2, <1>3 DEF SquaresOff
<1> QED BY <1>4 DEF d

\* With no position and no order of a product, no stop of it is active.
LEMMA IdleCalm ==
  ASSUME NEW e, NEW quote, NEW m \in Modes, Tidy(e, quote, m), Idle(e), Net(e, "INTRADAY") = 0
  PROVE  Tidy(e, quote, [m EXCEPT !.still = {"INTRADAY"}])
<1> DEFINE n == [m EXCEPT !.still = {"INTRADAY"}]
           none == {}
<1>1. TiedBut(e, 0, none) /\ Quoted(e, quote) /\ Calm(e, m) BY DEF Tidy
<1>2. n.amo = m.amo /\ n.open = m.open /\ n.still = {"INTRADAY"} BY DEF Modes
<1>3. \A u : (u \in none) = FALSE OBVIOUS
<1> HIDE DEF n, none
<1>4. ASSUME NEW t \in 1 .. Len(e.stops), e.stops[t].product = "INTRADAY" PROVE ~Active(e.stops[t])
  <2> DEFINE s == e.stops[t]
             a == t \in none
             b == FALSE
  <2>1. StopTied(e, s, 0, a) BY <1>1 DEF TiedBut
  <2>2. a = b BY <1>3
  <2> HIDE DEF a, b
  <2>3. StopTied(e, s, 0, b) BY <2>1, <2>2
  <2>4. s.product = "INTRADAY" BY <1>4
  <2> HIDE DEF s
  <2>5. ~Opens(0, s.direction) BY DEF Opens
  <2>6. ~Protecting(s) BY <2>3, <2>4, <2>5 DEF StopTied, b
  <2>7. s.status # "PENDING_ENTRY"
    <3> SUFFICES ASSUME s.status = "PENDING_ENTRY" PROVE FALSE OBVIOUS
    <3>1. /\ s.entry \in 1 .. Len(e.orders) /\ e.orders[s.entry].product = s.product
          /\ Live(e.orders[s.entry]) \/ (s.entry = 0 /\ e.orders[s.entry].status = "EXECUTED")
      BY <2>3 DEF StopTied
    <3>2. s.entry # 0 BY <3>1
    <3> QED BY <2>4, <3>1, <3>2 DEF Idle
  <2> QED BY <2>6, <2>7 DEF Active, Protecting, s
<1>5. Calm(e, n)
  <2>1. \A p \in n.still : Net(e, p) = 0 BY <1>2
  <2>2. \A i \in 1 .. Len(e.orders) :
          /\ Live(e.orders[i]) => e.orders[i].product \notin n.still
          /\ e.orders[i].status = "AMO" => i \notin n.amo /\ e.orders[i].product # "INTRADAY"
          /\ e.orders[i].status = "OPEN" => i \notin n.open
    BY <1>1, <1>2 DEF Idle, Calm
  <2>3. \A t \in 1 .. Len(e.stops) : Active(e.stops[t]) => e.stops[t].product \notin n.still BY <1>2, <1>4
  <2> QED BY <2>1, <2>2, <2>3 DEF Calm
<1> QED BY <1>1, <1>5 DEF Tidy, none, n

LEMMA SquareTidy ==
  ASSUME NEW e, Whole(e, 0), Running(e), NEW now, now.ltp \in Prices \cup {None},
         NEW quote, NEW m \in Modes, m.open = {}, Tidy(e, quote, m)
  PROVE  Tidy(SquareOffIntraday(e, now), quote, [m EXCEPT !.still = {"INTRADAY"}])
<1> DEFINE T == StopsOn(e, "INTRADAY")
           x == CancelStops(e, T)
           I == OpenOrders(x) \cap OrdersIn(x, "INTRADAY")
           y == CancelOrders(x, I)
           z == ClosePositionOnly(y, now)
<1>1. e \in Engines BY DEF Whole, Sane
<1>2. SquareOffIntraday(e, now) = z BY DEF SquareOffIntraday, CancelOpenIn, StopsEnded
<1> HIDE DEF T
<1>3. Whole(x, 0) /\ Running(x) BY StopsCancelledWhole
<1>4. Tidy(x, quote, m) BY <1>1, StopsEndTidy
<1> HIDE DEF x
<1>5. x \in Engines BY <1>3 DEF Whole, Sane
<1>6. \A k \in 1 .. Len(x.orders) : k \in I <=> x.orders[k].status = "OPEN" /\ x.orders[k].product = "INTRADAY"
  BY <1>5, EngineLens DEF OpenOrders, OrdersIn
<1>7. I \in SUBSET LiveOrders(x) BY <1>5, LiveAre
<1> HIDE DEF I
<1>8. Whole(y, 0) /\ Running(y) BY <1>3, <1>7, OrdersCancelledWhole
<1>9. Tidy(y, quote, m) BY <1>4, <1>5, <1>7, CancelTidy
<1>10. /\ y \in After(x)
       /\ \A k \in 1 .. Len(x.orders) : IF k \in I THEN Ends(x, y, k) ELSE Stays(x, y, k)
  BY <1>5, <1>7, OrdersCancelled
<1> HIDE DEF y
<1>11. Idle(y)
  <2> SUFFICES ASSUME NEW k \in 1 .. Len(y.orders), Live(y.orders[k]) PROVE y.orders[k].product # "INTRADAY"
    BY DEF Idle
  <2>1. k \in 1 .. Len(x.orders) BY <1>5, <1>10, AfterIs
  <2>2. y.orders[k] = x.orders[k] BY <1>5, <1>10, <2>1, OrderAfter
  <2>3. k \notin I
    <3> SUFFICES ASSUME k \in I PROVE FALSE OBVIOUS
    <3>1. Live(x.orders[k]) /\ y.orders[k] = Cancelled(x.orders[k]) BY <1>10, <2>1 DEF Ends
    <3>2. x.orders[k] \in OrderRecords BY <1>5, <2>1, EngineLens
    <3>3. y.orders[k].status = "CANCELLED" BY <3>1, <3>2, CancelledOrder
    <3> QED BY <3>3 DEF Live
  <2>4. y.orders[k].status = "AMO" => y.orders[k].product # "INTRADAY" BY <1>9 DEF Tidy, Calm
  <2> QED BY <1>6, <2>1, <2>2, <2>3, <2>4 DEF Live
<1>12. Running(z) /\ Net(z, "INTRADAY") = 0 BY <1>8, PositionClosedOnly
<1>13. Tidy(z, quote, m) /\ Idle(z) BY <1>8, <1>9, <1>11, ClosedTidy
<1> HIDE DEF z
<1>14. Tidy(z, quote, [m EXCEPT !.still = {"INTRADAY"}]) BY <1>12, <1>13, IdleCalm
<1> QED BY <1>2, <1>14

LEMMA NewDayTidy ==
  ASSUME NEW e \in Engines, NEW quote, NEW m \in Modes, Tidy(e, quote, m),
         \A t \in 1 .. Len(e.stops) : ~Protecting(e.stops[t])
  PROVE  Tidy(NewDay(e), quote, m)
<1> DEFINE d == NewDay(e)
           none == {}
<1>1. TiedBut(e, 0, none) /\ Quoted(e, quote) /\ Calm(e, m) BY DEF Tidy
<1> HIDE DEF none
<1>2. d.orders = e.orders /\ d.stops = e.stops /\ d.books = [p \in Products |-> EmptyPosition]
  BY DEF NewDay, Engines
<1> HIDE DEF d
<1>3. ASSUME NEW t \in 1 .. Len(d.stops) PROVE StopTied(d, d.stops[t], 0, t \in none)
  <2> DEFINE a == t \in none
             s == e.stops[t]
  <2>1. StopTied(e, s, 0, a) /\ ~Protecting(s) /\ d.stops[t] = s BY <1>1, <1>2 DEF TiedBut
  <2> HIDE DEF a, s
  <2>2. StopTied(d, s, 0, a) BY <1>2, <2>1 DEF StopTied
  <2> QED BY <2>1, <2>2 DEF a
<1>4. Alone(d) BY <1>1, <1>2 DEF TiedBut, Alone
<1>5. TiedBut(d, 0, none) BY <1>3, <1>4 DEF TiedBut
<1>6. Quoted(d, quote) BY <1>1, <1>2 DEF Quoted
<1>7. \A p \in m.still : Net(d, p) = 0
  <2>1. m.still \subseteq Products BY DEF Modes, Products
  <2>2. EmptyPosition.netQty = 0 BY DEF EmptyPosition
  <2> QED BY <1>2, <2>1, <2>2 DEF Net
<1>8. Calm(d, m) BY <1>1, <1>2, <1>7 DEF Calm
<1>9. Tidy(d, quote, m) BY <1>5, <1>6, <1>8 DEF Tidy, none
<1> QED BY <1>9 DEF d

LEMMA CloseTidy ==
  ASSUME NEW e, Whole(e, 0), Running(e), NEW now, now.ltp \in Prices \cup {None},
         NEW quote, NEW m \in Modes, m.open = {}, Tidy(e, quote, m)
  PROVE  Tidy(CloseDay(e, now), quote, [m EXCEPT !.still = {"INTRADAY"}, !.open = Nat])
<1> DEFINE w == SquareOffIntraday(e, now)
           T == StopsOn(w, "DELIVERY")
           x == CancelStops(w, T)
           I == OpenOrders(x)
           y == CancelOrders(x, I)
           z == NewDay(y)
           still == {"INTRADAY"}
           whole == Nat
           n == [m EXCEPT !.still = still]
           l == [m EXCEPT !.still = still, !.open = whole]
<1>1. still \in SUBSET {"INTRADAY"} /\ whole \in SUBSET Nat OBVIOUS
<1>2. CloseDay(e, now) = z BY DEF CloseDay, CancelOpen, StopsEnded
<1>3. Tidy(w, quote, n) BY SquareTidy
<1>4. Whole(w, 0) /\ Running(w) BY SquaredOff
<1> HIDE DEF w, still, whole
<1>5. /\ n \in Modes /\ l \in Modes /\ n.still = still /\ l.still = still
      /\ n.amo = m.amo /\ l.amo = m.amo /\ l.open = whole
  BY <1>1 DEF Modes
<1> HIDE DEF n, l
<1>6. w \in Engines BY <1>4 DEF Whole, Sane
<1>7. \A t \in 1 .. Len(w.stops) : t \in T <=> w.stops[t].product = "DELIVERY"
  BY <1>6, EngineLens DEF StopsOn
<1> HIDE DEF T
<1>8. Whole(x, 0) /\ Running(x) BY <1>4, StopsCancelledWhole
<1>9. /\ Tidy(x, quote, n) /\ x \in After(w) /\ Kept(w, x)
      /\ \A t \in 1 .. Len(w.stops) : t \in T => ~Active(x.stops[t])
  BY <1>3, <1>6, StopsEndTidy
<1> HIDE DEF x
<1>10. x \in Engines /\ Len(x.stops) = Len(w.stops) BY <1>6, <1>9, AfterIs
<1>11. \A k \in 1 .. Len(x.orders) : k \in I <=> x.orders[k].status = "OPEN"
  BY <1>10, EngineLens DEF OpenOrders
<1>12. I \in SUBSET LiveOrders(x) BY <1>10, LiveAre
<1> HIDE DEF I
<1>13. /\ y \in After(x) /\ OnlyEnd(x, y)
       /\ \A k \in 1 .. Len(x.orders) : IF k \in I THEN Ends(x, y, k) ELSE Stays(x, y, k)
  BY <1>10, <1>12, OrdersCancelled
<1>14. Tidy(y, quote, n) BY <1>9, <1>10, <1>12, CancelTidy
<1> HIDE DEF y
<1>15. Kept(x, y) BY <1>10, <1>13, OnlyEndKept
<1>16. y \in Engines /\ Len(y.stops) = Len(x.stops) /\ Len(y.orders) = Len(x.orders) BY <1>10, <1>13, AfterIs
<1>17. \A k \in 1 .. Len(y.orders) : y.orders[k].status # "OPEN"
  <2> SUFFICES ASSUME NEW k \in 1 .. Len(y.orders), y.orders[k].status = "OPEN" PROVE FALSE OBVIOUS
  <2>1. k \in 1 .. Len(x.orders) /\ Live(y.orders[k]) BY <1>16 DEF Live
  <2>2. y.orders[k] = x.orders[k] BY <1>10, <1>13, <2>1, OrderAfter
  <2>3. k \in I BY <1>11, <2>1, <2>2
  <2>4. Live(x.orders[k]) /\ y.orders[k] = Cancelled(x.orders[k]) BY <1>13, <2>1, <2>3 DEF Ends
  <2>5. x.orders[k] \in OrderRecords BY <1>10, <2>1, EngineLens
  <2>6. y.orders[k].status = "CANCELLED" BY <2>4, <2>5, CancelledOrder
  <2> QED BY <2>6
<1>18. ASSUME NEW t \in 1 .. Len(y.stops) PROVE ~Protecting(y.stops[t])
  <2>1. t \in 1 .. Len(w.stops) /\ t \in 1 .. Len(x.stops) BY <1>10, <1>16
  <2>2. y.stops[t].product = w.stops[t].product /\ (Active(y.stops[t]) => Active(x.stops[t]))
    BY <1>9, <1>15, <2>1 DEF Kept
  <2>3. y.stops[t].product = "DELIVERY" => ~Active(y.stops[t]) BY <1>7, <1>9, <2>1, <2>2
  <2>4. y.stops[t].product = "INTRADAY" => ~Active(y.stops[t])
    BY <1>5, <1>14 DEF Tidy, Calm, still
  <2>5. y.stops[t].product \in Products
    <3>1. y.stops[t] \in StopRecords BY <1>16, EngineLens
    <3> QED BY <3>1 DEF StopRecords
  <2> QED BY <2>3, <2>4, <2>5 DEF Products, Active, Protecting
<1>19. Tidy(y, quote, l)
  <2> DEFINE none == {}
  <2>1. TiedBut(y, 0, none) /\ Quoted(y, quote) /\ Calm(y, n) BY <1>14 DEF Tidy
  <2> HIDE DEF none
  <2>2. Calm(y, l) BY <1>5, <1>17, <2>1 DEF Calm
  <2> QED BY <2>1, <2>2 DEF Tidy, none
<1>20. Tidy(z, quote, l) BY <1>5, <1>16, <1>18, <1>19, NewDayTidy
<1> QED BY <1>2, <1>20 DEF l, still, whole

\* What rests when the clock is at c and the engine was synced at s.
ModeAt(s, c) ==
  [still |-> IF ~AlwaysOpen /\ ((c % 3 = 2 /\ s = c) \/ (c % 3 = 0 /\ s >= c - 1)) THEN {"INTRADAY"} ELSE {},
   amo   |-> IF ~AlwaysOpen /\ ((c % 3 = 1 /\ s = c) \/ (c % 3 = 2 /\ s >= c - 1)) THEN Nat ELSE {},
   open  |-> IF ~AlwaysOpen /\ c % 3 = 0 /\ s = c THEN Nat ELSE {}]

LEMMA Thirds ==
  ASSUME NEW c \in Nat
  PROVE  /\ c % 3 \in {0, 1, 2}
         /\ (c + 1) % 3 = IF c % 3 = 2 THEN 0 ELSE (c % 3) + 1
OBVIOUS

LEMMA ModeIs ==
  ASSUME NEW c \in Nat, NEW s \in 0 .. c
  PROVE  ModeAt(s, c) \in Modes /\ Permits(ModeAt(s, c), s) /\ (s # c => ModeAt(s, c).open = {})
<1> DEFINE a == IF ~AlwaysOpen /\ ((c % 3 = 2 /\ s = c) \/ (c % 3 = 0 /\ s >= c - 1)) THEN {"INTRADAY"} ELSE {}
           b == IF ~AlwaysOpen /\ ((c % 3 = 1 /\ s = c) \/ (c % 3 = 2 /\ s >= c - 1)) THEN Nat ELSE {}
           o == IF ~AlwaysOpen /\ c % 3 = 0 /\ s = c THEN Nat ELSE {}
           m == ModeAt(s, c)
<1>1. m.still = a /\ m.amo = b /\ m.open = o /\ m = [still |-> a, amo |-> b, open |-> o] BY DEF ModeAt
<1>2. a \in SUBSET {"INTRADAY"} /\ b \in SUBSET Nat /\ o \in SUBSET Nat OBVIOUS
<1>3. s = c \/ s = c - 1 \/ s < c - 1 OBVIOUS
<1>4. s = c - 1 => s + 1 = c OBVIOUS
<1>5. s = c - 1 => (s + 1) % 3 = IF s % 3 = 2 THEN 0 ELSE (s % 3) + 1
  <2>1. s \in Nat OBVIOUS
  <2> QED BY <2>1, Thirds
<1>6. s % 3 \in {0, 1, 2} /\ c % 3 \in {0, 1, 2} BY Thirds
<1>7. a # {} => ~AlwaysOpen /\ s % 3 \in {0, 2} BY <1>3, <1>4, <1>5, <1>6
<1>8. b # {} => ~AlwaysOpen /\ s % 3 \in {1, 2} BY <1>3, <1>4, <1>5, <1>6
<1>9. o # {} => ~AlwaysOpen /\ s % 3 = 0 /\ s = c OBVIOUS
<1> HIDE DEF a, b, o, m
<1>10. m \in Modes BY <1>1, <1>2 DEF Modes
<1>11. Permits(m, s) BY <1>1, <1>7, <1>8, <1>9 DEF Permits, IntradayAt, OpenAt
<1> QED BY <1>1, <1>9, <1>10, <1>11 DEF m

LEMMA ModeLess ==
  ASSUME NEW c \in Nat, NEW s \in 0 .. c
  PROVE  /\ \A r \in 0 .. s : Calmer(ModeAt(r, c), ModeAt(s, c))
         /\ Calmer(ModeAt(s, c + 1), ModeAt(s, c))
<1>1. c % 3 \in {0, 1, 2} /\ (c + 1) % 3 = IF c % 3 = 2 THEN 0 ELSE (c % 3) + 1 BY Thirds
<1>2. ASSUME NEW r \in 0 .. s PROVE Calmer(ModeAt(r, c), ModeAt(s, c))
  <2>1. (r = c => s = c) /\ (r >= c - 1 => s >= c - 1) OBVIOUS
  <2> QED BY <2>1 DEF Calmer, ModeAt
<1>3. Calmer(ModeAt(s, c + 1), ModeAt(s, c))
  <2>1. s # c + 1 /\ (s >= (c + 1) - 1 => s = c /\ s >= c - 1) OBVIOUS
  <2> QED BY <1>1, <2>1 DEF Calmer, ModeAt
<1> QED BY <1>2, <1>3

\* What each event leaves.
LEMMA ModeNext ==
  ASSUME NEW c \in Nat, NEW k \in 1 .. c
  PROVE  LET m == ModeAt(k - 1, c)
             n == ModeAt(k, c) IN
         /\ k % 3 = 1 => Calmer(n, [m EXCEPT !.amo = Nat])
         /\ k % 3 = 2 => Calmer(n, [m EXCEPT !.still = {"INTRADAY"}])
         /\ k % 3 = 0 => Calmer(n, [m EXCEPT !.still = {"INTRADAY"}, !.open = Nat])
<1>1. k % 3 \in {0, 1, 2} /\ c % 3 \in {0, 1, 2} /\ (k + 1) % 3 = IF k % 3 = 2 THEN 0 ELSE (k % 3) + 1
  <2>1. k \in Nat OBVIOUS
  <2> QED BY <2>1, Thirds
<1>2. (k >= c - 1 => k = c \/ k + 1 = c) /\ k - 1 # c /\ (k = c => k - 1 >= c - 1) OBVIOUS
<1>3. CASE k % 3 = 1
  <2>1. ~(c % 3 = 2 /\ k = c) /\ ~(c % 3 = 0 /\ k >= c - 1) /\ ~(c % 3 = 0 /\ k = c) BY <1>1, <1>2, <1>3
  <2> QED BY <1>3, <2>1 DEF Calmer, ModeAt
<1>4. CASE k % 3 = 2
  <2>1. /\ ~(c % 3 = 1 /\ k = c) /\ ~(c % 3 = 0 /\ k = c)
        /\ c % 3 = 2 /\ k >= c - 1 => k - 1 >= c - 1
    BY <1>1, <1>2, <1>4
  <2> QED BY <1>4, <2>1 DEF Calmer, ModeAt
<1>5. CASE k % 3 = 0
  <2>1. ~(c % 3 = 1 /\ k = c) /\ ~(c % 3 = 2 /\ k >= c - 1) BY <1>1, <1>2, <1>5
  <2> QED BY <1>5, <2>1 DEF Calmer, ModeAt
<1> QED BY <1>1, <1>3, <1>4, <1>5

LEMMA EventTidy ==
  ASSUME NEW c \in Nat, NEW k \in 1 .. c, NEW e, NEW now, now.ltp \in Prices \cup {None}, now.at = k,
         Well(e, now.ltp, ModeAt(k - 1, c))
  PROVE  LET d == RunEvent(e, now) IN Well(d, now.ltp, ModeAt(k, c)) /\ Grows(e, d)
<1> DEFINE d == RunEvent(e, now)
           m == ModeAt(k - 1, c)
           n == ModeAt(k, c)
           quote == now.ltp
<1>1. Whole(e, 0) /\ now.at \in Nat /\ k - 1 \in 0 .. c /\ k - 1 # c BY DEF Well
<1>2. Whole(d, 0) /\ Grows(e, d) BY <1>1, EventRun
<1>3. m \in Modes /\ m.open = {} BY <1>1, ModeIs
<1>4. /\ k % 3 = 1 => Calmer(n, [m EXCEPT !.amo = Nat])
      /\ k % 3 = 2 => Calmer(n, [m EXCEPT !.still = {"INTRADAY"}])
      /\ k % 3 = 0 => Calmer(n, [m EXCEPT !.still = {"INTRADAY"}, !.open = Nat])
  BY ModeNext
<1>5. k % 3 \in {0, 1, 2}
  <2>1. k \in Nat OBVIOUS
  <2> QED BY <2>1, Thirds
<1>6. Running(e) => Tidy(e, quote, m) BY DEF Well
<1>7. /\ ~Running(e) => d = e
      /\ Running(e) /\ k % 3 = 1 => d = ReleaseAmos(e, now)
      /\ Running(e) /\ k % 3 = 2 => d = SquareOffIntraday(e, now)
      /\ Running(e) /\ k % 3 = 0 => d = CloseDay(e, now)
  <2>1. ~Running(e) => d = e BY Zenon DEF RunEvent, Running
  <2>2. ASSUME Running(e), k % 3 = 1 PROVE d = ReleaseAmos(e, now)
    <3>1. ~(e.broken # "") BY <2>2, Zenon DEF Running
    <3>2. now.at % 3 # 2 /\ now.at % 3 # 0 /\ now.at % 3 = 1 BY <2>2
    <3> QED BY <3>1, <3>2, Zenon DEF RunEvent, Running
  <2>3. ASSUME Running(e), k % 3 = 2 PROVE d = SquareOffIntraday(e, now)
    <3>1. ~(e.broken # "") BY <2>3, Zenon DEF Running
    <3>2. now.at % 3 # 1 /\ now.at % 3 # 0 /\ now.at % 3 = 2 BY <2>3
    <3> QED BY <3>1, <3>2, Zenon DEF RunEvent, Running
  <2>4. ASSUME Running(e), k % 3 = 0 PROVE d = CloseDay(e, now)
    <3>1. ~(e.broken # "") BY <2>4, Zenon DEF Running
    <3>2. now.at % 3 # 1 /\ now.at % 3 # 2 /\ now.at % 3 = 0 BY <2>4
    <3> QED BY <3>1, <3>2, Zenon DEF RunEvent, Running
  <2> QED BY <2>1, <2>2, <2>3, <2>4
<1> HIDE DEF d, m, n
<1>8. ASSUME Running(d), ~Running(e) PROVE Tidy(d, quote, n) BY <1>7, <1>8
<1>9. ASSUME Running(d), Running(e), k % 3 = 1 PROVE Tidy(d, quote, n)
  <2>1. d = ReleaseAmos(e, now) /\ Tidy(e, quote, m) BY <1>6, <1>7, <1>9
  <2>2. Running(ReleaseAmos(e, now)) BY <1>9, <2>1
  <2>3. Tidy(ReleaseAmos(e, now), quote, [m EXCEPT !.amo = Nat]) BY <1>1, <1>3, <1>9, <2>1, <2>2, AmosTidy
  <2> DEFINE l == [m EXCEPT !.amo = Nat]
  <2>4. Calmer(n, l) BY <1>4, <1>9
  <2> HIDE DEF l
  <2>5. Tidy(d, quote, l) BY <2>1, <2>3 DEF l
  <2> QED BY <2>4, <2>5, TidyLess
<1>10. ASSUME Running(d), Running(e), k % 3 = 2 PROVE Tidy(d, quote, n)
  <2> DEFINE l == [m EXCEPT !.still = {"INTRADAY"}]
  <2>1. d = SquareOffIntraday(e, now) /\ Tidy(e, quote, m) BY <1>6, <1>7, <1>10
  <2>2. Tidy(SquareOffIntraday(e, now), quote, l) BY <1>1, <1>3, <1>10, <2>1, SquareTidy
  <2>3. Calmer(n, l) BY <1>4, <1>10
  <2> HIDE DEF l
  <2>4. Tidy(d, quote, l) BY <2>1, <2>2
  <2> QED BY <2>3, <2>4, TidyLess
<1>11. ASSUME Running(d), Running(e), k % 3 = 0 PROVE Tidy(d, quote, n)
  <2> DEFINE l == [m EXCEPT !.still = {"INTRADAY"}, !.open = Nat]
  <2>1. d = CloseDay(e, now) /\ Tidy(e, quote, m) BY <1>6, <1>7, <1>11
  <2>2. Tidy(CloseDay(e, now), quote, l) BY <1>1, <1>3, <1>11, <2>1, CloseTidy
  <2>3. Calmer(n, l) BY <1>4, <1>11
  <2> HIDE DEF l
  <2>4. Tidy(d, quote, l) BY <2>1, <2>2
  <2> QED BY <2>3, <2>4, TidyLess
<1>12. Running(d) => Tidy(d, quote, n) BY <1>5, <1>8, <1>9, <1>10, <1>11
<1>13. Well(d, quote, n) BY <1>2, <1>12 DEF Well
<1> QED BY <1>2, <1>13 DEF d, n

LEMMA EventsTidy ==
  ASSUME NEW c \in Nat, NEW now \in Nows, now.at <= c, NEW e, e.synced <= c,
         Well(e, now.ltp, ModeAt(e.synced, c))
  PROVE  LET d == RunSchedule(e, now) IN Well(d, now.ltp, ModeAt(now.at, c)) /\ d.synced = now.at
<1> DEFINE V == {d \in Engines : Whole(d, 0) /\ Grows(e, d)}
           quote == now.ltp
           late(k) == IF k <= e.synced THEN e.synced ELSE k
           W(k) == {d \in V : Running(d) => Tidy(d, quote, ModeAt(late(k), c))}
           n == now.at
           At(k) == [now EXCEPT !.at = k]
           turn == [p \in (1 .. n) \X V |-> IF p[1] <= e.synced THEN e ELSE RunEvent(p[2], At(p[1]))]
           loop == CHOOSE g : g = [k \in 0 .. n |-> IF k <= e.synced THEN e ELSE RunEvent(g[k - 1], At(k))]
<1>1. e \in Engines /\ n \in Nat /\ e.synced \in Nat /\ Whole(e, 0)
  <2>1. e \in Engines /\ Whole(e, 0) BY DEF Well, Whole, Sane
  <2>2. e.synced \in Nat BY <2>1, EngineFields
  <2> QED BY <2>1, <2>2 DEF Nows
<1>2. e \in V
  <2>1. Same(e, e) BY DEF Same
  <2> QED BY <1>1, <2>1, GrowsFrom
<1>3. ASSUME NEW k \in 1 .. n, NEW v \in V
      PROVE (IF k <= e.synced THEN e ELSE RunEvent(v, At(k))) \in V
  <2> DEFINE then == At(k)
             d == RunEvent(v, then)
  <2>1. v \in Engines /\ Whole(v, 0) /\ Grows(e, v) OBVIOUS
  <2>2. then.ltp \in Prices \cup {None} /\ then.at \in Nat BY DEF Nows
  <2> HIDE DEF then
  <2>3. Whole(d, 0) /\ Grows(v, d) BY <2>1, <2>2, EventRun
  <2> HIDE DEF d
  <2>4. d \in Engines BY <2>3 DEF Whole, Sane
  <2>5. Grows(e, d) BY <1>1, <2>1, <2>3, <2>4, GrowsFrom
  <2>6. d \in V BY <2>3, <2>4, <2>5
  <2> HIDE DEF V
  <2> QED BY <1>2, <2>6, Zenon DEF d, then
<1>4. ASSUME NEW k \in 1 .. n, NEW v \in V
      PROVE turn[<<k, v>>] = IF k <= e.synced THEN e ELSE RunEvent(v, At(k))
  <2> HIDE DEF V, n, At
  <2> QED OBVIOUS
<1>5. \A k \in 1 .. n, v \in V : turn[<<k, v>>] \in V BY <1>3, <1>4, Zenon
<1>6. ASSUME NEW k \in 0 .. n, k <= e.synced PROVE e \in W(k)
  <2>1. late(k) = e.synced BY <1>6
  <2>2. Running(e) => Tidy(e, quote, ModeAt(e.synced, c)) BY DEF Well
  <2> HIDE DEF V, late
  <2> QED BY <1>2, <2>1, <2>2
<1>7. ASSUME NEW k \in 1 .. n, ~(k <= e.synced), NEW v \in W(k - 1) PROVE RunEvent(v, At(k)) \in W(k)
  <2> DEFINE then == At(k)
             d == RunEvent(v, then)
  <2>1. v \in V /\ Whole(v, 0) /\ (Running(v) => Tidy(v, quote, ModeAt(late(k - 1), c))) OBVIOUS
  <2>2. then.ltp = quote /\ quote \in Prices \cup {None} /\ then.at = k BY DEF Nows
  <2>3. late(k) = k /\ late(k - 1) = k - 1 /\ k \in 1 .. c BY <1>1, <1>7
  <2>4. (IF k <= e.synced THEN e ELSE d) \in V BY <1>3, <2>1
  <2>5. d \in V BY <1>7, <2>4
  <2> HIDE DEF V, late, then
  <2>6. Well(v, quote, ModeAt(k - 1, c)) BY <2>1, <2>3 DEF Well
  <2>7. Well(d, quote, ModeAt(k, c)) BY <2>2, <2>3, <2>6, EventTidy
  <2> HIDE DEF d
  <2>8. d \in W(k) BY <2>3, <2>5, <2>7 DEF Well
  <2> QED BY <2>8 DEF d, then
<1>8. \A k : W(k) \subseteq V OBVIOUS
<1> HIDE DEF V, turn, n, At, W
<1>9. PICK f : /\ f = [k \in 0 .. n |-> IF k = 0 THEN e ELSE turn[<<k, f[k - 1]>>]]
               /\ \A k \in 0 .. n : f[k] \in V
  <2>1. n \in Nat BY <1>1
  <2>2. Loops(V, e, n, turn) BY <1>2, <1>5, <2>1, LoopThere
  <2> QED BY <2>2, Zenon DEF Loops
<1>10. f = [k \in 0 .. n |-> IF k <= e.synced THEN e ELSE RunEvent(f[k - 1], At(k))]
  <2>1. \A k \in 0 .. n : (IF k = 0 THEN e ELSE turn[<<k, f[k - 1]>>])
                            = IF k <= e.synced THEN e ELSE RunEvent(f[k - 1], At(k))
    <3> SUFFICES ASSUME NEW k \in 0 .. n
                 PROVE (IF k = 0 THEN e ELSE turn[<<k, f[k - 1]>>])
                         = IF k <= e.synced THEN e ELSE RunEvent(f[k - 1], At(k)) OBVIOUS
    <3>1. CASE k = 0
      <4>1. k <= e.synced BY <1>1, <3>1
      <4> QED BY <3>1, <4>1
    <3>2. CASE k # 0
      <4>1. k \in 1 .. n /\ k - 1 \in 0 .. n BY <1>1, <3>2
      <4>2. f[k - 1] \in V BY <1>9, <4>1
      <4> QED BY <1>4, <3>2, <4>1, <4>2
    <3> QED BY <3>1, <3>2
  <2> QED BY <1>9, <2>1, Zenon
<1>11. loop = [k \in 0 .. n |-> IF k <= e.synced THEN e ELSE RunEvent(loop[k - 1], At(k))]
  BY <1>10
<1>12. RunSchedule(e, now) = [loop[n] EXCEPT !.synced = n] BY DEF RunSchedule, n, At
<1> HIDE DEF loop
<1> DEFINE U == [k \in 0 .. n |-> W(k)]
<1>13. loop[0] \in U[0]
  <2>1. 0 \in 0 .. n /\ 0 <= e.synced BY <1>1
  <2>2. loop[0] = IF 0 <= e.synced THEN e ELSE RunEvent(loop[0 - 1], At(0)) BY <1>11, <2>1, Zenon
  <2>3. e \in W(0) BY <1>6, <2>1
  <2> QED BY <2>1, <2>2, <2>3
<1>14. \A k \in 1 .. n : loop[k - 1] \in U[k - 1] => loop[k] \in U[k]
  <2> SUFFICES ASSUME NEW k \in 1 .. n, loop[k - 1] \in U[k - 1] PROVE loop[k] \in U[k] OBVIOUS
  <2>1. k \in 0 .. n /\ k - 1 \in 0 .. n BY <1>1
  <2>2. loop[k] = IF k <= e.synced THEN e ELSE RunEvent(loop[k - 1], At(k)) BY <1>11, <2>1, Zenon
  <2>3. loop[k - 1] \in W(k - 1) BY <2>1
  <2>4. loop[k] \in W(k) BY <1>6, <1>7, <2>1, <2>2, <2>3
  <2> QED BY <2>1, <2>4
<1>15. loop[n] \in W(n)
  <2>1. n \in Nat BY <1>1
  <2> HIDE DEF U
  <2>2. loop[n] \in U[n] BY <1>13, <1>14, <2>1, LoopPasses
  <2> QED BY <2>1, <2>2 DEF U
<1>16. PICK v : v = loop[n] OBVIOUS
<1>17. v \in Engines /\ (Running(v) => Tidy(v, quote, ModeAt(late(n), c)))
  BY <1>15, <1>16 DEF W, V
<1> DEFINE d == [v EXCEPT !.synced = n]
           b == RunSchedule(e, now)
<1>18. d \in Engines /\ d.orders = v.orders /\ d.stops = v.stops /\ d.books = v.books /\ d.broken = v.broken
       /\ d.synced = n
  <2>1. v \in Engines /\ n \in Nat BY <1>1, <1>17
  <2> QED BY <2>1 DEF Engines
<1>19. b = d BY <1>12, <1>16
<1>20. Whole(b, 0) BY <1>1, EventsRun
<1> HIDE DEF d, b
<1>21. Running(b) <=> Running(v) BY <1>18, <1>19, Zenon DEF Running
<1>22. ASSUME Running(b) PROVE Tidy(b, quote, ModeAt(n, c))
  <2> DEFINE l == late(n)
  <2>1. l \in 0 .. c /\ n \in 0 .. l BY <1>1 DEF n
  <2> HIDE DEF l
  <2>2. Tidy(v, quote, ModeAt(l, c)) BY <1>17, <1>21, <1>22 DEF l
  <2>3. Calmer(ModeAt(n, c), ModeAt(l, c)) BY <2>1, ModeLess
  <2>4. Tidy(v, quote, ModeAt(n, c)) BY <2>2, <2>3, TidyLess
  <2>5. b.orders = v.orders /\ b.stops = v.stops /\ \A p : Net(b, p) = Net(v, p) BY <1>18, <1>19 DEF Net
  <2> QED BY <2>4, <2>5, TidySame
<1>23. Well(b, quote, ModeAt(n, c)) /\ b.synced = n BY <1>18, <1>19, <1>20, <1>22 DEF Well
<1> QED BY <1>23 DEF b, n

LEMMA SyncTidy ==
  ASSUME NEW c \in Nat, NEW now \in Nows, now.at <= c, NEW e, e.synced <= c,
         Well(e, now.ltp, ModeAt(e.synced, c))
  PROVE  LET d == Sync(e, now) IN Well(d, now.ltp, ModeAt(now.at, c)) /\ d.synced = now.at
<1> DEFINE x == RunSchedule(e, now)
           y == MatchOpen(x, now)
           z == StepStops(y, now)
           quote == now.ltp
           m == ModeAt(now.at, c)
<1>1. Well(x, quote, m) /\ x.synced = now.at BY EventsTidy
<1>2. Sync(e, now) = z BY DEF Sync
<1>3. quote \in Prices \cup {None} /\ now.at \in 0 .. c BY DEF Nows
<1>4. m \in Modes /\ Permits(m, now.at) BY <1>3, ModeIs
<1> HIDE DEF x, m
<1>5. Well(y, quote, m) /\ Same(x, y) BY <1>1, <1>3, <1>4, MatchOpenWell
<1> HIDE DEF y
<1>6. Well(z, quote, m) /\ Grows(y, z) BY <1>4, <1>5, StepStopsWell
<1> HIDE DEF z
<1>7. z.synced = now.at BY <1>1, <1>5, <1>6 DEF Same, Grows
<1> QED BY <1>2, <1>6, <1>7 DEF m

-----------------------------------------------------------------------------
(* What is asked, tidy again: at the prices and the time of a call.        *)

Rested(e, now, m) ==
  /\ Whole(e, 0) /\ Running(e) /\ now \in Nows /\ m \in Modes /\ Permits(m, now.at)
  /\ Tidy(e, now.ltp, m)
Leaves(e, d, now, m) == (Running(d) => Tidy(d, now.ltp, m)) /\ d.synced = e.synced

LEMMA RestedIs ==
  ASSUME NEW e, NEW now, NEW m, Rested(e, now, m)
  PROVE  /\ e \in Engines /\ Whole(e, 0) /\ Running(e) /\ now \in Nows /\ m \in Modes /\ Permits(m, now.at)
         /\ Tidy(e, now.ltp, m) /\ now.ltp \in Prices \cup {None} /\ now.at \in Nat /\ StopsOk(e)
BY DEF Rested, Whole, Sane, Nows

LEMMA KeptTidy ==
  ASSUME NEW e, Whole(e, 0), Running(e), NEW i \in 1 .. Len(e.orders), NEW ioc,
         NEW quote, NEW m, Tidy(e, quote, m)
  PROVE  LET d == KeptUnlessIoc(e, i, ioc) IN Tidy(d, quote, m) /\ d.synced = e.synced
<1> DEFINE d == KeptUnlessIoc(e, i, ioc)
           I == {i}
<1>1. e \in Engines BY DEF Whole, Sane
<1>2. d.synced = e.synced
  <2>1. Same(e, d) BY KeptWhole
  <2> HIDE DEF d
  <2> QED BY <2>1 DEF Same
<1>3. CASE ioc /\ e.orders[i].status = "OPEN"
  <2>1. I \in SUBSET LiveOrders(e)
    <3>1. Live(e.orders[i]) BY <1>3 DEF Live
    <3> QED BY <1>1, <3>1, LiveAre
  <2>2. d = CancelOrders(e, I) BY <1>3 DEF KeptUnlessIoc
  <2> HIDE DEF d, I
  <2>3. Tidy(CancelOrders(e, I), quote, m) BY <1>1, <2>1, CancelTidy
  <2> QED BY <1>2, <2>2, <2>3 DEF d
<1>4. CASE ~(ioc /\ e.orders[i].status = "OPEN")
  <2>1. d = e BY <1>4 DEF KeptUnlessIoc
  <2> HIDE DEF d
  <2> QED BY <1>2, <2>1 DEF d
<1> QED BY <1>3, <1>4

IsStored(e, x, o, g, S) ==
  /\ e \in Engines /\ o \in OrderRecords /\ g \in Ledgers /\ S \in Seq(StopRecords)
  /\ x = Stored(e, o, g, S)

LEMMA StoredFrom ==
  ASSUME NEW e, NEW x, NEW o, NEW g, NEW S, IsStored(e, x, o, g, S)
  PROVE  /\ \A k \in 1 .. Len(e.orders) : x.orders[k] = e.orders[k]
         /\ x.stops = S /\ x.books = e.books /\ x.synced = e.synced
<1>1. LET c == Stored(e, o, g, S) IN
      /\ \A k \in 1 .. Len(e.orders) : c.orders[k] = e.orders[k]
      /\ c.stops = S /\ c.books = e.books /\ c.synced = e.synced
  BY StoredIs DEF IsStored
<1>2. x = Stored(e, o, g, S) BY DEF IsStored
<1> QED BY <1>1, <1>2

\* The order and the stop that waits for it.
Takes(e, d, params, now, x, o) ==
  /\ x = Taken(e, d, params, now) /\ o = NewOrder(d, StatusFor(e, d, now), FALSE)
  /\ x \in Engines /\ Len(x.orders) = Len(e.orders) + 1 /\ x.orders[Len(e.orders) + 1] = o
  /\ StopsWith(e, d, params, now) \in Seq(StopRecords)

LEMMA TakenTidy ==
  ASSUME NEW e, NEW now, NEW m, Rested(e, now, m), NEW d \in Drafts, NEW params,
         NEW x, NEW o, Takes(e, d, params, now, x, o)
  PROVE  Tidy(x, now.ltp, m) /\ x.synced = e.synced
<1> DEFINE i == Len(e.orders) + 1
           t == Len(e.stops) + 1
           g == CashFor(e, d, now)
           S == StopsWith(e, d, params, now)
           s == Attached(e, d, params)
           quote == now.ltp
<1>0. /\ x = Taken(e, d, params, now) /\ o = NewOrder(d, StatusFor(e, d, now), FALSE)
      /\ x \in Engines /\ Len(x.orders) = i /\ x.orders[i] = o
      /\ S \in Seq(StopRecords)
  BY Zenon DEF Takes
<1>1. /\ e \in Engines /\ now \in Nows /\ m \in Modes /\ Permits(m, now.at)
      /\ Tidy(e, quote, m) /\ now.at \in Nat
  BY RestedIs
<1>2. i \in Nat \ {0} /\ t \in Nat /\ e.stops \in Seq(StopRecords)
  <2>1. Len(e.orders) \in Nat /\ Len(e.stops) \in Nat BY <1>1, EngineLens
  <2>2. e.stops \in Seq(StopRecords) BY <1>1, EngineFields
  <2> QED BY <2>1, <2>2
<1>3. o \in OrderRecords
  <2>1. i \in 1 .. Len(x.orders) /\ x.orders[i] = o BY <1>0, <1>2
  <2> QED BY <1>0, <2>1, EngineLens
<1>4. x = Stored(e, o, g, S) BY <1>0, Zenon DEF Taken
<1>5. S \in Seq(StopRecords) BY <1>0
<1>6. S = IF Fits(e, d, now) /\ params # None THEN Append(e.stops, s) ELSE e.stops BY DEF StopsWith
<1>7. /\ s.status = "PENDING_ENTRY" /\ s.exit = None /\ s.entry = i /\ s.product = d.product
  BY DEF Attached, NewStop
<1>8. /\ o.product = d.product /\ o.status = StatusFor(e, d, now) /\ o.exit = FALSE
  BY <1>0 DEF NewOrder
<1>9. d.product \in Products BY DraftIs
<1> HIDE DEF g, S, s
<1>10. x.funds = g /\ g \in Ledgers
  <2>1. x.funds = g BY <1>1, <1>4 DEF Stored, Engines
  <2>2. x.funds \in Ledgers BY <1>0, EngineFields
  <2> QED BY <2>1, <2>2
<1>11. /\ \A k \in 1 .. Len(e.orders) : x.orders[k] = e.orders[k]
       /\ x.stops = S /\ x.books = e.books /\ x.synced = e.synced
  <2>1. IsStored(e, x, o, g, S) BY <1>1, <1>3, <1>4, <1>5, <1>10, Zenon DEF IsStored
  <2> QED BY <2>1, StoredFrom, Zenon
<1>12. /\ Fits(e, d, now) => o.status = IF OpenAt(now.at) THEN "OPEN" ELSE "AMO"
       /\ ~Fits(e, d, now) => o.status = "REJECTED"
  BY <1>8 DEF StatusFor
<1>13. Fine(o, i, quote, m)
  <2>1. CASE Fits(e, d, now)
    <3> DEFINE cash == e.funds.available
               sellable == SellableQty(e, 0)
    <3>1. ValidateOrder(d, now, cash, sellable) BY <2>1 DEF Fits
    <3>2. o.status = IF OpenAt(now.at) THEN "OPEN" ELSE "AMO" BY <1>12, <2>1
    <3>3. now.ltp = None => ~o.exit BY <1>8
    <3> HIDE DEF cash, sellable, i
    <3>4. Fine(o, i, now.ltp, m) BY <1>1, <1>8, <1>9, <3>1, <3>2, <3>3, Permitted
    <3> QED BY <3>4
  <2>2. CASE ~Fits(e, d, now)
    <3>1. o.status = "REJECTED" BY <1>12, <2>2
    <3> QED BY <3>1 DEF Fine, Live
  <2> QED BY <2>1, <2>2
<1>14. \/ Len(S) = t /\ S[t] = s /\ (\A u \in 1 .. Len(e.stops) : S[u] = e.stops[u]) /\ Fits(e, d, now)
       \/ S = e.stops
  BY <1>2, <1>6
<1>15. Adds(e, x, o, t)
  <2>1. \A p : Net(x, p) = Net(e, p) BY <1>11 DEF Net
  <2>2. \A u \in 1 .. Len(x.stops) : u # t => u \in 1 .. Len(e.stops) /\ x.stops[u] = e.stops[u]
    BY <1>2, <1>11, <1>14
  <2> QED BY <1>0, <1>1, <1>11, <2>1, <2>2 DEF Adds
<1>16. AddsTied(e, x, t, m.still)
  <2> SUFFICES ASSUME t \in 1 .. Len(x.stops)
               PROVE  /\ StopTied(x, x.stops[t], 0, FALSE)
                      /\ Protecting(x.stops[t]) => /\ t \in 1 .. Len(e.stops) /\ Protecting(e.stops[t])
                                                   /\ e.stops[t].product = x.stops[t].product
                      /\ Active(x.stops[t]) => x.stops[t].product \notin m.still
    BY DEF AddsTied
  <2>1. S[t] = s /\ Fits(e, d, now) BY <1>2, <1>11, <1>14
  <2>2. x.stops[t] = s BY <1>11, <2>1
  <2>3. ~Protecting(s) BY <1>7 DEF Protecting
  <2>4. Live(o) BY <1>12, <2>1 DEF Live
  <2>5. i \in 1 .. Len(x.orders) /\ x.orders[i] = o BY <1>0, <1>2
  <2>6. StopTied(x, s, 0, FALSE) BY <1>7, <1>8, <2>3, <2>4, <2>5 DEF StopTied
  <2>7. s.product \notin m.still BY <1>7, <1>8, <1>13, <2>4 DEF Fine
  <2> QED BY <2>2, <2>3, <2>6, <2>7
<1>17. Fine(o, Len(e.orders) + 1, quote, m) BY <1>13
<1> HIDE DEF t, i, quote
<1>18. Tidy(x, quote, m) BY <1>1, <1>15, <1>16, <1>17, AddTidy
<1> QED BY <1>11, <1>18 DEF quote

LEMMA PlacedTidy ==
  ASSUME NEW e, NEW now, NEW m, Rested(e, now, m), NEW d \in Drafts, NEW params, NEW p,
         Places(e, d, params, now, p)
  PROVE  Leaves(e, p, now, m)
<1> DEFINE i == Len(e.orders) + 1
           x == Taken(e, d, params, now)
           y == MatchLast(x, now)
           o == NewOrder(d, StatusFor(e, d, now), FALSE)
           ioc == d.validity = "IOC"
           quote == now.ltp
<1>1. /\ e \in Engines /\ now \in Nows /\ m \in Modes /\ Permits(m, now.at)
  BY RestedIs
<1>2. /\ Ready(x, i, o, now) /\ StopsWith(e, d, params, now) \in Seq(StopRecords)
      /\ Whole(y, 0) /\ Running(y) /\ Same(x, y) /\ i \in 1 .. Len(y.orders)
      /\ p = KeptUnlessIoc(y, i, ioc)
  BY Zenon DEF Places
<1>3. i \in Nat \ {0} BY <1>1, EngineLens
<1> HIDE DEF x, o, ioc
<1>4. /\ Sane(x, i) /\ Running(x) /\ Covered(x) /\ Len(x.orders) = i /\ x.orders[i] = o
      /\ x.orders[i].status = "OPEN" => MatchOk(x, i, now)
  BY <1>2, Zenon DEF Ready
<1>5. x \in Engines BY <1>4 DEF Sane
<1>6. Tidy(x, quote, m) /\ x.synced = e.synced
  <2>1. x = Taken(e, d, params, now) /\ o = NewOrder(d, StatusFor(e, d, now), FALSE) BY Zenon DEF x, o
  <2>2. Takes(e, d, params, now, x, o) BY <1>2, <1>4, <1>5, <2>1, Zenon DEF Takes
  <2> QED BY <2>2, TakenTidy
<1> HIDE DEF i
<1>7. i = Len(x.orders) /\ Running(MatchLast(x, now)) BY <1>2, <1>4
<1>8. Tidy(y, quote, m)
  <2> HIDE DEF quote
  <2>1. Tidy(x, quote, m) BY <1>6
  <2> QED BY <1>1, <1>3, <1>4, <1>7, <2>1, LastTidy
<1> HIDE DEF y
<1>9. Tidy(p, quote, m) /\ p.synced = y.synced
  <2> HIDE DEF quote
  <2> DEFINE k == KeptUnlessIoc(y, i, ioc)
  <2>1. Tidy(k, quote, m) /\ k.synced = y.synced BY <1>2, <1>8, KeptTidy
  <2> HIDE DEF k
  <2>2. p = k BY <1>2 DEF k
  <2> QED BY <2>1, <2>2
<1>10. y.synced = x.synced BY <1>2 DEF Same
<1> QED BY <1>6, <1>9, <1>10 DEF Leaves

LEMMA ModifiedTidy ==
  ASSUME NEW e, NEW now, NEW m, Rested(e, now, m), NEW i \in 1 .. Len(e.orders), NEW change \in Changes,
         NEW d, Amends(e, i, change, now, d)
  PROVE  Leaves(e, d, now, m)
<1> DEFINE o == e.orders[i]
           r == Amended(o, change)
           quote == now.ltp
           on == TRUE
<1>1. e \in Engines /\ m \in Modes /\ Tidy(e, quote, m) BY RestedIs
<1>2. o \in OrderRecords BY <1>1, EngineLens
<1>3. Live(o) /\ o.filled < change.qty /\ change.price \in Circuit \cup {None} BY DEF Amends
<1>4. PICK x : /\ Sane(x, i) /\ Running(x) /\ Covered(x) /\ Same(e, x) /\ x = Changed(e, i, r, x.funds)
               /\ IF o.status = "OPEN" THEN MatchOk(x, i, now) /\ d = Match(x, i, now, TRUE) ELSE d = x
  BY Zenon DEF Amends
<1> HIDE DEF o
<1>5. r \in OrderRecords /\ Live(r) /\ r.status = o.status /\ r.product = o.product /\ r.exit = o.exit
  BY <1>2, <1>3, OrderAmended
<1> HIDE DEF r
<1>6. x \in Engines BY <1>4 DEF Sane
<1> DEFINE g == x.funds
<1>7. g \in Ledgers BY <1>6, EngineFields
<1> HIDE DEF g
<1>8. Reshapes(e, x, i, r)
  <2> DEFINE c == Changed(e, i, r, g)
  <2>1. /\ c \in Engines /\ Len(c.orders) = Len(e.orders) /\ c.orders[i] = r
        /\ \A k \in 1 .. Len(e.orders) : k # i => c.orders[k] = e.orders[k]
        /\ c.stops = e.stops /\ c.books = e.books
    BY <1>1, <1>5, <1>7, ChangedIs
  <2> HIDE DEF c
  <2>2. x = c BY <1>4, Zenon DEF c, g
  <2>3. \A p : Net(c, p) = Net(e, p) BY <2>1 DEF Net
  <2> QED BY <1>1, <1>5, <2>1, <2>2, <2>3 DEF Reshapes, o
<1>9. r.status = "AMO" => i \notin m.amo /\ r.product # "INTRADAY"
  BY <1>1, <1>5 DEF Tidy, Calm, o
<1>10. r.status = "OPEN" => i \notin m.open
  BY <1>1, <1>5 DEF Tidy, Calm, o
<1>11. Live(e.orders[i]) BY <1>3 DEF o
<1> HIDE DEF quote
<1>12. Tidy(x, quote, m) BY <1>1, <1>5, <1>8, <1>9, <1>10, <1>11, TurnedTidy
<1>13. i \in 1 .. Len(x.orders) BY <1>8 DEF Reshapes
<1>14. x.synced = e.synced BY <1>4 DEF Same
<1>15. CASE o.status = "OPEN"
  <2>1. on \in BOOLEAN OBVIOUS
  <2>2. MatchOk(x, i, now) /\ d = Match(x, i, now, on) BY <1>4, <1>15
  <2> HIDE DEF on
  <2>3. ASSUME Running(d) PROVE Tidy(d, quote, m)
    <3>1. Running(Match(x, i, now, on)) BY <2>2, <2>3
    <3>2. Sane(x, i) /\ Running(x) /\ Covered(x) BY <1>4
    <3>3. Tidy(Match(x, i, now, on), quote, m)
      BY <1>1, <1>12, <1>13, <2>1, <2>2, <3>1, <3>2, MatchTidy
    <3> QED BY <2>2, <3>3
  <2>4. Same(x, d)
    <3> DEFINE f == Match(x, i, now, on)
    <3>1. Same(x, f) BY <1>4, <1>13, <2>1, <2>2, MatchSane
    <3> HIDE DEF f
    <3> QED BY <2>2, <3>1 DEF f
  <2>5. d.synced = e.synced BY <1>14, <2>4 DEF Same
  <2> QED BY <2>3, <2>5 DEF Leaves, quote
<1>16. CASE o.status # "OPEN"
  <2>1. d = x BY <1>4, <1>16
  <2> QED BY <1>12, <1>14, <2>1 DEF Leaves, quote
<1> QED BY <1>15, <1>16

LEMMA StopModifiedTidy ==
  ASSUME NEW e, NEW now, NEW m, Rested(e, now, m), NEW t \in 1 .. Len(e.stops), NEW d, Retrails(e, t, d)
  PROVE  Leaves(e, d, now, m)
<1> DEFINE s == e.stops[t]
           quote == now.ltp
<1>1. e \in Engines /\ m \in Modes /\ Tidy(e, quote, m) BY RestedIs
<1>2. PICK r \in StopRecords :
         /\ s.status \in {"PENDING_ENTRY", "ARMED", "TRAILING"} /\ r.status = s.status /\ r.product = s.product
         /\ r.direction = s.direction /\ r.qty = s.qty /\ r.entry = s.entry /\ r.exit = s.exit
         /\ d = StopSet(e, t, r)
  BY DEF Retrails
<1> HIDE DEF quote
<1>3. StopTied(e, s, 0, FALSE) /\ (Active(s) => s.product \notin m.still) BY <1>1, StopOfTidy
<1> HIDE DEF s
<1>4. StopTied(e, r, 0, FALSE)
  BY <1>2, <1>3 DEF StopTied, Protecting
<1>5. Protecting(r) => Protecting(s) /\ s.product = r.product BY <1>2 DEF Protecting
<1>6. Active(r) => r.product \notin m.still BY <1>2, <1>3 DEF Active
<1>7. Tidy(StopSet(e, t, r), quote, m) BY <1>1, <1>4, <1>5, <1>6, SetTidy DEF s
<1>8. d.synced = e.synced
  <2>1. StopSet(e, t, r).synced = e.synced BY <1>1 DEF StopSet, Engines
  <2> QED BY <1>2, <2>1
<1> QED BY <1>2, <1>7, <1>8 DEF Leaves, quote

\* An order, or a stop, cancelled.
LEMMA CancelledTidy ==
  ASSUME NEW e, NEW now, NEW m, Rested(e, now, m), NEW I \in SUBSET LiveOrders(e)
  PROVE  Leaves(e, CancelOrders(e, I), now, m)
<1> DEFINE quote == now.ltp
           d == CancelOrders(e, I)
<1>1. e \in Engines /\ Whole(e, 0) /\ Running(e) /\ m \in Modes /\ Tidy(e, quote, m) BY RestedIs
<1>2. d.synced = e.synced
  <2>1. Same(e, d) BY <1>1, OrdersCancelledWhole
  <2> HIDE DEF d
  <2> QED BY <2>1 DEF Same
<1> HIDE DEF quote
<1>3. Tidy(CancelOrders(e, I), quote, m) BY <1>1, CancelTidy
<1> HIDE DEF d
<1> QED BY <1>2, <1>3 DEF Leaves, d, quote

LEMMA StopCancelledTidy ==
  ASSUME NEW e, NEW now, NEW m, Rested(e, now, m), NEW T
  PROVE  Leaves(e, CancelStops(e, T), now, m)
<1> DEFINE quote == now.ltp
           d == CancelStops(e, T)
<1>1. e \in Engines /\ Whole(e, 0) /\ Running(e) /\ m \in Modes /\ Tidy(e, quote, m) BY RestedIs
<1>2. d.synced = e.synced
  <2>1. Same(e, d) BY <1>1, StopsCancelledWhole
  <2> HIDE DEF d
  <2> QED BY <2>1 DEF Same
<1> HIDE DEF quote
<1>3. Tidy(d, quote, m) BY <1>1, StopsEndTidy
<1> HIDE DEF d
<1> QED BY <1>2, <1>3 DEF Leaves, d, quote

\* With nothing in it, all is tidy.
LEMMA BareTidy ==
  ASSUME NEW d, Bare(d), NEW quote, NEW m \in Modes
  PROVE  Tidy(d, quote, m)
<1>1. Len(d.orders) = 0 /\ Len(d.stops) = 0 /\ \A p \in Products : Net(d, p) = 0 BY DEF Bare
<1>2. m.still \subseteq Products BY DEF Modes, Products
<1>3. (\A i \in 1 .. Len(d.orders) : FALSE) /\ (\A t \in 1 .. Len(d.stops) : FALSE) BY <1>1
<1>4. TiedBut(d, 0, {}) BY <1>3 DEF TiedBut, Alone
<1>5. Quoted(d, quote) BY <1>3 DEF Quoted
<1>6. Calm(d, m) BY <1>1, <1>2, <1>3 DEF Calm
<1> QED BY <1>4, <1>5, <1>6 DEF Tidy

\* A stop added for a position that has none left.
StopAdds(e, d, s) ==
  /\ e.stops \in Seq(StopRecords) /\ d.stops = Append(e.stops, s) /\ d.orders = e.orders
  /\ d.books = e.books /\ s \in StopRecords

LEMMA StopAddTidy ==
  ASSUME NEW e, NEW quote, NEW m, Tidy(e, quote, m), NEW s, NEW d, StopAdds(e, d, s),
         StopTied(e, s, 0, FALSE), Active(s) => s.product \notin m.still,
         Protecting(s) => \A t \in 1 .. Len(e.stops) :
                            ~(Protecting(e.stops[t]) /\ e.stops[t].product = s.product)
  PROVE  Tidy(d, quote, m)
<1> DEFINE none == {}
           n == Len(e.stops) + 1
           no == FALSE
           S == Append(e.stops, s)
<1>0. /\ e.stops \in Seq(StopRecords) /\ d.stops = S /\ d.orders = e.orders
      /\ d.books = e.books /\ s \in StopRecords
  BY DEF StopAdds
<1>1. TiedBut(e, 0, none) /\ Quoted(e, quote) /\ Calm(e, m) /\ StopTied(e, s, 0, no) BY DEF Tidy
<1>2. \A p : Net(d, p) = Net(e, p) BY <1>0 DEF Net
<1>3. Len(S) = n /\ n \in Nat \ {0} /\ S[n] = s /\ \A t \in 1 .. Len(e.stops) : S[t] = e.stops[t]
  BY <1>0
<1>4. \A t \in 1 .. Len(S) : t = n \/ t \in 1 .. Len(e.stops)
  <2>1. Len(e.stops) \in Nat BY <1>0
  <2> HIDE DEF S
  <2> QED BY <1>3, <2>1
<1> HIDE DEF n, none, no, S
<1>5. ASSUME NEW t \in 1 .. Len(d.stops) PROVE StopTied(d, d.stops[t], 0, t \in none)
  <2> DEFINE a == t \in none
  <2>1. a = no BY DEF no, none
  <2> HIDE DEF a
  <2>2. CASE t = n
    <3>1. StopTied(d, s, 0, no) BY <1>0, <1>1, <1>2, TiedSame
    <3> QED BY <1>0, <1>3, <2>1, <2>2, <3>1 DEF a
  <2>3. CASE t \in 1 .. Len(e.stops)
    <3>1. StopTied(e, e.stops[t], 0, a) BY <1>1, <2>3 DEF TiedBut, a
    <3>2. StopTied(d, e.stops[t], 0, a) BY <1>0, <1>2, <3>1, TiedSame
    <3> QED BY <1>0, <1>3, <2>3, <3>2 DEF a
  <2> QED BY <1>0, <1>4, <2>2, <2>3
<1>6. Alone(d)
  <2>1. Alone(e) BY <1>1 DEF TiedBut
  <2> SUFFICES ASSUME NEW t \in 1 .. Len(S), NEW u \in 1 .. Len(S),
                      Protecting(S[t]), Protecting(S[u]), S[t].product = S[u].product
               PROVE  t = u
    BY <1>0 DEF Alone
  <2>2. CASE t \in 1 .. Len(e.stops) /\ u \in 1 .. Len(e.stops) BY <1>3, <2>1, <2>2 DEF Alone
  <2>3. CASE t = n /\ u \in 1 .. Len(e.stops) BY <1>3, <2>3
  <2>4. CASE u = n /\ t \in 1 .. Len(e.stops) BY <1>3, <2>4
  <2> QED BY <1>4, <2>2, <2>3, <2>4
<1>7. TiedBut(d, 0, none) BY <1>5, <1>6 DEF TiedBut
<1>8. Quoted(d, quote) BY <1>0, <1>1 DEF Quoted
<1>9. Calm(d, m)
  <2>1. ASSUME NEW t \in 1 .. Len(d.stops), Active(d.stops[t]) PROVE d.stops[t].product \notin m.still
    <3>1. CASE t = n BY <1>0, <1>3, <2>1, <3>1
    <3>2. CASE t \in 1 .. Len(e.stops) BY <1>0, <1>1, <1>3, <2>1, <3>2 DEF Calm
    <3> QED BY <1>0, <1>4, <3>1, <3>2
  <2> QED BY <1>0, <1>1, <1>2, <2>1 DEF Calm
<1> QED BY <1>7, <1>8, <1>9 DEF Tidy, none

\* No stop of the product is left once those that protect are cancelled.
LEMMA NoneProtects ==
  ASSUME NEW e \in Engines, NEW product
  PROVE  LET d == CancelStops(e, ProtectingStops(e, product)) IN
         \A t \in 1 .. Len(d.stops) : ~(Protecting(d.stops[t]) /\ d.stops[t].product = product)
<1> DEFINE T == ProtectingStops(e, product)
           d == CancelStops(e, T)
<1>1. d \in After(e) /\ OnlyEnd(e, d) /\ \A t \in 1 .. Len(e.stops) : t \in T => ~Active(d.stops[t])
  <2> HIDE DEF T
  <2> QED BY StopsCancelled
<1>2. Len(d.stops) = Len(e.stops)
  <2> HIDE DEF d
  <2> QED BY <1>1, AfterIs
<1> HIDE DEF d
<1>3. ASSUME NEW t \in 1 .. Len(d.stops), Protecting(d.stops[t]), d.stops[t].product = product
      PROVE  FALSE
  <2>1. t \in 1 .. Len(e.stops) BY <1>2
  <2>2. e.stops[t] \in StopRecords BY <2>1, EngineLens
  <2>3. d.stops[t] # Cancelled(e.stops[t]) BY <1>3, <2>2, CancelledStop DEF Protecting
  <2>4. d.stops[t] = e.stops[t] BY <1>1, <2>1, <2>3 DEF OnlyEnd
  <2>5. t \in T
    <3>1. e.stops \in Seq(StopRecords) BY EngineFields
    <3>2. DOMAIN e.stops = 1 .. Len(e.stops) BY <3>1, SeqPlaces
    <3> QED BY <1>3, <2>1, <2>4, <3>2 DEF ProtectingStops, StopsOn
  <2> QED BY <1>1, <1>3, <2>1, <2>5 DEF Active, Protecting
<1> QED BY <1>3 DEF d, T

LEMMA StopPlacedTidy ==
  ASSUME NEW e, NEW now, NEW m, Rested(e, now, m), NEW product, NEW d, Replaces(e, product, d)
  PROVE  Leaves(e, d, now, m)
<1> DEFINE quote == now.ltp
           T == ProtectingStops(e, product)
           x == CancelStops(e, T)
           net == Net(e, product)
<1>1. e \in Engines /\ Whole(e, 0) /\ Running(e) /\ m \in Modes /\ Tidy(e, quote, m) BY RestedIs
<1>2. /\ net # 0
      /\ \E s \in StopRecords :
           /\ StopOk(s) /\ s.status \in {"ARMED", "TRAILING"} /\ s.product = product
           /\ s.direction = DirectionOf(net) /\ s.qty = Abs(net) /\ s.exit = None
           /\ d = WithStops(x, Append(x.stops, s))
  BY Zenon DEF Replaces
<1>3. PICK s \in StopRecords :
           /\ StopOk(s) /\ s.status \in {"ARMED", "TRAILING"} /\ s.product = product
           /\ s.direction = DirectionOf(net) /\ s.qty = Abs(net) /\ s.exit = None
           /\ d = WithStops(x, Append(x.stops, s))
  BY <1>2, Zenon
<1>4. \A t \in 1 .. Len(x.stops) : ~(Protecting(x.stops[t]) /\ x.stops[t].product = product)
  BY <1>1, NoneProtects
<1> HIDE DEF T
<1>5. Whole(x, 0) /\ Same(e, x) /\ x.books = e.books BY <1>1, StopsCancelledWhole
<1>6. Tidy(x, quote, m)
  <2> HIDE DEF quote
  <2> QED BY <1>1, StopsEndTidy
<1> HIDE DEF x, quote
<1>7. x \in Engines /\ x.stops \in Seq(StopRecords)
  <2>1. x \in Engines BY <1>5 DEF Whole, Sane
  <2> QED BY <2>1, EngineFields
<1>8. StopAdds(x, d, s) /\ d.synced = x.synced
  <2> DEFINE S == Append(x.stops, s)
  <2>1. S \in Seq(StopRecords) BY <1>7
  <2>2. d = [x EXCEPT !.stops = S] BY <1>3 DEF WithStops
  <2> HIDE DEF S
  <2>3. d.stops = S /\ d.orders = x.orders /\ d.books = x.books /\ d.synced = x.synced BY <1>7, <2>2 DEF Engines
  <2> QED BY <1>7, <2>3 DEF StopAdds, S
<1>9. Net(x, product) = net BY <1>5 DEF Net
<1> HIDE DEF net
<1>10. StopTied(x, s, 0, FALSE)
  BY <1>2, <1>3, <1>9 DEF StopTied, Opens
<1>11. Active(s) => s.product \notin m.still
  BY <1>2, <1>3, <1>6, <1>9 DEF Tidy, Calm
<1>12. Protecting(s) => \A t \in 1 .. Len(x.stops) :
                          ~(Protecting(x.stops[t]) /\ x.stops[t].product = s.product)
  BY <1>3, <1>4
<1>13. Tidy(d, quote, m) BY <1>6, <1>8, <1>10, <1>11, <1>12, StopAddTidy
<1> QED BY <1>5, <1>8, <1>13 DEF Leaves, Same, quote

LEMMA PositionClosedTidy ==
  ASSUME NEW e, NEW now, NEW m, Rested(e, now, m), NEW product \in Products
  PROVE  Leaves(e, PositionClosed(e, product, now), now, m)
<1> DEFINE net == Net(e, product)
           unprotected == CancelStops(e, ProtectingStops(e, product))
           alone == CancelOrders(unprotected, LiveOrders(unprotected) \cap OrdersIn(e, product))
           side == IF net > 0 THEN "SELL" ELSE "BUY"
           qty == Abs(net)
           d == [side |-> side, type |-> "MARKET", product |-> product, qty |-> qty, price |-> None]
           placed == PlaceExit(alone, d, now)
           y == MatchLast(placed, now)
           z == PositionClosed(e, product, now)
           quote == now.ltp
<1>1. /\ e \in Engines /\ Whole(e, 0) /\ Running(e) /\ now \in Nows /\ m \in Modes /\ Permits(m, now.at)
      /\ Tidy(e, quote, m) /\ quote \in Prices \cup {None}
  BY RestedIs
<1>2. Rested(e, now, m) OBVIOUS
<1>3. /\ Whole(unprotected, 0) /\ Running(unprotected) /\ Same(e, unprotected) /\ Leaves(e, unprotected, now, m)
  <2> DEFINE T == ProtectingStops(e, product)
  <2> HIDE DEF T
  <2>1. LET c == CancelStops(e, T) IN Whole(c, 0) /\ Running(c) /\ Same(e, c)
    BY <1>1, StopsCancelledWhole
  <2>2. Leaves(e, CancelStops(e, T), now, m) BY StopCancelledTidy
  <2> QED BY <2>1, <2>2 DEF T
<1>4. z = IF net = 0 THEN e ELSE y
  <2>1. CancelOrders(unprotected, LiveOrders(unprotected) \cap OrdersIn(e, product)) = alone OBVIOUS
  <2> HIDE DEF alone, unprotected
  <2> QED BY <2>1 DEF PositionClosed, unprotected
<1> HIDE DEF unprotected
<1>5. Rested(unprotected, now, m)
  <2> HIDE DEF quote
  <2> QED BY <1>1, <1>3 DEF Rested, Leaves
<1>6. Whole(alone, 0) /\ Running(alone) /\ Leaves(unprotected, alone, now, m)
  <2> DEFINE I == LiveOrders(unprotected) \cap OrdersIn(e, product)
  <2>1. I \in SUBSET LiveOrders(unprotected) OBVIOUS
  <2> HIDE DEF I
  <2>2. LET c == CancelOrders(unprotected, I) IN Whole(c, 0) /\ Running(c) BY <1>3, <2>1, OrdersCancelledWhole
  <2>3. Leaves(unprotected, CancelOrders(unprotected, I), now, m) BY <1>5, <2>1, CancelledTidy
  <2> QED BY <2>2, <2>3 DEF I
<1> HIDE DEF alone
<1>7. alone.synced = e.synced /\ Tidy(alone, quote, m) /\ alone \in Engines
  <2>1. alone \in Engines BY <1>6 DEF Whole, Sane
  <2> QED BY <1>3, <1>6, <2>1 DEF Leaves, Same
<1>8. CASE net # 0
  <2>1. net \in Int BY <1>1, BookFields
  <2>2. qty \in Nat \ {0}
    <3> HIDE DEF net
    <3> QED BY <1>8, <2>1 DEF Abs
  <2>3. side \in Sides BY DEF Sides
  <2> HIDE DEF qty, side
  <2>4. ExitDraft(d) /\ d.price = None
    <3>1. /\ d.side = side /\ d.type = "MARKET" /\ d.product = product /\ d.qty = qty /\ d.price = None OBVIOUS
    <3> QED BY <2>2, <2>3, <3>1 DEF ExitDraft
  <2> HIDE DEF d
  <2>5. /\ Whole(placed, 0) /\ Running(placed) /\ Len(placed.orders) = Len(alone.orders) + 1
        /\ placed.orders[Len(placed.orders)].exit /\ placed.stops = alone.stops
        /\ placed.synced = alone.synced
    BY <1>6, <2>4, ExitPlaced
  <2>6. Len(placed.orders) > 0 /\ Len(alone.orders) \in Nat
    <3>1. Len(alone.orders) \in Nat BY <1>7, EngineLens
    <3> QED BY <2>5, <3>1
  <2>7. \E o : ExitOf(alone, placed, d, o, now, m) BY <1>1, <1>7, <2>4, ExitFine
  <2> HIDE DEF placed
  <2>8. PICK o : ExitOf(alone, placed, d, o, now, m) BY <2>7
  <2> DEFINE t == 0
  <2>9. Adds(alone, placed, o, t) BY <1>7, <2>8, ExitAdds
  <2>10. AddsTied(alone, placed, t, m.still)
    <3>1. Len(alone.stops) \in Nat BY <1>7, EngineLens
    <3>2. ~(t \in 1 .. Len(placed.stops)) BY <2>5, <3>1
    <3> QED BY <3>2 DEF AddsTied
  <2> HIDE DEF t
  <2>11. Fine(o, Len(alone.orders) + 1, quote, m) BY <2>8 DEF ExitOf
  <2> HIDE DEF quote
  <2>12. Tidy(placed, quote, m) BY <1>7, <2>9, <2>10, <2>11, AddTidy
  <2> DEFINE i == Len(placed.orders)
  <2>13. i \in Nat \ {0} /\ i \in 1 .. Len(placed.orders) BY <2>5, <2>6
  <2>14. Sane(placed, i) /\ Covered(placed)
    <3> HIDE DEF i
    <3> QED BY <2>5, <2>13, SaneRests DEF Whole
  <2>15. placed.orders[i].status = "OPEN" => MatchOk(placed, i, now)
    <3>1. now.ltp \in Prices \cup {None} /\ placed.orders[i].exit BY <1>1, <2>5 DEF quote
    <3> HIDE DEF i
    <3> QED BY <3>1 DEF MatchOk
  <2>16. Running(MatchLast(placed, now)) /\ Same(placed, y)
    <3>1. now.ltp \in Prices \cup {None} BY <1>1 DEF quote
    <3> QED BY <2>5, <2>6, <3>1, ExitMatched
  <2> HIDE DEF i
  <2>17. i = Len(placed.orders) BY DEF i
  <2>18. Tidy(MatchLast(placed, now), quote, m)
    BY <1>1, <2>5, <2>12, <2>13, <2>14, <2>15, <2>16, <2>17, LastTidy
  <2>19. y.synced = e.synced BY <1>7, <2>5, <2>16 DEF Same
  <2> HIDE DEF z, net
  <2> QED BY <1>4, <1>8, <2>18, <2>19 DEF z, Leaves, quote
<1>9. CASE net = 0
  <2> HIDE DEF z, y
  <2>1. z = e BY <1>4, <1>9
  <2> QED BY <1>1, <2>1 DEF z, Leaves
<1> QED BY <1>8, <1>9

-----------------------------------------------------------------------------
(* The invariant of the stops, at every clock.                             *)

Tidied(e, price, c) == e.synced <= c /\ (Running(e) => Tidy(e, price, ModeAt(e.synced, c)))
TidyInv == EngineInv /\ Tidied(engine, ltp, clock)

\* What a sync leaves, at the clock or behind it.
LEMMA CaughtSettled ==
  ASSUME TidyInv, NEW at \in Nat, at <= clock
  PROVE  LET now == [ltp |-> ltp, at |-> at]
             d == Sync(engine, now) IN
         /\ now \in Nows /\ Well(d, now.ltp, ModeAt(at, clock)) /\ d.synced = at
         /\ Tidied(d, ltp, clock)
<1> DEFINE now == [ltp |-> ltp, at |-> at]
           d == Sync(engine, now)
<1>1. EngineInv /\ Tidied(engine, ltp, clock) BY DEF TidyInv
<1>2. now \in Nows /\ now.at = at /\ now.ltp = ltp BY <1>1, NowIs
<1>3. Whole(engine, 0) /\ clock \in Nat BY <1>1 DEF EngineInv
<1> HIDE DEF now
<1>4. engine.synced <= clock /\ Well(engine, now.ltp, ModeAt(engine.synced, clock))
  BY <1>1, <1>2, <1>3 DEF Tidied, Well
<1>5. Well(d, now.ltp, ModeAt(now.at, clock)) /\ d.synced = now.at
  <2>1. now.at <= clock BY <1>2
  <2> QED BY <1>2, <1>3, <1>4, <2>1, SyncTidy
<1> HIDE DEF d
<1>6. Tidied(d, ltp, clock) BY <1>2, <1>5 DEF Tidied, Well
<1> QED BY <1>2, <1>5, <1>6 DEF d, now

\* A call keeps it if what was asked does.
LEMMA CallSettles ==
  ASSUME TidyInv, NEW z, Called(z),
         Rested(Caught, Now, ModeAt(clock, clock)) => Leaves(Caught, z, Now, ModeAt(clock, clock))
  PROVE  Tidied(engine', ltp', clock')
<1> DEFINE m == ModeAt(clock, clock)
<1>1. clock \in Nat BY DEF TidyInv, EngineInv
<1>2. Now \in Nows /\ Well(Caught, Now.ltp, m) /\ Caught.synced = clock /\ Tidied(Caught, ltp, clock)
  <2>1. clock <= clock BY <1>1
  <2> QED BY <1>1, <2>1, CaughtSettled DEF Caught, Now
<1>3. Now.ltp = ltp /\ Now.at = clock BY DEF Now
<1>4. engine' = (IF Running(Caught) THEN z ELSE Caught) /\ ltp' = ltp /\ clock' = clock BY DEF Called
<1>5. m \in Modes /\ Permits(m, clock)
  <2>1. clock \in 0 .. clock BY <1>1
  <2> QED BY <1>1, <2>1, ModeIs
<1>6. CASE ~Running(Caught) BY <1>2, <1>4, <1>6
<1>7. CASE Running(Caught)
  <2> HIDE DEF m
  <2>1. Rested(Caught, Now, m) BY <1>2, <1>3, <1>5, <1>7 DEF Rested, Well
  <2>2. Leaves(Caught, z, Now, m) BY <2>1 DEF m
  <2>3. z.synced = clock /\ (Running(z) => Tidy(z, ltp, m)) BY <1>2, <1>3, <2>2 DEF Leaves
  <2>4. Tidied(z, ltp, clock) BY <1>1, <2>3 DEF Tidied, m
  <2> QED BY <1>4, <1>7, <2>4
<1> QED BY <1>6, <1>7

LEMMA OpensTidy == Init => TidyInv
<1> SUFFICES ASSUME Init PROVE TidyInv OBVIOUS
<1> DEFINE lots == [qty |-> HeldQty, cost |-> HeldCost]
           flat == [p \in Products |-> EmptyPosition]
<1>1. EngineInv BY OpensWhole
<1>2. PICK none : none = "" OBVIOUS
<1>3. engine = [orders |-> <<>>, stops |-> <<>>, books |-> flat, holding |-> lots, carried |-> lots,
               salesPnl |-> 0, pastPnl |-> 0, funds |-> OpeningCredit, capped |-> {},
               synced |-> 0, broken |-> none]
  BY <1>2, Zenon DEF Init
<1>4. ltp = None /\ clock = 0 BY DEF Init
<1>5. \A p \in Products : flat[p].netQty = 0 BY DEF EmptyPosition
<1> HIDE DEF lots, flat
<1>6. engine.synced = 0 /\ engine.orders = <<>> /\ engine.stops = <<>> /\ engine.books = flat BY <1>3
<1>7. Bare(engine) BY <1>5, <1>6 DEF Bare, Net
<1>8. ModeAt(0, 0) \in Modes
  <2>1. 0 \in Nat /\ 0 \in 0 .. 0 OBVIOUS
  <2> QED BY <2>1, ModeIs
<1> DEFINE m == ModeAt(0, 0)
<1> HIDE DEF m
<1>9. Tidy(engine, ltp, m) BY <1>7, <1>8, BareTidy DEF m
<1> DEFINE zero == 0
<1>10. engine.synced = zero /\ clock = zero /\ m = ModeAt(zero, zero) /\ zero <= zero BY <1>4, <1>6 DEF m
<1> HIDE DEF zero
<1>11. Tidied(engine, ltp, clock) BY <1>9, <1>10 DEF Tidied
<1> QED BY <1>1, <1>11 DEF TidyInv

LEMMA TickSettles == TidyInv /\ Tick => Tidied(engine', ltp', clock')
<1> SUFFICES ASSUME TidyInv, Tick PROVE Tidied(engine', ltp', clock') OBVIOUS
<1> DEFINE d == [engine EXCEPT !.capped = {}]
           m == ModeAt(engine.synced, clock)
<1>1. engine \in Engines /\ Tidied(engine, ltp, clock) BY DEF TidyInv, EngineInv, Whole, Sane
<1>2. engine' = d /\ ltp' \in Price /\ clock' = clock BY DEF Tick
<1>3. /\ d.orders = engine.orders /\ d.books = engine.books /\ d.broken = engine.broken
      /\ d.stops = engine.stops /\ d.synced = engine.synced
  BY <1>1 DEF Engines
<1> HIDE DEF d
<1>4. Running(d) => Running(engine) BY <1>3, Zenon DEF Running
<1>5. \A p : Net(d, p) = Net(engine, p) BY <1>3 DEF Net
<1> HIDE DEF m
<1>6. ASSUME Running(d) PROVE Tidy(d, ltp', m)
  <2>1. Tidy(engine, ltp, m) BY <1>1, <1>4, <1>6 DEF Tidied, m
  <2>2. ltp' # None
    <3>1. Price \subseteq Nat BY EngineAssumption
    <3>2. ltp' \in Nat BY <1>2, <3>1
    <3> QED BY <3>2, TrailAssumption
  <2>3. Quoted(engine, ltp') BY <2>2 DEF Quoted
  <2>4. Tidy(engine, ltp', m) BY <2>1, <2>3 DEF Tidy
  <2> DEFINE q == ltp'
  <2> HIDE DEF q
  <2>5. Tidy(engine, q, m) BY <2>4 DEF q
  <2>6. Tidy(d, q, m) BY <1>3, <1>5, <2>5, TidySame
  <2> QED BY <2>6 DEF q
<1>7. d.synced <= clock BY <1>1, <1>3 DEF Tidied
<1>8. m = ModeAt(d.synced, clock) BY <1>3 DEF m
<1> QED BY <1>2, <1>6, <1>7, <1>8 DEF Tidied

LEMMA ElapseSettles == TidyInv /\ Elapse => Tidied(engine', ltp', clock')
<1> SUFFICES ASSUME TidyInv, Elapse PROVE Tidied(engine', ltp', clock') OBVIOUS
<1>1. engine' = engine /\ ltp' = ltp /\ clock' = clock + 1 BY DEF Elapse
<1>2. engine \in Engines /\ clock \in Nat /\ Tidied(engine, ltp, clock)
  BY DEF TidyInv, EngineInv, Whole, Sane
<1>3. engine.synced \in Nat BY <1>2 DEF Engines
<1> DEFINE s == engine.synced
           m == ModeAt(s, clock + 1)
           n == ModeAt(s, clock)
<1>4. s \in 0 .. clock BY <1>2, <1>3 DEF Tidied
<1>5. Calmer(m, n)
  <2> HIDE DEF s
  <2> QED BY <1>2, <1>4, ModeLess
<1> HIDE DEF m, n
<1>6. ASSUME Running(engine) PROVE Tidy(engine, ltp, m)
  <2>1. Tidy(engine, ltp, n) BY <1>2, <1>6 DEF Tidied, n
  <2> QED BY <1>5, <2>1, TidyLess
<1>7. engine.synced <= clock + 1 BY <1>2, <1>3 DEF Tidied
<1>8. Tidied(engine, ltp, clock + 1) BY <1>6, <1>7 DEF Tidied, m
<1> QED BY <1>1, <1>8

LEMMA SyncSettles == TidyInv /\ SyncAt => Tidied(engine', ltp', clock')
<1> SUFFICES ASSUME TidyInv, SyncAt PROVE Tidied(engine', ltp', clock') OBVIOUS
<1>1. /\ \E at \in Most(0, clock - Replay) .. clock : engine' = Sync(engine, [ltp |-> ltp, at |-> at])
      /\ ltp' = ltp /\ clock' = clock
  BY DEF SyncAt
<1>2. PICK at \in Most(0, clock - Replay) .. clock : engine' = Sync(engine, [ltp |-> ltp, at |-> at])
  BY <1>1
<1>3. at \in Nat /\ at <= clock
  <2>1. clock \in Nat /\ Replay \in Nat BY EngineAssumption DEF TidyInv, EngineInv
  <2> QED BY <2>1 DEF Most
<1> DEFINE d == Sync(engine, [ltp |-> ltp, at |-> at])
<1>4. Tidied(d, ltp, clock) BY <1>3, CaughtSettled
<1> HIDE DEF d
<1> QED BY <1>1, <1>2, <1>4 DEF d

LEMMA PlaceSettles == TidyInv /\ Place => Tidied(engine', ltp', clock')
<1> SUFFICES ASSUME TidyInv, Place PROVE Tidied(engine', ltp', clock') OBVIOUS
<1>1. PICK d \in Drafts : Called(Placed(Caught, d, None, Now))
  BY Zenon DEF Place, Call, Called, Caught, Now, Running
<1> DEFINE z == Placed(Caught, d, None, Now)
           m == ModeAt(clock, clock)
<1>2. Rested(Caught, Now, m) => Leaves(Caught, z, Now, m)
  <2> SUFFICES ASSUME Rested(Caught, Now, m) PROVE Leaves(Caught, z, Now, m) OBVIOUS
  <2> HIDE DEF m
  <2>1. Whole(Caught, 0) /\ Running(Caught) /\ Now \in Nows BY RestedIs
  <2> DEFINE p == None
  <2>2. p \in StopParams \cup {None} OBVIOUS
  <2> HIDE DEF p
  <2>3. LET c == Placed(Caught, d, p, Now) IN Whole(c, 0) /\ (c = Caught \/ Places(Caught, d, p, Now, c))
    BY <2>1, <2>2, PlacedWhole
  <2>4. z = Placed(Caught, d, p, Now) BY DEF p
  <2> HIDE DEF z
  <2>5. CASE z = Caught BY <2>5, RestedIs DEF Leaves
  <2>6. CASE Places(Caught, d, p, Now, z) BY <2>6, PlacedTidy, Zenon
  <2> QED BY <2>3, <2>4, <2>5, <2>6
<1>3. Called(z) BY <1>1
<1> HIDE DEF z
<1> QED BY <1>2, <1>3, CallSettles DEF m

LEMMA PlaceWithStopSettles == TidyInv /\ PlaceWithStop => Tidied(engine', ltp', clock')
<1> SUFFICES ASSUME TidyInv, PlaceWithStop PROVE Tidied(engine', ltp', clock') OBVIOUS
<1>1. PICK d \in Drafts, p \in StopParams : Called(Placed(Caught, d, p, Now))
  BY Zenon DEF PlaceWithStop, Call, Called, Caught, Now, Running
<1> DEFINE z == Placed(Caught, d, p, Now)
           m == ModeAt(clock, clock)
<1>2. Rested(Caught, Now, m) => Leaves(Caught, z, Now, m)
  <2> SUFFICES ASSUME Rested(Caught, Now, m) PROVE Leaves(Caught, z, Now, m) OBVIOUS
  <2> HIDE DEF m
  <2>1. Whole(Caught, 0) /\ Running(Caught) /\ Now \in Nows BY RestedIs
  <2>2. p \in StopParams \cup {None} OBVIOUS
  <2>3. Whole(z, 0) /\ (z = Caught \/ Places(Caught, d, p, Now, z))
    BY <2>1, <2>2, PlacedWhole
  <2> HIDE DEF z
  <2>4. CASE z = Caught BY <2>4, RestedIs DEF Leaves
  <2>5. CASE Places(Caught, d, p, Now, z) BY <2>5, PlacedTidy, Zenon
  <2> QED BY <2>3, <2>4, <2>5
<1>3. Called(z) BY <1>1
<1> HIDE DEF z
<1> QED BY <1>2, <1>3, CallSettles DEF m

LEMMA ModifySettles == TidyInv /\ Modify => Tidied(engine', ltp', clock')
<1> SUFFICES ASSUME TidyInv, Modify PROVE Tidied(engine', ltp', clock') OBVIOUS
<1>0. EngineInv BY DEF TidyInv
<1>1. PICK i \in DOMAIN engine.orders, c \in Changes : Called(Modified(Caught, i, c, Now))
  BY Zenon DEF Modify, Call, Called, Caught, Now, Running
<1> DEFINE z == Modified(Caught, i, c, Now)
           m == ModeAt(clock, clock)
<1>2. Rested(Caught, Now, m) => Leaves(Caught, z, Now, m)
  <2> SUFFICES ASSUME Rested(Caught, Now, m) PROVE Leaves(Caught, z, Now, m) OBVIOUS
  <2> HIDE DEF m
  <2>1. Whole(Caught, 0) /\ Running(Caught) /\ Now \in Nows BY RestedIs
  <2>2. i \in 1 .. Len(Caught.orders) BY <1>0, CaughtPlaces
  <2>3. i \in OrderId
    <3>1. engine.orders \in Seq(OrderRecords) BY <1>0, EngineFields DEF EngineInv, Whole, Sane
    <3>2. DOMAIN engine.orders = 1 .. Len(engine.orders) /\ Len(engine.orders) \in Nat BY <3>1, SeqPlaces
    <3>3. Len(engine.orders) <= Cardinality(OrderId) BY <1>0 DEF EngineInv
    <3> QED BY <3>2, <3>3, FundsAssumption
  <2>4. z = Caught \/ Amends(Caught, i, c, Now, z) BY <2>1, <2>2, <2>3, ModifiedWhole
  <2> HIDE DEF z
  <2>5. CASE z = Caught BY <2>5, RestedIs DEF Leaves
  <2>6. CASE Amends(Caught, i, c, Now, z) BY <2>2, <2>6, ModifiedTidy, Zenon
  <2> QED BY <2>4, <2>5, <2>6
<1>3. Called(z) BY <1>1
<1> HIDE DEF z
<1> QED BY <1>2, <1>3, CallSettles DEF m

LEMMA CancelOrderSettles == TidyInv /\ CancelOrder => Tidied(engine', ltp', clock')
<1> SUFFICES ASSUME TidyInv, CancelOrder PROVE Tidied(engine', ltp', clock') OBVIOUS
<1>1. PICK i \in DOMAIN engine.orders : Called(CancelOrders(Caught, {i} \cap LiveOrders(Caught)))
  BY Zenon DEF CancelOrder, Call, Called, Caught, Now, Running
<1> DEFINE I == {i} \cap LiveOrders(Caught)
           z == CancelOrders(Caught, I)
           m == ModeAt(clock, clock)
<1>2. I \in SUBSET LiveOrders(Caught) OBVIOUS
<1>3. Called(z) BY <1>1
<1> HIDE DEF I, m
<1>4. Rested(Caught, Now, m) => Leaves(Caught, z, Now, m) BY <1>2, CancelledTidy
<1> HIDE DEF z
<1> QED BY <1>3, <1>4, CallSettles DEF m

LEMMA CancelTrailingStopSettles == TidyInv /\ CancelTrailingStop => Tidied(engine', ltp', clock')
<1> SUFFICES ASSUME TidyInv, CancelTrailingStop PROVE Tidied(engine', ltp', clock') OBVIOUS
<1>1. PICK t \in DOMAIN engine.stops : Called(CancelStops(Caught, {t}))
  BY Zenon DEF CancelTrailingStop, Call, Called, Caught, Now, Running
<1> DEFINE T == {t}
           z == CancelStops(Caught, T)
           m == ModeAt(clock, clock)
<1>2. Called(z) BY <1>1
<1> HIDE DEF T, m
<1>3. Rested(Caught, Now, m) => Leaves(Caught, z, Now, m) BY StopCancelledTidy
<1> HIDE DEF z
<1> QED BY <1>2, <1>3, CallSettles DEF m

LEMMA PlaceTrailingStopSettles == TidyInv /\ PlaceTrailingStop => Tidied(engine', ltp', clock')
<1> SUFFICES ASSUME TidyInv, PlaceTrailingStop PROVE Tidied(engine', ltp', clock') OBVIOUS
<1>1. PICK product \in Products, p \in StopParams : Called(StopPlaced(Caught, product, p, Now))
  BY Zenon DEF PlaceTrailingStop, Call, Called, Caught, Now, Running
<1> DEFINE z == StopPlaced(Caught, product, p, Now)
           m == ModeAt(clock, clock)
<1>2. Rested(Caught, Now, m) => Leaves(Caught, z, Now, m)
  <2> SUFFICES ASSUME Rested(Caught, Now, m) PROVE Leaves(Caught, z, Now, m) OBVIOUS
  <2> HIDE DEF m
  <2>1. Whole(Caught, 0) /\ Running(Caught) /\ Now \in Nows BY RestedIs
  <2>2. z = Caught \/ Replaces(Caught, product, z) BY <2>1, StopPlacedWhole
  <2> HIDE DEF z
  <2>3. CASE z = Caught BY <2>3, RestedIs DEF Leaves
  <2>4. CASE Replaces(Caught, product, z) BY <2>4, StopPlacedTidy, Zenon
  <2> QED BY <2>2, <2>3, <2>4
<1>3. Called(z) BY <1>1
<1> HIDE DEF z
<1> QED BY <1>2, <1>3, CallSettles DEF m

LEMMA ModifyTrailingStopSettles == TidyInv /\ ModifyTrailingStop => Tidied(engine', ltp', clock')
<1> SUFFICES ASSUME TidyInv, ModifyTrailingStop PROVE Tidied(engine', ltp', clock') OBVIOUS
<1>0. EngineInv BY DEF TidyInv
<1>1. PICK t \in DOMAIN engine.stops, p \in StopParams, price \in StopPrices \cup {None} :
           Called(StopModified(Caught, t, p, price, Now))
  BY Zenon DEF ModifyTrailingStop, Call, Called, Caught, Now, Running
<1> DEFINE z == StopModified(Caught, t, p, price, Now)
           m == ModeAt(clock, clock)
<1>2. Rested(Caught, Now, m) => Leaves(Caught, z, Now, m)
  <2> SUFFICES ASSUME Rested(Caught, Now, m) PROVE Leaves(Caught, z, Now, m) OBVIOUS
  <2> HIDE DEF m
  <2>1. Whole(Caught, 0) /\ Running(Caught) /\ Now \in Nows BY RestedIs
  <2>2. t \in 1 .. Len(Caught.stops) BY <1>0, CaughtPlaces
  <2>3. z = Caught \/ Retrails(Caught, t, z) BY <2>1, <2>2, StopModifiedWhole
  <2> HIDE DEF z
  <2>4. CASE z = Caught BY <2>4, RestedIs DEF Leaves
  <2>5. CASE Retrails(Caught, t, z) BY <2>2, <2>5, StopModifiedTidy, Zenon
  <2> QED BY <2>3, <2>4, <2>5
<1>3. Called(z) BY <1>1
<1> HIDE DEF z
<1> QED BY <1>2, <1>3, CallSettles DEF m

LEMMA ClosePositionSettles == TidyInv /\ ClosePosition => Tidied(engine', ltp', clock')
<1> SUFFICES ASSUME TidyInv, ClosePosition PROVE Tidied(engine', ltp', clock') OBVIOUS
<1>1. PICK product \in Products : Called(PositionClosed(Caught, product, Now))
  BY Zenon DEF ClosePosition, Call, Called, Caught, Now, Running
<1> DEFINE z == PositionClosed(Caught, product, Now)
           m == ModeAt(clock, clock)
<1> HIDE DEF m
<1>2. Rested(Caught, Now, m) => Leaves(Caught, z, Now, m) BY PositionClosedTidy
<1>3. Called(z) BY <1>1
<1> HIDE DEF z
<1> QED BY <1>2, <1>3, CallSettles DEF m

LEMMA ResetAccountSettles == TidyInv /\ ResetAccount => Tidied(engine', ltp', clock')
<1> SUFFICES ASSUME TidyInv, ResetAccount PROVE Tidied(engine', ltp', clock') OBVIOUS
<1>1. Called(Emptied(Caught))
  BY Zenon DEF ResetAccount, Call, Called, Caught, Now, Running
<1> DEFINE z == Emptied(Caught)
           m == ModeAt(clock, clock)
<1> HIDE DEF m
<1>2. Rested(Caught, Now, m) => Leaves(Caught, z, Now, m)
  <2> SUFFICES ASSUME Rested(Caught, Now, m) PROVE Leaves(Caught, z, Now, m) OBVIOUS
  <2>1. Whole(Caught, 0) /\ Running(Caught) /\ m \in Modes BY RestedIs
  <2>2. Bare(z) /\ z.synced = Caught.synced BY <2>1, EmptiedWhole
  <2> HIDE DEF z
  <2> DEFINE quote == Now.ltp
  <2> HIDE DEF quote
  <2>3. Tidy(z, quote, m) BY <2>1, <2>2, BareTidy
  <2> QED BY <2>2, <2>3 DEF Leaves, quote
<1>3. Called(z) BY <1>1
<1> HIDE DEF z
<1> QED BY <1>2, <1>3, CallSettles DEF m

\* What a call leaves settled is handed, so, to the next: at any clock, and after any delay.
THEOREM EngineTidies == Spec => []TidyInv
<1>1. Init => TidyInv BY OpensTidy
<1>2. TidyInv /\ [Next]_vars => Tidied(engine, ltp, clock)'
  <2>1. CASE Next
    <3> QED BY <2>1, TickSettles, ElapseSettles, SyncSettles, PlaceSettles, PlaceWithStopSettles,
            ModifySettles, CancelOrderSettles, PlaceTrailingStopSettles, ModifyTrailingStopSettles,
            CancelTrailingStopSettles, ClosePositionSettles, ResetAccountSettles, Zenon DEF Next
  <2>2. CASE UNCHANGED vars
    <3> SUFFICES ASSUME TidyInv PROVE Tidied(engine', ltp', clock') OBVIOUS
    <3>1. engine' = engine /\ ltp' = ltp /\ clock' = clock BY <2>2 DEF vars
    <3> QED BY <3>1 DEF TidyInv
  <2> QED BY <2>1, <2>2, Zenon
<1>3. TidyInv <=> EngineInv /\ Tidied(engine, ltp, clock) BY DEF TidyInv
<1> QED BY <1>1, <1>2, <1>3, EngineInvariant, PTL DEF Spec

\* What it says of the engine as it rests.
LEMMA SoundTidy ==
  ASSUME TidyInv, Sound
  PROVE  /\ engine \in Engines /\ clock \in Nat /\ engine.synced \in 0 .. clock
         /\ Tidy(engine, ltp, ModeAt(engine.synced, clock))
         /\ DOMAIN engine.orders = 1 .. Len(engine.orders) /\ DOMAIN engine.stops = 1 .. Len(engine.stops)
<1>1. Running(engine) BY Zenon DEF Sound, Running
<1>2. engine \in Engines /\ clock \in Nat /\ Tidied(engine, ltp, clock)
  BY DEF TidyInv, EngineInv, Whole, Sane
<1>3. engine.synced \in Nat BY <1>2 DEF Engines
<1>4. engine.orders \in Seq(OrderRecords) /\ engine.stops \in Seq(StopRecords) BY <1>2, EngineFields
<1>5. DOMAIN engine.orders = 1 .. Len(engine.orders) /\ DOMAIN engine.stops = 1 .. Len(engine.stops)
  BY <1>4, SeqPlaces
<1> QED BY <1>1, <1>2, <1>3, <1>5 DEF Tidied

\* A position has at most one stop, on its side and for all of it, whatever the prices, the orders and
\* the calls: partial fills, flips, replaced stops, exits that are rejected, the events of the session.
THEOREM EngineStopsFollow == Spec => []StopsFollowPositions
<1>1. TidyInv => StopsFollowPositions
  <2> SUFFICES ASSUME TidyInv, Sound, NEW t \in DOMAIN engine.stops, Protecting(engine.stops[t])
               PROVE  LET s == engine.stops[t] IN
                      /\ Opens(Net(engine, s.product), s.direction)
                      /\ s.qty = Abs(Net(engine, s.product))
                      /\ \A u \in DOMAIN engine.stops :
                           engine.stops[u].product = s.product /\ Protecting(engine.stops[u]) => u = t
    BY DEF StopsFollowPositions
  <2> DEFINE m == ModeAt(engine.synced, clock)
  <2>1. t \in 1 .. Len(engine.stops) /\ Tidy(engine, ltp, m) /\ DOMAIN engine.stops = 1 .. Len(engine.stops)
    BY SoundTidy
  <2> HIDE DEF m
  <2>2. StopTied(engine, engine.stops[t], 0, FALSE) BY <2>1, StopOfTidy
  <2>3. Alone(engine) BY <2>1 DEF Tidy, TiedBut
  <2> QED BY <2>1, <2>2, <2>3 DEF StopTied, Alone
<1> QED BY <1>1, EngineTidies, PTL

\* A stop and the order it hangs on end together, in every interleaving of calls, syncs and prices.
THEOREM EngineStopsEnd == Spec => []StopsEndWithOrders
<1>1. TidyInv => StopsEndWithOrders
  <2> SUFFICES ASSUME TidyInv, Sound, NEW t \in DOMAIN engine.stops
               PROVE  LET s == engine.stops[t] IN
                      /\ s.exit # None => (s.status = "TRIGGERED") = Live(engine.orders[s.exit])
                      /\ s.status = "TRIGGERED" => s.exit # None
                      /\ s.status = "PENDING_ENTRY" => Live(engine.orders[s.entry])
    BY DEF StopsEndWithOrders
  <2> DEFINE m == ModeAt(engine.synced, clock)
             s == engine.stops[t]
  <2>1. t \in 1 .. Len(engine.stops) /\ Tidy(engine, ltp, m) BY SoundTidy
  <2> HIDE DEF m
  <2>2. StopTied(engine, s, 0, FALSE) BY <2>1, StopOfTidy
  <2> HIDE DEF s
  <2>3. s.exit # None => (Live(engine.orders[s.exit]) => s.status = "TRIGGERED") BY <2>2 DEF StopTied
  <2>4. s.status = "TRIGGERED" => s.exit # None /\ Live(engine.orders[s.exit]) BY <2>2 DEF StopTied
  <2>5. s.exit # None => (s.status = "TRIGGERED") = Live(engine.orders[s.exit])
    BY <2>3, <2>4 DEF Live
  <2>6. s.status = "PENDING_ENTRY" => Live(engine.orders[s.entry])
    <3>1. s.entry \in 1 .. Len(engine.orders) => s.entry # 0 OBVIOUS
    <3> QED BY <2>2, <3>1 DEF StopTied
  <2> QED BY <2>4, <2>5, <2>6 DEF s
<1> QED BY <1>1, EngineTidies, PTL

\* Nothing intraday outlives its session and no order the session it waits for, however many events a
\* sync has to run and whatever exits, fills and releases they set off.
THEOREM EngineOvernight == Spec => []NothingOvernight
<1>1. TidyInv => NothingOvernight
  <2> SUFFICES ASSUME TidyInv, Sound, ~AlwaysOpen, engine.synced = clock
               PROVE  /\ clock % 3 # 1 =>
                           /\ Net(engine, "INTRADAY") = 0
                           /\ \A i \in DOMAIN engine.orders :
                                engine.orders[i].product = "INTRADAY" => ~Live(engine.orders[i])
                           /\ \A t \in DOMAIN engine.stops :
                                engine.stops[t].product = "INTRADAY" => ~Active(engine.stops[t])
                      /\ \A i \in DOMAIN engine.orders :
                           engine.orders[i].status # IF clock % 3 = 0 THEN "OPEN" ELSE "AMO"
    BY DEF NothingOvernight
  <2> DEFINE m == ModeAt(clock, clock)
  <2>1. /\ clock \in Nat /\ Tidy(engine, ltp, m)
        /\ DOMAIN engine.orders = 1 .. Len(engine.orders) /\ DOMAIN engine.stops = 1 .. Len(engine.stops)
    BY SoundTidy
  <2>2. clock % 3 \in {0, 1, 2} /\ clock >= clock - 1 BY <2>1, Thirds
  <2>3. /\ clock % 3 # 1 => "INTRADAY" \in m.still
        /\ clock % 3 # 0 => m.amo = Nat
        /\ clock % 3 = 0 => m.open = Nat
    BY <2>2 DEF ModeAt
  <2> HIDE DEF m
  <2>4. Calm(engine, m) BY <2>1 DEF Tidy
  <2>5. ASSUME clock % 3 # 1
        PROVE  /\ Net(engine, "INTRADAY") = 0
               /\ \A i \in 1 .. Len(engine.orders) :
                    engine.orders[i].product = "INTRADAY" => ~Live(engine.orders[i])
               /\ \A t \in 1 .. Len(engine.stops) :
                    engine.stops[t].product = "INTRADAY" => ~Active(engine.stops[t])
    <3>1. "INTRADAY" \in m.still BY <2>3, <2>5
    <3> QED BY <2>4, <3>1 DEF Calm
  <2>6. ASSUME NEW i \in 1 .. Len(engine.orders)
        PROVE  engine.orders[i].status # IF clock % 3 = 0 THEN "OPEN" ELSE "AMO"
    <3>1. i \in Nat OBVIOUS
    <3>2. /\ engine.orders[i].status = "AMO" => i \notin m.amo
          /\ engine.orders[i].status = "OPEN" => i \notin m.open
      BY <2>4 DEF Calm
    <3> QED BY <2>3, <3>1, <3>2
  <2> QED BY <2>1, <2>5, <2>6
<1> QED BY <1>1, EngineTidies, PTL
=============================================================================
