------------------------------ MODULE OrderBook ------------------------------
(***************************************************************************)
(* One instrument's order book in the matcher                              *)
(* (packages/paperEngine/src/orderBook.ts): resting orders, trailing stops *)
(* and price alerts, indexed by heaps so that a tick reads only what it    *)
(* acts on.  Entries that were replaced or removed stay in their heap      *)
(* until they reach its top.                                               *)
(*                                                                         *)
(* A heap is the set of its entries; what the code's binary heap pops, in  *)
(* which order, is the order of their keys.  Sequence numbers, which the   *)
(* code only ever compares for one id, count each id's placements.         *)
(*                                                                         *)
(* StopKeysUnmarked, StillLive and DrainedFurther are not part of the      *)
(* specification: each is a bug the definition after it could have had,    *)
(* for the mutation runs.                                                  *)
(***************************************************************************)
EXTENDS TrailingStop

CONSTANTS
  OrderId, StopId, AlertId,
  Version,    \* account versions a command may carry
  Price,      \* prices of ticks, orders, alerts and activations, in paise
  Infinity,   \* above every price: the key of a short stop that activates at any price
  Trail,      \* the trails of the stops
  MaxPlaced   \* bound: how often one order, stop or alert is put in a heap

Ids == OrderId \cup StopId \cup AlertId

BookOrders == [version : Version, side : {"BUY", "SELL"}, price : Price]
BookAlerts == [condition : {"ABOVE", "BELOW"}, price : Price]
HeldStops  == [version : Version, state : Stops]
Versions   == [version : Version, crossed : BOOLEAN]

ASSUME BookAssumption ==
  /\ Version \subseteq Nat /\ Price \subseteq Nat \ {0} /\ Trail \subseteq Trails
  /\ Infinity \in Nat /\ \A p \in Price : p < Infinity
  /\ MaxPlaced \in Nat
  /\ None \notin BookOrders /\ None \notin BookAlerts
  /\ None \notin HeldStops /\ None \notin Versions
  /\ OrderId \cap StopId = {} /\ OrderId \cap AlertId = {} /\ StopId \cap AlertId = {}

VARIABLES
  orders,    \* #orders: resting LIMIT orders, or None
  stops,     \* #stops: live trailing stops, or None
  alerts,    \* #alerts: active price alerts, or None
  versions,  \* #orderVersions and #stopVersions
  heaps,     \* the ten heaps
  placed,    \* the sequence number each id was last put in a heap with
  out        \* the last tick, if it is the last change, and what it returned

vars == <<orders, stops, alerts, versions, heaps, placed, out>>

HighFirst == {"buys", "longStops", "shortMarks", "shortArmed", "below"}
LowFirst  == {"sells", "shortStops", "longMarks", "longArmed", "above"}
Heaps     == HighFirst \cup LowFirst

-----------------------------------------------------------------------------
(* The index.                                                              *)

OrderKeys(o) == {<<IF o.side = "BUY" THEN "buys" ELSE "sells", o.price>>}
AlertKeys(a) == {<<IF a.condition = "ABOVE" THEN "above" ELSE "below", a.price>>}

StopKeysUnmarked(state) ==
  LET long == state.direction = "LONG" IN
  IF state.status = "ARMED"
    THEN {<<IF long THEN "longArmed" ELSE "shortArmed",
            IF state.activation # None THEN state.activation ELSE IF long THEN 0 ELSE Infinity>>}
    ELSE {<<IF long THEN "longStops" ELSE "shortStops", state.stop>>}

\* An armed stop waits for its activation price, a short one without any for every price.
StopKeys(state) ==
  LET long == state.direction = "LONG" IN
  IF state.status = "ARMED"
    THEN {<<IF long THEN "longArmed" ELSE "shortArmed",
            IF state.activation # None THEN state.activation ELSE IF long THEN 0 ELSE Infinity>>}
    ELSE {<<IF long THEN "longStops" ELSE "shortStops", state.stop>>,
          <<IF long THEN "longMarks" ELSE "shortMarks", state.watermark>>}

\* The entries of an id at its keys: those in a heap, and all of them pushed on the heaps.
Entries(id, seq, keys, h) ==
  {[id |-> id, seq |-> seq, key |-> k[2]] : k \in {k \in keys : k[1] = h}}
Pushed(hs, id, seq, keys) == [h \in Heaps |-> hs[h] \cup Entries(id, seq, keys, h)]

\* What a tick at ltp acts on, in each heap.
Acts(h, key, ltp) ==
  CASE h = "longMarks"  -> ltp > key
    [] h = "shortMarks" -> ltp < key
    [] h \in HighFirst \ {"shortMarks"} -> ltp <= key
    [] h \in LowFirst \ {"longMarks"}   -> ltp >= key

Ahead(h, e, f) == IF h \in HighFirst THEN e.key > f.key ELSE e.key < f.key

\* #drain: the live entries a tick acts on, and the heap without them and without the stale
\* entries above its first live one.  A stale entry level with that one is left where it is.
StillLive(held, seqs, e) == held[e.id] # None
Live(held, seqs, e) == held[e.id] # None /\ e.seq = seqs[e.id]
Hit(heap, h, held, seqs, ltp) == {e.id : e \in {e \in heap : Live(held, seqs, e) /\ Acts(h, e.key, ltp)}}
DrainedFurther(heap, h, held, seqs, ltp) ==
  LET waiting == {e \in heap : Live(held, seqs, e) /\ ~Acts(h, e.key, ltp)}
  IN  {e \in heap : \E w \in waiting : Ahead(h, w, e)}
Drained(heap, h, held, seqs, ltp) ==
  LET waiting == {e \in heap : Live(held, seqs, e) /\ ~Acts(h, e.key, ltp)}
  IN  {e \in heap : \E w \in waiting : ~Ahead(h, e, w)}

-----------------------------------------------------------------------------
Quiet == [ltp |-> None, crossed |-> {}, triggered |-> {}, moved |-> {}, fired |-> {}]

Init ==
  /\ orders = [o \in OrderId |-> None]
  /\ stops = [s \in StopId |-> None]
  /\ alerts = [a \in AlertId |-> None]
  /\ versions = [i \in OrderId \cup StopId |-> None]
  /\ heaps = [h \in Heaps |-> {}]
  /\ placed = [i \in Ids |-> 0]
  /\ out = Quiet

Newer(id, version) == versions[id] # None => version > versions[id].version
Crossed(id, version) == versions[id] = [version |-> version, crossed |-> TRUE]

Seen(id, version) ==
  versions' = [versions EXCEPT ![id] = [version |-> version, crossed |-> FALSE]]

Place(id, keys) ==
  /\ placed[id] < MaxPlaced
  /\ placed' = [placed EXCEPT ![id] = @ + 1]
  /\ heaps' = Pushed(heaps, id, placed[id] + 1, keys)

PutOrder(id, order) ==
  /\ Seen(id, order.version)
  /\ orders' = [orders EXCEPT ![id] = order]
  /\ IF orders[id] # None /\ OrderKeys(orders[id]) = OrderKeys(order)
       THEN UNCHANGED <<heaps, placed>>
       ELSE Place(id, OrderKeys(order))
  /\ out' = Quiet
  /\ UNCHANGED <<stops, alerts>>

\* Putting back what no tick took off at that version is an upsert.
UpsertOrder(id, order)  == Newer(id, order.version) /\ PutOrder(id, order)
RestoreOrder(id, order) == Crossed(id, order.version) /\ PutOrder(id, order)

RemoveOrder(id, version) ==
  /\ Newer(id, version)
  /\ Seen(id, version)
  /\ orders' = [orders EXCEPT ![id] = None]
  /\ out' = Quiet
  /\ UNCHANGED <<stops, alerts, heaps, placed>>

PutStop(id, stop) ==
  /\ Seen(id, stop.version)
  /\ IF stop.state.status \in {"ARMED", "TRAILING"}
       THEN stops' = [stops EXCEPT ![id] = stop] /\ Place(id, StopKeys(stop.state))
       ELSE stops' = [stops EXCEPT ![id] = None] /\ UNCHANGED <<heaps, placed>>
  /\ out' = Quiet
  /\ UNCHANGED <<orders, alerts>>

UpsertStop(id, stop)  == Newer(id, stop.version) /\ PutStop(id, stop)
RestoreStop(id, stop) == Crossed(id, stop.version) /\ PutStop(id, stop)

RemoveStop(id, version) ==
  /\ Newer(id, version)
  /\ Seen(id, version)
  /\ stops' = [stops EXCEPT ![id] = None]
  /\ out' = Quiet
  /\ UNCHANGED <<orders, alerts, heaps, placed>>

AddAlert(id, alert) ==
  /\ alerts[id] = None
  /\ alerts' = [alerts EXCEPT ![id] = alert]
  /\ Place(id, AlertKeys(alert))
  /\ out' = Quiet
  /\ UNCHANGED <<orders, stops, versions>>

RemoveAlert(id) ==
  /\ alerts[id] # None
  /\ alerts' = [alerts EXCEPT ![id] = None]
  /\ out' = Quiet
  /\ UNCHANGED <<orders, stops, versions, heaps, placed>>

-----------------------------------------------------------------------------
(* A tick.                                                                 *)

\* One pass over one stop heap: each stop it hits is stepped, and taken off or placed again.
StopPass(b, h, ltp) ==
  LET hit       == Hit(b.heaps[h], h, b.stops, b.placed, ltp)
      stepped   == [s \in hit |-> [b.stops[s] EXCEPT !.state = StepTrailingStop(@, ltp)]]
      triggered == {s \in hit : Triggers(b.stops[s].state, ltp)}
      moved     == hit \ triggered
      left(g)   == IF g = h THEN Drained(b.heaps[h], h, b.stops, b.placed, ltp) ELSE b.heaps[g]
      again(g)  == UNION {Entries(s, b.placed[s] + 1, StopKeys(stepped[s].state), g) : s \in moved}
  IN  [stops |-> [s \in StopId |->
         IF s \in triggered THEN None ELSE IF s \in moved THEN stepped[s] ELSE b.stops[s]],
       placed |-> [i \in Ids |-> IF i \in moved THEN b.placed[i] + 1 ELSE b.placed[i]],
       heaps |-> [g \in Heaps |-> left(g) \cup again(g)],
       triggered |-> b.triggered \cup {<<s, stepped[s]>> : s \in triggered},
       moved |-> b.moved \cup {<<s, stepped[s]>> : s \in moved}]

\* Triggers first, then ratchets, then activations.
Standing == [stops |-> stops, placed |-> placed, heaps |-> heaps, triggered |-> {}, moved |-> {}]
TriggersDone(ltp) == StopPass(StopPass(Standing, "longStops", ltp), "shortStops", ltp)
RatchetsDone(ltp) == StopPass(StopPass(TriggersDone(ltp), "longMarks", ltp), "shortMarks", ltp)
StopsAfter(ltp)   == StopPass(StopPass(RatchetsDone(ltp), "longArmed", ltp), "shortArmed", ltp)

Tick(ltp) ==
  LET held(h)   == IF h \in {"buys", "sells"} THEN orders ELSE alerts
      hit(h)    == Hit(heaps[h], h, held(h), placed, ltp)
      crossed   == hit("buys") \cup hit("sells")
      fired     == hit("above") \cup hit("below")
      after     == StopsAfter(ltp)
      triggered == {t[1] : t \in after.triggered}
  IN /\ orders' = [o \in OrderId |-> IF o \in crossed THEN None ELSE orders[o]]
     /\ alerts' = [a \in AlertId |-> IF a \in fired THEN None ELSE alerts[a]]
     /\ stops' = after.stops
     /\ versions' = [i \in OrderId \cup StopId |->
          IF i \in crossed \cup triggered THEN [versions[i] EXCEPT !.crossed = TRUE] ELSE versions[i]]
     /\ placed' = after.placed
     /\ \A i \in Ids : placed'[i] <= MaxPlaced
     /\ heaps' = [h \in Heaps |->
          IF h \in {"buys", "sells", "above", "below"}
            THEN Drained(heaps[h], h, held(h), placed, ltp) ELSE after.heaps[h]]
     /\ out' = [ltp |-> ltp, crossed |-> {<<o, orders[o]>> : o \in crossed}, fired |-> fired,
                triggered |-> after.triggered, moved |-> after.moved]

-----------------------------------------------------------------------------
(* The changes that reach a book: any order or alert; a stop that waits,   *)
(* one the engine trails from some watermark, or one that has ended.       *)

StopStates ==
  LET armed == {ArmedState(d, t, a) : d \in Directions, t \in Trail, a \in Price \cup {None}}
  IN  armed \cup {Activated(s, p) : s \in {s \in armed : s.activation = None}, p \in Price}
            \cup {[s EXCEPT !.status = "ENDED"] : s \in {s \in armed : s.activation = None}}
BookStops == [version : Version, state : StopStates]

OrdersChange ==
  \/ \E id \in OrderId, o \in BookOrders : UpsertOrder(id, o) \/ RestoreOrder(id, o)
  \/ \E id \in OrderId, v \in Version : RemoveOrder(id, v)
StopsChange ==
  \/ \E id \in StopId, s \in BookStops : UpsertStop(id, s) \/ RestoreStop(id, s)
  \/ \E id \in StopId, v \in Version : RemoveStop(id, v)
AlertsChange ==
  \E id \in AlertId : RemoveAlert(id) \/ \E a \in BookAlerts : AddAlert(id, a)

Next == OrdersChange \/ StopsChange \/ AlertsChange \/ \E ltp \in Price : Tick(ltp)

Spec == Init /\ [][Next]_vars

-----------------------------------------------------------------------------
(* Properties.                                                             *)

Entry == [id : Ids, seq : 1 .. MaxPlaced, key : Int]

TypeOK ==
  /\ orders \in [OrderId -> BookOrders \cup {None}]
  /\ stops \in [StopId -> HeldStops \cup {None}]
  /\ \A s \in StopId : stops[s] # None => stops[s].state.status \in {"ARMED", "TRAILING"}
  /\ alerts \in [AlertId -> BookAlerts \cup {None}]
  /\ versions \in [OrderId \cup StopId -> Versions \cup {None}]
  /\ heaps \in [Heaps -> SUBSET Entry]
  /\ placed \in [Ids -> 0 .. MaxPlaced]

\* Where an id's entries of one sequence number stand.
KeysOf(hs, seq, id) ==
  UNION {{<<h, e.key>> : e \in {e \in hs[h] : e.id = id /\ e.seq = seq}} : h \in Heaps}

\* orderBook.ts #drain: what rests on the book is in its heaps at its own keys and nowhere else;
\* whatever else is in a heap is taken for stale.
RestingIsIndexed ==
  LET at(id) == KeysOf(heaps, placed[id], id) IN
  /\ \A o \in OrderId : orders[o] # None => at(o) = OrderKeys(orders[o])
  /\ \A s \in StopId : stops[s] # None => at(s) = StopKeys(stops[s].state)
  /\ \A a \in AlertId : alerts[a] # None => at(a) = AlertKeys(alerts[a])

\* trailingStop.ts: a tick leaves a trailing stop on the safe side of its price, or triggers it,
\* and never moves its stop price against the position.
TicksOnlyTighten ==
  [][\A ltp \in Price, s \in StopId :
       Tick(ltp) /\ stops'[s] # None /\ stops'[s].state.status = "TRAILING" =>
         LET before == stops[s].state  after == stops'[s].state IN
         /\ ~Reached(after.direction, ltp, after.stop)
         /\ before.status = "TRAILING" =>
              IF after.direction = "LONG" THEN after.stop >= before.stop
                                          ELSE after.stop <= before.stop]_vars

\* orderBook.ts: "a tick leaves each stop exactly where stepping every stop would", crosses every
\* order its price crosses and fires every alert it reaches, though it reads only the heaps' tops.
Plain == INSTANCE PlainBook
ActsOnAll == Plain!Spec
=============================================================================
