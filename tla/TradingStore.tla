---------------------------- MODULE TradingStore ----------------------------
(* The web client's trading store (packages/apiClient/src/tradingStore.ts): *)
(* the signed-in user's orders, loaded from GET /v1/account/state and then  *)
(* kept up by accountDelta frames.  Every operator is one synchronous piece *)
(* of it, from a store to the store it leaves; AccountFeed runs them.  A    *)
(* trailing stop is kept as an order is, and the positions and funds of a   *)
(* frame replace those before it as its orders do, so orders stand for all. *)
(*                                                                          *)
(* LoadedAlone and StillLoading are not part of the specification: each is  *)
(* a bug the definition after it could have had, for the mutation runs.     *)
EXTENDS Integers, Sequences

CONSTANTS
  Order,          \* orders of the account
  None

Copies    == [at : Nat, seq : Nat]
Frames    == [seq : Nat, orders : UNION {[changed -> Copies] : changed \in SUBSET Order}]
Snapshots == [seq : Nat, orders : [Order -> {None} \cup Copies]]

ASSUME StoreAssumption == None \notin Copies /\ None \notin Snapshots /\ None \notin Seq(Frames)

\* The stores whose held frames are of `frames`.
Stores(frames) ==
  [status : {"idle", "loading", "ready", "error"}, seq : Nat, orders : [Order -> {None} \cup Copies],
   held : {None} \cup Seq(frames), loading : BOOLEAN, epoch : Nat]

\* A copy of an order: `at` tells which of its states it is, `seq` what it carries as its `seq`
\* (0 for none: orders loaded from Postgres have none until they change).
Copy(at, seq) == [at |-> at, seq |-> seq]

\* status, seq, the orders shown, `held` and `loading` (null is None and FALSE), and `epoch`.
Empty(epoch) ==
  [status |-> "idle", seq |-> 0, orders |-> [o \in Order |-> None],
   held |-> None, loading |-> FALSE, epoch |-> epoch]

\* An older copy does not replace a newer one.
Newer(copy, shown) == IF shown # None /\ shown.seq > copy.seq THEN shown ELSE copy

PutOrder(store, o, copy) == [store EXCEPT !.orders[o] = Newer(copy, @)]

\* A load begins, unless one is under way.
Resync(store) ==
  IF store.status = "idle" \/ store.loading THEN store
  ELSE [store EXCEPT !.held = <<>>, !.loading = TRUE]

CarriesItsSeq(frame) == \E o \in DOMAIN frame.orders : frame.orders[o].seq = frame.seq

ApplyFrame(store, frame) ==
  IF frame.seq < store.seq THEN store
  ELSE IF frame.seq > store.seq /\ ~CarriesItsSeq(frame) THEN Resync(store)
  ELSE [store EXCEPT !.seq = frame.seq,
         !.orders = [o \in Order |-> IF o \in DOMAIN frame.orders THEN Newer(frame.orders[o], @[o])
                                     ELSE @[o]]]

Ingest(store, frame) ==
  CASE store.status = "idle" -> store
    [] store.status # "idle" /\ store.held # None -> [store EXCEPT !.held = Append(@, frame)]
    [] store.status # "idle" /\ store.held = None ->
         IF store.status = "ready" THEN ApplyFrame(store, frame) ELSE store

LoadedAlone(store, snapshot) ==
  [store EXCEPT !.status = "ready", !.held = None, !.loading = FALSE,
                !.seq = snapshot.seq, !.orders = snapshot.orders]

\* A load of this epoch answers: everything is replaced, then the frames held meanwhile apply; a
\* gap among them asks for nothing, as `loading` is cleared only after.
Loaded(store, snapshot) ==
  LET replaced == [store EXCEPT !.status = "ready", !.held = None,
                                !.seq = snapshot.seq, !.orders = snapshot.orders]
      after[n \in 0 .. Len(store.held)] ==
        IF n = 0 THEN replaced ELSE ApplyFrame(after[n - 1], store.held[n])
  IN [after[Len(store.held)] EXCEPT !.loading = FALSE]

StillLoading(store) ==
  [store EXCEPT !.status = IF @ = "loading" THEN "error" ELSE @, !.held = None]

LoadFailed(store) ==
  [store EXCEPT !.status = IF @ = "loading" THEN "error" ELSE @, !.held = None, !.loading = FALSE]

Start(store) ==
  Resync([store EXCEPT !.status = IF @ \in {"idle", "error"} THEN "loading" ELSE @])

Clear(store) == Empty(store.epoch + 1)

\* The socket is open (again).
Opened(store, wasOpen) == IF wasOpen /\ store.status = "ready" THEN Resync(store) ELSE store
=============================================================================
