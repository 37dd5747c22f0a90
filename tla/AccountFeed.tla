----------------------------- MODULE AccountFeed -----------------------------
(***************************************************************************)
(* How one user's account reaches their screen: the API process publishes  *)
(* every commit on the user's Redis channel (updatePublisher.ts), a node   *)
(* of apps/realtime subscribes to it while the user has a socket there     *)
(* (orderFeed.ts) and sends it to the sockets (hub.ts), each opened for a  *)
(* session that must not be revoked (app.ts, sessionRevocationFeed.ts);    *)
(* the page's client reconnects (wsClient.ts) and feeds the trading store, *)
(* which loads the account over HTTP (TradingStore).                       *)
(*                                                                         *)
(* The user's requests are served by one API process, which keeps its      *)
(* engine; commits are numbered, and number n is also the seq of the       *)
(* orders it changed.  A message reaches the node and its sockets in one   *)
(* step.  A session is numbered by the sign-in it began with; sockets that *)
(* a signed-out page opens are refused at once, and left out.              *)
(*                                                                         *)
(* NewestCommand and CheckedOnce are not part of the specification: each   *)
(* is a bug the definition after it could have had, for the mutation runs. *)
(***************************************************************************)
EXTENDS TradingStore, SequencesExt, FiniteSetsExt

CONSTANTS
  LoadedAt,     \* commits before the process loaded its engine
  MaxCommits,   \* bound: commits
  MaxSockets,   \* bound: sockets opened
  MaxSignIns,   \* bound: times the user signs in
  FaultKinds,   \* the faults that may happen, of those named in `Faulty`
  MaxFaults     \* bound: faults in a behaviour

ASSUME FeedAssumption ==
  /\ LoadedAt \in Nat /\ MaxCommits \in Nat /\ LoadedAt <= MaxCommits
  /\ MaxSockets \in Nat /\ MaxSignIns \in Nat /\ MaxFaults \in Nat

VARIABLES
  log,        \* the account: per commit, the orders it changed
  sending,    \* commits the API process has still to publish
  replies,    \* answers to the user's requests on their way: an order and the commit
  conn,       \* the node's sockets: where each is, and its session
  wire,       \* per socket, what is on its way to the client
  commands,   \* the node's queue of SUBSCRIBE and UNSUBSCRIBE
  subscribed, \* whether Redis sends the user's channel to the node
  marked,     \* sessions marked revoked in Redis
  news,       \* revocations published and not yet heard
  heard,      \* revocations the node has heard
  mine,       \* the client's socket, or 0
  wasOpen,    \* whether the store has seen a socket open
  store,      \* the trading store
  loads,      \* its requests for the account state
  seen,       \* history: per order, the newest state the store of this session was given
  dropped,    \* history: whether a failed load dropped frames since the last load
  faults      \* faults so far

api    == <<log, sending, replies>>
node   == <<conn, commands, subscribed, marked, news, heard>>
client == <<mine, wasOpen, store, loads, seen, dropped>>
vars   == <<api, node, wire, client, faults>>

Socket == 1 .. MaxSockets

Faulty(kind) ==
  /\ kind \in FaultKinds /\ faults < MaxFaults
  /\ faults' = faults + 1

Init ==
  /\ log \in [1 .. LoadedAt -> (SUBSET Order) \ {{}}]
  /\ sending = <<>> /\ replies = {}
  /\ conn = [k \in Socket |-> [at |-> "new", session |-> 0]]
  /\ wire = [k \in Socket |-> <<>>]
  /\ commands = <<>> /\ subscribed = FALSE
  /\ marked = {} /\ news = {} /\ heard = {}
  /\ mine = 0 /\ wasOpen = FALSE
  /\ store = Empty(1) /\ loads = {}
  /\ seen = [o \in Order |-> 0] /\ dropped = FALSE
  /\ faults = 0

-----------------------------------------------------------------------------
(* apps/api.                                                                *)

Latest(o) == Max({0} \cup {n \in 1 .. Len(log) : o \in log[n]})

\* GET /v1/account/state: an order unchanged since the engine was loaded has no seq.
AccountState ==
  [seq |-> Len(log),
   orders |-> [o \in Order |-> LET at == Latest(o) IN
     IF at = 0 THEN None ELSE Copy(at, IF at > LoadedAt THEN at ELSE 0)]]

Frame(n) == [seq |-> n, orders |-> [o \in log[n] |-> Copy(n, n)]]

\* A tick, a session event or the user's own request, which is answered with an order.
Commit(changed) ==
  /\ Len(log) < MaxCommits
  /\ log' = Append(log, changed)
  /\ sending' = Append(sending, Len(log'))
  /\ \/ UNCHANGED replies
     \/ /\ store.status # "idle"
        /\ \E o \in changed : replies' = replies \cup {[order |-> o, at |-> Len(log')]}
  /\ UNCHANGED <<node, wire, client, faults>>

Open(s) == {k \in Socket : conn[k].at = "open" /\ conn[k].session \in s}

Watchers == {k \in Socket : conn[k].at \in {"open", "closing"}}

Told(sockets, message) ==
  [k \in Socket |-> IF k \in sockets THEN Append(wire[k], message) ELSE wire[k]]

Publish ==
  /\ sending # <<>>
  /\ sending' = Tail(sending)
  /\ wire' = IF subscribed THEN Told(Open(1 .. MaxSignIns), <<"frame", Head(sending)>>) ELSE wire
  /\ UNCHANGED <<log, replies, node, client, faults>>

\* It fails, or the node is not connected: nobody hears of the commit.
PublishFails ==
  /\ sending # <<>> /\ Faulty("publish")
  /\ sending' = Tail(sending)
  /\ UNCHANGED <<log, replies, node, wire, client>>

-----------------------------------------------------------------------------
(* apps/realtime.                                                           *)

\* The upgrade's session is checked; a check that Redis does not answer lets it go ahead.
Check(k) ==
  /\ conn[k].at = "asked"
  /\ conn' = [conn EXCEPT ![k].at =
       IF conn[k].session \in marked \cup heard THEN "refused" ELSE "checked"]
  /\ UNCHANGED <<api, commands, subscribed, marked, news, heard, wire, client, faults>>

CheckFails(k) ==
  /\ conn[k].at = "asked" /\ conn[k].session \notin heard /\ Faulty("check")
  /\ conn' = [conn EXCEPT ![k].at = "checked"]
  /\ UNCHANGED <<api, commands, subscribed, marked, news, heard, wire, client>>

\* A first watcher subscribes, the last one leaving unsubscribes; the commands run in order.
Watch ==
  commands' = IF Watchers = {} THEN Append(commands, "subscribe") ELSE commands

Unwatch(k) ==
  commands' = IF Watchers = {k} THEN Append(commands, "unsubscribe") ELSE commands

CheckedOnce(k) == conn[k].at = "checked"

\* Checked again, as the revocation may have been heard during the check.
Admitted(k) == conn[k].at = "checked" /\ conn[k].session \notin heard

Accept(k) ==
  /\ Admitted(k)
  /\ conn' = [conn EXCEPT ![k].at = "open"]
  /\ wire' = Told({k}, <<"open", 0>>)
  /\ Watch
  /\ UNCHANGED <<api, subscribed, marked, news, heard, client, faults>>

Refuse(k) ==
  /\ conn[k].at \in {"refused", "checked"} /\ ~Admitted(k)
  /\ conn' = [conn EXCEPT ![k].at = "closed"]
  /\ wire' = [wire EXCEPT ![k] = <<<<"open", 0>>, <<"close", 0>>>>]
  /\ UNCHANGED <<api, commands, subscribed, marked, news, heard, client, faults>>

NewestCommand ==
  /\ commands # <<>>
  /\ subscribed' = (Last(commands) = "subscribe")
  /\ commands' = Front(commands)
  /\ UNCHANGED <<api, conn, marked, news, heard, wire, client, faults>>

RunCommand ==
  /\ commands # <<>>
  /\ subscribed' = (Head(commands) = "subscribe")
  /\ commands' = Tail(commands)
  /\ UNCHANGED <<api, conn, marked, news, heard, wire, client, faults>>

\* The hub lets go of the sockets and closes them.
Closing(sockets) ==
  /\ conn' = [k \in Socket |-> IF k \in sockets THEN [conn[k] EXCEPT !.at = "closing"] ELSE conn[k]]
  /\ wire' = Told(sockets, <<"close", 0>>)

HearRevoked(s) ==
  /\ s \in news
  /\ news' = news \ {s} /\ heard' = heard \cup {s}
  /\ Closing(Open({s}))
  /\ UNCHANGED <<api, commands, subscribed, marked, client, faults>>

RevocationLost(s) ==
  /\ s \in news /\ Faulty("revocation")
  /\ news' = news \ {s}
  /\ UNCHANGED <<api, conn, commands, subscribed, marked, heard, wire, client>>

\* The socket's close event.
Gone(k) ==
  /\ conn[k].at \in {"open", "closing"} /\ mine # k
  /\ conn' = [conn EXCEPT ![k].at = "closed"]
  /\ Unwatch(k)
  /\ UNCHANGED <<api, subscribed, marked, news, heard, wire, client, faults>>

-----------------------------------------------------------------------------
(* The page.                                                                *)

\* The store moves on; a load that begins is a request.
SetStore(new) ==
  /\ store' = new
  /\ loads' = loads \cup
       IF ~store.loading /\ new.loading THEN {[epoch |-> new.epoch, answer |-> None]} ELSE {}

Given(frame) == [o \in Order |-> IF o \in DOMAIN frame.orders THEN Max({seen[o], frame.seq}) ELSE seen[o]]

\* A start opens the socket, a timer reopens it.
Connect ==
  /\ mine = 0 /\ store.status # "idle"
  /\ \E k \in Socket :
       /\ conn[k].at = "new" /\ \A j \in 1 .. k - 1 : conn[j].at # "new"
       /\ mine' = k
       /\ conn' = [conn EXCEPT ![k] = [at |-> "asked", session |-> store.epoch]]
  /\ UNCHANGED <<api, commands, subscribed, marked, news, heard, wire,
                 wasOpen, store, loads, seen, dropped, faults>>

Arrives(message) ==
  /\ mine # 0 /\ wire[mine] # <<>> /\ Head(wire[mine]) = message
  /\ wire' = [wire EXCEPT ![mine] = Tail(@)]

SocketOpens ==
  /\ Arrives(<<"open", 0>>)
  /\ SetStore(Opened(store, wasOpen)) /\ wasOpen' = TRUE
  /\ UNCHANGED <<api, node, mine, seen, dropped, faults>>

SocketCloses ==
  /\ Arrives(<<"close", 0>>)
  /\ mine' = 0
  /\ UNCHANGED <<api, node, wasOpen, store, loads, seen, dropped, faults>>

FrameArrives(n) ==
  /\ Arrives(<<"frame", n>>)
  /\ SetStore(Ingest(store, Frame(n)))
  /\ seen' = IF store.status = "ready" \/ store.held # None THEN Given(Frame(n)) ELSE seen
  /\ UNCHANGED <<api, node, mine, wasOpen, dropped, faults>>

\* The connection breaks, or a ping goes unanswered; the node learns of it later.
Drop ==
  /\ mine # 0 /\ Faulty("drop")
  /\ mine' = 0
  /\ wire' = [wire EXCEPT ![mine] = <<>>]
  /\ conn' = [conn EXCEPT ![mine].at = IF @ \in {"asked", "checked", "refused"} THEN "closed" ELSE @]
  /\ UNCHANGED <<api, commands, subscribed, marked, news, heard, wasOpen, store, loads, seen, dropped>>

\* A sign-in, or a retry after a first load that failed.
Starts ==
  /\ store.status \in {"idle", "error"} /\ store.epoch <= MaxSignIns
  /\ SetStore(Start(store))
  /\ UNCHANGED <<api, node, wire, mine, wasOpen, seen, dropped, faults>>

\* The API marks the session revoked and publishes it; the page forgets the account.
SignOut ==
  /\ store.status # "idle"
  /\ SetStore(Clear(store))
  /\ marked' = marked \cup {store.epoch} /\ news' = news \cup {store.epoch}
  /\ seen' = [o \in Order |-> 0] /\ dropped' = FALSE
  /\ UNCHANGED <<api, conn, commands, subscribed, heard, wire, mine, wasOpen, faults>>

\* The account is read again when the tab comes back,
TabReturns ==
  /\ store.status = "ready"
  /\ SetStore(Resync(store))
  /\ UNCHANGED <<api, node, wire, mine, wasOpen, seen, dropped, faults>>

\* or a request has had no answer for INTENT_TIMEOUT_MS.
IntentTimesOut ==
  /\ store.status # "idle" /\ replies # {}
  /\ SetStore(Resync(store))
  /\ UNCHANGED <<api, node, wire, mine, wasOpen, seen, dropped, faults>>

LoadRead(l) ==
  /\ l \in loads /\ l.answer = None
  /\ loads' = (loads \ {l}) \cup {[l EXCEPT !.answer = AccountState]}
  /\ UNCHANGED <<api, node, wire, mine, wasOpen, store, seen, dropped, faults>>

LoadAnswered(l) ==
  /\ l \in loads /\ l.answer # None
  /\ loads' = loads \ {l}
  /\ IF l.epoch = store.epoch
     THEN /\ store' = Loaded(store, l.answer) /\ dropped' = FALSE
          /\ seen' = [o \in Order |-> Max({seen[o]} \cup
                       IF l.answer.orders[o] = None THEN {} ELSE {l.answer.orders[o].at})]
     ELSE UNCHANGED <<store, seen, dropped>>
  /\ UNCHANGED <<api, node, wire, mine, wasOpen, faults>>

LoadFails(l) ==
  /\ l \in loads /\ Faulty("load")
  /\ loads' = loads \ {l}
  /\ IF l.epoch = store.epoch
     THEN store' = LoadFailed(store) /\ dropped' = (dropped \/ store.held # <<>>)
     ELSE UNCHANGED <<store, dropped>>
  /\ UNCHANGED <<api, node, wire, mine, wasOpen, seen>>

\* A request is answered: its order is applied, also while a load is under way, which replaces it.
Acked(r) ==
  /\ r \in replies
  /\ replies' = replies \ {r}
  /\ IF store.status = "idle" THEN UNCHANGED <<store, seen>>
     ELSE /\ store' = PutOrder(store, r.order, Copy(r.at, r.at))
          /\ seen' = IF store.status = "ready" /\ ~store.loading
                     THEN [seen EXCEPT ![r.order] = Max({@, r.at})] ELSE seen
  /\ UNCHANGED <<log, sending, node, wire, mine, wasOpen, loads, dropped, faults>>

-----------------------------------------------------------------------------

Node(k) == Check(k) \/ Accept(k) \/ Refuse(k) \/ Gone(k)

Load(l) == LoadRead(l) \/ LoadAnswered(l)

Delivers == SocketOpens \/ SocketCloses \/ \E n \in 1 .. MaxCommits : FrameArrives(n)

User == Starts \/ SignOut \/ TabReturns \/ IntentTimesOut

Fault ==
  \/ PublishFails \/ Drop
  \/ \E k \in Socket : CheckFails(k)
  \/ \E s \in news : RevocationLost(s)
  \/ \E l \in loads : LoadFails(l)

Next ==
  \/ \E changed \in (SUBSET Order) \ {{}} : Commit(changed)
  \/ Publish \/ RunCommand \/ Connect \/ Delivers \/ User \/ Fault
  \/ \E k \in Socket : Node(k)
  \/ \E s \in news : HearRevoked(s)
  \/ \E l \in loads : Load(l)
  \/ \E r \in replies : Acked(r)

Spec == Init /\ [][Next]_vars

Fairness ==
  /\ WF_vars(Publish) /\ WF_vars(RunCommand) /\ WF_vars(Connect) /\ WF_vars(Delivers)
  /\ \A k \in Socket : WF_vars(Node(k))
  /\ WF_vars(\E l \in loads : Load(l))

FairSpec == Spec /\ Fairness

-----------------------------------------------------------------------------

Messages == {<<"open", 0>>, <<"close", 0>>} \cup {<<"frame", n>> : n \in 1 .. MaxCommits}

ApiTypes ==
  /\ log \in Seq(SUBSET Order) /\ Len(log) <= MaxCommits
  /\ sending \in Seq(1 .. MaxCommits)
  /\ replies \subseteq [order : Order, at : 1 .. MaxCommits]

NodeTypes ==
  /\ conn \in [Socket -> [at : {"new", "asked", "checked", "refused", "open", "closing", "closed"},
                          session : 0 .. MaxSignIns]]
  /\ wire \in [Socket -> Seq(Messages)]
  /\ commands \in Seq({"subscribe", "unsubscribe"}) /\ subscribed \in BOOLEAN
  /\ marked \subseteq 1 .. MaxSignIns /\ news \subseteq marked /\ heard \subseteq marked

PageTypes ==
  /\ mine \in {0} \cup Socket /\ wasOpen \in BOOLEAN
  /\ store \in Stores({Frame(n) : n \in 1 .. Len(log)}) /\ store.loading = (store.held # None)
  /\ loads \subseteq [epoch : 1 .. MaxSignIns + 1, answer : {None} \cup Snapshots]
  /\ seen \in [Order -> 0 .. MaxCommits] /\ dropped \in BOOLEAN

TypeOK == ApiTypes /\ NodeTypes /\ PageTypes /\ faults \in 0 .. MaxFaults

\* The screen never shows an order older than a state of it the store was given - by a load, a
\* frame or an answer, in whatever order they came, before, during or after a load.  An answer
\* that comes during a load is not counted, nor are frames that a failed load drops, until the
\* next load (README, Disagreements found).
KeepsWhatItGot ==
  (store.status = "ready" /\ ~store.loading /\ ~dropped) =>
    \A o \in Order : seen[o] > 0 => store.orders[o] # None /\ store.orders[o].at >= seen[o]

\* Once its commands have run, the node is subscribed exactly while the user has a socket there,
\* however quickly the last one closes and another opens ("so a quick unwatch-then-watch ends
\* subscribed", orderFeed.ts).
WatchedIsSubscribed == commands = <<>> => (subscribed <=> Watchers # {})

\* A node that has heard of a revocation has no socket of that session open, also when the
\* socket was being opened at the time.
RevokedAreClosed == \A k \in Socket : conn[k].at = "open" => conn[k].session \notin heard

ShowsTheAccount == \A o \in Order : Latest(o) = IF store.orders[o] = None THEN 0 ELSE store.orders[o].at

\* Whatever was lost, a page whose user comes back to it again and again ends up showing the
\* account as it is, unless its first load failed and is not retried.
ComingBackCatchesUp == WF_vars(TabReturns) => <>[](store.status = "ready" => ShowsTheAccount)

\* "holding frames that arrive meanwhile and applying the newer ones on top" (tradingStore.ts):
\* no load drops the frames it held.  The code does not keep this; no run checks it.
HeldAreKept == ~dropped

\* A frame that is applied finds the store with every commit before it, or makes it load ("a
\* newer frame that does not carry its own newest change means frames were lost").  The code
\* does not keep this: every frame of the API carries its newest change.  No run checks it.
GapsAreRead ==
  [][(store.status = "ready" /\ ~store.loading /\ store'.seq > store.seq /\ ~store'.loading) =>
       \A n \in store.seq + 1 .. store'.seq - 1, o \in Order :
         o \in log[n] => store'.orders[o] # None /\ store'.orders[o].at >= n]_vars
=============================================================================
