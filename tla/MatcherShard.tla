---------------------------- MODULE MatcherShard -----------------------------
(***************************************************************************)
(* One instrument of a matcher shard (apps/matcher/src): every process of  *)
(* the shard keeps a book of the live orders and trailing stops, brought   *)
(* up to date by the commands apps/api sends after its commits             *)
(* (commands.ts, modules/orders/matcherCommands.ts) and by a round that    *)
(* reads Postgres (reconcile.ts); the one that holds the lease runs the    *)
(* ticks through its book and asks apps/api for the fills (matcher.ts,     *)
(* fills.ts), which runs them on the account.                              *)
(*                                                                         *)
(* Processes share nothing but the lease and the fill stream, so a few     *)
(* (TLC: one) are followed, among others that may ask for fills at any     *)
(* time.  One user is modelled, whose account carries one version for all  *)
(* it holds.  The book is what PlainBook promises of one: per order or     *)
(* stop a slot with the newest version seen.  The lease is what ShardLease *)
(* proves of it, one holder at a time.  That a request is run in the end   *)
(* is MatcherFills', that its change is committed once AccountCommit's.    *)
(* Orders are buys and stops protect long positions; the others mirror     *)
(* them.                                                                   *)
(*                                                                         *)
(* RestoredAnyway, TakenQuietly, RemovalKept and FoundLater are not part   *)
(* of the specification: each is a bug the definition after it could have  *)
(* had, for the mutation runs.                                             *)
(***************************************************************************)
EXTENDS TrailingStop, Sequences

CONSTANTS
  Worker,      \* matcher processes of the shard that are followed
  Order, Stop, \* ids of the user's LIMIT orders and trailing stops
  Price,       \* prices of ticks, in paise
  Limit,       \* limit prices of orders, in paise
  Trail,       \* the stops' trail
  MaxVersion,  \* bound: the account's version up to which the user acts
  FaultKinds,  \* the faults that may happen, of those named in `Faulty`
  MaxFaults    \* bound: faults in a behaviour

Id == Order \cup Stop

\* What an order, a stop and a book may hold.
Values == [limit : Limit] \cup Stops \cup {None}
Slots  == [version : Nat, crossed : BOOLEAN, value : Values]

ASSUME ShardAssumption ==
  /\ Order \cap Stop = {}
  /\ Price \subseteq Nat \ {0} /\ Limit \subseteq Nat \ {0} /\ Trail \in Trails
  /\ MaxVersion \in Nat /\ MaxFaults \in Nat
  /\ FaultKinds \subseteq {"command", "send", "fill", "read", "lease", "crash"}
  /\ None \notin Worker /\ None \notin [limit : Limit] /\ None \notin Stops /\ None \notin [Id -> Slots]

VARIABLES
  log,       \* the account in Postgres: per version, its live orders and stops
  erased,    \* the account was deleted and purged
  used,      \* ids placed so far
  unsent,    \* commands of committed changes on their way to the stream
  requests,  \* the shard's fill stream: prices the account is to be run at
  holder,    \* the process that holds the lease
  book,      \* per process, its book of the instrument, or None
  unread,    \* per process, the commands on the stream after its cursor, or None without one
  round,     \* per process, its reconcile round
  sending,   \* fill requests being sent
  faults     \* faults so far

store == <<log, erased, used, unsent>>
mine  == <<book, unread, round, sending>>
vars  == <<store, requests, holder, mine, faults>>

-----------------------------------------------------------------------------
(* The account and what a price does to it.                                *)

Version == Len(log)
Live(i) == ~erased /\ log[Version][i] # None

NewOrders == [limit : Limit]
NewStops  == {ArmedState("LONG", Trail, None)}

Crosses(i, x, ltp) == IF i \in Order THEN ltp <= x.limit ELSE Triggers(x, ltp)
Stepped(i, x, ltp) == IF i \in Order THEN x ELSE StepTrailingStop(x, ltp)

\* The engine fills every order the price crosses, triggers or moves every stop.
RunAt(account, ltp) ==
  [i \in Id |-> IF account[i] = None \/ Crosses(i, account[i], ltp) THEN None
                ELSE Stepped(i, account[i], ltp)]

\* commandFor, stopCommandFor: what a commit tells the matcher of an order or stop it changed;
\* None takes it off.
Command(i, version, value) == [id |-> i, version |-> version, value |-> value]

Commit(account) ==
  /\ log' = Append(log, account)
  /\ unsent' = unsent \cup
       {Command(i, Version + 1, account[i]) : i \in {i \in Id : account[i] # log[Version][i]}}

-----------------------------------------------------------------------------
(* A book: per id the newest version seen, whether a tick took it off at   *)
(* that version, and what rests.                                           *)

Unseen == [version |-> 0, crossed |-> FALSE, value |-> None]
Slot(version, value) == [version |-> version, crossed |-> FALSE, value |-> value]
NewBook == [i \in Id |-> Unseen]

\* upsertOrder, upsertStop, and for None removeOrder and removeStop.
Upserted(slot, version, value) == IF version > slot.version THEN Slot(version, value) ELSE slot

\* restoreOrder, restoreStop.
RestoredAnyway(slot, version, value) == Slot(version, value)
Restored(slot, version, value) ==
  IF slot.crossed /\ version = slot.version THEN Slot(version, value)
  ELSE Upserted(slot, version, value)

TakenQuietly(slot) == [slot EXCEPT !.value = None]
Taken(slot) == [slot EXCEPT !.value = None, !.crossed = TRUE]

Rests(w, i) == book[w] # None /\ book[w][i].value # None

\* The book an upsert finds, created on first use.
BookOf(w) == IF book[w] = None THEN NewBook ELSE book[w]

Idle == [phase |-> "idle", asked |-> FALSE, at |-> 0]

Init ==
  /\ log = <<[i \in Id |-> None]>> /\ erased = FALSE
  /\ used = {} /\ unsent = {}
  /\ requests = {}
  /\ holder = None
  /\ book = [w \in Worker |-> None]
  /\ unread = [w \in Worker |-> None]
  /\ round = [w \in Worker |-> Idle]
  /\ sending = {}
  /\ faults = 0

Faulty(kind) ==
  /\ kind \in FaultKinds /\ faults < MaxFaults
  /\ faults' = faults + 1

-----------------------------------------------------------------------------
(* apps/api: the user's changes, their commands, and the fills.            *)

Acts(i, value) ==
  /\ ~erased /\ Version < MaxVersion
  /\ Commit([log[Version] EXCEPT ![i] = value])
  /\ UNCHANGED <<erased, requests, holder, mine, faults>>

Place(i) ==
  /\ i \notin used /\ used' = used \cup {i}
  /\ \E value \in IF i \in Order THEN NewOrders ELSE NewStops : Acts(i, value)

Modify(i) ==
  /\ i \in Order /\ Live(i)
  /\ \E value \in NewOrders \ {log[Version][i]} : Acts(i, value)
  /\ UNCHANGED used

Cancel(i) == Live(i) /\ Acts(i, None) /\ UNCHANGED used

\* A change elsewhere in the account moves its version.
ActElsewhere ==
  /\ ~erased /\ Version < MaxVersion
  /\ Commit(log[Version])
  /\ UNCHANGED <<erased, used, requests, holder, mine, faults>>

\* The purge of a deleted account sends nothing.
Erase ==
  /\ ~erased /\ erased' = TRUE
  /\ UNCHANGED <<log, used, unsent, requests, holder, mine, faults>>

\* Commands of several commits and processes reach the stream in any order, or not at all.
Send(c) ==
  /\ c \in unsent /\ unsent' = unsent \ {c}
  /\ unread' = [w \in Worker |-> IF unread[w] = None THEN None ELSE Append(unread[w], c)]
  /\ UNCHANGED <<log, erased, used, requests, holder, book, round, sending, faults>>

SendLost(c) ==
  /\ Faulty("command")
  /\ c \in unsent /\ unsent' = unsent \ {c}
  /\ UNCHANGED <<log, erased, used, requests, holder, mine>>

\* applyMatcherFill, at a process whose engine holds the account as it was at a version.  An engine
\* that finds nothing to do commits nothing, whatever the store has by now; a change made from
\* behind the store loses its commit, and the newest account is loaded and run.
ServeFrom(held, ltp) ==
  LET account == RunAt(log[Version], ltp) IN
  /\ ltp \in requests /\ requests' = requests \ {ltp}
  /\ IF erased \/ RunAt(log[held], ltp) = log[held] \/ account = log[Version]
       THEN UNCHANGED <<log, unsent>>
       ELSE Commit(account)
  /\ UNCHANGED <<erased, used, holder, mine, faults>>

Serve(ltp) == \E held \in DOMAIN log : ServeFrom(held, ltp)

\* A request that keeps failing ends among the dead letters.
SetAside(ltp) ==
  /\ Faulty("fill")
  /\ ltp \in requests /\ requests' = requests \ {ltp}
  /\ UNCHANGED <<store, holder, mine>>

-----------------------------------------------------------------------------
(* A matcher process: commands, ticks and the requests they cause.         *)

\* readMatcherCommands: reading starts after the newest entry.
StartReading(w) ==
  /\ unread[w] = None
  /\ unread' = [unread EXCEPT ![w] = <<>>]
  /\ UNCHANGED <<store, requests, holder, book, round, sending, faults>>

\* onCommand: a removal creates no book.
ApplyCommand(w) ==
  /\ unread[w] # None /\ unread[w] # <<>>
  /\ unread' = [unread EXCEPT ![w] = Tail(@)]
  /\ LET c == Head(unread[w]) IN
     book' = [book EXCEPT ![w] =
       IF @ = None /\ c.value = None THEN None
       ELSE [BookOf(w) EXCEPT ![c.id] = Upserted(@, c.version, c.value)]]
  /\ UNCHANGED <<store, requests, holder, round, sending, faults>>

\* A tick: what it crosses or triggers leaves the book, and one request asks for the user's fills.
Tick(w, ltp) ==
  LET crossed == {i \in Id : Rests(w, i) /\ Crosses(i, book[w][i].value, ltp)}
      step(i) == [book[w][i] EXCEPT !.value = Stepped(i, @, ltp)] IN
  /\ holder = w /\ book[w] # None
  /\ book' = [book EXCEPT ![w] =
       [i \in Id |-> IF i \in crossed THEN Taken(@[i]) ELSE IF Rests(w, i) THEN step(i) ELSE @[i]]]
  /\ sending' = IF crossed = {} THEN sending
                ELSE sending \cup {[by |-> w, ltp |-> ltp, taken |-> [i \in crossed |-> step(i)]]}
  /\ UNCHANGED <<store, requests, holder, unread, round, faults>>

Sent(s) ==
  /\ s \in sending /\ sending' = sending \ {s}
  /\ requests' = requests \cup {s.ltp}
  /\ UNCHANGED <<store, holder, book, unread, round, faults>>

\* A process that is not followed asks, perhaps long after it lost the lease.
AskedElsewhere(ltp) ==
  /\ requests' = requests \cup {ltp}
  /\ UNCHANGED <<store, holder, mine, faults>>

\* What a failed send puts back: a triggered stop trails on from where the tick left it.
PutBack(i, slot) ==
  IF i \in Order THEN slot.value ELSE [slot.value EXCEPT !.status = "TRAILING"]

\* The send fails, or its answer is lost.
SendFailed(s) ==
  /\ Faulty("send")
  /\ s \in sending /\ sending' = sending \ {s}
  /\ requests' \in {requests, requests \cup {s.ltp}}
  /\ book' = [book EXCEPT ![s.by] =
       [i \in Id |-> IF i \in DOMAIN s.taken
                     THEN Restored(@[i], s.taken[i].version, PutBack(i, s.taken[i])) ELSE @[i]]]
  /\ UNCHANGED <<store, holder, unread, round>>

-----------------------------------------------------------------------------
(* The reconcile round: the users to ask about, the read, the repair.      *)

\* The first round waits for the reader's position.
Ask(w) ==
  /\ unread[w] # None /\ round[w] = Idle
  /\ round' = [round EXCEPT ![w] =
       [phase |-> "asked", asked |-> \E i \in Id : Rests(w, i), at |-> 0]]
  /\ UNCHANGED <<store, requests, holder, book, unread, sending, faults>>

\* One snapshot of the live orders, the stops and the version; 0 is an account that is gone.
Snapshot(w) ==
  /\ round[w].phase = "asked"
  /\ round' = [round EXCEPT ![w].phase = "read", ![w].at = IF erased THEN 0 ELSE Version]
  /\ UNCHANGED <<store, requests, holder, book, unread, sending, faults>>

\* removalVersion: nothing is newer than the removal of an account that is gone.
RemovalKept(at) == at
RemovalVersion(at) == IF at = 0 THEN Version + 1 ELSE at

\* What the snapshot found of an order or stop.
FoundLater(at, i) == IF at = 0 THEN None ELSE log[Version][i]
Found(at, i) == IF at = 0 THEN None ELSE log[at][i]

\* reconcileBooks, for one order or stop of the book.
Repaired(w, i, slot) ==
  LET at == round[w].at IN
  IF Found(at, i) # None THEN Restored(slot, at, Found(at, i))
  ELSE IF slot.value # None /\ round[w].asked THEN Upserted(slot, RemovalVersion(at), None)
  ELSE slot

Repair(w) ==
  /\ round[w].phase = "read"
  /\ round' = [round EXCEPT ![w] = Idle]
  /\ book' = [book EXCEPT ![w] =
       IF @ = None /\ \A i \in Id : Found(round[w].at, i) = None THEN None
       ELSE [i \in Id |-> Repaired(w, i, BookOf(w)[i])]]
  /\ UNCHANGED <<store, requests, holder, unread, sending, faults>>

\* The read fails or takes too long.
RoundFailed(w) ==
  /\ Faulty("read") /\ round[w] # Idle
  /\ round' = [round EXCEPT ![w] = Idle]
  /\ UNCHANGED <<store, requests, holder, book, unread, sending>>

-----------------------------------------------------------------------------
(* The lease, and the end of a process.                                    *)

TakeLease(w) ==
  /\ holder = None /\ holder' = w
  /\ UNCHANGED <<store, requests, mine, faults>>

LoseLease(w) ==
  /\ Faulty("lease")
  /\ holder = w /\ holder' = None
  /\ UNCHANGED <<store, requests, mine>>

\* A process dies and starts again with nothing; what it was sending may still arrive.
Crash(w) ==
  /\ Faulty("crash")
  /\ book' = [book EXCEPT ![w] = None]
  /\ unread' = [unread EXCEPT ![w] = None]
  /\ round' = [round EXCEPT ![w] = Idle]
  /\ sending' = {s \in sending : s.by # w}
  /\ \E arrived \in SUBSET (sending \ sending') :
       requests' = requests \cup {s.ltp : s \in arrived}
  /\ holder' = IF holder = w THEN None ELSE holder
  /\ UNCHANGED store

-----------------------------------------------------------------------------
Reads(w)     == StartReading(w) \/ ApplyCommand(w)
Reconcile(w) == Ask(w) \/ Snapshot(w) \/ Repair(w)

Next ==
  \/ \E i \in Id : Place(i) \/ Modify(i) \/ Cancel(i)
  \/ ActElsewhere \/ Erase
  \/ \E c \in unsent : Send(c) \/ SendLost(c)
  \/ \E ltp \in requests : Serve(ltp) \/ SetAside(ltp)
  \/ \E w \in Worker : Reads(w) \/ Reconcile(w) \/ RoundFailed(w)
  \/ \E ltp \in Price : AskedElsewhere(ltp) \/ \E w \in Worker : Tick(w, ltp)
  \/ \E s \in sending : Sent(s) \/ SendFailed(s)
  \/ \E w \in Worker : TakeLease(w) \/ LoseLease(w) \/ Crash(w)

Spec == Init /\ [][Next]_vars

SendsOf(w, ltp) == {s \in sending : s.by = w /\ s.ltp = ltp}

\* What was sent arrives, readers read, rounds run every RECONCILE_EVERY_MS, the lease is taken.
Fairness ==
  /\ WF_vars(\E c \in unsent : Send(c))
  /\ \A ltp \in Price : WF_vars(Serve(ltp))
  /\ WF_vars(\E w \in Worker : TakeLease(w))
  /\ \A w \in Worker : WF_vars(Reads(w)) /\ WF_vars(Reconcile(w))
  /\ \A w \in Worker, ltp \in Price : WF_vars(\E s \in SendsOf(w, ltp) : Sent(s))

FairSpec == Spec /\ Fairness

-----------------------------------------------------------------------------
(* Properties.                                                             *)

Value(i)  == IF i \in Order THEN NewOrders ELSE Stops
Account   == [Id -> Values]

\* A trailing stop on a book may have moved on from the stored one, never back.
NoLooser(value, stored) ==
  \/ value = stored
  \/ stored.status = "ARMED"
  \/ value.status = "TRAILING" /\ value.watermark >= stored.watermark

\* A command says what one commit made of one order or stop.
Told(c) == c.id \in Id /\ c.version \in DOMAIN log /\ c.value = log[c.version][c.id]

\* Commands, slots, rounds and requests are what their code makes: above all, a command tells what
\* the commit it names made of the order.
TypeOK ==
  /\ log \in Seq(Account) /\ log # <<>> /\ erased \in BOOLEAN /\ used \subseteq Id
  /\ \A v \in DOMAIN log, i \in Id : log[v][i] \in Value(i) \cup {None}
  /\ \A c \in unsent : Told(c)
  /\ requests \subseteq Price
  /\ holder \in Worker \cup {None}
  /\ \A w \in Worker :
       /\ book[w] # None => \A i \in Id :
            /\ book[w][i].version \in Nat /\ book[w][i].crossed \in BOOLEAN
            /\ book[w][i].value \in Value(i) \cup {None}
       /\ unread[w] # None => \A n \in DOMAIN unread[w] : Told(unread[w][n])
       /\ round[w] \in [phase : {"idle", "asked", "read"}, asked : BOOLEAN, at : {0} \cup DOMAIN log]
  /\ \A s \in sending : s.by \in Worker /\ s.ltp \in Price /\ DOMAIN s.taken \subseteq Id
  /\ faults \in 0 .. MaxFaults

\* What rests on a book, or left it for a fill, is what the account held at the version the book
\* has it at: no mixture of commands, snapshots and put-back orders, and nothing cancelled.
RestsAsStored ==
  \A w \in Worker, i \in Id :
    Rests(w, i) =>
      LET slot == book[w][i] IN
      /\ slot.version \in DOMAIN log /\ log[slot.version][i] # None
      /\ IF i \in Order THEN slot.value = log[slot.version][i]
                        ELSE NoLooser(slot.value, log[slot.version][i])

\* fills.ts, reconcile.ts: a late command, an old snapshot or a request that could not be sent
\* never undoes what a process has since learned of an order, its cancel above all.
NewsStays ==
  [][\A w \in Worker, i \in Id :
       book[w] # None /\ book'[w] # None =>
         LET before == book[w][i]  after == book'[w][i] IN
         /\ after.version >= before.version
         /\ after.version = before.version /\ before.value = None /\ after.value # None
              => before.crossed]_vars

\* Of the requests at a price that keep coming, some reach a process whose engine holds the newest
\* account; the others are acknowledged though nothing came of them.
ServedUpToDate(ltp) == []<>(ltp \in requests) => []<><<ServeFrom(Version, ltp)>>_vars

\* reconcile.ts: whatever commands and requests are lost, once the user has done with the account
\* every book comes to hold no order or stop that has ended, and every live order - unless a price
\* takes it off again and again for requests that only processes behind the store serve.
InStep ==
  /\ <>[](\A w \in Worker, i \in Id : Rests(w, i) => Live(i))
  /\ (\A ltp \in Price : ServedUpToDate(ltp))
       => <>[](\A w \in Worker, i \in Order : Live(i) => Rests(w, i))

\* matcher.ts to service.ts applyMatcherFill: an order whose price keeps coming is filled, though
\* requests and commands are lost and the lease changes hands between the tick and the fill, as
\* long as not only processes behind the store serve the requests (ADR 0013's "Nothing is lost" has
\* no such exception).
Waits(i, ltp) == Live(i) /\ Crosses(i, log[Version][i], ltp)
CrossedIsFilled ==
  \A ltp \in Price :
    WF_vars(\E w \in Worker : Tick(w, ltp)) /\ ServedUpToDate(ltp)
      => \A i \in Order : Waits(i, ltp) ~> ~Waits(i, ltp)

\* fills.ts fillsFor: "A stop that only moved needs no request: the engine steps it on the next fill
\* or read, by the same rule": what the book triggers the engine triggers too.
EngineTriggersToo ==
  \A w \in Worker, s \in Stop, ltp \in Price :
    Rests(w, s) /\ holder = w /\ Live(s) /\ book[w][s].version = Version
      /\ Triggers(book[w][s].value, ltp) => Triggers(log[Version][s], ltp)
=============================================================================
