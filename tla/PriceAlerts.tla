----------------------------- MODULE PriceAlerts -----------------------------
(***************************************************************************)
(* Price alerts on one instrument and the notifications they raise: the    *)
(* rows in Postgres, the API processes that watch them and take the user's *)
(* requests (modules/alerts/service.ts), the shard's matcher processes     *)
(* that keep them on a book (apps/matcher/src/alerts.ts), and the outbox   *)
(* through which every notification is published (modules/notifications).  *)
(* One user is modelled: the limits are per user.                          *)
(*                                                                         *)
(* A process that holds an alert, watched or on its book, fires it on the  *)
(* first tick that crosses it; the row decides which firing counts.  Of    *)
(* the lease only its promise is used, one holder at a time.               *)
(*                                                                         *)
(* A firing in flight is known by its process and alert: two alike would   *)
(* both find the same row, and the second nothing to do.                   *)
(*                                                                         *)
(* FiredAnyway, BeforeIsAll, LoadedOnly, TakenOnly and RelayClears are not *)
(* part of the specification: each is a bug the definition after it could  *)
(* have had, for the mutation runs.                                        *)
(***************************************************************************)
EXTENDS Naturals, Sequences, FiniteSets

CONSTANTS
  Api,        \* processes of apps/api
  Matcher,    \* processes of the shard's matcher
  Alert,      \* the user's alerts, by the request that creates each
  Above,      \* those that fire at or above their level, the others at or below
  Level,      \* the level of each alert
  Price,      \* prices of ticks
  MaxActive,  \* PRICE_ALERTS_MAX_ACTIVE
  Kept,       \* NOTIFICATIONS_KEPT
  FaultKinds, \* the faults that may happen, of those named in `Faulty`
  MaxFaults,  \* bound: faults in a behaviour
  None        \* no process

ASSUME AlertsAssumption ==
  /\ Api \cap Matcher = {} /\ None \notin Api \cup Matcher
  /\ Above \subseteq Alert /\ Level \in [Alert -> Nat] /\ Price \subseteq Nat
  /\ MaxActive \in Nat /\ Kept \in Nat \ {0} /\ MaxFaults \in Nat

VARIABLES
  row,       \* price_alerts: per alert its status
  notes,     \* notifications ever stored, by id; the newest `Kept` remain
  outbox,    \* notification_outbox: the ids of its rows
  published, \* ids published on the user's notify channel
  making,    \* per alert, where the request that creates it is, and at which process
  ending,    \* cancels stored and not yet carried on by their process
  up,        \* processes that run
  watched,   \* per process, the alerts it watches (API) or has on its book (matcher)
  firing,    \* firings in flight
  load,      \* per process, its load of the active alerts
  relay,     \* per API process, its pass over the outbox
  holder,    \* the matcher process that holds the lease
  unsent,    \* per API process, the commands it has on their way to the stream
  unread,    \* per matcher process, the commands after its cursor, or None without one
  faults     \* faults so far

db    == <<row, notes, outbox>>
local == <<watched, firing, load>>
wire  == <<unsent, unread>>
vars  == <<db, published, making, ending, up, local, relay, holder, wire, faults>>

Process == Api \cup Matcher
NoteIds == 1 .. Cardinality(Alert)
Active  == {a \in Alert : row[a] = "ACTIVE"}
Ended   == {a \in Alert : row[a] \in {"TRIGGERED", "CANCELLED"}}

\* priceAlertCrossed
Crossed(a, ltp) == IF a \in Above THEN ltp >= Level[a] ELSE ltp <= Level[a]

\* The trim to the newest NOTIFICATIONS_KEPT, which cascades to the outbox.
Trimmed(i, stored) == i + Kept <= Len(stored)

NoLoad  == [phase |-> "idle", before |-> {}, active |-> {}]
NoRelay == [pending |-> {}, done |-> {}]
Firing(p, a, at, id) == [by |-> p, alert |-> a, at |-> at, id |-> id]
Command(type, a)     == [type |-> type, alert |-> a]

Init ==
  /\ row = [a \in Alert |-> "new"] /\ notes = <<>> /\ outbox = {} /\ published = {}
  /\ making = [a \in Alert |-> [at |-> "new", by |-> None]] /\ ending = {}
  /\ up = Api
  /\ watched = [p \in Process |-> {}] /\ firing = {} /\ load = [p \in Process |-> NoLoad]
  /\ relay = [p \in Api |-> NoRelay]
  /\ holder = None
  /\ unsent = [p \in Api |-> <<>>] /\ unread = [m \in Matcher |-> None]
  /\ faults = 0

Faulty(kind) ==
  /\ kind \in FaultKinds /\ faults < MaxFaults
  /\ faults' = faults + 1

-----------------------------------------------------------------------------
(* The user's requests.  An API process serves once `ready` has loaded.    *)

Serves(p) == p \in Api \cap up /\ load[p].phase = "idle"

\* create: the limit, and the quote it awaits next; past either it stores nothing.
Create(p, a) ==
  /\ Serves(p)
  /\ making[a].at = "new"
  /\ Cardinality(Active) < MaxActive
  /\ making' = [making EXCEPT ![a] = [at |-> "checked", by |-> p]]
  /\ UNCHANGED <<db, published, ending, up, local, relay, holder, wire, faults>>

Insert(a) ==
  /\ making[a].at = "checked"
  /\ \E ltp \in Price : ~Crossed(a, ltp)
  /\ row' = [row EXCEPT ![a] = "ACTIVE"]
  /\ making' = [making EXCEPT ![a].at = "stored"]
  /\ UNCHANGED <<notes, outbox, published, ending, up, local, relay, holder, wire, faults>>

\* The insert fails, the row perhaps stored: the request ends, the alert neither watched nor sent.
InsertFails(a) ==
  /\ Faulty("store")
  /\ making[a].at = "checked"
  /\ row' \in {row, [row EXCEPT ![a] = "ACTIVE"]}
  /\ making' = [making EXCEPT ![a].at = "done"]
  /\ UNCHANGED <<notes, outbox, published, ending, up, local, relay, holder, wire>>

Announce(a) ==
  /\ making[a].at = "stored"
  /\ making' = [making EXCEPT ![a].at = "done"]
  /\ watched' = [watched EXCEPT ![making[a].by] = @ \cup {a}]
  /\ unsent' = [unsent EXCEPT ![making[a].by] = Append(@, Command("ALERT_ADD", a))]
  /\ UNCHANGED <<db, published, ending, up, firing, load, relay, holder, unread, faults>>

\* cancel: the row, then what the process does once Postgres has answered, if it does.
Cancel(p, a) ==
  /\ Serves(p)
  /\ row[a] = "ACTIVE"
  /\ row' = [row EXCEPT ![a] = "CANCELLED"]
  /\ \/ ending' = ending \cup {<<p, a>>} /\ UNCHANGED faults
     \/ Faulty("store") /\ UNCHANGED ending
  /\ UNCHANGED <<notes, outbox, published, making, up, local, relay, holder, wire>>

Ending(p, a) ==
  /\ <<p, a>> \in ending
  /\ ending' = ending \ {<<p, a>>}
  /\ watched' = [watched EXCEPT ![p] = @ \ {a}]
  /\ unsent' = [unsent EXCEPT ![p] = Append(@, Command("ALERT_CANCEL", a))]
  /\ UNCHANGED <<db, published, making, up, firing, load, relay, holder, unread, faults>>

-----------------------------------------------------------------------------
(* The command stream: the commands of one process arrive in its order, on *)
(* its one connection, and one whose send fails is gone.                   *)

Send(p) ==
  /\ unsent[p] # <<>>
  /\ unsent' = [unsent EXCEPT ![p] = Tail(@)]
  /\ \/ /\ unread' = [m \in Matcher |->
            IF unread[m] = None THEN None ELSE Append(unread[m], Head(unsent[p]))]
        /\ UNCHANGED faults
     \/ Faulty("command") /\ UNCHANGED unread
  /\ UNCHANGED <<db, published, making, ending, up, local, relay, holder>>

\* addAlert, removeAlert
Read(m) ==
  /\ m \in up /\ unread[m] \notin {None, <<>>}
  /\ LET c == Head(unread[m])
     IN  watched' = [watched EXCEPT ![m] =
           IF c.type = "ALERT_ADD" THEN @ \cup {c.alert} ELSE @ \ {c.alert}]
  /\ unread' = [unread EXCEPT ![m] = Tail(@)]
  /\ UNCHANGED <<db, published, making, ending, up, firing, load, relay, holder, unsent, faults>>

-----------------------------------------------------------------------------
(* Loads of the active alerts: a matcher's reload at its start and every   *)
(* minute, an API process's `ready` at its start only.                     *)

BeforeIsAll(p) == Alert
HeldBefore(p)  == watched[p]

Starting(p) == [phase |-> "asked", before |-> HeldBefore(p), active |-> {}]

Reload(m) ==
  /\ m \in Matcher \cap up /\ load[m].phase = "idle"
  /\ load' = [load EXCEPT ![m] = Starting(m)]
  /\ UNCHANGED <<db, published, making, ending, up, watched, firing, relay, holder, wire, faults>>

LoadRead(p) ==
  /\ load[p].phase = "asked"
  /\ load' = [load EXCEPT ![p] = [@ EXCEPT !.phase = "read", !.active = Active]]
  /\ UNCHANGED <<db, published, making, ending, up, watched, firing, relay, holder, wire, faults>>

LoadFails(p) ==
  /\ Faulty("load")
  /\ load[p].phase = "asked"
  /\ load' = [load EXCEPT ![p] = NoLoad]
  /\ UNCHANGED <<db, published, making, ending, up, watched, firing, relay, holder, wire>>

\* What is missing is added; what was held before the read and is no longer active is taken off.
LoadedOnly(p) == watched[p] \cup load[p].active
TakenOnly(p)  == watched[p] \ (load[p].before \ load[p].active)
Reloaded(p)   == (watched[p] \cup load[p].active) \ (load[p].before \ load[p].active)

Loaded(p) ==
  /\ load[p].phase = "read"
  /\ watched' = [watched EXCEPT ![p] = Reloaded(p)]
  /\ load' = [load EXCEPT ![p] = NoLoad]
  /\ UNCHANGED <<db, published, making, ending, up, firing, relay, holder, wire, faults>>

-----------------------------------------------------------------------------
(* A tick at a process, and the firings it starts.                         *)

Acts(p) == p \in up /\ (p \in Api \/ p = holder)

Tick(p, ltp) ==
  LET hit == {a \in watched[p] : Crossed(a, ltp)}
  IN  /\ Acts(p)
      /\ hit # {}
      /\ watched' = [watched EXCEPT ![p] = @ \ hit]
      /\ firing' = firing \cup {Firing(p, a, "store", 0) : a \in hit}
      /\ UNCHANGED <<db, published, making, ending, up, load, relay, holder, wire, faults>>

\* fire, in Postgres: the row, its notification, the outbox row and the trim, or nothing.
WithOutbox(id, stored)  == {i \in outbox \cup {id} : ~Trimmed(i, stored)}

FiredAnyway(a) == row[a] # "new"
StillActive(a) == row[a] = "ACTIVE"

Fired(a) ==
  IF StillActive(a)
  THEN /\ row' = [row EXCEPT ![a] = "TRIGGERED"]
       /\ notes' = Append(notes, a)
       /\ outbox' = WithOutbox(Len(notes'), notes')
  ELSE UNCHANGED db

Fire(f) ==
  /\ f \in firing /\ f.at = "store"
  /\ Fired(f.alert)
  /\ firing' = (firing \ {f}) \cup
       IF StillActive(f.alert) THEN {Firing(f.by, f.alert, "publish", Len(notes'))} ELSE {}
  /\ UNCHANGED <<published, making, ending, up, watched, load, relay, holder, wire, faults>>

\* The answer is an error, whether the transaction was rolled back or not.
FireFails(f) ==
  /\ Faulty("store")
  /\ f \in firing /\ f.at = "store"
  /\ Fired(f.alert) \/ UNCHANGED db
  /\ firing' = (firing \ {f}) \cup {Firing(f.by, f.alert, "failed", 0)}
  /\ UNCHANGED <<published, making, ending, up, watched, load, relay, holder, wire>>

PutBack(f) ==
  /\ f \in firing /\ f.at = "failed"
  /\ watched' = [watched EXCEPT ![f.by] = @ \cup {f.alert}]
  /\ firing' = firing \ {f}
  /\ UNCHANGED <<db, published, making, ending, up, load, relay, holder, wire, faults>>

\* The process that stored a notification publishes it, and then drops its outbox row.
Publish(f) ==
  /\ f \in firing /\ f.at = "publish"
  /\ published' = published \cup {f.id}
  /\ firing' = (firing \ {f}) \cup {[f EXCEPT !.at = "clear"]}
  /\ UNCHANGED <<db, making, ending, up, watched, load, relay, holder, wire, faults>>

Clear(f) ==
  /\ f \in firing /\ f.at = "clear"
  /\ outbox' = outbox \ {f.id}
  /\ firing' = firing \ {f}
  /\ UNCHANGED <<row, notes, published, making, ending, up, watched, load, relay, holder, wire,
                 faults>>

\* Publishing fails, perhaps once Redis has it, or clearing does: the row is left to the relay.
PublishFails(f) ==
  /\ Faulty("publish")
  /\ f \in firing /\ f.at \in {"publish", "clear"}
  /\ published' \in {published, published \cup {f.id}}
  /\ firing' = firing \ {f}
  /\ UNCHANGED <<db, making, ending, up, watched, load, relay, holder, wire>>

-----------------------------------------------------------------------------
(* The outbox relay of an API process: rows old enough, oldest first, up   *)
(* to the first that cannot be published; then their rows go.              *)

Oldest(ids) == CHOOSE i \in ids : \A j \in ids : i <= j

\* Rows up to `last` are older than OUTBOX_RELAY_MS.
StartRelay(p, last) ==
  /\ p \in up /\ relay[p] = NoRelay
  /\ \E i \in outbox : i <= last
  /\ relay' = [relay EXCEPT ![p].pending = {i \in outbox : i <= last}]
  /\ UNCHANGED <<db, published, making, ending, up, local, holder, wire, faults>>

RelayPublish(p) ==
  /\ relay[p].pending # {}
  /\ LET i == Oldest(relay[p].pending)
     IN  /\ published' = published \cup {i}
         /\ relay' = [relay EXCEPT ![p] = [pending |-> @.pending \ {i}, done |-> @.done \cup {i}]]
  /\ UNCHANGED <<db, making, ending, up, local, holder, wire, faults>>

RelayClears(pass) == [pass EXCEPT !.pending = {}, !.done = @ \cup pass.pending]
Stopped(pass)     == [pass EXCEPT !.pending = {}]

RelayFails(p) ==
  /\ Faulty("publish")
  /\ relay[p].pending # {}
  /\ published' \in {published, published \cup {Oldest(relay[p].pending)}}
  /\ relay' = [relay EXCEPT ![p] = Stopped(@)]
  /\ UNCHANGED <<db, making, ending, up, local, holder, wire>>

\* Dropping the rows fails: a later pass publishes them again.
RelayClearFails(p) ==
  /\ Faulty("publish")
  /\ relay[p].pending = {} /\ relay[p].done # {}
  /\ relay' = [relay EXCEPT ![p] = NoRelay]
  /\ UNCHANGED <<db, published, making, ending, up, local, holder, wire>>

RelayClear(p) ==
  /\ relay[p].pending = {} /\ relay[p].done # {}
  /\ outbox' = outbox \ relay[p].done
  /\ relay' = [relay EXCEPT ![p] = NoRelay]
  /\ UNCHANGED <<row, notes, published, making, ending, up, local, holder, wire, faults>>

-----------------------------------------------------------------------------
(* Processes and the lease.                                                *)

\* The alerts are loaded at once; a matcher finds its place on the command stream meanwhile.
Start(p) ==
  /\ p \notin up
  /\ up' = up \cup {p}
  /\ load' = [load EXCEPT ![p] = Starting(p)]
  /\ UNCHANGED <<db, published, making, ending, watched, firing, relay, holder, wire, faults>>

FindNewest(m) ==
  /\ m \in up /\ unread[m] = None
  /\ unread' = [unread EXCEPT ![m] = <<>>]
  /\ UNCHANGED <<db, published, making, ending, up, local, relay, holder, unsent, faults>>

TakeLease(m) ==
  /\ m \in up /\ holder = None
  /\ holder' = m
  /\ UNCHANGED <<db, published, making, ending, up, local, relay, wire, faults>>

LoseLease ==
  /\ Faulty("lease")
  /\ holder # None
  /\ holder' = None
  /\ UNCHANGED <<db, published, making, ending, up, local, relay, wire>>

\* Of what is in flight, the transactions not committed are lost, and the last of the commands.
Crash(p) ==
  /\ Faulty("crash")
  /\ p \in up
  /\ up' = up \ {p}
  /\ watched' = [watched EXCEPT ![p] = {}]
  /\ firing' = {f \in firing : f.by # p}
  /\ load' = [load EXCEPT ![p] = NoLoad]
  /\ making' = [a \in Alert |-> IF making[a].by = p /\ making[a].at \in {"checked", "stored"}
                                THEN [making[a] EXCEPT !.at = "done"] ELSE making[a]]
  /\ ending' = {e \in ending : e[1] # p}
  /\ relay' = [q \in Api |-> IF q = p THEN NoRelay ELSE relay[q]]
  /\ holder' = IF holder = p THEN None ELSE holder
  /\ unread' = [m \in Matcher |-> IF m = p THEN None ELSE unread[m]]
  /\ \/ p \in Api /\ \E n \in 0 .. Len(unsent[p]) :
                      unsent' = [unsent EXCEPT ![p] = SubSeq(@, 1, n)]
     \/ p \in Matcher /\ UNCHANGED unsent
  /\ UNCHANGED <<db, published>>

-----------------------------------------------------------------------------
Next ==
  \/ \E p \in Api, a \in Alert : Create(p, a) \/ Cancel(p, a) \/ Ending(p, a)
  \/ \E a \in Alert : Insert(a) \/ InsertFails(a) \/ Announce(a)
  \/ \E m \in Matcher : Read(m) \/ Reload(m) \/ FindNewest(m) \/ TakeLease(m)
  \/ LoseLease
  \/ \E p \in Process : LoadRead(p) \/ LoadFails(p) \/ Loaded(p) \/ Start(p) \/ Crash(p)
  \/ \E p \in Process, ltp \in Price : Tick(p, ltp)
  \/ \E f \in firing : Fire(f) \/ FireFails(f) \/ PutBack(f)
  \/ \E f \in firing : Publish(f) \/ Clear(f) \/ PublishFails(f)
  \/ \E p \in Api, last \in NoteIds : StartRelay(p, last)
  \/ \E p \in Api : RelayPublish(p) \/ RelayFails(p) \/ RelayClear(p) \/ RelayClearFails(p)
  \/ \E p \in Api : Send(p)

Spec == Init /\ [][Next]_vars

\* Processes are started again and go on with what they began; a minute passes, and so do the
\* five seconds of the relay; the lease is taken when it is free.
Fairness ==
  /\ \A a \in Alert : WF_vars(Insert(a)) /\ WF_vars(Announce(a))
  /\ \A p \in Api, a \in Alert : WF_vars(Ending(p, a))
  /\ \A p \in Api : WF_vars(Send(p))
  /\ \A m \in Matcher : WF_vars(Read(m)) /\ WF_vars(Reload(m)) /\ WF_vars(FindNewest(m))
  /\ WF_vars(\E m \in Matcher : TakeLease(m))
  /\ \A p \in Process : WF_vars(Start(p)) /\ WF_vars(LoadRead(p)) /\ WF_vars(Loaded(p))
  /\ \A p \in Process : WF_vars(\E f \in firing : f.by = p /\ (Fire(f) \/ PutBack(f)))
  /\ \A p \in Process : WF_vars(\E f \in firing : f.by = p /\ (Publish(f) \/ Clear(f)))
  /\ \A p \in Api : WF_vars(StartRelay(p, Cardinality(Alert)))
  /\ \A p \in Api : WF_vars(RelayPublish(p)) /\ WF_vars(RelayClear(p))

FairSpec == Spec /\ Fairness

-----------------------------------------------------------------------------
\* An alert raises one notification when it fires and none otherwise, whoever saw the price cross
\* it, and however often: every process that holds it, and again after a firing that failed.
NotedOnce ==
  \A a \in Alert :
    Cardinality({i \in 1 .. Len(notes) : notes[i] = a}) = IF row[a] = "TRIGGERED" THEN 1 ELSE 0

\* A process that runs stops holding an alert only when it has ended, or to fire it: a reload takes
\* off no alert that joined the book after it asked.
OnlyEndedLeave ==
  [][\A p \in up \cap up' : \A a \in watched[p] \ watched'[p] :
       a \in Ended \/ \E f \in firing' : f.by = p /\ f.alert = a]_vars

\* Every notification is published in the end, by the process that stored it or by a relay, unless
\* so many newer ones came that the centre no longer lists it: its outbox row never goes first.
EveryNotePublished ==
  \A i \in NoteIds : i <= Len(notes) ~> i \in published \/ Trimmed(i, notes)

\* An alert that ended leaves the matchers' books for good, though commands were lost or came late.
BooksForgetEnded == <>[](\A m \in Matcher : watched[m] \cap Ended = {})

\* While prices keep crossing an active alert, it fires, or the user cancels it: whatever command
\* was lost and whoever takes the shard over, the alert comes to the book of the one that acts.
KeepsCrossing(a) ==
  \A m \in Matcher : WF_vars(\E ltp \in Price : Crossed(a, ltp) /\ Tick(m, ltp))
CrossedFires ==
  \A a \in Alert : KeepsCrossing(a) => (row[a] = "ACTIVE" ~> row[a] # "ACTIVE")
=============================================================================
