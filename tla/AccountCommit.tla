---------------------------- MODULE AccountCommit ---------------------------
(***************************************************************************)
(* One user's paper account behind several apps/api processes: each keeps  *)
(* the account's engine as a cache (modules/orders/service.ts) in front of *)
(* the versioned account store (accountStore.ts), runs requests on it at   *)
(* once, and commits what they changed through a queue of writes.          *)
(*                                                                         *)
(* An account is the set of effects applied to it.  An effect <<w, n>> is  *)
(* what request or event w did on its n-th run, counted over all its       *)
(* deliveries, so that a lost change and a change made twice can both be   *)
(* seen.  Users share nothing: one user is modelled.                       *)
(*                                                                         *)
(* CommitsAll, CacheForgettingConflict, Reported, AppliedAgain, RetryJob,  *)
(* Unchecked, CommitFailedQuietly and LoadFaultUnheard are not part of the *)
(* specification: each is a bug the definition after it could have had,    *)
(* for the mutation runs.                                                  *)
(***************************************************************************)
EXTENDS Naturals, Sequences

CONSTANTS
  Procs,        \* processes with an order service: API instances, the job worker
  Acts,         \* order actions (`act`, `actOnStop`) the user sends
  Keyed,        \* those of them that carry a client order id
  ClientOrderId, \* the client order id each of those carries: an order sent again repeats it
  Reads,        \* reads (`read`, `current`)
  Fills,        \* fill requests of the matcher (`applyMatcherFill`)
  OrderOf,      \* the action that placed the order each of them is for
  Syncs,        \* session jobs (`syncAccounts`)
  Events,       \* changes the engine makes by itself on a sync: session events, crossed orders
  Home,         \* the process each request reaches
  Tickers,      \* processes that sync engines in the background: ticks and the order sweep
  Serial,       \* the user's requests reach a process one at a time
  FaultKinds,   \* the faults that may happen, of those named in `Faulty`
  MaxFaults,    \* bound: faults in a behaviour
  FillRetries   \* MATCHER_FILL_RETRIES

Reqs    == Acts \cup Reads \cup Fills \cup Syncs
Content == SUBSET ((Reqs \cup Events) \X Nat)

ASSUME CommitAssumption ==
  /\ Acts \cap (Reads \cup Fills \cup Syncs) = {} /\ Fills \cap (Reads \cup Syncs) = {}
  /\ Keyed \subseteq Acts /\ ClientOrderId \in [Keyed -> Acts] /\ Events \cap Reqs = {} /\ Tickers \subseteq Procs
  /\ Home \in [Reqs -> Procs] /\ OrderOf \in [Fills -> Acts]
  /\ Serial \in BOOLEAN
  /\ FaultKinds \subseteq {"commit", "load", "reload", "audit", "crash"}
  /\ MaxFaults \in Nat /\ FillRetries \in Nat

VARIABLES
  log,        \* the store: log[v] is the account as committed at version v
  due,        \* events whose time or price has come
  engine,     \* per process, the engine on the desk
  cache,      \* per process, the AccountCache entry
  queue,      \* per process, the user's queue of writes, oldest first
  pc,         \* per request, where its handler is
  tries,      \* per request, which of the runs of its handler it is at
  runs,       \* per request, how often it has run, over all its deliveries
  announced,  \* order updates published after a commit
  faults      \* faults so far

vars == <<log, due, engine, cache, queue, pc, tries, runs, announced, faults>>

-----------------------------------------------------------------------------
(* The store: load and commit (accountStore.ts).                           *)

Version   == Len(log)
At(v)     == IF v = 0 THEN {} ELSE log[v]
Loaded == [version |-> Version, content |-> At(Version)]

(* The queue of writes.  A write is a commit of the engine's change, the   *)
(* first load of the account, or an audit entry; `live` turns false when   *)
(* the engine it came from is replaced.                                    *)
NoLoad == [version |-> 0, content |-> {}]
Write(kind, after, updates, req) ==
  [kind |-> kind, after |-> after, updates |-> updates, req |-> req,
   live |-> TRUE, phase |-> "queued", found |-> NoLoad]

CommitsAll(after, updates) == Write("commit", after, after, {})
Commits(after, updates) == Write("commit", after, updates, {})
Hydrates                == Write("hydrate", {}, {}, {})
Records(r)              == Write("record", {}, {}, {r})

Kinds  == {"commit", "hydrate", "record"}
Phases == {"queued", "won", "announcing", "lost", "failed", "loaded"}
Writes == [kind : Kinds, after : Content, updates : Content, req : SUBSET Reqs,
           live : BOOLEAN, phase : Phases, found : [version : Nat, content : Content]]

Doing(p, kind, phase) ==
  /\ queue[p] # <<>>
  /\ Head(queue[p]).kind = kind /\ Head(queue[p]).phase = phase

Idle(p)  == queue[p] = <<>>
Done(p)  == queue' = [queue EXCEPT ![p] = Tail(@)]
Phase(p, phase, found) ==
  queue' = [queue EXCEPT ![p][1] = [@ EXCEPT !.phase = phase, !.found = found]]

\* The cache entry's key is committedKey: nothing, or the content last queued for commit.
NoCache == [loaded |-> FALSE, version |-> 0, key |-> {}, conflict |-> FALSE, stale |-> FALSE]

CacheForgettingConflict(found, conflict) ==
  [loaded |-> TRUE, version |-> found.version, conflict |-> FALSE, stale |-> FALSE,
   key |-> IF found.version = 0 THEN {} ELSE {found.content}]

\* A load puts the stored account on the desk and starts a new cache entry.
CacheOf(found, conflict) ==
  [loaded |-> TRUE, version |-> found.version, conflict |-> conflict, stale |-> FALSE,
   key |-> IF found.version = 0 THEN {} ELSE {found.content}]

\* settle() reports a conflict once.
Reported(c) == c
Settled(c)  == [c EXCEPT !.conflict = FALSE]

-----------------------------------------------------------------------------
(* The engine.                                                             *)

\* Every engine call syncs first: what is due happens.
Synced(c) == c \cup (due \X {1})

\* Requests for the same order: an order sent again comes with the client order id it had.
SameOrder(r) == IF r \in Keyed THEN {q \in Keyed : ClientOrderId[q] = ClientOrderId[r]} ELSE {r}

\* A read asks for no change; a client order id placed before, an order already filled or one the
\* engine does not hold leaves nothing to do.
Ran(r, c)  == \E e \in c : e[1] \in SameOrder(r)
Moot(r, c) ==
  \/ r \in Reads \cup Syncs
  \/ r \in Keyed \cup Fills /\ Ran(r, c)
  \/ r \in Fills /\ ~Ran(OrderOf[r], c)
AppliedAgain(r, c) ==
  IF r \in Reads \cup Syncs \/ (r \in Fills /\ ~Ran(OrderOf[r], c)) THEN c ELSE c \cup {<<r, runs[r] + 1>>}
Applied(r, c) == IF Moot(r, c) THEN c ELSE c \cup {<<r, runs[r] + 1>>}

\* desk onChange -> persist: the engine becomes c and its change, if any, is queued for commit.
PersistBehind(p, c, writes, entry) ==
  /\ engine' = [engine EXCEPT ![p] = c]
  /\ IF {c} = entry.key
       THEN queue' = [queue EXCEPT ![p] = writes] /\ cache' = [cache EXCEPT ![p] = entry]
       ELSE /\ queue' = [queue EXCEPT ![p] = Append(writes, Commits(c, c \ engine[p]))]
            /\ cache' = [cache EXCEPT ![p] = [entry EXCEPT !.key = {c}]]
Persist(p, c) == PersistBehind(p, c, queue[p], cache[p])

-----------------------------------------------------------------------------
(* Requests.                                                               *)

Waiting  == {"loading", "running", "settling", "recording"}
Answers  == {"ok", "conflict", "error", "failed", "lost"}
\* What a handler that throws answers: 500, or a fill or a job left for its next attempt.
Thrown(r) == IF r \in Fills \cup Syncs THEN "failed" ELSE "error"

Goto(r, place) == pc' = [pc EXCEPT ![r] = place]

\* ensure(): a known account is used as it is, otherwise one load is queued and shared.
Ensure(r, p, usable) ==
  IF usable
    THEN Goto(r, "running") /\ UNCHANGED queue
    ELSE /\ Goto(r, "loading")
         /\ IF \E i \in DOMAIN queue[p] : queue[p][i].kind = "hydrate"
              THEN UNCHANGED queue
              ELSE queue' = [queue EXCEPT ![p] = Append(@, Hydrates)]

\* The matcher learns of an order from its commit, and asks for its fill only then.
Arrives(r) ==
  /\ pc[r] = "new"
  /\ r \in Fills => Ran(OrderOf[r], At(Version))
  /\ Serial => \A q \in Reqs : Home[q] = Home[r] => pc[q] \notin Waiting

\* An action, a read or a fill reaches its process.
Receive(r) ==
  LET p == Home[r] IN
  /\ r \notin Syncs /\ Arrives(r)
  /\ Ensure(r, p, cache[p].loaded /\ ~cache[p].stale)
  /\ tries' = [tries EXCEPT ![r] = 1]
  /\ UNCHANGED <<log, due, engine, cache, runs, announced, faults>>

\* A session job settles first, then reloads the account whatever the cache holds.
StartSync(r) ==
  LET p == Home[r] IN
  /\ r \in Syncs /\ Arrives(r) /\ Idle(p)
  /\ IF cache[p].stale
       THEN /\ Goto(r, "failed")
            /\ UNCHANGED <<cache, queue, tries>>
       ELSE /\ cache' = [cache EXCEPT ![p] = [Settled(@) EXCEPT !.stale = cache[p].loaded]]
            /\ Ensure(r, p, FALSE)
            /\ tries' = [tries EXCEPT ![r] = 1]
  /\ UNCHANGED <<log, due, engine, runs, announced, faults>>

\* The action runs on the engine, at once, and its change is queued.
Run(r) ==
  LET p == Home[r] IN
  /\ pc[r] = "running"
  /\ Persist(p, Applied(r, Synced(engine[p])))
  /\ Goto(r, "settling")
  /\ runs' = [runs EXCEPT ![r] = @ + 1]
  /\ UNCHANGED <<log, due, tries, announced, faults>>

Again(r) == Goto(r, "running") /\ tries' = [tries EXCEPT ![r] = @ + 1]

\* settle() says whether a commit lost; the handler runs again, gives up or goes on.
Settle(r) ==
  LET p == Home[r]  conflict == cache[p].conflict IN
  /\ pc[r] = "settling" /\ Idle(p)
  /\ IF cache[p].stale
       THEN /\ Goto(r, Thrown(r))
            /\ UNCHANGED <<cache, queue, tries>>
       ELSE /\ cache' = [cache EXCEPT ![p] = Settled(@)]
            /\ \/ /\ r \in Acts /\ conflict
                  /\ IF tries[r] = 1 THEN Again(r) ELSE Goto(r, "conflict") /\ UNCHANGED tries
                  /\ UNCHANGED queue
               \/ /\ r \in Acts /\ ~conflict
                  /\ Goto(r, "recording")
                  /\ queue' = [queue EXCEPT ![p] = Append(@, Records(r))]
                  /\ UNCHANGED tries
               \/ /\ r \in Fills
                  /\ IF ~conflict THEN Goto(r, "ok") /\ UNCHANGED tries
                     ELSE IF tries[r] <= FillRetries THEN Again(r)
                     ELSE Goto(r, "failed") /\ UNCHANGED tries
                  /\ UNCHANGED queue
               \/ /\ r \in Syncs
                  /\ IF conflict /\ tries[r] = 1 THEN Again(r) ELSE Goto(r, "ok") /\ UNCHANGED tries
                  /\ UNCHANGED queue
               \/ /\ r \in Reads
                  /\ Goto(r, "ok")
                  /\ UNCHANGED <<queue, tries>>
  /\ UNCHANGED <<log, due, engine, runs, announced, faults>>

RetryJob(r) ==
  /\ r \in Syncs /\ pc[r] = "failed"
  /\ Goto(r, "new")
  /\ UNCHANGED <<log, due, engine, cache, queue, tries, runs, announced, faults>>

\* A job that failed is run again by its scheduler, an unacknowledged fill is claimed again.
Retry(r) ==
  /\ r \in Fills \cup Syncs /\ pc[r] = "failed"
  /\ Goto(r, "new")
  /\ UNCHANGED <<log, due, engine, cache, queue, tries, runs, announced, faults>>

-----------------------------------------------------------------------------
(* Background changes.                                                     *)

EventDue(e) ==
  /\ e \notin due
  /\ due' = due \cup {e}
  /\ UNCHANGED <<log, engine, cache, queue, pc, tries, runs, announced, faults>>

\* A tick or the order sweep syncs the engine; no request waits for the commit.
Background(p) ==
  /\ p \in Tickers /\ cache[p].loaded
  /\ Synced(engine[p]) # engine[p]
  /\ Persist(p, Synced(engine[p]))
  /\ UNCHANGED <<log, due, pc, tries, runs, announced, faults>>

-----------------------------------------------------------------------------
(* The queue of writes, one write at a time.                               *)

\* A change whose engine was replaced, or whose account is to be reloaded, is gone with it.
Drop(p) ==
  /\ Doing(p, "commit", "queued")
  /\ cache[p].stale \/ ~Head(queue[p]).live
  /\ Done(p)
  /\ UNCHANGED <<log, due, engine, cache, pc, tries, runs, announced, faults>>

Writing(p) ==
  /\ Doing(p, "commit", "queued")
  /\ ~cache[p].stale /\ Head(queue[p]).live

\* The store's check: the account is at the version it was read at.
Unchecked(p)  == TRUE
AtExpected(p) == cache[p].version = Version

\* The store's commit: one transaction, against the version the account was read at.
StoreCommit(p) ==
  /\ Writing(p)
  /\ IF AtExpected(p)
       THEN /\ log' = Append(log, Head(queue[p]).after)
            /\ Phase(p, "won", [version |-> Version + 1, content |-> Head(queue[p]).after])
       ELSE Phase(p, "lost", NoLoad) /\ UNCHANGED log
  /\ UNCHANGED <<due, engine, cache, pc, tries, runs, announced, faults>>

\* The commit's answer: the account is at the new version and its updates are announced.  The
\* delta announced with them needs the positions, and asking for those syncs the engine.
Committed(p) ==
  LET write == Head(queue[p])
      entry == [cache[p] EXCEPT !.version = write.found.version]
  IN
  /\ Doing(p, "commit", "won")
  /\ announced' = announced \cup (write.updates \X {write.found.version})
  /\ IF write.updates = {}
       THEN Done(p) /\ cache' = [cache EXCEPT ![p] = entry] /\ UNCHANGED engine
       ELSE PersistBehind(p, Synced(engine[p]),
                          [queue[p] EXCEPT ![1] = [@ EXCEPT !.phase = "announcing"]], entry)
  /\ UNCHANGED <<log, due, pc, tries, runs, faults>>

\* The positions have their prices: the funds of the delta sync the engine once more.
Announced(p) ==
  /\ Doing(p, "commit", "announcing")
  /\ PersistBehind(p, Synced(engine[p]), Tail(queue[p]), cache[p])
  /\ UNCHANGED <<log, due, pc, tries, runs, announced, faults>>

CommitFailedQuietly(p) ==
  /\ Doing(p, "commit", "failed")
  /\ Done(p)
  /\ UNCHANGED <<log, due, engine, cache, pc, tries, runs, announced, faults>>

\* Any other failure: the account is reloaded before its next use.
CommitFailed(p) ==
  /\ Doing(p, "commit", "failed")
  /\ cache' = [cache EXCEPT ![p].stale = TRUE]
  /\ Done(p)
  /\ UNCHANGED <<log, due, engine, pc, tries, runs, announced, faults>>

Loading(p) == Doing(p, "hydrate", "queued") \/ Doing(p, "commit", "lost")

\* accounts.load: one consistent read of the account.
LoadAccount(p) ==
  /\ Loading(p)
  /\ Phase(p, "loaded", Loaded)
  /\ UNCHANGED <<log, due, engine, cache, pc, tries, runs, announced, faults>>

\* hydrate(): the loaded account replaces the engine and the cache entry; after a lost commit the
\* conflict is left for the next settle().
Install(p) ==
  LET write == Head(queue[p]) IN
  /\ Doing(p, "hydrate", "loaded") \/ Doing(p, "commit", "loaded")
  /\ engine' = [engine EXCEPT ![p] = write.found.content]
  /\ cache' = [cache EXCEPT ![p] = CacheOf(write.found, write.kind = "commit")]
  /\ queue' = [queue EXCEPT ![p] =
       [i \in 1 .. Len(@) - 1 |-> [@[i + 1] EXCEPT !.live = FALSE]]]
  /\ pc' = [r \in Reqs |-> IF Home[r] = p /\ pc[r] = "loading" /\ write.kind = "hydrate"
                             THEN "running" ELSE pc[r]]
  /\ UNCHANGED <<log, due, tries, runs, announced, faults>>

\* The action's audit entry is written, and the action answered.
Record(p) ==
  /\ Doing(p, "record", "queued")
  /\ pc' = [r \in Reqs |-> IF r \in Head(queue[p]).req THEN "ok" ELSE pc[r]]
  /\ Done(p)
  /\ UNCHANGED <<log, due, engine, cache, tries, runs, announced, faults>>

-----------------------------------------------------------------------------
(* Faults.                                                                 *)

Faulty(kind) == kind \in FaultKinds /\ faults < MaxFaults /\ faults' = faults + 1

\* The database fails the commit, or fails to say that it succeeded.
CommitFault(p) ==
  /\ Faulty("commit") /\ Writing(p)
  /\ \/ UNCHANGED log
     \/ AtExpected(p) /\ log' = Append(log, Head(queue[p]).after)
  /\ Phase(p, "failed", NoLoad)
  /\ UNCHANGED <<due, engine, cache, pc, tries, runs, announced>>

LoadFaultUnheard(p) ==
  /\ Faulty("load") /\ Doing(p, "hydrate", "queued")
  /\ Done(p)
  /\ UNCHANGED <<log, due, engine, cache, pc, tries, runs, announced>>

\* The load of an account not in the cache fails: whoever waits for it gets the error.
LoadFault(p) ==
  /\ Faulty("load") /\ Doing(p, "hydrate", "queued")
  /\ pc' = [r \in Reqs |-> IF Home[r] = p /\ pc[r] = "loading" THEN Thrown(r) ELSE pc[r]]
  /\ Done(p)
  /\ UNCHANGED <<log, due, engine, cache, tries, runs, announced>>

\* The reload after a lost commit fails: the error is reported, and that is all.
ReloadFault(p) ==
  /\ Faulty("reload") /\ Doing(p, "commit", "lost")
  /\ Done(p)
  /\ UNCHANGED <<log, due, engine, cache, pc, tries, runs, announced>>

\* The audit entry is not written: the action answers 500, done as it is.
AuditFault(p) ==
  /\ Faulty("audit") /\ Doing(p, "record", "queued")
  /\ pc' = [r \in Reqs |-> IF r \in Head(queue[p]).req THEN "error" ELSE pc[r]]
  /\ Done(p)
  /\ UNCHANGED <<log, due, engine, cache, tries, runs, announced>>

\* The process dies and starts again with nothing in memory; its requests are never answered.
Crash(p) ==
  /\ Faulty("crash")
  /\ engine' = [engine EXCEPT ![p] = {}]
  /\ cache' = [cache EXCEPT ![p] = NoCache]
  /\ queue' = [queue EXCEPT ![p] = <<>>]
  /\ pc' = [r \in Reqs |-> IF Home[r] = p /\ pc[r] \in Waiting
                             THEN IF r \in Acts \cup Reads THEN "lost" ELSE "failed" ELSE pc[r]]
  /\ UNCHANGED <<log, due, tries, runs, announced>>

-----------------------------------------------------------------------------
Init ==
  /\ log = <<>>
  /\ due = {}
  /\ engine = [p \in Procs |-> {}]
  /\ cache = [p \in Procs |-> NoCache]
  /\ queue = [p \in Procs |-> <<>>]
  /\ pc = [r \in Reqs |-> "new"]
  /\ tries = [r \in Reqs |-> 0]
  /\ runs = [r \in Reqs |-> 0]
  /\ announced = {}
  /\ faults = 0

Handle(r)  == Receive(r) \/ StartSync(r) \/ Run(r) \/ Settle(r)
DoWrite(p) == Drop(p) \/ StoreCommit(p) \/ Committed(p) \/ Announced(p) \/ CommitFailed(p)
                \/ LoadAccount(p) \/ Install(p) \/ Record(p)
Fault(p)   == CommitFault(p) \/ LoadFault(p) \/ ReloadFault(p) \/ AuditFault(p) \/ Crash(p)

Next ==
  \/ \E r \in Reqs : Handle(r) \/ Retry(r)
  \/ \E p \in Procs : DoWrite(p) \/ Background(p) \/ Fault(p)
  \/ \E e \in Events : EventDue(e)

Spec == Init /\ [][Next]_vars

\* The event loop runs what is ready, and schedulers run a failed job or fill again.
Fairness ==
  /\ \A r \in Reqs : WF_vars(Handle(r)) /\ WF_vars(Retry(r))
  /\ \A p \in Procs : WF_vars(DoWrite(p))

FairSpec == Spec /\ Fairness
-----------------------------------------------------------------------------
(* Properties.                                                             *)

TypeOK ==
  /\ log \in Seq(Content)
  /\ due \subseteq Events
  /\ engine \in [Procs -> Content]
  /\ cache \in [Procs -> [loaded : BOOLEAN, version : Nat, key : SUBSET Content,
                          conflict : BOOLEAN, stale : BOOLEAN]]
  /\ queue \in [Procs -> Seq(Writes)]
  /\ pc \in [Reqs -> {"new"} \cup Waiting \cup Answers]
  /\ tries \in [Reqs -> 0 .. FillRetries + 2]
  /\ runs \in [Reqs -> Nat]
  /\ announced \subseteq ((Reqs \cup Events) \X Nat) \X Nat
  /\ faults \in 0 .. MaxFaults

Stored == At(Version)

\* accountStore.ts commit against the version read: whatever several processes interleave, no
\* commit loses what an earlier one wrote.
NoLostUpdate == \A v \in DOMAIN log : At(v - 1) \subseteq log[v]

\* service.ts persist(): an update is announced at the version of the one commit that made the
\* change, so the matcher can drop a command older than the one it holds.
AnnouncedAtCommit ==
  \A a \in announced :
    /\ a[2] \in DOMAIN log
    /\ a[1] \in log[a[2]] /\ a[1] \notin At(a[2] - 1)

\* An idle process whose version is the store's holds exactly the stored account: nothing it
\* shows a reader, or matches against, is a change that was refused or dropped.
IdleEngineIsStored ==
  \A p \in Procs :
    Idle(p) /\ cache[p].loaded /\ ~cache[p].stale /\ cache[p].version = Version
      => engine[p] = Stored

\* PlaceOrderRequest.clientOrderId and the engine's recheck of fills: however often a keyed order
\* is run or sent again, to whichever process, and however often a fill request is run or claimed
\* again, also after a commit whose success was never heard of, the store has it at most once.
KeyedOnce ==
  \A e, f \in Stored : e[1] \in Keyed \cup Fills /\ f[1] \in SameOrder(e[1]) => e = f

\* service.ts act(): "Runs a user's order action on their engine, commits it, audits it, and
\* answers with the order": an action answered OK is in the store.
AckedIsStored == \A r \in Acts : pc[r] = "ok" => Ran(r, Stored)

\* service.ts applyMatcherFill: a request is "claimed again rather than acked unfilled", so once it
\* is acknowledged its fill is in the store.
AckedFillIsStored == \A r \in Fills : pc[r] = "ok" => Ran(r, Stored)

\* Every handler answers: neither the queue nor the retries can leave a request waiting.
EveryRequestAnswered == \A r \in Acts \cup Reads : (pc[r] \in Waiting) ~> (pc[r] \in Answers)

\* A fill request that was not acknowledged is claimed and run again until it is: no lost, failed or
\* dropped commit, failed load or crash leaves it pending for good.  That an acknowledged fill is
\* also stored is AckedFillIsStored's to say.
FillsAcked == \A r \in Fills : (pc[r] # "new") ~> (pc[r] = "ok")

\* Sent one at a time, the user's actions keep the promise of AccountPromise: an action is done at
\* most once and never after its answer, OK answers only what is stored, 409 only what is not;
\* once something has come due, its syncs may have an action without a key done again.
Promise == INSTANCE AccountPromise WITH
  Actions   <- Acts,
  Others    <- Fills \cup Events,
  account   <- Stored,
  answer    <- [r \in Acts |-> IF pc[r] \in Answers THEN pc[r] ELSE "none"],
  disturbed <- due # {}

KeepsPromise == Promise!Spec
=============================================================================
