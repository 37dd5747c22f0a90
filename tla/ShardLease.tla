----------------------------- MODULE ShardLease -----------------------------
(***************************************************************************)
(* The one-writer-per-shard lease that apps/quotes and apps/matcher hold   *)
(* (packages/marketData/src/shardLease.ts): a Redis key taken with         *)
(* SET NX PX, extended by the RENEW script and given up by the RELEASE     *)
(* script, each over a network that may lose the request, lose the reply   *)
(* or deliver the request after its sender gave up.                        *)
(*                                                                         *)
(* Time is kept as time left, so that nothing has to be bounded: where the *)
(* code compares now() - confirmedAt with ttlMs, `left` holds              *)
(* ttlMs - (now() - confirmedAt), never below 0.  Every process and Redis  *)
(* are assumed to measure the same length for the same interval.           *)
(*                                                                         *)
(* OwnerForever, RenewedUnextended, TakenFromOther and ConfirmedAtReply    *)
(* are not part of the specification: each is a bug the definition after   *)
(* it could have had, for the mutation runs.                               *)
(***************************************************************************)
EXTENDS Integers

CONSTANTS
  Holder,     \* the processes that compete for the lease, one id per process
  TTL,        \* ttlMs, in ticks of the clock
  Renew,      \* renewMs, in ticks of the clock
  MaxFaults,  \* bound: how many rounds fail, processes crash and ticks of delay there may be
  None        \* no holder; not confirmed

ASSUME LeaseAssumption ==
  /\ TTL \in Nat \ {0}
  /\ Renew \in Nat \ {0}
  /\ MaxFaults \in Nat
  /\ None \notin Holder
  /\ None \notin Int

VARIABLES
  key,      \* the Redis key: who it names and how long until it expires
  left,     \* per process, what is left of the confirmed lease; None is confirmedAt = null
  status,   \* per process: "running", "stopping" (stop() was called), "stopped"
  round,    \* per process, where its request to Redis is
  fresh,    \* per process, what a lease confirmed by the current round would have left
  timer,    \* per process, how long until setInterval fires
  ghosts,   \* requests given up by their sender that Redis may still execute
  faults    \* faults injected so far

vars == <<key, left, status, round, fresh, timer, ghosts, faults>>

-----------------------------------------------------------------------------
(* What a process believes, and what Redis knows.                          *)

\* isHeld(): not stopped, confirmed, and confirmed less than the TTL ago.
IsHeld(h) == status[h] = "running" /\ left[h] # None /\ left[h] > 0

\* GET of the key: an expired key reads as absent.
OwnerForever == key.owner
Owner == IF key.left > 0 THEN key.owner ELSE None

Sent    == {"renew", "take", "release"}
Replied == {"renewed", "lost", "taken", "refused"}

Elapse(n) == IF n = None \/ n = 0 THEN n ELSE n - 1

\* The key after Redis executes one request of h: RENEW, SET NX PX or RELEASE.
RenewedUnextended(h) == key
RenewedKey(h)  == IF Owner = h THEN [owner |-> h, left |-> TTL] ELSE key
TakenFromOther(h) == [owner |-> h, left |-> TTL]
TakenKey(h)    == IF Owner = None THEN [owner |-> h, left |-> TTL] ELSE key
ReleasedKey(h) == IF Owner = h THEN [owner |-> None, left |-> 0] ELSE key

Executed(h, op) ==
  IF op = "renew" THEN RenewedKey(h) ELSE IF op = "take" THEN TakenKey(h) ELSE ReleasedKey(h)

-----------------------------------------------------------------------------
Init ==
  /\ key = [owner |-> None, left |-> 0]
  /\ left = [h \in Holder |-> None]
  /\ status = [h \in Holder |-> "running"]
  /\ round = [h \in Holder |-> "idle"]
  /\ fresh = [h \in Holder |-> 0]
  /\ timer = [h \in Holder |-> 0]          \* startLease runs its first round at once
  /\ ghosts = {}
  /\ faults = 0

\* Nothing waits: no round is under way and no timer is due.
Prompt ==
  \A h \in Holder :
    /\ round[h] = "idle"
    /\ status[h] # "stopping"
    /\ status[h] = "running" => timer[h] > 0

\* One tick of the clock everywhere.  Any delay is possible: a timer may fire late and a round may
\* outlast the TTL.  A tick that anything waits through counts as a fault.
Tick ==
  /\ Prompt \/ faults < MaxFaults
  /\ faults' = IF Prompt THEN faults ELSE faults + 1
  /\ key' = [key EXCEPT !.left = Elapse(@)]
  /\ left' = [h \in Holder |-> Elapse(left[h])]
  /\ fresh' = [h \in Holder |-> Elapse(fresh[h])]
  /\ timer' = [h \in Holder |-> Elapse(timer[h])]
  /\ UNCHANGED <<status, round, ghosts>>

\* setInterval fires tick(): a round starts unless one is still running.
StartRound(h) ==
  /\ status[h] = "running" /\ timer[h] = 0
  /\ timer' = [timer EXCEPT ![h] = Renew]
  /\ IF round[h] = "idle"
       THEN /\ round' = [round EXCEPT ![h] = IF left[h] # None THEN "renew" ELSE "take"]
            /\ fresh' = [fresh EXCEPT ![h] = TTL]
       ELSE UNCHANGED <<round, fresh>>
  /\ UNCHANGED <<key, left, status, ghosts, faults>>

\* Redis executes h's RENEW: 1 when the key still names h, else 0.
ServeRenew(h) ==
  /\ round[h] = "renew"
  /\ key' = RenewedKey(h)
  /\ round' = [round EXCEPT ![h] = IF Owner = h THEN "renewed" ELSE "lost"]
  /\ UNCHANGED <<left, status, fresh, timer, ghosts, faults>>

\* Redis executes h's SET NX PX: OK when the key is absent.
ServeTake(h) ==
  /\ round[h] = "take"
  /\ key' = TakenKey(h)
  /\ round' = [round EXCEPT ![h] = IF Owner = None THEN "taken" ELSE "refused"]
  /\ UNCHANGED <<left, status, fresh, timer, ghosts, faults>>

\* confirmedAt = startedAt: what is left counts from before the request was sent.
ConfirmedAtReply(h) == TTL
Confirmed(h)        == fresh[h]

\* A reply that confirms the lease.
Confirm(h) ==
  /\ round[h] \in {"renewed", "taken"}
  /\ left' = [left EXCEPT ![h] = Confirmed(h)]
  /\ round' = [round EXCEPT ![h] = "idle"]
  /\ UNCHANGED <<key, status, fresh, timer, ghosts, faults>>

\* RENEW answered 0: the lease is lost, and the same round tries to take it.
LoseLease(h) ==
  /\ round[h] = "lost"
  /\ left' = [left EXCEPT ![h] = None]
  /\ round' = [round EXCEPT ![h] = "take"]
  /\ UNCHANGED <<key, status, fresh, timer, ghosts, faults>>

\* SET NX answered null: another process holds the lease.
Refused(h) ==
  /\ round[h] = "refused"
  /\ round' = [round EXCEPT ![h] = "idle"]
  /\ UNCHANGED <<key, left, status, fresh, timer, ghosts, faults>>

\* stop(): isHeld() is false from here on; a running round is waited for.
Stop(h) ==
  /\ status[h] = "running"
  /\ status' = [status EXCEPT ![h] = "stopping"]
  /\ UNCHANGED <<key, left, round, fresh, timer, ghosts, faults>>

\* The round is over: stop() gives up a confirmed lease, and has nothing to give up otherwise.
FinishStop(h) ==
  /\ status[h] = "stopping" /\ round[h] = "idle"
  /\ status' = [status EXCEPT ![h] = "stopped"]
  /\ left' = [left EXCEPT ![h] = None]
  /\ round' = [round EXCEPT ![h] = IF left[h] # None THEN "release" ELSE "idle"]
  /\ UNCHANGED <<key, fresh, timer, ghosts, faults>>

ServeRelease(h) ==
  /\ round[h] = "release"
  /\ key' = ReleasedKey(h)
  /\ round' = [round EXCEPT ![h] = "idle"]
  /\ UNCHANGED <<left, status, fresh, timer, ghosts, faults>>

-----------------------------------------------------------------------------
(* Faults.                                                                 *)

\* The request of a round given up: it never arrives, or is still to arrive.
Abandoned(h) ==
  \/ ghosts' = ghosts
  \/ round[h] \in Sent /\ ghosts' = ghosts \cup {[by |-> h, op |-> round[h]]}

\* The request or its reply is lost: the round ends with nothing learnt.
FailRound(h) ==
  /\ round[h] # "idle" /\ faults < MaxFaults
  /\ faults' = faults + 1
  /\ round' = [round EXCEPT ![h] = "idle"]
  /\ Abandoned(h)
  /\ UNCHANGED <<key, left, status, fresh, timer>>

\* Redis executes a request whose sender no longer listens.
ServeGhost(g) ==
  /\ key' = Executed(g.by, g.op)
  /\ ghosts' = ghosts \ {g}
  /\ UNCHANGED <<left, status, round, fresh, timer, faults>>

\* The process dies without stop(); its successor has a new holder id.
Crash(h) ==
  /\ status[h] # "stopped" /\ faults < MaxFaults
  /\ faults' = faults + 1
  /\ status' = [status EXCEPT ![h] = "stopped"]
  /\ left' = [left EXCEPT ![h] = None]
  /\ round' = [round EXCEPT ![h] = "idle"]
  /\ Abandoned(h)
  /\ UNCHANGED <<key, fresh, timer>>

-----------------------------------------------------------------------------
\* What the process and Redis do next for h once a round is under way.
Proceed(h) ==
  \/ ServeRenew(h) \/ ServeTake(h) \/ ServeRelease(h)
  \/ Confirm(h) \/ LoseLease(h) \/ Refused(h) \/ FinishStop(h)

Untimed ==
  \/ \E h \in Holder : StartRound(h) \/ Proceed(h) \/ Stop(h) \/ FailRound(h) \/ Crash(h)
  \/ \E g \in ghosts : ServeGhost(g)

Next == Tick \/ Untimed

Spec == Init /\ [][Next]_vars

\* Redis answers, timers fire and time goes on.
FairSpec ==
  /\ Spec
  /\ WF_vars(Prompt /\ Tick)
  /\ \A h \in Holder : WF_vars(StartRound(h)) /\ WF_vars(Proceed(h))

-----------------------------------------------------------------------------
(* Properties.                                                             *)

TypeOK ==
  /\ key \in [owner : Holder \cup {None}, left : 0..TTL]
  /\ left \in [Holder -> (0..TTL) \cup {None}]
  /\ status \in [Holder -> {"running", "stopping", "stopped"}]
  /\ round \in [Holder -> {"idle"} \cup Sent \cup Replied]
  /\ fresh \in [Holder -> 0..TTL]
  /\ timer \in [Holder -> 0..Renew]
  /\ ghosts \subseteq [by : Holder, op : Sent]
  /\ faults \in 0..MaxFaults

\* shardLease.ts isHeld(): "so two writers never overlap".  At most one process believes it may
\* write, whatever is lost, late or repeated.
OneWriter == \A h, g \in Holder : IsHeld(h) /\ IsHeld(g) => h = g

\* A process never outlives its key: while isHeld() is true the key in Redis names that process
\* and has at least as long to live, so no other process can take it meanwhile.
HeldIsOwned == \A h \in Holder : IsHeld(h) => Owner = h /\ key.left >= left[h]

\* A running holder keeps the lease through as many lost renewals and ticks of delay as the TTL
\* leaves room for: one, with 5 s and 2 s.
HolderKeepsLease ==
  [][\A h \in Holder :
       IsHeld(h) /\ status'[h] = "running" /\ (faults' + 1) * Renew < TTL => IsHeld(h)']_vars

\* A second process takes over when the holder stops or dies: as long as one process keeps
\* running, there is always a writer again.
Takeover ==
  \A h \in Holder : <>[](status[h] = "running") => []<>(\E g \in Holder : IsHeld(g))
=============================================================================
