--------------------------- MODULE ShardLeaseProofs -------------------------
(***************************************************************************)
(* At most one writer per shard, for every set of processes, every TTL and *)
(* renew interval and any number of faults.  OneWriter follows from        *)
(* HeldIsOwned, which is not inductive by itself: a confirmation still on  *)
(* its way back (`fresh`) must be covered by the key too, and a RELEASE    *)
(* may only be pending for a process that has stopped.                     *)
(*                                                                         *)
(* And a holder keeps the lease through as many faults as the TTL leaves   *)
(* room for (HolderKeepsLease): what each has cost it is added up (Kept).  *)
(***************************************************************************)
EXTENDS ShardLease, TLAPS

\* A confirmed lease, and one whose confirmation is on its way, is covered by the key.
Covered ==
  \A h \in Holder :
    /\ left[h] # None /\ left[h] > 0 => key.owner = h /\ key.left >= left[h]
    /\ round[h] \in {"renewed", "taken"} /\ fresh[h] > 0 =>
         key.owner = h /\ key.left >= fresh[h]

\* Only a stopped process has a RELEASE in flight, and it believes nothing.
ReleasedAfterStop ==
  /\ \A h \in Holder : status[h] = "stopped" => left[h] = None /\ round[h] \in {"idle", "release"}
  /\ \A h \in Holder : round[h] = "release" => status[h] = "stopped"
  /\ \A g \in ghosts : g.op = "release" => status[g.by] = "stopped"

LeaseInv == TypeOK /\ Covered /\ ReleasedAfterStop

LEMMA InitLease == Init => LeaseInv
  BY LeaseAssumption DEF Init, LeaseInv, TypeOK, Covered, ReleasedAfterStop, Sent, Replied

\* One request executed by Redis keeps the key well formed, and takes it from nobody it names.
LEMMA ExecutedKey ==
  ASSUME TypeOK, NEW h \in Holder, NEW op \in Sent
  PROVE  /\ Executed(h, op) \in [owner : Holder \cup {None}, left : 0..TTL]
         /\ \A q \in Holder :
              key.owner = q /\ key.left > 0 /\ (q # h \/ op # "release") =>
                Executed(h, op).owner = q /\ Executed(h, op).left >= key.left
  BY LeaseAssumption DEF TypeOK, Executed, RenewedKey, TakenKey, ReleasedKey, Owner, Sent

LEMMA TypeStep == ASSUME LeaseInv, [Next]_vars PROVE TypeOK'
<1> USE LeaseAssumption DEF LeaseInv, TypeOK
<1>1. CASE Tick
  BY <1>1 DEF Tick, Elapse
<1>2. ASSUME NEW h \in Holder, StartRound(h) PROVE TypeOK'
  BY <1>2 DEF StartRound, Sent
<1>3. ASSUME NEW h \in Holder, Proceed(h) PROVE TypeOK'
  <2>1. CASE ServeRenew(h) BY <2>1, LeaseAssumption DEF ServeRenew, RenewedKey, Owner, Sent, Replied
  <2>2. CASE ServeTake(h) BY <2>2, LeaseAssumption DEF ServeTake, TakenKey, Owner, Sent, Replied
  <2>3. CASE ServeRelease(h) BY <2>3, LeaseAssumption DEF ServeRelease, ReleasedKey, Owner, Sent
  <2>4. CASE Confirm(h) BY <2>4 DEF Confirm, Confirmed
  <2>5. CASE LoseLease(h) BY <2>5 DEF LoseLease, Sent
  <2>6. CASE Refused(h) BY <2>6 DEF Refused
  <2>7. CASE FinishStop(h) BY <2>7 DEF FinishStop, Sent
  <2>8. QED BY <1>3, <2>1, <2>2, <2>3, <2>4, <2>5, <2>6, <2>7 DEF Proceed
<1>4. ASSUME NEW h \in Holder, Stop(h) PROVE TypeOK'
  BY <1>4 DEF Stop
<1>5. ASSUME NEW h \in Holder, FailRound(h) PROVE TypeOK'
  BY <1>5 DEF FailRound, Abandoned
<1>6. ASSUME NEW h \in Holder, Crash(h) PROVE TypeOK'
  BY <1>6 DEF Crash, Abandoned
<1>7. ASSUME NEW g \in ghosts, ServeGhost(g) PROVE TypeOK'
  BY <1>7, ExecutedKey DEF ServeGhost
<1>8. CASE UNCHANGED vars
  BY <1>8 DEF vars
<1>9. QED
  BY <1>1, <1>2, <1>3, <1>4, <1>5, <1>6, <1>7, <1>8 DEF Next, Untimed

LEMMA ReleaseStep == ASSUME LeaseInv, [Next]_vars PROVE ReleasedAfterStop'
<1> USE LeaseAssumption DEF LeaseInv, TypeOK, ReleasedAfterStop
<1>1. CASE Tick
  BY <1>1 DEF Tick, Elapse
<1>2. ASSUME NEW h \in Holder, StartRound(h) PROVE ReleasedAfterStop'
  BY <1>2 DEF StartRound
<1>3. ASSUME NEW h \in Holder, Proceed(h) PROVE ReleasedAfterStop'
  BY <1>3 DEF Proceed, ServeRenew, ServeTake, ServeRelease, Confirm, Confirmed, LoseLease, Refused, FinishStop
<1>4. ASSUME NEW h \in Holder, Stop(h) PROVE ReleasedAfterStop'
  BY <1>4 DEF Stop
<1>5. ASSUME NEW h \in Holder, FailRound(h) PROVE ReleasedAfterStop'
  BY <1>5 DEF FailRound, Abandoned
<1>6. ASSUME NEW h \in Holder, Crash(h) PROVE ReleasedAfterStop'
  BY <1>6 DEF Crash, Abandoned
<1>7. ASSUME NEW g \in ghosts, ServeGhost(g) PROVE ReleasedAfterStop'
  BY <1>7 DEF ServeGhost
<1>8. CASE UNCHANGED vars
  BY <1>8 DEF vars
<1>9. QED
  BY <1>1, <1>2, <1>3, <1>4, <1>5, <1>6, <1>7, <1>8 DEF Next, Untimed

LEMMA CoveredStep == ASSUME LeaseInv, [Next]_vars PROVE Covered'
<1> USE LeaseAssumption DEF LeaseInv, TypeOK, Covered
<1>1. CASE Tick
  BY <1>1 DEF Tick, Elapse
<1>2. ASSUME NEW h \in Holder, StartRound(h) PROVE Covered'
  BY <1>2 DEF StartRound
<1>3. ASSUME NEW h \in Holder, Proceed(h) PROVE Covered'
  <2>1. CASE ServeRenew(h) BY <2>1 DEF ServeRenew, RenewedKey, Owner
  <2>2. CASE ServeTake(h) BY <2>2 DEF ServeTake, TakenKey, Owner
  <2>3. CASE ServeRelease(h) BY <2>3 DEF ServeRelease, ReleasedKey, Owner, ReleasedAfterStop
  <2>4. CASE Confirm(h) BY <2>4 DEF Confirm, Confirmed
  <2>5. CASE LoseLease(h) BY <2>5 DEF LoseLease
  <2>6. CASE Refused(h) BY <2>6 DEF Refused
  <2>7. CASE FinishStop(h) BY <2>7 DEF FinishStop
  <2>8. QED BY <1>3, <2>1, <2>2, <2>3, <2>4, <2>5, <2>6, <2>7 DEF Proceed
<1>4. ASSUME NEW h \in Holder, Stop(h) PROVE Covered'
  BY <1>4 DEF Stop
<1>5. ASSUME NEW h \in Holder, FailRound(h) PROVE Covered'
  BY <1>5 DEF FailRound
<1>6. ASSUME NEW h \in Holder, Crash(h) PROVE Covered'
  BY <1>6 DEF Crash
<1>7. ASSUME NEW g \in ghosts, ServeGhost(g) PROVE Covered'
  <2>1. g.by \in Holder /\ g.op \in Sent
    OBVIOUS
  <2>2. \A q \in Holder : key.owner = q /\ key.left > 0 /\ (q # g.by \/ g.op # "release") =>
          Executed(g.by, g.op).owner = q /\ Executed(g.by, g.op).left >= key.left
    BY <2>1, ExecutedKey
  <2>3. \A q \in Holder : q = g.by /\ g.op = "release" =>
          left[q] = None /\ round[q] \notin {"renewed", "taken"}
    BY DEF ReleasedAfterStop
  <2>4. Executed(g.by, g.op).left \in Int
    BY <2>1, ExecutedKey
  <2>5. QED
    BY <1>7, <2>2, <2>3, <2>4 DEF ServeGhost
<1>8. CASE UNCHANGED vars
  BY <1>8 DEF vars
<1>9. QED
  BY <1>1, <1>2, <1>3, <1>4, <1>5, <1>6, <1>7, <1>8 DEF Next, Untimed

\* The inductive invariant of the lease: types, coverage by the key, releases after the stop.
THEOREM LeaseInvariant == Spec => []LeaseInv
<1>1. LeaseInv /\ [Next]_vars => LeaseInv'
  BY TypeStep, ReleaseStep, CoveredStep DEF LeaseInv
<1>2. QED
  BY InitLease, <1>1, PTL DEF Spec

\* Type correctness of the lease's state (shardLease.ts startLease) in every reachable state.
THEOREM LeaseTypes == Spec => []TypeOK
<1>1. LeaseInv => TypeOK
  BY DEF LeaseInv
<1>2. QED
  BY LeaseInvariant, <1>1, PTL

\* isHeld() is true only of the process the Redis key names, with the key outliving the belief.
THEOREM LeaseHeldIsOwned == Spec => []HeldIsOwned
<1>1. LeaseInv => HeldIsOwned
  BY LeaseAssumption DEF LeaseInv, TypeOK, Covered, HeldIsOwned, IsHeld, Owner
<1>2. QED
  BY LeaseInvariant, <1>1, PTL

\* "Two writers never overlap": no two processes have isHeld() true at the same time.
THEOREM LeaseOneWriter == Spec => []OneWriter
<1>1. LeaseInv => OneWriter
  BY LeaseAssumption DEF LeaseInv, TypeOK, Covered, OneWriter, IsHeld
<1>2. QED
  BY LeaseInvariant, <1>1, PTL
-----------------------------------------------------------------------------
(* How long a holder keeps the lease: a renewal lost costs it a renew      *)
(* interval, a tick of delay a tick, and each is a fault.                  *)

\* What f faults may cost, beside the interval up to the next renewal.
Cost(f) == (f + 1) * Renew

\* What a running process has left of its lease, and of the one it is about to confirm.
KeptBy(h) ==
  /\ round[h] # "idle" => fresh[h] + faults >= TTL
  /\ left[h] # None /\ left[h] > 0 =>
       left[h] + Cost(faults) >= TTL + (IF round[h] = "idle" THEN timer[h] ELSE 0)
  /\ round[h] \in {"take", "taken", "refused"} => left[h] = None
  /\ round[h] = "lost" => left[h] = None \/ left[h] = 0

Kept == \A h \in Holder : status[h] = "running" => KeptBy(h)

LEMMA CostIs ==
  ASSUME NEW f \in Nat
  PROVE  Cost(f) \in Nat /\ Cost(f) >= f + Renew /\ Cost(f + 1) = Cost(f) + Renew
<1>1. Renew \in Nat /\ Renew >= 1 BY LeaseAssumption
<1>2. f * Renew \in Nat /\ f * Renew >= f BY <1>1
<1>3. Cost(f) = f * Renew + Renew /\ Cost(f + 1) = f * Renew + Renew + Renew BY <1>1 DEF Cost
<1>. QED BY <1>1, <1>2, <1>3

\* A step of one process leaves the others' leases, rounds and timers alone.
LEMMA KeptElse ==
  ASSUME LeaseInv, Kept, NEW h \in Holder,
         \A q \in Holder \ {h} : /\ left'[q] = left[q] /\ status'[q] = status[q] /\ round'[q] = round[q]
                                 /\ fresh'[q] = fresh[q] /\ timer'[q] = timer[q],
         faults' \in {faults, faults + 1}, status'[h] = "running" => KeptBy(h)'
  PROVE  Kept'
<1>1. SUFFICES ASSUME NEW q \in Holder \ {h}, status[q] = "running" PROVE KeptBy(q)'
  BY DEF Kept
<1>2. KeptBy(q) BY <1>1 DEF Kept
<1>3. faults \in Nat /\ Renew \in Nat /\ TTL \in Nat /\ None \notin Int
  BY LeaseAssumption DEF LeaseInv, TypeOK
<1>4. /\ left[q] \in (0..TTL) \cup {None} /\ fresh[q] \in 0..TTL /\ timer[q] \in 0..Renew
  BY DEF LeaseInv, TypeOK
<1>5. Cost(faults) \in Nat /\ Cost(faults') \in Nat /\ Cost(faults') >= Cost(faults)
  BY <1>3, CostIs
<1>. QED BY <1>1, <1>2, <1>3, <1>4, <1>5 DEF KeptBy

LEMMA KeptStep ==
  ASSUME LeaseInv, Kept, [Next]_vars
  PROVE  /\ Kept'
         /\ \A h \in Holder : IsHeld(h) /\ status'[h] = "running" /\ Cost(faults') < TTL => IsHeld(h)'
<1> DEFINE Stays == \A h \in Holder :
             IsHeld(h) /\ status'[h] = "running" /\ Cost(faults') < TTL => IsHeld(h)'
<1> USE LeaseAssumption DEF LeaseInv, TypeOK
<1>0. /\ faults \in Nat /\ Cost(faults) \in Nat /\ Cost(faults) >= faults + Renew
      /\ Cost(faults + 1) = Cost(faults) + Renew
  BY CostIs
<1>1. CASE Tick
  <2>1. SUFFICES ASSUME NEW h \in Holder, status[h] = "running"
                 PROVE  /\ KeptBy(h)'
                        /\ IsHeld(h) /\ Cost(faults') < TTL => IsHeld(h)'
    BY <1>1 DEF Tick, Kept
  <2>2. KeptBy(h) BY <2>1 DEF Kept
  <2>3. /\ left'[h] = Elapse(left[h]) /\ fresh'[h] = Elapse(fresh[h]) /\ timer'[h] = Elapse(timer[h])
        /\ status'[h] = status[h] /\ round'[h] = round[h]
    BY <1>1 DEF Tick
  <2>4. \/ faults' = faults /\ round[h] = "idle" /\ timer[h] > 0
        \/ faults' = faults + 1
    BY <1>1, <2>1 DEF Tick, Prompt
  <2>5. /\ left[h] \in (0..TTL) \cup {None} /\ fresh[h] \in 0..TTL /\ timer[h] \in 0..Renew
    OBVIOUS
  <2>. QED BY <1>0, <2>1, <2>2, <2>3, <2>4, <2>5 DEF Elapse, KeptBy, IsHeld
<1>2. ASSUME NEW h \in Holder, StartRound(h) PROVE Kept' /\ Stays
  <2>1. status[h] = "running" => KeptBy(h) BY DEF Kept
  <2>2. status'[h] = "running" => KeptBy(h)' BY <1>0, <1>2, <2>1 DEF StartRound, KeptBy
  <2>. QED BY <1>2, <2>2, KeptElse DEF StartRound, IsHeld
<1>3. ASSUME NEW h \in Holder, Proceed(h) PROVE Kept' /\ Stays
  <2>1. status[h] = "running" => KeptBy(h) BY DEF Kept
  <2>2. CASE ServeRenew(h)
    <3>1. left[h] # None /\ left[h] > 0 => Owner = h BY DEF Covered, Owner
    <3>2. status'[h] = "running" => KeptBy(h)' BY <2>1, <2>2, <3>1 DEF ServeRenew, KeptBy
    <3>. QED BY <2>2, <3>2, KeptElse DEF ServeRenew, IsHeld
  <2>3. CASE ServeTake(h)
    <3>1. status'[h] = "running" => KeptBy(h)' BY <2>1, <2>3 DEF ServeTake, KeptBy
    <3>. QED BY <2>3, <3>1, KeptElse DEF ServeTake, IsHeld
  <2>4. CASE ServeRelease(h)
    <3>1. status'[h] # "running" BY <2>4 DEF ServeRelease, ReleasedAfterStop
    <3>. QED BY <2>4, <3>1, KeptElse DEF ServeRelease, IsHeld
  <2>5. CASE Confirm(h)
    <3>1. timer[h] <= Renew /\ fresh[h] \in 0..TTL OBVIOUS
    <3>2. /\ left'[h] = fresh[h] /\ round'[h] = "idle" /\ fresh' = fresh /\ timer' = timer
          /\ status' = status /\ faults' = faults /\ round[h] # "idle"
      BY <2>5 DEF Confirm, Confirmed
    <3>3. status'[h] = "running" => KeptBy(h)' BY <1>0, <2>1, <3>1, <3>2 DEF KeptBy
    <3>4. status[h] = "running" /\ Cost(faults) < TTL => IsHeld(h)'
      BY <1>0, <2>1, <3>1, <3>2 DEF KeptBy, IsHeld
    <3>. QED BY <2>5, <3>2, <3>3, <3>4, KeptElse DEF Confirm, IsHeld
  <2>6. CASE LoseLease(h)
    <3>1. status'[h] = "running" => KeptBy(h)' BY <2>1, <2>6 DEF LoseLease, KeptBy
    <3>2. ~IsHeld(h) BY <2>1, <2>6 DEF LoseLease, KeptBy, IsHeld
    <3>. QED BY <2>6, <3>1, <3>2, KeptElse DEF LoseLease, IsHeld
  <2>7. CASE Refused(h)
    <3>1. status'[h] = "running" => KeptBy(h)' BY <2>1, <2>7 DEF Refused, KeptBy
    <3>. QED BY <2>7, <3>1, KeptElse DEF Refused, IsHeld
  <2>8. CASE FinishStop(h)
    <3>1. status'[h] # "running" BY <2>8 DEF FinishStop
    <3>. QED BY <2>8, <3>1, KeptElse DEF FinishStop, IsHeld
  <2>. QED BY <1>3, <2>2, <2>3, <2>4, <2>5, <2>6, <2>7, <2>8 DEF Proceed
<1>4. ASSUME NEW h \in Holder, Stop(h) \/ Crash(h) PROVE Kept' /\ Stays
  <2>1. status'[h] # "running" BY <1>4 DEF Stop, Crash
  <2>. QED BY <1>4, <2>1, KeptElse DEF Stop, Crash, IsHeld
<1>5. ASSUME NEW h \in Holder, FailRound(h) PROVE Kept' /\ Stays
  <2>1. status[h] = "running" => KeptBy(h) BY DEF Kept
  <2>2. timer[h] \in 0..Renew /\ left[h] \in (0..TTL) \cup {None} OBVIOUS
  <2>3. status'[h] = "running" => KeptBy(h)' BY <1>0, <1>5, <2>1, <2>2 DEF FailRound, KeptBy
  <2>. QED BY <1>5, <2>3, KeptElse DEF FailRound, IsHeld
<1>6. ASSUME NEW g \in ghosts, ServeGhost(g) PROVE Kept' /\ Stays
  BY <1>6 DEF ServeGhost, Kept, KeptBy, IsHeld
<1>7. CASE UNCHANGED vars
  BY <1>7 DEF vars, Kept, KeptBy, IsHeld
<1>. QED BY <1>1, <1>2, <1>3, <1>4, <1>5, <1>6, <1>7 DEF Next, Untimed

\* A running holder keeps the lease through as many lost renewals and ticks of delay as the TTL
\* leaves room for (shardLease.ts), whatever the TTL and the renew interval are.
THEOREM LeaseIsKept == Spec => HolderKeepsLease
<1>1. Init => Kept BY DEF Init, Kept, KeptBy
<1>2. LeaseInv /\ Kept /\ [Next]_vars => Kept' BY KeptStep
<1>3. LeaseInv /\ Kept /\ [Next]_vars =>
        [\A h \in Holder : IsHeld(h) /\ status'[h] = "running" /\ (faults' + 1) * Renew < TTL
           => IsHeld(h)']_vars
  BY KeptStep DEF Cost
<1>. QED BY <1>1, <1>2, <1>3, LeaseInvariant, PTL DEF Spec, HolderKeepsLease
=============================================================================
