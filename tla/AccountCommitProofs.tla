------------------------ MODULE AccountCommitProofs -------------------------
(***************************************************************************)
(* The optimistic commit loses nothing, for every set of processes and     *)
(* requests and any faults.  What makes it inductive is `Chained`: while a *)
(* change waits in a process's queue, what it will write contains the      *)
(* account at the version it will be written against, and everything the   *)
(* changes queued before it write.                                         *)
(*                                                                         *)
(* For requests sent one at a time it shows more: `SerialInv` says what a  *)
(* process is doing for the one request that is at work there, that its    *)
(* engine is then ahead of the stored account only by that request's run   *)
(* and by what has come due, that all of it is still to be written, and,   *)
(* until something comes due, that a request the store refused is not in   *)
(* the store.                                                              *)
(***************************************************************************)
EXTENDS AccountCommit, SequenceTheorems, TLAPS

AtIn(l, v)  == IF v = 0 THEN {} ELSE l[v]
IsChange(w) == w.kind = "commit" /\ w.live /\ w.phase # "announcing"

\* A change made on an account that was `base` when read, of which the engine is now `e`.
Fits(w, e, base) ==
  /\ base \subseteq w.after /\ w.after \subseteq e
  /\ w.updates \subseteq w.after /\ w.updates \cap base = {}

\* What the store answered to the write at work.
Answered(w, l) ==
  /\ w.phase = "won" =>
       /\ IsChange(w) /\ w.found.version \in 1 .. Len(l) /\ l[w.found.version] = w.after
       /\ w.updates \cap AtIn(l, w.found.version - 1) = {}
  /\ w.phase = "loaded" => w.found.version <= Len(l) /\ w.found.content = AtIn(l, w.found.version)

\* Queue q of an engine e whose cache entry is at version v, against the store l.
Chained(q, e, v, l) ==
  /\ v <= Len(l) /\ AtIn(l, v) \subseteq e
  /\ \A i \in 1 .. Len(q) : IsChange(q[i]) => Fits(q[i], e, AtIn(l, v))
  /\ \A i, j \in 1 .. Len(q) : i < j /\ IsChange(q[i]) /\ IsChange(q[j]) =>
       q[i].after \subseteq q[j].after /\ q[j].updates \cap q[i].after = {}
  /\ \A i \in 1 .. Len(q) : (i > 1 => q[i].phase = "queued") /\ Answered(q[i], l)

-----------------------------------------------------------------------------
(* The queue operations keep a queue chained.                              *)

\* A store that moved on changes nothing for the versions read before.
LEMMA StoreMoves ==
  ASSUME NEW q \in Seq(Writes), NEW e \in Content, NEW v \in Nat, NEW l \in Seq(Content),
         NEW a \in Content, Chained(q, e, v, l)
  PROVE  Chained(q, e, v, Append(l, a))
<1> DEFINE m == Append(l, a)
<1>1. /\ m \in Seq(Content) /\ Len(m) = Len(l) + 1
      /\ \A i \in 1 .. Len(l) : m[i] = l[i]
  BY AppendProperties
<1>2. \A i \in 0 .. Len(l) : AtIn(m, i) = AtIn(l, i)
  BY <1>1 DEF AtIn
<1>3. ASSUME NEW i \in 1 .. Len(q) PROVE Answered(q[i], m)
  <2>1. q[i] \in Writes /\ Answered(q[i], l) BY <1>3 DEF Chained
  <2>2. q[i].found.version \in Nat BY <2>1 DEF Writes
  <2> HIDE DEF m
  <2>3. CASE q[i].phase = "won"
    <3> DEFINE n == q[i].found.version
    <3>1. /\ IsChange(q[i]) /\ n \in 1 .. Len(l) /\ l[n] = q[i].after
          /\ q[i].updates \cap AtIn(l, n - 1) = {}
      BY <2>1, <2>3 DEF Answered
    <3>2. n \in 1 .. Len(m) /\ m[n] = l[n] BY <1>1, <3>1
    <3>3. n - 1 \in 0 .. Len(l) BY <3>1
    <3>4. AtIn(m, n - 1) = AtIn(l, n - 1) BY <1>2, <3>3
    <3> QED BY <2>3, <3>1, <3>2, <3>4 DEF Answered
  <2>4. CASE q[i].phase = "loaded"
    BY <1>1, <1>2, <2>1, <2>2, <2>4 DEF Answered
  <2> QED BY <2>3, <2>4 DEF Answered
<1>4. v \in 0 .. Len(l) BY DEF Chained
<1> HIDE DEF m
<1>5. Chained(q, e, v, m) BY <1>1, <1>2, <1>3, <1>4 DEF Chained
<1> QED BY <1>5 DEF m

\* A change of the engine is queued behind those it was made on.
LEMMA ChangeQueued ==
  ASSUME NEW q \in Seq(Writes), NEW e \in Content, NEW v \in Nat, NEW l \in Seq(Content),
         NEW c \in Content, e \subseteq c, Chained(q, e, v, l)
  PROVE  /\ Commits(c, c \ e) \in Writes
         /\ Chained(q, c, v, l)
         /\ Chained(Append(q, Commits(c, c \ e)), c, v, l)
<1> DEFINE w == Commits(c, c \ e)  n == Len(q) + 1
<1>1. w \in Writes
  BY DEF Commits, Write, Writes, Content, NoLoad, Kinds, Phases
<1>2. /\ IsChange(w) /\ w.phase = "queued" /\ w.after = c /\ w.updates = c \ e
  BY DEF Commits, Write, IsChange
<1> HIDE DEF w
<1>3. /\ Len(Append(q, w)) = n /\ Append(q, w)[n] = w
      /\ \A i \in 1 .. Len(q) : Append(q, w)[i] = q[i]
  BY <1>1, AppendProperties
<1>4. Chained(q, c, v, l) BY DEF Chained, Fits
<1>5. Fits(w, c, AtIn(l, v)) BY <1>2 DEF Chained, Fits
<1>6. Answered(w, l) BY <1>2 DEF Answered
<1>7. Chained(Append(q, w), c, v, l)
  <2>1. ASSUME NEW i \in 1 .. n PROVE
          /\ IsChange(Append(q, w)[i]) => Fits(Append(q, w)[i], c, AtIn(l, v))
          /\ (i > 1 => Append(q, w)[i].phase = "queued") /\ Answered(Append(q, w)[i], l)
    <3>1. CASE i = n BY <1>2, <1>3, <1>5, <1>6, <3>1
    <3>2. CASE i # n
      <4>1. i \in 1 .. Len(q) BY <3>2
      <4> QED BY <1>3, <1>4, <4>1 DEF Chained
    <3> QED BY <3>1, <3>2
  <2>2. ASSUME NEW i \in 1 .. n, NEW j \in 1 .. n, i < j,
               IsChange(Append(q, w)[i]), IsChange(Append(q, w)[j])
        PROVE  /\ Append(q, w)[i].after \subseteq Append(q, w)[j].after
               /\ Append(q, w)[j].updates \cap Append(q, w)[i].after = {}
    <3>1. i \in 1 .. Len(q) /\ Append(q, w)[i] = q[i] BY <1>3, <2>2
    <3>2. CASE j = n
      <4>1. q[i].after \subseteq e BY <2>2, <3>1 DEF Chained, Fits
      <4> QED BY <1>2, <1>3, <3>1, <3>2, <4>1
    <3>3. CASE j # n
      <4>1. j \in 1 .. Len(q) /\ Append(q, w)[j] = q[j] BY <1>3, <3>3
      <4> QED BY <2>2, <3>1, <4>1 DEF Chained
    <3> QED BY <3>2, <3>3
  <2> QED BY <1>3, <1>4, <2>1, <2>2 DEF Chained
<1> QED BY <1>1, <1>4, <1>7 DEF w

\* So is a write that changes no account.
LEMMA OtherQueued ==
  ASSUME NEW q \in Seq(Writes), NEW e \in Content, NEW v \in Nat, NEW l \in Seq(Content),
         NEW w \in Writes, w.kind # "commit", w.phase = "queued", Chained(q, e, v, l)
  PROVE  Chained(Append(q, w), e, v, l)
<1>1. /\ Len(Append(q, w)) = Len(q) + 1 /\ Append(q, w)[Len(q) + 1] = w
      /\ \A i \in 1 .. Len(q) : Append(q, w)[i] = q[i]
  BY AppendProperties
<1>2. ~IsChange(w) /\ Answered(w, l) BY DEF IsChange, Answered
<1>3. \A i \in 1 .. Len(q) + 1 : i \in 1 .. Len(q) \/ i = Len(q) + 1
  OBVIOUS
<1> QED BY <1>1, <1>2, <1>3 DEF Chained

\* The oldest write leaves the queue; if it was a commit that won, the account is at its version.
LEMMA OldestDone ==
  ASSUME NEW q \in Seq(Writes), NEW e \in Content, NEW v \in Nat, NEW l \in Seq(Content),
         q # <<>>, Chained(q, e, v, l)
  PROVE  /\ Chained(Tail(q), e, v, l)
         /\ Head(q).phase = "won" => Chained(Tail(q), e, Head(q).found.version, l)
<1> DEFINE t == Tail(q)
<1>1. /\ t \in Seq(Writes) /\ Len(t) = Len(q) - 1 /\ Len(q) \in Nat \ {0} /\ Head(q) = q[1]
      /\ \A i \in 1 .. Len(t) : t[i] = q[i + 1] /\ i + 1 \in 1 .. Len(q) /\ i + 1 > 1
  BY HeadTailProperties
<1> HIDE DEF t
<1>2. /\ \A i, j \in 1 .. Len(t) : i < j /\ IsChange(t[i]) /\ IsChange(t[j]) =>
           t[i].after \subseteq t[j].after /\ t[j].updates \cap t[i].after = {}
      /\ \A i \in 1 .. Len(t) : t[i].phase = "queued" /\ Answered(t[i], l)
  <2>1. ASSUME NEW i \in 1 .. Len(t), NEW j \in 1 .. Len(t),
               i < j, IsChange(t[i]), IsChange(t[j])
        PROVE  t[i].after \subseteq t[j].after /\ t[j].updates \cap t[i].after = {}
    <3>1. /\ t[i] = q[i + 1] /\ t[j] = q[j + 1] /\ i + 1 < j + 1
          /\ i + 1 \in 1 .. Len(q) /\ j + 1 \in 1 .. Len(q)
      BY <1>1, <2>1
    <3> QED BY <2>1, <3>1 DEF Chained
  <2>2. ASSUME NEW i \in 1 .. Len(t) PROVE t[i].phase = "queued" /\ Answered(t[i], l)
    <3>1. t[i] = q[i + 1] /\ i + 1 \in 1 .. Len(q) /\ i + 1 > 1 BY <1>1
    <3> QED BY <3>1 DEF Chained
  <2> QED BY <2>1, <2>2
<1>3. Chained(t, e, v, l) BY <1>1, <1>2 DEF Chained
<1>4. ASSUME q[1].phase = "won" PROVE Chained(t, e, q[1].found.version, l)
  <2>1. 1 \in 1 .. Len(q) BY <1>1
  <2>2. /\ IsChange(q[1]) /\ q[1].found.version \in 1 .. Len(l)
        /\ AtIn(l, q[1].found.version) = q[1].after
    BY <1>4, <2>1 DEF Chained, Answered, AtIn
  <2>3. q[1].after \subseteq e BY <2>1, <2>2 DEF Chained, Fits
  <2>4. ASSUME NEW i \in 1 .. Len(t), IsChange(t[i]) PROVE Fits(t[i], e, q[1].after)
    <3>1. t[i] = q[i + 1] /\ i + 1 \in 1 .. Len(q) /\ 1 < i + 1 BY <1>1
    <3> QED BY <2>1, <2>2, <2>4, <3>1 DEF Chained, Fits
  <2> QED BY <1>2, <2>2, <2>3, <2>4 DEF Chained
<1> QED BY <1>1, <1>3, <1>4 DEF t

\* The store's answer to the oldest write is noted on it.
LEMMA OldestAnswered ==
  ASSUME NEW q \in Seq(Writes), NEW e \in Content, NEW v \in Nat, NEW l \in Seq(Content),
         q # <<>>, Chained(q, e, v, l),
         NEW phase \in Phases, NEW found \in [version : Nat, content : Content],
         phase # "announcing", q[1].phase # "announcing",
         Answered([q[1] EXCEPT !.phase = phase, !.found = found], l)
  PROVE  /\ [q EXCEPT ![1] = [@ EXCEPT !.phase = phase, !.found = found]] \in Seq(Writes)
         /\ Chained([q EXCEPT ![1] = [@ EXCEPT !.phase = phase, !.found = found]], e, v, l)
<1> DEFINE w == [q[1] EXCEPT !.phase = phase, !.found = found]
           r == [q EXCEPT ![1] = w]
<1>1. 1 \in 1 .. Len(q) /\ q[1] \in Writes BY EmptySeq
<1>2. /\ w \in Writes /\ w.kind = q[1].kind /\ w.live = q[1].live
      /\ w.after = q[1].after /\ w.updates = q[1].updates /\ w.phase = phase
  BY <1>1 DEF Writes
<1>3. IsChange(w) = IsChange(q[1]) BY <1>2 DEF IsChange
<1>4. Answered(w, l) OBVIOUS
<1> HIDE DEF w
<1>5. /\ r \in Seq(Writes) /\ Len(r) = Len(q)
      /\ r[1] = w /\ \A i \in 1 .. Len(q) : i # 1 => r[i] = q[i]
  BY <1>1, <1>2, ExceptSeq
<1> HIDE DEF r
<1>6. \A i \in 1 .. Len(q) : /\ IsChange(r[i]) = IsChange(q[i]) /\ r[i].after = q[i].after
                             /\ r[i].updates = q[i].updates
  BY <1>2, <1>3, <1>5
<1>7. \A i \in 1 .. Len(q) : IsChange(r[i]) => Fits(r[i], e, AtIn(l, v))
  BY <1>6 DEF Chained, Fits
<1>8. \A i \in 1 .. Len(q) : (i > 1 => r[i].phase = "queued") /\ Answered(r[i], l)
  <2>1. Answered(r[1], l) BY <1>4, <1>5, Zenon
  <2>2. \A i \in 1 .. Len(q) : i # 1 => (i > 1 => r[i].phase = "queued") /\ Answered(r[i], l)
    BY <1>5, Zenon DEF Chained
  <2>3. ~(1 > 1) OBVIOUS
  <2> QED BY <2>1, <2>2, <2>3, Zenon
<1>9. \A i, j \in 1 .. Len(q) : i < j /\ IsChange(r[i]) /\ IsChange(r[j]) =>
        r[i].after \subseteq r[j].after /\ r[j].updates \cap r[i].after = {}
  BY <1>6 DEF Chained
<1>10. Chained(r, e, v, l) BY <1>5, <1>7, <1>8, <1>9 DEF Chained
<1> QED BY <1>5, <1>10 DEF r, w

\* A commit that won is announced: it is stored, and the account is at its version.
LEMMA OldestAnnounced ==
  ASSUME NEW q \in Seq(Writes), NEW e \in Content, NEW v \in Nat, NEW l \in Seq(Content),
         q # <<>>, q[1].phase = "won", Chained(q, e, v, l)
  PROVE  /\ [q EXCEPT ![1] = [@ EXCEPT !.phase = "announcing"]] \in Seq(Writes)
         /\ Chained([q EXCEPT ![1] = [@ EXCEPT !.phase = "announcing"]], e, q[1].found.version, l)
<1> DEFINE w == [q[1] EXCEPT !.phase = "announcing"]  r == [q EXCEPT ![1] = w]
           n == q[1].found.version
<1>1. 1 \in 1 .. Len(q) /\ q[1] \in Writes BY EmptySeq
<1>2. w \in Writes /\ w.phase = "announcing" BY <1>1 DEF Writes, Phases
<1>3. ~IsChange(w) /\ Answered(w, l) BY <1>2 DEF IsChange, Answered
<1> HIDE DEF w
<1>4. /\ r \in Seq(Writes) /\ Len(r) = Len(q)
      /\ r[1] = w /\ \A i \in 1 .. Len(q) : i # 1 => r[i] = q[i]
  BY <1>1, <1>2, ExceptSeq
<1> HIDE DEF r
<1>5. IsChange(q[1]) /\ n \in 1 .. Len(l) /\ AtIn(l, n) = q[1].after
  BY <1>1 DEF Chained, Answered, AtIn
<1>6. q[1].after \subseteq e BY <1>1, <1>5 DEF Chained, Fits
<1>7. ASSUME NEW i \in 1 .. Len(q), IsChange(r[i]) PROVE Fits(r[i], e, AtIn(l, n))
  <2>1. i # 1 /\ 1 < i /\ r[i] = q[i] BY <1>3, <1>4, <1>7
  <2> QED BY <1>1, <1>5, <1>7, <2>1 DEF Chained, Fits
<1>8. ASSUME NEW i \in 1 .. Len(q), NEW j \in 1 .. Len(q), i < j, IsChange(r[i]), IsChange(r[j])
      PROVE  r[i].after \subseteq r[j].after /\ r[j].updates \cap r[i].after = {}
  <2>1. i # 1 /\ j # 1 /\ r[i] = q[i] /\ r[j] = q[j] BY <1>3, <1>4, <1>8
  <2> QED BY <1>8, <2>1 DEF Chained
<1>9. ASSUME NEW i \in 1 .. Len(q) PROVE (i > 1 => r[i].phase = "queued") /\ Answered(r[i], l)
  <2>1. CASE i = 1 BY <1>3, <1>4, <2>1
  <2>2. CASE i # 1
    <3>1. r[i] = q[i] BY <1>4, <2>2
    <3> QED BY <3>1 DEF Chained
  <2> QED BY <2>1, <2>2
<1>10. Chained(r, e, n, l) BY <1>4, <1>5, <1>6, <1>7, <1>8, <1>9 DEF Chained
<1> QED BY <1>4, <1>10 DEF r, w

\* What is left of the queue when the loaded account replaces the engine.
Replaced(q) == [i \in 1 .. Len(q) - 1 |-> [q[i + 1] EXCEPT !.live = FALSE]]

LEMMA LoadedInstalled ==
  ASSUME NEW q \in Seq(Writes), NEW e \in Content, NEW v \in Nat, NEW l \in Seq(Content),
         q # <<>>, Head(q).phase = "loaded", Chained(q, e, v, l)
  PROVE  /\ Replaced(q) \in Seq(Writes)
         /\ Chained(Replaced(q), Head(q).found.content, Head(q).found.version, l)
<1> DEFINE r == Replaced(q)
<1>1. Len(q) \in Nat \ {0} /\ Head(q) = q[1] BY HeadTailProperties
<1>2. \A i \in 1 .. Len(q) - 1 : i + 1 \in 1 .. Len(q) /\ i + 1 > 1 /\ q[i + 1] \in Writes
  BY <1>1
<1>3. ASSUME NEW i \in 1 .. Len(q) - 1 PROVE
        /\ r[i] = [q[i + 1] EXCEPT !.live = FALSE] /\ r[i] \in Writes
        /\ ~IsChange(r[i]) /\ r[i].phase = "queued"
  <2>1. q[i + 1] \in Writes /\ q[i + 1].phase = "queued" BY <1>2 DEF Chained
  <2>2. r[i] = [q[i + 1] EXCEPT !.live = FALSE] BY DEF Replaced
  <2> QED BY <2>1, <2>2 DEF Writes, IsChange
<1>4. r \in Seq(Writes) /\ Len(r) = Len(q) - 1
  BY <1>1, <1>3, IsASeq DEF Replaced
<1> HIDE DEF r
<1>5. \A i \in 1 .. Len(r) : Answered(r[i], l) BY <1>3, <1>4 DEF Answered
<1>6. q[1].found.version <= Len(l) /\ q[1].found.content = AtIn(l, q[1].found.version)
  BY <1>1 DEF Chained, Answered
<1>7. Chained(r, q[1].found.content, q[1].found.version, l)
  BY <1>3, <1>4, <1>5, <1>6 DEF Chained
<1> QED BY <1>1, <1>4, <1>7 DEF r
-----------------------------------------------------------------------------
(* Types.                                                                  *)

AllChained ==
  \A p \in Procs : Chained(queue[p], engine[p], cache[p].version, log)

CommitInv == TypeOK /\ AllChained /\ NoLostUpdate /\ AnnouncedAtCommit

Caches == [loaded : BOOLEAN, version : Nat, key : SUBSET Content,
           conflict : BOOLEAN, stale : BOOLEAN]

LEMMA StoredType ==
  ASSUME TypeOK
  PROVE  /\ Version \in Nat /\ Stored \in Content
         /\ \A v \in 0 .. Version : At(v) \in Content
         /\ Loaded \in [version : Nat, content : Content]
         /\ NoLoad \in [version : Nat, content : Content]
<1>1. {} \in Content BY DEF Content
<1>2. Version \in Nat BY DEF TypeOK, Version
<1>3. ASSUME NEW v \in 0 .. Version PROVE At(v) \in Content
  <2>1. CASE v = 0 BY <1>1, <2>1 DEF At
  <2>2. CASE v # 0
    <3>1. v \in 1 .. Len(log) BY <1>2, <1>3, <2>2 DEF Version
    <3> QED BY <2>2, <3>1 DEF At, TypeOK
  <2> QED BY <2>1, <2>2
<1> QED BY <1>1, <1>2, <1>3 DEF Stored, Loaded, NoLoad

\* What the engine becomes when it is used contains what it was.
LEMMA UsedEngine ==
  ASSUME TypeOK, NEW c \in Content
  PROVE  /\ c \subseteq Synced(c) /\ Synced(c) \in Content
         /\ \A r \in Reqs : c \subseteq Applied(r, c)
         /\ \A r \in Reqs : Applied(r, c) \in Content
<1>1. c \subseteq Synced(c) /\ Synced(c) \in Content
  BY CommitAssumption DEF TypeOK, Synced, Content
<1>2. ASSUME NEW r \in Reqs PROVE c \subseteq Applied(r, c)
  BY DEF Applied
<1>3. ASSUME NEW r \in Reqs PROVE Applied(r, c) \in Content
  <2>1. runs[r] + 1 \in Nat BY DEF TypeOK
  <2> QED BY <2>1 DEF Applied, Content
<1> QED BY <1>1, <1>2, <1>3

\* persist() keeps a chained queue chained, behind whatever `writes` are left of it.
LEMMA PersistChained ==
  ASSUME TypeOK, AllChained, NEW p \in Procs, NEW c \in Content, engine[p] \subseteq c,
         NEW writes \in Seq(Writes), NEW entry \in Caches,
         Chained(writes, engine[p], entry.version, log),
         PersistBehind(p, c, writes, entry), UNCHANGED log
  PROVE  /\ engine' \in [Procs -> Content] /\ cache' \in [Procs -> Caches]
         /\ queue' \in [Procs -> Seq(Writes)]
         /\ AllChained'
<1> DEFINE w == Commits(c, c \ engine[p])  d == [entry EXCEPT !.key = {c}]
<1>0. /\ engine \in [Procs -> Content] /\ queue \in [Procs -> Seq(Writes)]
      /\ cache \in [Procs -> Caches] /\ log \in Seq(Content) /\ entry.version \in Nat
  BY DEF TypeOK, Caches
<1>1. /\ w \in Writes
      /\ Chained(writes, c, entry.version, log)
      /\ Chained(Append(writes, w), c, entry.version, log)
  BY <1>0, ChangeQueued
<1>2. d \in Caches /\ d.version = entry.version BY DEF Caches
<1>3. Append(writes, w) \in Seq(Writes) BY <1>1, AppendProperties
<1> HIDE DEF w, d
<1>4. engine' = [engine EXCEPT ![p] = c] BY DEF PersistBehind
<1>5. \/ queue' = [queue EXCEPT ![p] = writes] /\ cache' = [cache EXCEPT ![p] = entry]
      \/ queue' = [queue EXCEPT ![p] = Append(writes, w)] /\ cache' = [cache EXCEPT ![p] = d]
  BY DEF PersistBehind, w, d
<1>6. queue' \in [Procs -> Seq(Writes)] /\ cache' \in [Procs -> Caches]
  BY <1>0, <1>2, <1>3, <1>5
<1>7. ASSUME NEW q \in Procs PROVE Chained(queue'[q], engine'[q], cache'[q].version, log')
  <2>1. CASE q = p BY <1>0, <1>1, <1>2, <1>4, <1>5, <2>1
  <2>2. CASE q # p BY <1>0, <1>4, <1>5, <2>2 DEF AllChained
  <2> QED BY <2>1, <2>2
<1> QED BY <1>0, <1>4, <1>6, <1>7 DEF AllChained

\* Behind the whole queue.
LEMMA PersistAtEnd ==
  ASSUME TypeOK, AllChained, NEW p \in Procs, NEW c \in Content, engine[p] \subseteq c,
         Persist(p, c), UNCHANGED log
  PROVE  /\ engine' \in [Procs -> Content] /\ cache' \in [Procs -> Caches]
         /\ queue' \in [Procs -> Seq(Writes)]
         /\ AllChained'
<1>1. queue[p] \in Seq(Writes) /\ cache[p] \in Caches BY DEF TypeOK, Caches
<1>2. Chained(queue[p], engine[p], cache[p].version, log) BY DEF AllChained
<1>3. PersistBehind(p, c, queue[p], cache[p]) BY DEF Persist
<1> QED BY <1>1, <1>2, <1>3, PersistChained

\* ensure() may queue a load.
LEMMA EnsureChained ==
  ASSUME TypeOK, AllChained, NEW p \in Procs, NEW r \in Reqs, NEW usable \in BOOLEAN,
         Ensure(r, p, usable), UNCHANGED <<log, engine>>,
         \A q \in Procs : cache'[q].version = cache[q].version
  PROVE  /\ queue' \in [Procs -> Seq(Writes)] /\ AllChained'
         /\ pc' \in [Reqs -> {"new"} \cup Waiting \cup Answers]
<1>1. Hydrates \in Writes /\ Hydrates.kind # "commit" /\ Hydrates.phase = "queued"
  BY DEF Hydrates, Write, Writes, Content, NoLoad, Kinds, Phases
<1>2. queue' = queue \/ queue' = [queue EXCEPT ![p] = Append(@, Hydrates)]
  BY DEF Ensure
<1>3. queue' \in [Procs -> Seq(Writes)]
  <2>1. queue \in [Procs -> Seq(Writes)] BY DEF TypeOK
  <2>2. Append(queue[p], Hydrates) \in Seq(Writes) BY <1>1, <2>1, AppendProperties
  <2> QED BY <1>2, <2>1, <2>2
<1>4. Chained(Append(queue[p], Hydrates), engine[p], cache[p].version, log)
  BY <1>1, OtherQueued DEF TypeOK, AllChained
<1>5. AllChained' BY <1>2, <1>4 DEF AllChained, TypeOK
<1>6. pc' \in [Reqs -> {"new"} \cup Waiting \cup Answers]
  BY DEF Ensure, Goto, TypeOK, Waiting
<1> QED BY <1>3, <1>5, <1>6

\* The oldest write leaves the queue.
LEMMA DoneChained ==
  ASSUME TypeOK, AllChained, NEW p \in Procs, queue[p] # <<>>, Done(p), UNCHANGED <<log, engine>>,
         \A q \in Procs : cache'[q].version = cache[q].version
  PROVE  queue' \in [Procs -> Seq(Writes)] /\ AllChained'
<1>1. queue \in [Procs -> Seq(Writes)] /\ queue' = [queue EXCEPT ![p] = Tail(@)]
  BY DEF TypeOK, Done
<1>2. Tail(queue[p]) \in Seq(Writes) BY <1>1, HeadTailProperties
<1>3. Chained(Tail(queue[p]), engine[p], cache[p].version, log)
  BY OldestDone DEF TypeOK, AllChained
<1> QED BY <1>1, <1>2, <1>3 DEF AllChained

\* The oldest write is answered.
LEMMA PhaseChained ==
  ASSUME TypeOK, AllChained, NEW p \in Procs, queue[p] # <<>>,
         NEW phase \in Phases, NEW found \in [version : Nat, content : Content],
         phase # "announcing", queue[p][1].phase # "announcing",
         Phase(p, phase, found), UNCHANGED <<engine, cache>>,
         log' = log \/ \E a \in Content : log' = Append(log, a),
         Answered([queue[p][1] EXCEPT !.phase = phase, !.found = found], log')
  PROVE  queue' \in [Procs -> Seq(Writes)] /\ AllChained'
<1> DEFINE r == [queue[p] EXCEPT ![1] = [@ EXCEPT !.phase = phase, !.found = found]]
<1>1. queue \in [Procs -> Seq(Writes)] /\ log \in Seq(Content) /\ engine \in [Procs -> Content]
  BY DEF TypeOK
<1>2. queue' = [queue EXCEPT ![p] = r] BY DEF Phase
<1>3. log' \in Seq(Content)
  <2>1. \A a \in Content : Append(log, a) \in Seq(Content) BY <1>1, AppendProperties
  <2> QED BY <1>1, <2>1
<1>4. \A q \in Procs : cache[q].version \in Nat BY DEF TypeOK
<1>5. ASSUME NEW q \in Procs PROVE Chained(queue[q], engine[q], cache[q].version, log')
  <2>1. Chained(queue[q], engine[q], cache[q].version, log) BY DEF AllChained
  <2>2. queue[q] \in Seq(Writes) /\ engine[q] \in Content BY <1>1
  <2>3. ASSUME NEW a \in Content PROVE Chained(queue[q], engine[q], cache[q].version, Append(log, a))
    BY <1>1, <1>4, <2>1, <2>2, StoreMoves
  <2> QED BY <2>1, <2>3
<1>6. r \in Seq(Writes) /\ Chained(r, engine[p], cache[p].version, log')
  BY <1>1, <1>3, <1>4, <1>5, OldestAnswered
<1> HIDE DEF r
<1> QED BY <1>1, <1>2, <1>5, <1>6 DEF AllChained

-----------------------------------------------------------------------------
(* Every step keeps the types and the chains.                              *)

\* A cache entry set without a load is at the version it was at.
LEMMA EntrySet ==
  ASSUME cache \in [Procs -> Caches], NEW p \in Procs, NEW entry \in Caches,
         entry.version = cache[p].version, cache' = [cache EXCEPT ![p] = entry]
  PROVE  /\ cache' \in [Procs -> Caches]
         /\ \A q \in Procs : cache'[q].version = cache[q].version
OBVIOUS

LEMMA HandleStep ==
  ASSUME TypeOK, AllChained, NEW r \in Reqs, Handle(r) \/ Retry(r)
  PROVE  TypeOK' /\ AllChained'
<1> DEFINE p == Home[r]
<1> USE DEF TypeOK
<1>0. p \in Procs BY CommitAssumption
<1>1. CASE Receive(r)
  <2>1. queue' \in [Procs -> Seq(Writes)] /\ AllChained'
        /\ pc' \in [Reqs -> {"new"} \cup Waiting \cup Answers]
    BY <1>0, <1>1, EnsureChained DEF Receive
  <2>2. tries' \in [Reqs -> 0 .. FillRetries + 2] BY <1>1, CommitAssumption DEF Receive
  <2> QED BY <1>1, <2>1, <2>2 DEF Receive
<1>2. CASE StartSync(r)
  <2>1. CASE cache[p].stale
    BY <1>2, <2>1 DEF StartSync, Settled, Goto, AllChained, Waiting, Answers
  <2>2. CASE ~cache[p].stale
    <3>1. /\ cache' = [cache EXCEPT ![p] = [@ EXCEPT !.conflict = FALSE, !.stale = cache[p].loaded]]
          /\ Ensure(r, p, FALSE) /\ tries' = [tries EXCEPT ![r] = 1]
          /\ UNCHANGED <<log, due, engine, runs, announced, faults>>
      BY <1>2, <2>2 DEF StartSync, Settled
    <3>2. /\ cache' \in [Procs -> Caches]
          /\ \A q \in Procs : cache'[q].version = cache[q].version
      <4> DEFINE entry == [cache[p] EXCEPT !.conflict = FALSE, !.stale = cache[p].loaded]
      <4>1. cache[p] \in Caches BY <1>0 DEF Caches
      <4>2. entry \in Caches /\ entry.version = cache[p].version BY <4>1 DEF Caches
      <4>3. cache' = [cache EXCEPT ![p] = entry] BY <3>1
      <4>4. cache \in [Procs -> Caches] BY DEF Caches
      <4> HIDE DEF entry
      <4> QED BY <1>0, <4>2, <4>3, <4>4, EntrySet
    <3>3. queue' \in [Procs -> Seq(Writes)] /\ AllChained'
          /\ pc' \in [Reqs -> {"new"} \cup Waiting \cup Answers]
      BY <1>0, <3>1, <3>2, EnsureChained
    <3>4. tries' \in [Reqs -> 0 .. FillRetries + 2] BY <3>1, CommitAssumption
    <3> QED BY <3>1, <3>2, <3>3, <3>4 DEF Caches
  <2> QED BY <2>1, <2>2
<1>3. CASE Run(r)
  <2> DEFINE c == Applied(r, Synced(engine[p]))
  <2>1. c \in Content /\ engine[p] \subseteq c
    <3>1. engine[p] \in Content BY <1>0
    <3>2. engine[p] \subseteq Synced(engine[p]) /\ Synced(engine[p]) \in Content
      BY <3>1, UsedEngine
    <3> QED BY <3>2, UsedEngine
  <2>2. /\ engine' \in [Procs -> Content] /\ cache' \in [Procs -> Caches]
        /\ queue' \in [Procs -> Seq(Writes)] /\ AllChained'
    BY <1>0, <1>3, <2>1, PersistAtEnd DEF Run
  <2>3. pc' \in [Reqs -> {"new"} \cup Waiting \cup Answers]
    BY <1>3 DEF Run, Goto, Waiting
  <2>4. runs' \in [Reqs -> Nat] BY <1>3 DEF Run
  <2> QED BY <1>3, <2>2, <2>3, <2>4 DEF Run, Caches
<1>4. CASE Settle(r)
  <2>1. CASE cache[p].stale
    BY <1>4, <2>1 DEF Settle, Settled, Goto, Thrown, AllChained, Waiting, Answers
  <2>2. CASE ~cache[p].stale
    <3>1. /\ cache' = [cache EXCEPT ![p].conflict = FALSE]
          /\ UNCHANGED <<log, due, engine, runs, announced, faults>>
      BY <1>4, <2>2 DEF Settle, Settled
    <3>2. /\ cache' \in [Procs -> Caches]
          /\ \A q \in Procs : cache'[q].version = cache[q].version
      <4> DEFINE entry == [cache[p] EXCEPT !.conflict = FALSE]
      <4>1. cache[p] \in Caches BY <1>0 DEF Caches
      <4>2. entry \in Caches /\ entry.version = cache[p].version BY <4>1 DEF Caches
      <4>3. cache' = [cache EXCEPT ![p] = entry] BY <3>1
      <4>4. cache \in [Procs -> Caches] BY DEF Caches
      <4> HIDE DEF entry
      <4> QED BY <1>0, <4>2, <4>3, <4>4, EntrySet
    <3>3. pc' \in [Reqs -> {"new"} \cup Waiting \cup Answers]
      BY <1>4, <2>2 DEF Settle, Settled, Again, Goto, Waiting, Answers
    <3>4. tries' \in [Reqs -> 0 .. FillRetries + 2]
      <4>1. \/ UNCHANGED tries
            \/ /\ tries' = [tries EXCEPT ![r] = @ + 1]
               /\ tries[r] = 1 \/ tries[r] <= FillRetries
        BY <1>4, <2>2 DEF Settle, Settled, Again
      <4>2. tries \in [Reqs -> 0 .. FillRetries + 2] /\ FillRetries \in Nat
        BY CommitAssumption
      <4>3. tries[r] = 1 \/ tries[r] <= FillRetries => tries[r] + 1 \in 0 .. FillRetries + 2
        BY <4>2
      <4> QED BY <4>1, <4>2, <4>3
    <3>5. queue' = queue \/ queue' = [queue EXCEPT ![p] = Append(@, Records(r))]
      BY <1>4, <2>2 DEF Settle, Settled
    <3>6. Records(r) \in Writes /\ Records(r).kind # "commit" /\ Records(r).phase = "queued"
      BY DEF Records, Write, Writes, Content, NoLoad, Kinds, Phases
    <3>7. /\ Append(queue[p], Records(r)) \in Seq(Writes)
          /\ Chained(Append(queue[p], Records(r)), engine[p], cache[p].version, log)
      BY <1>0, <3>6, AppendProperties, OtherQueued DEF AllChained
    <3>8. queue' \in [Procs -> Seq(Writes)] BY <1>0, <3>5, <3>7
    <3>9. AllChained' BY <1>0, <3>1, <3>2, <3>5, <3>7 DEF AllChained
    <3> QED BY <3>1, <3>2, <3>3, <3>4, <3>8, <3>9 DEF Caches
  <2> QED BY <2>1, <2>2
<1>5. CASE Retry(r)
  BY <1>5 DEF Retry, Goto, AllChained, Waiting
<1> QED BY <1>1, <1>2, <1>3, <1>4, <1>5 DEF Handle

LEMMA WriteStep ==
  ASSUME TypeOK, AllChained, NEW p \in Procs, DoWrite(p)
  PROVE  TypeOK' /\ AllChained'
<1> USE DEF TypeOK
<1>0. \A kind, phase : Doing(p, kind, phase) =>
        /\ queue[p] # <<>> /\ Head(queue[p]) = queue[p][1] /\ queue[p][1] \in Writes
        /\ queue[p][1].kind = kind /\ queue[p][1].phase = phase
  BY EmptySeq DEF Doing
<1>1. CASE Drop(p)
  BY <1>0, <1>1, DoneChained DEF Drop
<1>2. CASE StoreCommit(p)
  <2> DEFINE w == queue[p][1]
  <2>0. queue[p] # <<>> /\ w \in Writes /\ Head(queue[p]) = w /\ IsChange(w)
    BY <1>0, <1>2 DEF StoreCommit, AtExpected, Writing, IsChange
  <2>1. CASE cache[p].version = Version
    <3> DEFINE found == [version |-> Version + 1, content |-> w.after]
               a == [w EXCEPT !.phase = "won", !.found = found]
    <3>1. log' = Append(log, w.after) /\ Phase(p, "won", found)
      BY <1>2, <2>0, <2>1 DEF StoreCommit, AtExpected
    <3>2. w.after \in Content /\ found \in [version : Nat, content : Content]
      <4>1. w.after \in Content BY <2>0 DEF Writes
      <4>2. Version + 1 \in Nat BY StoredType
      <4> QED BY <4>1, <4>2
    <3>3. /\ log' \in Seq(Content) /\ Len(log') = Version + 1 /\ Version \in Nat
          /\ log'[Version + 1] = w.after /\ \A v \in 1 .. Version : log'[v] = log[v]
      BY <3>1, <3>2, AppendProperties DEF Version
    <3>4. Fits(w, engine[p], AtIn(log, Version))
      <4>1. 1 \in 1 .. Len(queue[p]) BY <2>0, EmptySeq
      <4> QED BY <2>0, <2>1, <4>1 DEF AllChained, Chained
    <3>5. AtIn(log', Version) = AtIn(log, Version) BY <3>3 DEF AtIn
    <3>6. /\ IsChange(a) /\ a.phase = "won" /\ a.found = found /\ a.found.version = Version + 1
          /\ a.after = w.after /\ a.updates = w.updates
      BY <2>0 DEF Writes, IsChange
    <3> HIDE DEF a
    <3>7. Answered(a, log') BY <3>3, <3>4, <3>5, <3>6 DEF Answered, Fits
    <3>8. queue' \in [Procs -> Seq(Writes)] /\ AllChained'
      <4>0. w.phase # "announcing" BY <2>0 DEF IsChange
      <4>1. UNCHANGED <<engine, cache>> BY <1>2 DEF StoreCommit, AtExpected
      <4>2. "won" \in Phases BY DEF Phases
      <4> HIDE DEF found
      <4> QED BY <2>0, <3>1, <3>2, <3>7, <4>0, <4>1, <4>2, PhaseChained DEF a
    <3> QED BY <1>2, <3>3, <3>8 DEF StoreCommit, AtExpected
  <2>2. CASE cache[p].version # Version
    <3>1. log' = log /\ Phase(p, "lost", NoLoad) BY <1>2, <2>2 DEF StoreCommit, AtExpected
    <3>2. Answered([w EXCEPT !.phase = "lost", !.found = NoLoad], log')
      BY <2>0 DEF Writes, Answered
    <3>3. "lost" \in Phases /\ w.phase # "announcing" BY <2>0 DEF Phases, IsChange
    <3> QED BY <1>2, <2>0, <3>1, <3>2, <3>3, StoredType, PhaseChained DEF StoreCommit, AtExpected
  <2> QED BY <2>1, <2>2
<1>3. CASE Committed(p)
  <2> DEFINE w == queue[p][1]
  <2>0. /\ queue[p] # <<>> /\ w \in Writes /\ Head(queue[p]) = w /\ w.phase = "won"
        /\ w.kind = "commit"
    BY <1>0, <1>3 DEF Committed
  <2>1. w.found.version \in Nat /\ w.found.version \in 1 .. Len(log)
    <3>1. 1 \in 1 .. Len(queue[p]) BY <2>0, EmptySeq
    <3> QED BY <2>0, <3>1 DEF AllChained, Chained, Answered
  <2> DEFINE d == [cache[p] EXCEPT !.version = w.found.version]
             q == [queue[p] EXCEPT ![1] = [@ EXCEPT !.phase = "announcing"]]
  <2>2. d \in Caches /\ d.version = w.found.version
    <3>1. cache[p] \in Caches BY DEF Caches
    <3> QED BY <2>1, <3>1 DEF Caches
  <2>3. engine' \in [Procs -> Content] /\ cache' \in [Procs -> Caches]
        /\ queue' \in [Procs -> Seq(Writes)] /\ AllChained'
    <3>1. CASE w.updates = {}
      <4>1. /\ Tail(queue[p]) \in Seq(Writes)
            /\ Chained(Tail(queue[p]), engine[p], w.found.version, log)
        BY <2>0, HeadTailProperties, OldestDone DEF AllChained
      <4>2. /\ queue' = [queue EXCEPT ![p] = Tail(@)] /\ cache' = [cache EXCEPT ![p] = d]
            /\ UNCHANGED <<engine, log>>
        BY <1>3, <2>0, <3>1 DEF Committed, Done
      <4> HIDE DEF d
      <4>3. cache' \in [Procs -> Caches] BY <2>2, <4>2 DEF Caches
      <4> QED BY <2>2, <4>1, <4>2, <4>3 DEF AllChained
    <3>2. CASE w.updates # {}
      <4>1. q \in Seq(Writes) /\ Chained(q, engine[p], w.found.version, log)
        BY <2>0, OldestAnnounced DEF AllChained
      <4>2. PersistBehind(p, Synced(engine[p]), q, d) /\ UNCHANGED log
        BY <1>3, <2>0, <3>2 DEF Committed
      <4>3. Synced(engine[p]) \in Content /\ engine[p] \subseteq Synced(engine[p])
        BY UsedEngine
      <4> HIDE DEF d, q
      <4> QED BY <2>2, <4>1, <4>2, <4>3, PersistChained
    <3> QED BY <3>1, <3>2
  <2>4. announced' \subseteq ((Reqs \cup Events) \X Nat) \X Nat
    <3>1. w.updates \subseteq (Reqs \cup Events) \X Nat BY <2>0 DEF Writes, Content
    <3>2. announced' = announced \cup (w.updates \X {w.found.version})
      BY <1>3, <2>0 DEF Committed
    <3> QED BY <2>1, <3>1, <3>2
  <2> QED BY <1>3, <2>3, <2>4 DEF Committed, Caches
<1>8. CASE Announced(p)
  <2>0. queue[p] # <<>> BY <1>0, <1>8 DEF Announced
  <2>1. /\ Tail(queue[p]) \in Seq(Writes)
        /\ Chained(Tail(queue[p]), engine[p], cache[p].version, log)
    BY <2>0, HeadTailProperties, OldestDone DEF AllChained
  <2>2. Synced(engine[p]) \in Content /\ engine[p] \subseteq Synced(engine[p])
    BY UsedEngine
  <2>3. PersistBehind(p, Synced(engine[p]), Tail(queue[p]), cache[p]) /\ UNCHANGED log
    BY <1>8 DEF Announced
  <2>4. cache[p] \in Caches BY DEF Caches
  <2>5. /\ engine' \in [Procs -> Content] /\ cache' \in [Procs -> Caches]
        /\ queue' \in [Procs -> Seq(Writes)] /\ AllChained'
    BY <2>1, <2>2, <2>3, <2>4, PersistChained
  <2> QED BY <1>8, <2>5 DEF Announced, Caches
<1>4. CASE CommitFailed(p)
  <2>1. /\ cache' \in [Procs -> Caches]
        /\ \A q \in Procs : cache'[q].version = cache[q].version
    BY <1>4 DEF CommitFailed, Caches
  <2>2. queue' \in [Procs -> Seq(Writes)] /\ AllChained'
    BY <1>0, <1>4, <2>1, DoneChained DEF CommitFailed
  <2> QED BY <1>4, <2>1, <2>2 DEF CommitFailed, Caches
<1>5. CASE LoadAccount(p)
  <2> DEFINE w == queue[p][1]
  <2>0. queue[p] # <<>> /\ w \in Writes /\ w.phase # "announcing"
    BY <1>0, <1>5 DEF LoadAccount, Loading
  <2>1. AtIn(log, Version) = At(Version) BY DEF AtIn, At
  <2>2. Answered([w EXCEPT !.phase = "loaded", !.found = Loaded], log)
    BY <2>0, <2>1, StoredType DEF Writes, Answered, Loaded, Version
  <2>3. "loaded" \in Phases BY DEF Phases
  <2>4. queue' \in [Procs -> Seq(Writes)] /\ AllChained'
    BY <1>5, <2>0, <2>2, <2>3, StoredType, PhaseChained DEF LoadAccount
  <2> QED BY <1>5, <2>4 DEF LoadAccount
<1>6. CASE Install(p)
  <2> DEFINE w == queue[p][1]
  <2>0. queue[p] # <<>> /\ w \in Writes /\ Head(queue[p]) = w /\ w.phase = "loaded"
    BY <1>0, <1>6 DEF Install
  <2>1. w.found.version \in Nat /\ w.found.content \in Content BY <2>0 DEF Writes
  <2>2. /\ Replaced(queue[p]) \in Seq(Writes)
        /\ Chained(Replaced(queue[p]), w.found.content, w.found.version, log)
    BY <2>0, LoadedInstalled DEF AllChained
  <2>3. /\ CacheOf(w.found, w.kind = "commit") \in Caches
        /\ CacheOf(w.found, w.kind = "commit").version = w.found.version
    BY <2>1 DEF CacheOf, Caches
  <2>4. /\ engine' = [engine EXCEPT ![p] = w.found.content]
        /\ cache' = [cache EXCEPT ![p] = CacheOf(w.found, w.kind = "commit")]
        /\ queue' = [queue EXCEPT ![p] = Replaced(queue[p])]
    BY <1>6, <2>0 DEF Install, Replaced
  <2>5. /\ engine' \in [Procs -> Content] /\ queue' \in [Procs -> Seq(Writes)]
        /\ cache' \in [Procs -> Caches]
    BY <2>1, <2>2, <2>3, <2>4 DEF Caches
  <2>6. AllChained'
    <3>1. log' = log BY <1>6 DEF Install
    <3>2. ASSUME NEW q \in Procs PROVE Chained(queue'[q], engine'[q], cache'[q].version, log')
      <4>1. CASE q = p BY <2>2, <2>3, <2>4, <3>1, <4>1
      <4>2. CASE q # p BY <2>4, <3>1, <4>2 DEF AllChained
      <4> QED BY <4>1, <4>2
    <3> QED BY <3>2 DEF AllChained
  <2>7. pc' \in [Reqs -> {"new"} \cup Waiting \cup Answers]
    BY <1>6 DEF Install, Waiting
  <2> QED BY <1>6, <2>5, <2>6, <2>7 DEF Install, Caches
<1>7. CASE Record(p)
  <2>1. queue' \in [Procs -> Seq(Writes)] /\ AllChained'
    BY <1>0, <1>7, DoneChained DEF Record
  <2>2. pc' \in [Reqs -> {"new"} \cup Waiting \cup Answers]
    BY <1>7 DEF Record, Waiting, Answers
  <2> QED BY <1>7, <2>1, <2>2 DEF Record
<1> QED BY <1>1, <1>2, <1>3, <1>4, <1>5, <1>6, <1>7, <1>8 DEF DoWrite

LEMMA FaultStep ==
  ASSUME TypeOK, AllChained, NEW p \in Procs, Fault(p)
  PROVE  TypeOK' /\ AllChained'
<1> USE DEF TypeOK
<1>0. \A kind, phase : Doing(p, kind, phase) =>
        /\ queue[p] # <<>> /\ Head(queue[p]) = queue[p][1] /\ queue[p][1] \in Writes
        /\ queue[p][1].phase = phase
  BY EmptySeq DEF Doing
<1>. faults' \in 0 .. MaxFaults
  <2>1. faults \in 0 .. MaxFaults /\ faults < MaxFaults /\ faults' = faults + 1
    BY DEF Fault, CommitFault, AtExpected, LoadFault, ReloadFault, AuditFault, Crash, Faulty
  <2> QED BY <2>1, CommitAssumption
<1>1. CASE CommitFault(p)
  <2> DEFINE w == queue[p][1]
  <2>0. queue[p] # <<>> /\ w \in Writes /\ Head(queue[p]) = w /\ w.phase # "announcing"
    BY <1>0, <1>1 DEF CommitFault, AtExpected, Writing
  <2>1. w.after \in Content BY <2>0 DEF Writes
  <2>2. log' = log \/ log' = Append(log, w.after) BY <1>1, <2>0 DEF CommitFault, AtExpected
  <2>3. Answered([w EXCEPT !.phase = "failed", !.found = NoLoad], log')
    BY <2>0 DEF Writes, Answered
  <2>4. "failed" \in Phases BY DEF Phases
  <2>5. queue' \in [Procs -> Seq(Writes)] /\ AllChained'
    BY <1>1, <2>0, <2>1, <2>2, <2>3, <2>4, StoredType, PhaseChained DEF CommitFault, AtExpected
  <2>6. log' \in Seq(Content)
    <3>1. log \in Seq(Content) OBVIOUS
    <3>2. Append(log, w.after) \in Seq(Content) BY <2>1, <3>1, AppendProperties
    <3> QED BY <2>2, <3>1, <3>2
  <2> QED BY <1>1, <2>5, <2>6 DEF CommitFault, AtExpected
<1>2. CASE LoadFault(p)
  <2>1. queue' \in [Procs -> Seq(Writes)] /\ AllChained'
    BY <1>0, <1>2, DoneChained DEF LoadFault
  <2>2. pc' \in [Reqs -> {"new"} \cup Waiting \cup Answers]
    BY <1>2 DEF LoadFault, Thrown, Waiting, Answers
  <2> QED BY <1>0, <1>2, <2>1, <2>2 DEF LoadFault
<1>3. CASE ReloadFault(p)
  <2>1. queue' \in [Procs -> Seq(Writes)] /\ AllChained'
    BY <1>0, <1>3, DoneChained DEF ReloadFault
  <2> QED BY <1>0, <1>3, <2>1 DEF ReloadFault
<1>4. CASE AuditFault(p)
  <2>1. queue' \in [Procs -> Seq(Writes)] /\ AllChained'
    BY <1>0, <1>4, DoneChained DEF AuditFault
  <2>2. pc' \in [Reqs -> {"new"} \cup Waiting \cup Answers]
    BY <1>4 DEF AuditFault, Waiting, Answers
  <2> QED BY <1>0, <1>4, <2>1, <2>2 DEF AuditFault
<1>5. CASE Crash(p)
  <2>1. NoCache \in Caches /\ NoCache.version = 0 /\ {} \in Content /\ <<>> \in Seq(Writes)
    BY EmptySeq DEF NoCache, Caches, Content
  <2>2. Chained(<<>>, {}, 0, log) BY EmptySeq DEF Chained, AtIn
  <2>3. /\ engine' = [engine EXCEPT ![p] = {}] /\ cache' = [cache EXCEPT ![p] = NoCache]
        /\ queue' = [queue EXCEPT ![p] = <<>>] /\ log' = log
    BY <1>5 DEF Crash
  <2>4. /\ engine' \in [Procs -> Content] /\ queue' \in [Procs -> Seq(Writes)]
        /\ cache' \in [Procs -> Caches]
    BY <2>1, <2>3 DEF Caches
  <2>5. AllChained'
    <3>1. ASSUME NEW q \in Procs PROVE Chained(queue'[q], engine'[q], cache'[q].version, log')
      <4>1. CASE q = p BY <2>1, <2>2, <2>3, <4>1
      <4>2. CASE q # p BY <2>3, <4>2 DEF AllChained
      <4> QED BY <4>1, <4>2
    <3> QED BY <3>1 DEF AllChained
  <2>6. pc' \in [Reqs -> {"new"} \cup Waiting \cup Answers]
    BY <1>5 DEF Crash, Waiting, Answers
  <2> QED BY <1>0, <1>5, <2>4, <2>5, <2>6 DEF Crash, Caches
<1> QED BY <1>1, <1>2, <1>3, <1>4, <1>5 DEF Fault

LEMMA StructureStep ==
  ASSUME TypeOK, AllChained, [Next]_vars
  PROVE  TypeOK' /\ AllChained'
<1>1. ASSUME NEW p \in Procs, Background(p) PROVE TypeOK' /\ AllChained'
  <2>1. Synced(engine[p]) \in Content /\ engine[p] \subseteq Synced(engine[p])
    BY UsedEngine DEF TypeOK
  <2>2. /\ engine' \in [Procs -> Content] /\ cache' \in [Procs -> Caches]
        /\ queue' \in [Procs -> Seq(Writes)] /\ AllChained'
    BY <1>1, <2>1, PersistAtEnd DEF Background
  <2> QED BY <1>1, <2>2 DEF Background, TypeOK, Caches
<1>2. ASSUME NEW e \in Events, EventDue(e) PROVE TypeOK' /\ AllChained'
  BY <1>2 DEF EventDue, TypeOK, AllChained
<1>3. CASE UNCHANGED vars
  BY <1>3 DEF vars, TypeOK, AllChained
<1> QED BY <1>1, <1>2, <1>3, HandleStep, WriteStep, FaultStep DEF Next
-----------------------------------------------------------------------------
(* What is stored and announced.                                           *)

\* The write at work, when the store executes it, contains the stored account.
LEMMA WritingFits ==
  ASSUME TypeOK, AllChained, NEW p \in Procs, Writing(p), cache[p].version = Version
  PROVE  /\ Head(queue[p]).after \in Content
         /\ Stored \subseteq Head(queue[p]).after
<1>1. /\ queue[p] \in Seq(Writes) /\ queue[p] # <<>>
      /\ queue[p][1] \in Writes /\ Head(queue[p]) = queue[p][1] /\ 1 \in 1 .. Len(queue[p])
  BY EmptySeq DEF TypeOK, Writing, Doing
<1>2. IsChange(queue[p][1]) BY <1>1 DEF Writing, Doing, IsChange
<1>3. Fits(queue[p][1], engine[p], AtIn(log, Version)) BY <1>1, <1>2 DEF AllChained, Chained
<1> QED BY <1>1, <1>3 DEF Fits, AtIn, Stored, At, Writes

\* The store only grows, and by accounts that contain the one before.
LEMMA LogStep ==
  ASSUME TypeOK, AllChained, [Next]_vars
  PROVE  \/ log' = log
         \/ \E a \in Content : Stored \subseteq a /\ log' = Append(log, a)
<1>1. ASSUME NEW r \in Reqs, Handle(r) \/ Retry(r) PROVE log' = log
  BY <1>1 DEF Handle, Receive, StartSync, Run, Settle, Settled, Retry
<1>2. ASSUME NEW p \in Procs, DoWrite(p), ~StoreCommit(p) PROVE log' = log
  BY <1>2 DEF DoWrite, Drop, Committed, Announced, CommitFailed, LoadAccount, Install, Record
<1>3. ASSUME NEW p \in Procs, Fault(p), ~CommitFault(p) PROVE log' = log
  BY <1>3 DEF Fault, LoadFault, ReloadFault, AuditFault, Crash
<1>4. ASSUME NEW p \in Procs, StoreCommit(p) \/ CommitFault(p)
      PROVE  \/ log' = log
             \/ \E a \in Content : Stored \subseteq a /\ log' = Append(log, a)
  <2>1. Writing(p) BY <1>4 DEF StoreCommit, AtExpected, CommitFault, AtExpected
  <2>2. \/ log' = log
        \/ cache[p].version = Version /\ log' = Append(log, Head(queue[p]).after)
    BY <1>4 DEF StoreCommit, AtExpected, CommitFault, AtExpected
  <2> QED BY <2>1, <2>2, WritingFits
<1>5. ASSUME NEW p \in Procs, Background(p) PROVE log' = log BY <1>5 DEF Background
<1>6. ASSUME NEW e \in Events, EventDue(e) PROVE log' = log BY <1>6 DEF EventDue
<1>7. CASE UNCHANGED vars BY <1>7 DEF vars
<1> QED BY <1>1, <1>2, <1>3, <1>4, <1>5, <1>6, <1>7 DEF Next

LEMMA NoLostUpdateStep ==
  ASSUME TypeOK, AllChained, NoLostUpdate, [Next]_vars
  PROVE  NoLostUpdate'
<1>1. CASE log' = log BY <1>1 DEF NoLostUpdate, At
<1>2. ASSUME NEW a \in Content, Stored \subseteq a, log' = Append(log, a) PROVE NoLostUpdate'
  <2>1. /\ log \in Seq(Content) /\ DOMAIN log = 1 .. Version /\ Version \in Nat
        /\ DOMAIN log' = 1 .. Version + 1 /\ log'[Version + 1] = a
        /\ \A v \in 1 .. Version : log'[v] = log[v]
    BY <1>2, AppendProperties DEF TypeOK, Version
  <2>2. ASSUME NEW v \in 1 .. Version + 1 PROVE At(v - 1)' \subseteq log'[v]
    <3>1. v - 1 \in 0 .. Version /\ At(v - 1)' = At(v - 1) BY <2>1 DEF At
    <3>2. CASE v = Version + 1
      <4>1. v - 1 = Version BY <2>1, <3>2
      <4> QED BY <1>2, <2>1, <3>1, <3>2, <4>1 DEF Stored
    <3>3. CASE v # Version + 1
      <4>1. v \in 1 .. Version BY <2>1, <3>3
      <4> QED BY <2>1, <3>1, <4>1 DEF NoLostUpdate
    <3> QED BY <3>2, <3>3
  <2> QED BY <2>1, <2>2 DEF NoLostUpdate
<1> QED BY <1>1, <1>2, LogStep

LEMMA AnnouncedStep ==
  ASSUME TypeOK, AllChained, AnnouncedAtCommit, [Next]_vars
  PROVE  AnnouncedAtCommit'
<1> DEFINE Right(a, l) == /\ a[2] \in 1 .. Len(l)
                          /\ a[1] \in l[a[2]] /\ a[1] \notin AtIn(l, a[2] - 1)
<1>0. /\ log \in Seq(Content) /\ log' \in Seq(Content)
      /\ AnnouncedAtCommit <=> \A a \in announced : Right(a, log)
      /\ AnnouncedAtCommit' <=> \A a \in announced' : Right(a, log')
  <2>1. log \in Seq(Content) BY DEF TypeOK
  <2>2. log' \in Seq(Content) BY <2>1, LogStep, AppendProperties
  <2> QED BY <2>1, <2>2 DEF AnnouncedAtCommit, At, AtIn
<1>1. ASSUME NEW a \in announced PROVE Right(a, log')
  <2>1. Right(a, log) BY <1>0
  <2>2. CASE log' = log BY <2>1, <2>2
  <2>3. ASSUME NEW c \in Content, log' = Append(log, c) PROVE Right(a, log')
    <3>1. Len(log') = Len(log) + 1 /\ \A v \in 1 .. Len(log) : log'[v] = log[v]
      BY <1>0, <2>3, AppendProperties
    <3>2. a[2] \in 1 .. Len(log') /\ log'[a[2]] = log[a[2]] BY <1>0, <2>1, <3>1
    <3>3. a[2] - 1 \in 0 .. Len(log) BY <1>0, <2>1
    <3>4. AtIn(log', a[2] - 1) = AtIn(log, a[2] - 1) BY <1>0, <3>1, <3>3 DEF AtIn
    <3> QED BY <2>1, <3>2, <3>4
  <2> QED BY <2>2, <2>3, LogStep
<1>2. ASSUME NEW p \in Procs, Committed(p) PROVE \A a \in announced' : Right(a, log')
  <2> DEFINE w == queue[p][1]  n == w.found.version
  <2>1. /\ queue[p] # <<>> /\ Head(queue[p]) = w /\ w.phase = "won" /\ 1 \in 1 .. Len(queue[p])
    BY <1>2, EmptySeq DEF Committed, Doing, TypeOK
  <2>2. log' = log /\ announced' = announced \cup (w.updates \X {n})
    BY <1>2, <2>1 DEF Committed
  <2>3. /\ IsChange(w) /\ n \in 1 .. Len(log) /\ log[n] = w.after
        /\ w.updates \cap AtIn(log, n - 1) = {}
    BY <2>1 DEF AllChained, Chained, Answered
  <2>4. w.updates \subseteq w.after BY <2>1, <2>3 DEF AllChained, Chained, Fits
  <2>5. ASSUME NEW u \in w.updates PROVE Right(<<u, n>>, log)
    BY <2>3, <2>4
  <2> HIDE DEF w, Right
  <2>6. \A a \in w.updates \X {n} : Right(a, log) BY <2>5
  <2> QED BY <1>1, <2>2, <2>6
<1>3. announced' = announced \/ \E p \in Procs : Committed(p)
  BY DEF Next, vars, Handle, Receive, StartSync, Run, Settle, Settled, Retry, DoWrite, Drop,
         StoreCommit, AtExpected, Announced,
         CommitFailed, LoadAccount, Install, Record, Background, EventDue, Fault, CommitFault,
         LoadFault, ReloadFault, AuditFault, Crash
<1> HIDE DEF Right
<1> QED BY <1>0, <1>1, <1>2, <1>3

-----------------------------------------------------------------------------
LEMMA InitCommit == Init => CommitInv
<1> SUFFICES ASSUME Init PROVE CommitInv OBVIOUS
<1>1. {} \in Content /\ <<>> \in Seq(Writes) /\ <<>> \in Seq(Content) /\ Len(<<>>) = 0
  BY EmptySeq DEF Content
<1>2. TypeOK
  BY <1>1, CommitAssumption DEF Init, TypeOK, NoCache
<1>3. AllChained
  <2>1. Chained(<<>>, {}, 0, <<>>) BY <1>1 DEF Chained, AtIn
  <2> QED BY <2>1 DEF Init, AllChained, NoCache
<1>4. NoLostUpdate /\ AnnouncedAtCommit BY DEF Init, NoLostUpdate, AnnouncedAtCommit
<1> QED BY <1>2, <1>3, <1>4 DEF CommitInv

\* The inductive invariant of the order service and the store.
THEOREM CommitInvariant == Spec => []CommitInv
<1>1. CommitInv /\ [Next]_vars => CommitInv'
  BY StructureStep, NoLostUpdateStep, AnnouncedStep DEF CommitInv
<1> QED BY <1>1, InitCommit, PTL DEF Spec

\* Every variable keeps its type.
THEOREM CommitTypes == Spec => []TypeOK
<1>1. CommitInv => TypeOK BY DEF CommitInv
<1> QED BY <1>1, CommitInvariant, PTL

\* Optimistic commits of any number of processes, with any faults, lose no stored change.
THEOREM CommitLosesNothing == Spec => []NoLostUpdate
<1>1. CommitInv => NoLostUpdate BY DEF CommitInv
<1> QED BY <1>1, CommitInvariant, PTL

\* An announced update carries the version of the one commit that made it.
THEOREM CommitAnnounces == Spec => []AnnouncedAtCommit
<1>1. CommitInv => AnnouncedAtCommit BY DEF CommitInv
<1> QED BY <1>1, CommitInvariant, PTL

-----------------------------------------------------------------------------
(* A keyed order, or a fill, is made once.  It holds of the store because  *)
(* it holds of every account that may become the stored one: the engines,  *)
(* what waits to be written, and what was loaded.                          *)

Once(c)  == \A e, f \in c : e[1] \in Keyed \cup Fills /\ f[1] \in SameOrder(e[1]) => e = f
Sound(w) == Once(w.after) /\ Once(w.found.content)

AllOnce ==
  /\ \A p \in Procs : Once(engine[p]) /\ \A i \in 1 .. Len(queue[p]) : Sound(queue[p][i])
  /\ \A v \in 0 .. Version : Once(At(v))

LEMMA SameOrders ==
  ASSUME NEW x, NEW y \in SameOrder(x)
  PROVE  /\ x \in SameOrder(y)
         /\ x \in Keyed \cup Fills => y \in Keyed \cup Fills
BY DEF SameOrder

LEMMA UsedOnce ==
  ASSUME TypeOK, NEW c \in Content, Once(c)
  PROVE  /\ Once(Synced(c))
         /\ \A r \in Reqs : Once(Applied(r, c))
<1>1. Once(Synced(c))
  <2>1. ASSUME NEW x \in Keyed \cup Fills, NEW y \in SameOrder(x) PROVE x \notin due /\ y \notin due
    <3>1. y \in Keyed \cup Fills BY <2>1, SameOrders
    <3> QED BY <2>1, <3>1, CommitAssumption DEF TypeOK, Reqs
  <2>2. ASSUME NEW e \in Synced(c), NEW f \in Synced(c),
               e[1] \in Keyed \cup Fills, f[1] \in SameOrder(e[1])
        PROVE  e = f
    <3>1. e[1] \notin due /\ f[1] \notin due BY <2>1, <2>2
    <3>2. e \in c /\ f \in c BY <3>1 DEF Synced
    <3> QED BY <2>2, <3>2 DEF Once
  <2> QED BY <2>2 DEF Once
<1>2. ASSUME NEW q \in Reqs PROVE Once(Applied(q, c))
  <2>1. CASE Applied(q, c) = c BY <2>1
  <2>2. CASE Applied(q, c) # c
    <3> DEFINE a == <<q, runs[q] + 1>>
    <3>1. Applied(q, c) = c \cup {a} /\ ~(q \in Keyed \cup Fills /\ Ran(q, c)) /\ a[1] = q
      BY <2>2 DEF Applied, Moot
    <3> HIDE DEF a
    <3>2. ASSUME NEW e \in Applied(q, c), NEW f \in Applied(q, c),
                 e[1] \in Keyed \cup Fills, f[1] \in SameOrder(e[1])
          PROVE  e = f
      <4>1. f[1] \in Keyed \cup Fills /\ e[1] \in SameOrder(f[1]) BY <3>2, SameOrders
      <4>2. CASE e = a
        <5>1. ~Ran(q, c) /\ e[1] = q BY <3>1, <3>2, <4>2
        <5>2. f \notin c BY <3>2, <5>1 DEF Ran
        <5> QED BY <3>1, <3>2, <4>2, <5>2
      <4>3. CASE f = a
        <5>1. ~Ran(q, c) /\ f[1] = q BY <3>1, <4>1, <4>3
        <5>2. e \notin c BY <4>1, <5>1 DEF Ran
        <5> QED BY <3>1, <3>2, <4>3, <5>2
      <4>4. CASE e # a /\ f # a
        <5>1. e \in c /\ f \in c BY <3>1, <3>2, <4>4
        <5> QED BY <3>2, <5>1 DEF Once
      <4> QED BY <4>2, <4>3, <4>4
    <3> QED BY <3>2 DEF Once
  <2> QED BY <2>1, <2>2
<1> QED BY <1>1, <1>2

LEMMA AppendSound ==
  ASSUME NEW q \in Seq(Writes), NEW w \in Writes, Sound(w), \A i \in 1 .. Len(q) : Sound(q[i])
  PROVE  \A i \in 1 .. Len(Append(q, w)) : Sound(Append(q, w)[i])
<1>1. /\ Len(Append(q, w)) = Len(q) + 1 /\ Append(q, w)[Len(q) + 1] = w
      /\ \A i \in 1 .. Len(q) : Append(q, w)[i] = q[i]
  BY AppendProperties
<1>2. \A i \in 1 .. Len(q) + 1 : i \in 1 .. Len(q) \/ i = Len(q) + 1 OBVIOUS
<1> QED BY <1>1, <1>2

\* Writes without an account of their own.
LEMMA PlainWrites ==
  /\ Hydrates \in Writes /\ Sound(Hydrates)
  /\ \A r \in Reqs : Records(r) \in Writes /\ Sound(Records(r))
  /\ \A c, u \in Content : /\ Commits(c, u) \in Writes
                           /\ Once(c) => Sound(Commits(c, u))
<1>1. Once({}) BY DEF Once
<1> QED
  BY <1>1 DEF Hydrates, Records, Commits, Write, Writes, Content, NoLoad, Kinds, Phases, Sound

LEMMA PersistOnce ==
  ASSUME TypeOK, AllOnce, NEW p \in Procs, NEW c \in Content, Once(c),
         NEW writes \in Seq(Writes), NEW entry, \A i \in 1 .. Len(writes) : Sound(writes[i]),
         PersistBehind(p, c, writes, entry)
  PROVE  \A q \in Procs : Once(engine'[q]) /\ \A i \in 1 .. Len(queue'[q]) : Sound(queue'[q][i])
<1> DEFINE w == Commits(c, c \ engine[p])
<1>1. w \in Writes /\ Sound(w)
  <2>1. c \ engine[p] \in Content BY DEF Content
  <2> QED BY <2>1, PlainWrites
<1> HIDE DEF w
<1>2. queue \in [Procs -> Seq(Writes)] /\ engine \in [Procs -> Content] BY DEF TypeOK
<1>3. engine' = [engine EXCEPT ![p] = c] BY DEF PersistBehind
<1>4. \/ queue' = [queue EXCEPT ![p] = writes] \/ queue' = [queue EXCEPT ![p] = Append(writes, w)]
  BY DEF PersistBehind, w
<1>5. \A i \in 1 .. Len(Append(writes, w)) : Sound(Append(writes, w)[i])
  BY <1>1, AppendSound
<1>6. ASSUME NEW q \in Procs PROVE \A i \in 1 .. Len(queue'[q]) : Sound(queue'[q][i])
  <2>1. CASE q # p
    <3>1. queue'[q] = queue[q] BY <1>2, <1>4, <2>1
    <3> QED BY <3>1 DEF AllOnce
  <2>2. CASE q = p /\ queue'[q] = writes BY <2>2
  <2>3. CASE q = p /\ queue'[q] = Append(writes, w) BY <1>5, <2>3
  <2> QED BY <1>2, <1>4, <2>1, <2>2, <2>3
<1> QED BY <1>2, <1>3, <1>6 DEF AllOnce

LEMMA EnginesOnce ==
  ASSUME TypeOK, AllOnce, [Next]_vars
  PROVE  \A p \in Procs : Once(engine'[p]) /\ \A i \in 1 .. Len(queue'[p]) : Sound(queue'[p][i])
<1> DEFINE Good == \A p \in Procs :
                     Once(engine'[p]) /\ \A i \in 1 .. Len(queue'[p]) : Sound(queue'[p][i])
<1>0. /\ queue \in [Procs -> Seq(Writes)] /\ engine \in [Procs -> Content]
      /\ \A p \in Procs : queue[p] # <<>> =>
           /\ Len(queue[p]) \in Nat \ {0} /\ 1 \in 1 .. Len(queue[p])
           /\ Head(queue[p]) = queue[p][1] /\ queue[p][1] \in Writes
  BY EmptySeq DEF TypeOK
<1>1. ASSUME NEW p \in Procs, queue[p] # <<>>, Done(p), UNCHANGED engine PROVE Good
  <2>1. queue' = [queue EXCEPT ![p] = Tail(@)] BY <1>1 DEF Done
  <2>2. ASSUME NEW i \in 1 .. Len(Tail(queue[p])) PROVE Sound(Tail(queue[p])[i])
    <3>1. i + 1 \in 1 .. Len(queue[p]) /\ Tail(queue[p])[i] = queue[p][i + 1]
      BY <1>0, <1>1, HeadTailProperties
    <3> QED BY <3>1 DEF AllOnce
  <2> QED BY <1>0, <1>1, <2>1, <2>2 DEF AllOnce
<1>2. ASSUME NEW p \in Procs, queue[p] # <<>>, NEW phase \in Phases,
             NEW found \in [version : Nat, content : Content], Once(found.content),
             Phase(p, phase, found), UNCHANGED engine
      PROVE  Good
  <2> DEFINE w == [queue[p][1] EXCEPT !.phase = phase, !.found = found]
             r == [queue[p] EXCEPT ![1] = w]
  <2>1. queue' = [queue EXCEPT ![p] = r] BY <1>2 DEF Phase
  <2>2. w \in Writes /\ w.after = queue[p][1].after /\ w.found = found
    BY <1>0, <1>2 DEF Writes
  <2>3. Sound(w) BY <1>0, <1>2, <2>2 DEF AllOnce, Sound
  <2> HIDE DEF w
  <2>4. Len(r) = Len(queue[p]) /\ \A i \in 1 .. Len(queue[p]) : r[i] = IF i = 1 THEN w ELSE queue[p][i]
    BY <1>0, <1>2, <2>2, ExceptSeq
  <2>5. \A i \in 1 .. Len(r) : Sound(r[i]) BY <2>3, <2>4 DEF AllOnce
  <2> HIDE DEF r
  <2> QED BY <1>0, <1>2, <2>1, <2>5 DEF AllOnce
<1>3. ASSUME NEW p \in Procs, NEW w \in Writes, Sound(w),
             queue' = queue \/ queue' = [queue EXCEPT ![p] = Append(@, w)], UNCHANGED engine
      PROVE  Good
  <2>1. \A i \in 1 .. Len(Append(queue[p], w)) : Sound(Append(queue[p], w)[i])
    BY <1>0, <1>3, AppendSound DEF AllOnce
  <2> QED BY <1>0, <1>3, <2>1 DEF AllOnce
<1>4. ASSUME NEW p \in Procs, Install(p) PROVE Good
  <2> DEFINE r == Replaced(queue[p])
  <2>1. queue[p] # <<>> BY <1>4 DEF Install, Doing
  <2>2. /\ queue' = [queue EXCEPT ![p] = r]
        /\ engine' = [engine EXCEPT ![p] = queue[p][1].found.content]
    BY <1>0, <1>4, <2>1 DEF Install, Replaced
  <2>3. ASSUME NEW i \in 1 .. Len(queue[p]) - 1 PROVE Sound(r[i])
    <3>1. i + 1 \in 1 .. Len(queue[p]) /\ queue[p][i + 1] \in Writes BY <1>0, <2>1
    <3>2. r[i] = [queue[p][i + 1] EXCEPT !.live = FALSE] BY DEF Replaced
    <3>3. r[i].after = queue[p][i + 1].after /\ r[i].found = queue[p][i + 1].found
      BY <3>1, <3>2 DEF Writes
    <3> QED BY <3>1, <3>3 DEF AllOnce, Sound
  <2>4. Len(r) = Len(queue[p]) - 1
    <3>1. r \in Seq(Writes)
      <4>1. \A i \in 1 .. Len(queue[p]) - 1 : [queue[p][i + 1] EXCEPT !.live = FALSE] \in Writes
        <5>1. \A i \in 1 .. Len(queue[p]) - 1 : queue[p][i + 1] \in Writes BY <1>0, <2>1
        <5> QED BY <5>1 DEF Writes
      <4> QED BY <1>0, <2>1, <4>1, IsASeq DEF Replaced
    <3> QED BY <1>0, <2>1, <3>1, LenProperties DEF Replaced
  <2>5. Once(queue[p][1].found.content) BY <1>0, <2>1 DEF AllOnce, Sound
  <2> HIDE DEF r
  <2> QED BY <1>0, <2>2, <2>3, <2>4, <2>5 DEF AllOnce
<1>5. ASSUME NEW p \in Procs, Crash(p) PROVE Good
  <2>1. engine' = [engine EXCEPT ![p] = {}] /\ queue' = [queue EXCEPT ![p] = <<>>]
    BY <1>5 DEF Crash
  <2>2. Once({}) /\ Len(<<>>) = 0 BY EmptySeq DEF Once
  <2> QED BY <1>0, <2>1, <2>2 DEF AllOnce
<1>6. ASSUME UNCHANGED <<engine, queue>> PROVE Good BY <1>6 DEF AllOnce
<1>7. Once({}) /\ {} \in Content /\ "won" \in Phases /\ "lost" \in Phases /\ "loaded" \in Phases
      /\ "failed" \in Phases
  BY DEF Once, Content, Phases
<1>8. ASSUME NEW r \in Reqs, Handle(r) \/ Retry(r) PROVE Good
  <2> DEFINE p == Home[r]
  <2>0. p \in Procs BY CommitAssumption
  <2>1. CASE Run(r)
    <3>1. Synced(engine[p]) \in Content /\ Once(Synced(engine[p]))
      BY <1>0, <2>0, UsedEngine, UsedOnce DEF AllOnce
    <3>2. /\ Applied(r, Synced(engine[p])) \in Content
          /\ Once(Applied(r, Synced(engine[p])))
      BY <3>1, UsedEngine, UsedOnce
    <3>3. /\ PersistBehind(p, Applied(r, Synced(engine[p])), queue[p], cache[p])
          /\ queue[p] \in Seq(Writes) /\ \A i \in 1 .. Len(queue[p]) : Sound(queue[p][i])
      BY <1>0, <2>0, <2>1 DEF Run, Persist, AllOnce
    <3> QED BY <2>0, <3>2, <3>3, PersistOnce
  <2>2. CASE Receive(r) \/ StartSync(r)
    <3>1. /\ queue' = queue \/ queue' = [queue EXCEPT ![p] = Append(@, Hydrates)]
          /\ UNCHANGED engine
      BY <2>2 DEF Receive, StartSync, Settled, Ensure
    <3> QED BY <1>3, <2>0, <3>1, PlainWrites
  <2>3. CASE Settle(r)
    <3>1. /\ queue' = queue \/ queue' = [queue EXCEPT ![p] = Append(@, Records(r))]
          /\ UNCHANGED engine
      BY <2>3 DEF Settle, Settled
    <3> QED BY <1>3, <2>0, <3>1, PlainWrites
  <2>4. CASE Retry(r) BY <1>6, <2>4 DEF Retry
  <2> QED BY <1>8, <2>1, <2>2, <2>3, <2>4 DEF Handle
<1>9. ASSUME NEW p \in Procs, DoWrite(p) PROVE Good
  <2>0. \A kind, phase : Doing(p, kind, phase) => queue[p] # <<>> BY DEF Doing
  <2>1. CASE Drop(p) \/ CommitFailed(p) \/ Record(p)
    BY <1>1, <2>0, <2>1 DEF Drop, CommitFailed, Record
  <2>5. Synced(engine[p]) \in Content /\ Once(Synced(engine[p]))
    BY <1>0, UsedEngine, UsedOnce DEF AllOnce
  <2>6. CASE Committed(p)
    <3>1. queue[p] # <<>> BY <2>0, <2>6 DEF Committed
    <3>2. CASE Done(p) /\ UNCHANGED engine BY <1>1, <3>1, <3>2
    <3> DEFINE w == [queue[p][1] EXCEPT !.phase = "announcing"]
               r == [queue[p] EXCEPT ![1] = w]
    <3>3. ASSUME NEW entry, PersistBehind(p, Synced(engine[p]), r, entry) PROVE Good
      <4>1. w \in Writes /\ Sound(w)
        <5>1. /\ w \in Writes /\ w.after = queue[p][1].after /\ w.found = queue[p][1].found
          BY <1>0, <3>1 DEF Writes, Phases
        <5> QED BY <1>0, <3>1, <5>1 DEF AllOnce, Sound
      <4> HIDE DEF w
      <4>2. /\ r \in Seq(Writes) /\ Len(r) = Len(queue[p])
            /\ \A i \in 1 .. Len(queue[p]) : r[i] = IF i = 1 THEN w ELSE queue[p][i]
        BY <1>0, <3>1, <4>1, ExceptSeq
      <4>3. \A i \in 1 .. Len(r) : Sound(r[i]) BY <4>1, <4>2 DEF AllOnce
      <4> HIDE DEF r
      <4> QED BY <2>5, <3>3, <4>2, <4>3, PersistOnce
    <3>4. \/ Done(p) /\ UNCHANGED engine
          \/ PersistBehind(p, Synced(engine[p]), r,
                           [cache[p] EXCEPT !.version = Head(queue[p]).found.version])
      BY <2>6 DEF Committed
    <3> HIDE DEF r
    <3> QED BY <3>2, <3>3, <3>4
  <2>7. CASE Announced(p)
    <3>1. queue[p] # <<>> BY <2>0, <2>7 DEF Announced
    <3>2. ASSUME NEW i \in 1 .. Len(Tail(queue[p])) PROVE Sound(Tail(queue[p])[i])
      <4>1. i + 1 \in 1 .. Len(queue[p]) /\ Tail(queue[p])[i] = queue[p][i + 1]
        BY <1>0, <3>1, HeadTailProperties
      <4> QED BY <4>1 DEF AllOnce
    <3>3. Tail(queue[p]) \in Seq(Writes) BY <1>0, <3>1, HeadTailProperties
    <3>4. PersistBehind(p, Synced(engine[p]), Tail(queue[p]), cache[p])
      BY <2>7 DEF Announced
    <3> QED BY <2>5, <3>2, <3>3, <3>4, PersistOnce
  <2>2. CASE StoreCommit(p)
    <3>1. queue[p] # <<>> /\ UNCHANGED engine BY <2>0, <2>2 DEF StoreCommit, AtExpected, Writing
    <3>2. NoLoad \in [version : Nat, content : Content] /\ Once(NoLoad.content)
      BY <1>7 DEF NoLoad
    <3> DEFINE found == [version |-> Version + 1, content |-> queue[p][1].after]
    <3>3. found \in [version : Nat, content : Content] /\ Once(found.content)
      <4>1. queue[p][1].after \in Content BY <1>0, <3>1 DEF Writes
      <4>2. Version + 1 \in Nat BY StoredType
      <4>3. Sound(queue[p][1]) BY <1>0, <3>1 DEF AllOnce
      <4> QED BY <4>1, <4>2, <4>3 DEF Sound
    <3>4. Phase(p, "won", found) \/ Phase(p, "lost", NoLoad)
      BY <1>0, <2>2, <3>1 DEF StoreCommit, AtExpected
    <3> HIDE DEF found
    <3> QED BY <1>2, <1>7, <3>1, <3>2, <3>3, <3>4
  <2>3. CASE LoadAccount(p)
    <3>1. queue[p] # <<>> /\ UNCHANGED engine /\ Phase(p, "loaded", Loaded)
      BY <2>0, <2>3 DEF LoadAccount, Loading
    <3>2. Version \in 0 .. Version BY StoredType
    <3>3. Once(Loaded.content) BY <3>2 DEF AllOnce, Loaded
    <3> QED BY <1>2, <1>7, <3>1, <3>3, StoredType
  <2>4. CASE Install(p) BY <1>4, <2>4
  <2> QED BY <1>9, <2>1, <2>2, <2>3, <2>4, <2>6, <2>7 DEF DoWrite
<1>10. ASSUME NEW p \in Procs, Fault(p) PROVE Good
  <2>0. \A kind, phase : Doing(p, kind, phase) => queue[p] # <<>> BY DEF Doing
  <2>1. CASE LoadFault(p) \/ ReloadFault(p) \/ AuditFault(p)
    BY <1>1, <2>0, <2>1 DEF LoadFault, ReloadFault, AuditFault
  <2>2. CASE CommitFault(p)
    <3>1. queue[p] # <<>> /\ UNCHANGED engine /\ Phase(p, "failed", NoLoad)
      BY <2>0, <2>2 DEF CommitFault, AtExpected, Writing
    <3>2. Once(NoLoad.content) BY <1>7 DEF NoLoad
    <3> QED BY <1>2, <1>7, <3>1, <3>2, StoredType
  <2>3. CASE Crash(p) BY <1>5, <2>3
  <2> QED BY <1>10, <2>1, <2>2, <2>3 DEF Fault
<1>11. ASSUME NEW p \in Procs, Background(p) PROVE Good
  <2>1. Synced(engine[p]) \in Content /\ Once(Synced(engine[p]))
    BY <1>0, UsedEngine, UsedOnce DEF AllOnce
  <2>2. /\ PersistBehind(p, Synced(engine[p]), queue[p], cache[p])
        /\ queue[p] \in Seq(Writes) /\ \A i \in 1 .. Len(queue[p]) : Sound(queue[p][i])
    BY <1>0, <1>11 DEF Background, Persist, AllOnce
  <2> QED BY <2>1, <2>2, PersistOnce
<1>12. ASSUME NEW e \in Events, EventDue(e) PROVE Good BY <1>6, <1>12 DEF EventDue
<1>13. CASE UNCHANGED vars BY <1>6, <1>13 DEF vars
<1> QED BY <1>8, <1>9, <1>10, <1>11, <1>12, <1>13 DEF Next

LEMMA OnceStep ==
  ASSUME TypeOK, AllOnce, [Next]_vars
  PROVE  AllOnce'
<1>1. \/ log' = log
      \/ \E p \in Procs : queue[p] # <<>> /\ log' = Append(log, Head(queue[p]).after)
  <2>1. ASSUME NEW p \in Procs, StoreCommit(p) \/ CommitFault(p)
        PROVE  \/ log' = log
               \/ queue[p] # <<>> /\ log' = Append(log, Head(queue[p]).after)
    BY <2>1 DEF StoreCommit, AtExpected, CommitFault, AtExpected, Writing, Doing
  <2>2. ASSUME log' # log PROVE \E p \in Procs : StoreCommit(p) \/ CommitFault(p)
    BY <2>2 DEF Next, vars, Handle, Receive, StartSync, Run, Settle, Settled, Retry, DoWrite, Drop,
         Committed, Announced, CommitFailed, LoadAccount, Install, Record, Background, EventDue,
         Fault, LoadFault, ReloadFault, AuditFault, Crash
  <2> QED BY <2>1, <2>2
<1>2. ASSUME log' = log PROVE \A v \in 0 .. Version' : Once(At(v)')
  BY <1>2 DEF AllOnce, At, Version
<1>3. ASSUME NEW p \in Procs, queue[p] # <<>>, log' = Append(log, Head(queue[p]).after)
      PROVE  \A v \in 0 .. Version' : Once(At(v)')
  <2>1. /\ queue[p][1] \in Writes /\ Head(queue[p]) = queue[p][1] /\ 1 \in 1 .. Len(queue[p])
    BY <1>3, EmptySeq DEF TypeOK
  <2>2. queue[p][1].after \in Content /\ Once(queue[p][1].after)
    BY <2>1 DEF Writes, AllOnce, Sound
  <2>3. /\ Version \in Nat /\ Version' = Version + 1 /\ log'[Version + 1] = queue[p][1].after
        /\ \A v \in 1 .. Version : log'[v] = log[v]
    BY <1>3, <2>1, <2>2, AppendProperties DEF TypeOK, Version
  <2>4. ASSUME NEW v \in 0 .. Version + 1 PROVE Once(At(v)')
    <3>1. CASE v = Version + 1 BY <2>2, <2>3, <3>1 DEF At
    <3>2. CASE v # Version + 1
      <4>1. v \in 0 .. Version BY <2>3, <3>2
      <4>2. At(v)' = At(v) BY <2>3, <4>1 DEF At
      <4> QED BY <4>1, <4>2 DEF AllOnce
    <3> QED BY <3>1, <3>2
  <2> QED BY <2>3, <2>4
<1>4. \A v \in 0 .. Version' : Once(At(v)') BY <1>1, <1>2, <1>3
<1>5. AllOnce' <=> /\ \A p \in Procs : Once(engine'[p]) /\ \A i \in 1 .. Len(queue'[p]) : Sound(queue'[p][i])
                   /\ \A v \in 0 .. Version' : Once(At(v)')
  BY DEF AllOnce, Once, Sound
<1> QED BY <1>4, <1>5, EnginesOnce

\* However often a keyed order is run or sent again, and a fill request is run or claimed again, it
\* is stored once: the runs of all deliveries are told apart.
THEOREM CommitKeyedOnce == Spec => []KeyedOnce
<1>1. Init => AllOnce
  <2>1. Len(<<>>) = 0 BY EmptySeq
  <2> QED BY <2>1 DEF Init, AllOnce, Once, Version, At
<1>2. CommitInv /\ AllOnce /\ [Next]_vars => AllOnce' BY OnceStep DEF CommitInv
<1>3. CommitInv /\ AllOnce => KeyedOnce
  <2> SUFFICES ASSUME CommitInv, AllOnce PROVE KeyedOnce OBVIOUS
  <2>1. Version \in 0 .. Version BY StoredType DEF CommitInv
  <2>2. Once(Stored) BY <2>1 DEF AllOnce, Stored
  <2> QED BY <2>2 DEF KeyedOnce, Once
<1> QED BY <1>1, <1>2, <1>3, CommitInvariant, PTL DEF Spec

-----------------------------------------------------------------------------
(* An idle process holds the stored account.  What makes it inductive is   *)
(* `Tip`: as long as a process's version is the store's, its engine is what *)
(* the last change in its queue will write, or the stored account if no    *)
(* change waits; and a commit that lost is at an older version.            *)

EndsAt(q, e, base) ==
  /\ (\A i \in 1 .. Len(q) : ~IsChange(q[i])) => e = base
  /\ \A i \in 1 .. Len(q) :
       IsChange(q[i]) /\ (\A j \in i + 1 .. Len(q) : ~IsChange(q[j])) => q[i].after = e

\* The version is the store's, or will be once the answer to the write at work is noted.
Newest(q, v, l) == v = Len(l) \/ (q # <<>> /\ q[1].phase = "won")

Tip(q, e, c, l) ==
  /\ (q # <<>> /\ q[1].kind = "commit" /\ q[1].phase = "lost") => c.version # Len(l)
  /\ c.loaded =>
       /\ c.key \in {{}, {e}}
       /\ (~c.stale /\ Newest(q, c.version, l)) => EndsAt(q, e, AtIn(l, c.version))

AllTip == \A p \in Procs : Tip(queue[p], engine[p], cache[p], log)

\* A write behind the others: a change makes the engine what it writes, any other write keeps it.
LEMMA EndsQueued ==
  ASSUME NEW q \in Seq(Writes), NEW e, NEW base, NEW w \in Writes
  PROVE  /\ IsChange(w) /\ w.after = e => EndsAt(Append(q, w), e, base)
         /\ ~IsChange(w) /\ EndsAt(q, e, base) => EndsAt(Append(q, w), e, base)
<1> DEFINE r == Append(q, w)  n == Len(q)
<1>1. /\ n \in Nat /\ Len(r) = n + 1 /\ r[n + 1] = w
      /\ \A i \in 1 .. n : r[i] = q[i]
  BY AppendProperties
<1> HIDE DEF r, n
<1>2. ASSUME IsChange(w), w.after = e PROVE EndsAt(r, e, base)
  <2>1. ASSUME NEW i \in 1 .. n + 1, \A j \in i + 1 .. n + 1 : ~IsChange(r[j]) PROVE r[i].after = e
    <3>1. i = n + 1 BY <1>1, <1>2, <2>1
    <3> QED BY <1>1, <1>2, <3>1
  <2>2. n + 1 \in 1 .. n + 1 BY <1>1
  <2> QED BY <1>1, <1>2, <2>1, <2>2 DEF EndsAt
<1>3. ASSUME ~IsChange(w), EndsAt(q, e, base) PROVE EndsAt(r, e, base)
  <2>1. ASSUME \A i \in 1 .. n + 1 : ~IsChange(r[i]) PROVE e = base
    <3>1. \A i \in 1 .. n : i \in 1 .. n + 1 /\ ~IsChange(q[i]) BY <1>1, <2>1
    <3> QED BY <1>3, <3>1 DEF EndsAt, n
  <2>2. ASSUME NEW i \in 1 .. n + 1, IsChange(r[i]), \A j \in i + 1 .. n + 1 : ~IsChange(r[j])
        PROVE  r[i].after = e
    <3>1. i \in 1 .. n /\ r[i] = q[i] BY <1>1, <1>3, <2>2
    <3>2. ASSUME NEW j \in i + 1 .. n PROVE ~IsChange(q[j])
      <4>1. j \in i + 1 .. n + 1 /\ j \in 1 .. n BY <1>1, <3>1
      <4> QED BY <1>1, <2>2, <4>1
    <3> QED BY <1>3, <2>2, <3>1, <3>2 DEF EndsAt, n
  <2> QED BY <1>1, <2>1, <2>2 DEF EndsAt
<1> QED BY <1>2, <1>3 DEF r

\* The oldest write leaves: a change leaves what it wrote behind.
LEMMA EndsTail ==
  ASSUME NEW q \in Seq(Writes), q # <<>>, NEW e, NEW base, EndsAt(q, e, base)
  PROVE  /\ ~IsChange(q[1]) => EndsAt(Tail(q), e, base)
         /\ IsChange(q[1]) => EndsAt(Tail(q), e, q[1].after)
<1> DEFINE t == Tail(q)  n == Len(t)
<1>1. /\ n \in Nat /\ Len(q) = n + 1
      /\ \A i \in 1 .. n : t[i] = q[i + 1] /\ i + 1 \in 1 .. n + 1
  BY HeadTailProperties
<1> HIDE DEF t, n
<1>2. ASSUME NEW i \in 1 .. n, IsChange(t[i]), \A j \in i + 1 .. n : ~IsChange(t[j])
      PROVE  t[i].after = e
  <2>1. t[i] = q[i + 1] /\ i + 1 \in 1 .. Len(q) BY <1>1
  <2>2. ASSUME NEW j \in (i + 1) + 1 .. Len(q) PROVE ~IsChange(q[j])
    <3>1. j - 1 \in i + 1 .. n /\ j - 1 \in 1 .. n /\ (j - 1) + 1 = j BY <1>1
    <3>2. t[j - 1] = q[j] BY <1>1, <3>1
    <3> QED BY <1>2, <3>1, <3>2
  <2> QED BY <1>2, <2>1, <2>2 DEF EndsAt
<1>3. ASSUME \A i \in 1 .. n : ~IsChange(t[i])
      PROVE  \A i \in 2 .. Len(q) : ~IsChange(q[i])
  <2> TAKE i \in 2 .. Len(q)
  <2>1. i - 1 \in 1 .. n /\ (i - 1) + 1 = i BY <1>1
  <2>2. t[i - 1] = q[i] BY <1>1, <2>1
  <2> QED BY <1>3, <2>1, <2>2
<1>4. ASSUME ~IsChange(q[1]) PROVE EndsAt(t, e, base)
  <2>1. ASSUME \A i \in 1 .. n : ~IsChange(t[i]) PROVE e = base
    <3>1. \A i \in 1 .. Len(q) : i = 1 \/ i \in 2 .. Len(q) BY <1>1
    <3>2. \A i \in 1 .. Len(q) : ~IsChange(q[i]) BY <1>3, <1>4, <2>1, <3>1
    <3> QED BY <3>2 DEF EndsAt
  <2> QED BY <1>2, <2>1 DEF EndsAt, n
<1>5. ASSUME IsChange(q[1]) PROVE EndsAt(t, e, q[1].after)
  <2>1. ASSUME \A i \in 1 .. n : ~IsChange(t[i]) PROVE e = q[1].after
    <3>1. 1 \in 1 .. Len(q) /\ \A j \in 1 + 1 .. Len(q) : ~IsChange(q[j]) BY <1>1, <1>3, <2>1
    <3> QED BY <1>5, <3>1 DEF EndsAt
  <2> QED BY <1>2, <2>1 DEF EndsAt, n
<1> QED BY <1>4, <1>5 DEF t

\* So does the tip of a queue whose oldest write was no change, was to be reloaded, or lost.
LEMMA TipTail ==
  ASSUME NEW q \in Seq(Writes), q # <<>>, NEW e \in Content, NEW c \in Caches, NEW l \in Seq(Content),
         Chained(q, e, c.version, l), Tip(q, e, c, l), q[1].phase # "won",
         ~IsChange(q[1]) \/ c.stale \/ (q[1].kind = "commit" /\ q[1].phase = "lost")
  PROVE  Tip(Tail(q), e, c, l)
<1> DEFINE t == Tail(q)
<1>1. t # <<>> => t[1].phase = "queued"
  <2> SUFFICES ASSUME t # <<>> PROVE t[1].phase = "queued" OBVIOUS
  <2>1. /\ t \in Seq(Writes) /\ Len(q) \in Nat /\ Len(t) = Len(q) - 1
        /\ \A i \in 1 .. Len(t) : t[i] = q[i + 1]
    BY HeadTailProperties
  <2>2. 1 \in 1 .. Len(t) BY <2>1, EmptySeq
  <2>3. t[1] = q[2] /\ 2 \in 1 .. Len(q) /\ 2 > 1 BY <2>1, <2>2
  <2> QED BY <2>3 DEF Chained
<1>2. ~IsChange(q[1]) /\ EndsAt(q, e, AtIn(l, c.version)) => EndsAt(t, e, AtIn(l, c.version))
  BY EndsTail
<1> HIDE DEF t
<1>3. Newest(t, c.version, l) => c.version = Len(l) BY <1>1 DEF Newest
<1>4. Newest(t, c.version, l) => Newest(q, c.version, l) BY <1>3 DEF Newest
<1>5. Tip(t, e, c, l) BY <1>1, <1>2, <1>3, <1>4 DEF Tip
<1> QED BY <1>5 DEF t

\* The answer of a commit that won is noted: the account is at its version.
LEMMA TipCommitted ==
  ASSUME NEW q \in Seq(Writes), q # <<>>, NEW e \in Content, NEW c \in Caches, NEW l \in Seq(Content),
         Chained(q, e, c.version, l), Tip(q, e, c, l), q[1].phase = "won"
  PROVE  Tip(Tail(q), e, [c EXCEPT !.version = q[1].found.version], l)
<1> DEFINE t == Tail(q)  d == [c EXCEPT !.version = q[1].found.version]  n == q[1].found.version
<1>0. 1 \in 1 .. Len(q) /\ q[1] \in Writes BY EmptySeq
<1>1. t # <<>> => t[1].phase = "queued"
  <2> SUFFICES ASSUME t # <<>> PROVE t[1].phase = "queued" OBVIOUS
  <2>1. /\ t \in Seq(Writes) /\ Len(q) \in Nat /\ Len(t) = Len(q) - 1
        /\ \A i \in 1 .. Len(t) : t[i] = q[i + 1]
    BY HeadTailProperties
  <2>2. 1 \in 1 .. Len(t) BY <2>1, EmptySeq
  <2>3. t[1] = q[2] /\ 2 \in 1 .. Len(q) /\ 2 > 1 BY <2>1, <2>2
  <2> QED BY <2>3 DEF Chained
<1>2. /\ d.loaded = c.loaded /\ d.key = c.key /\ d.stale = c.stale /\ d.version = n
  BY DEF Caches
<1>3. IsChange(q[1]) /\ n \in 1 .. Len(l) /\ l[n] = q[1].after
  BY <1>0 DEF Chained, Answered
<1>4. AtIn(l, n) = q[1].after BY <1>3 DEF AtIn
<1>5. EndsAt(q, e, AtIn(l, c.version)) => EndsAt(t, e, q[1].after) BY <1>3, EndsTail
<1>6. Newest(q, c.version, l) BY DEF Newest
<1> HIDE DEF t, d, n
<1>7. Tip(t, e, d, l) BY <1>1, <1>2, <1>4, <1>5, <1>6 DEF Tip
<1> QED BY <1>7 DEF t, d

\* Announcing it does as much: it is stored, and no change any more.
LEMMA EndsAnnounced ==
  ASSUME NEW q \in Seq(Writes), q # <<>>, NEW e, NEW base, EndsAt(q, e, base), IsChange(q[1])
  PROVE  EndsAt([q EXCEPT ![1] = [@ EXCEPT !.phase = "announcing"]], e, q[1].after)
<1> DEFINE w == [q[1] EXCEPT !.phase = "announcing"]  r == [q EXCEPT ![1] = w]
<1>1. 1 \in 1 .. Len(q) /\ q[1] \in Writes BY EmptySeq
<1>2. w \in Writes /\ ~IsChange(w) BY <1>1 DEF Writes, Phases, IsChange
<1> HIDE DEF w
<1>3. /\ Len(r) = Len(q) /\ r[1] = w /\ \A i \in 1 .. Len(q) : i # 1 => r[i] = q[i]
  BY <1>1, <1>2, ExceptSeq
<1> HIDE DEF r
<1>4. ASSUME \A i \in 1 .. Len(q) : ~IsChange(r[i]) PROVE e = q[1].after
  <2>1. \A j \in 1 + 1 .. Len(q) : j \in 1 .. Len(q) /\ j # 1 OBVIOUS
  <2>2. \A j \in 1 + 1 .. Len(q) : ~IsChange(q[j]) BY <1>3, <1>4, <2>1
  <2> QED BY <1>1, <2>2 DEF EndsAt
<1>5. ASSUME NEW i \in 1 .. Len(q), IsChange(r[i]), \A j \in i + 1 .. Len(q) : ~IsChange(r[j])
      PROVE  r[i].after = e
  <2>1. i # 1 /\ r[i] = q[i] BY <1>2, <1>3, <1>5
  <2>2. \A j \in i + 1 .. Len(q) : j \in 1 .. Len(q) /\ j # 1 OBVIOUS
  <2>3. \A j \in i + 1 .. Len(q) : ~IsChange(q[j]) BY <1>3, <1>5, <2>2
  <2> QED BY <1>5, <2>1, <2>3 DEF EndsAt
<1>6. EndsAt(r, e, q[1].after) BY <1>3, <1>4, <1>5 DEF EndsAt
<1> QED BY <1>6 DEF r, w

LEMMA TipAnnounced ==
  ASSUME NEW q \in Seq(Writes), q # <<>>, NEW e \in Content, NEW c \in Caches, NEW l \in Seq(Content),
         Chained(q, e, c.version, l), Tip(q, e, c, l), q[1].phase = "won"
  PROVE  Tip([q EXCEPT ![1] = [@ EXCEPT !.phase = "announcing"]], e,
             [c EXCEPT !.version = q[1].found.version], l)
<1> DEFINE w == [q[1] EXCEPT !.phase = "announcing"]  r == [q EXCEPT ![1] = w]
           d == [c EXCEPT !.version = q[1].found.version]  n == q[1].found.version
<1>0. 1 \in 1 .. Len(q) /\ q[1] \in Writes BY EmptySeq
<1>1. w \in Writes /\ w.phase = "announcing" BY <1>0 DEF Writes, Phases
<1>2. /\ d.loaded = c.loaded /\ d.key = c.key /\ d.stale = c.stale /\ d.version = n
  BY DEF Caches
<1>3. IsChange(q[1]) /\ n \in 1 .. Len(l) /\ l[n] = q[1].after
  BY <1>0 DEF Chained, Answered
<1>4. AtIn(l, n) = q[1].after BY <1>3 DEF AtIn
<1>5. EndsAt(q, e, AtIn(l, c.version)) => EndsAt(r, e, q[1].after) BY <1>3, EndsAnnounced
<1>6. Newest(q, c.version, l) BY DEF Newest
<1> HIDE DEF w
<1>7. r[1] = w BY <1>0, <1>1, ExceptSeq
<1> HIDE DEF r, d, n
<1>8. Tip(r, e, d, l) BY <1>1, <1>2, <1>4, <1>5, <1>6, <1>7 DEF Tip
<1> QED BY <1>8 DEF r, d, w

\* Marking the oldest write changes neither what it is nor what it writes.
LEMMA EndsMarked ==
  ASSUME NEW q \in Seq(Writes), q # <<>>, NEW e, NEW base, EndsAt(q, e, base),
         NEW phase \in Phases, NEW found \in [version : Nat, content : Content],
         phase # "announcing", q[1].phase # "announcing"
  PROVE  EndsAt([q EXCEPT ![1] = [@ EXCEPT !.phase = phase, !.found = found]], e, base)
<1> DEFINE w == [q[1] EXCEPT !.phase = phase, !.found = found]
           r == [q EXCEPT ![1] = w]
<1>1. 1 \in 1 .. Len(q) /\ q[1] \in Writes BY EmptySeq
<1>2. w \in Writes /\ w.after = q[1].after /\ IsChange(w) = IsChange(q[1])
  <2>1. /\ w \in Writes /\ w.after = q[1].after /\ w.phase = phase
        /\ w.kind = q[1].kind /\ w.live = q[1].live
    BY <1>1 DEF Writes
  <2> QED BY <2>1 DEF IsChange
<1> HIDE DEF w
<1>3. /\ Len(r) = Len(q) /\ r[1] = w /\ \A i \in 1 .. Len(q) : i # 1 => r[i] = q[i]
  BY <1>1, <1>2, ExceptSeq
<1> HIDE DEF r
<1>4. \A i \in 1 .. Len(q) : IsChange(r[i]) = IsChange(q[i]) /\ r[i].after = q[i].after
  BY <1>2, <1>3
<1>5. ASSUME NEW i \in 1 .. Len(q), IsChange(r[i]), \A j \in i + 1 .. Len(q) : ~IsChange(r[j])
      PROVE  r[i].after = e
  <2>1. \A j \in i + 1 .. Len(q) : j \in 1 .. Len(q) OBVIOUS
  <2>2. IsChange(q[i]) /\ \A j \in i + 1 .. Len(q) : ~IsChange(q[j]) BY <1>4, <1>5, <2>1
  <2> QED BY <1>4, <2>2 DEF EndsAt
<1>6. EndsAt(r, e, base) BY <1>3, <1>4, <1>5 DEF EndsAt
<1> QED BY <1>6 DEF r, w

LEMMA TipMarked ==
  ASSUME NEW q \in Seq(Writes), q # <<>>, NEW e \in Content, NEW c \in Caches, NEW l \in Seq(Content),
         Tip(q, e, c, l), NEW phase \in Phases, NEW found \in [version : Nat, content : Content],
         phase # "announcing", q[1].phase # "announcing",
         phase = "won" => c.version = Len(l), phase = "lost" => c.version # Len(l)
  PROVE  Tip([q EXCEPT ![1] = [@ EXCEPT !.phase = phase, !.found = found]], e, c, l)
<1> DEFINE w == [q[1] EXCEPT !.phase = phase, !.found = found]
           r == [q EXCEPT ![1] = w]
<1>1. 1 \in 1 .. Len(q) /\ q[1] \in Writes BY EmptySeq
<1>2. w \in Writes /\ w.phase = phase BY <1>1 DEF Writes
<1> HIDE DEF w
<1>3. r \in Seq(Writes) /\ Len(r) = Len(q) /\ r[1] = w BY <1>1, <1>2, ExceptSeq
<1>4. EndsAt(q, e, AtIn(l, c.version)) => EndsAt(r, e, AtIn(l, c.version)) BY EndsMarked DEF w
<1> HIDE DEF r
<1>5. Newest(r, c.version, l) => Newest(q, c.version, l) BY <1>2, <1>3 DEF Newest
<1>6. Tip(r, e, c, l) BY <1>2, <1>3, <1>4, <1>5 DEF Tip
<1> QED BY <1>6 DEF r, w

\* The store moves on: only a queue whose commit just won is still at its newest version.
LEMMA TipGrows ==
  ASSUME NEW q \in Seq(Writes), NEW e \in Content, NEW c \in Caches, NEW l \in Seq(Content),
         NEW a \in Content, c.version <= Len(l), Tip(q, e, c, l)
  PROVE  Tip(q, e, c, Append(l, a))
<1> DEFINE m == Append(l, a)
<1>1. /\ Len(m) = Len(l) + 1 /\ Len(l) \in Nat /\ c.version \in Nat
      /\ \A i \in 1 .. Len(l) : m[i] = l[i]
  BY AppendProperties DEF Caches
<1> HIDE DEF m
<1>2. AtIn(m, c.version) = AtIn(l, c.version) BY <1>1 DEF AtIn
<1>3. c.version # Len(m) BY <1>1
<1>4. Newest(q, c.version, m) => Newest(q, c.version, l) BY <1>3 DEF Newest
<1>5. Tip(q, e, c, m) BY <1>2, <1>3, <1>4 DEF Tip
<1> QED BY <1>5 DEF m

\* persist(): a change is queued, unless it is the one queued last.
LEMMA TipQueued ==
  ASSUME NEW q \in Seq(Writes), NEW e \in Content, NEW c \in Caches, NEW l \in Seq(Content),
         Tip(q, e, c, l), NEW w \in Writes, w.phase = "queued"
  PROVE  /\ ~IsChange(w) => Tip(Append(q, w), e, c, l)
         /\ IsChange(w) => Tip(Append(q, w), w.after, [c EXCEPT !.key = {w.after}], l)
<1> DEFINE r == Append(q, w)  d == [c EXCEPT !.key = {w.after}]
<1>1. /\ r \in Seq(Writes) /\ r # <<>>
      /\ q # <<>> => r[1] = q[1]
      /\ q = <<>> => r[1] = w
  <2>1. /\ r \in Seq(Writes) /\ Len(r) = Len(q) + 1 /\ r[Len(q) + 1] = w
        /\ \A i \in 1 .. Len(q) : r[i] = q[i]
    BY AppendProperties
  <2>2. q # <<>> => 1 \in 1 .. Len(q) BY EmptySeq
  <2>3. q = <<>> => Len(q) = 0 BY EmptySeq
  <2>4. r # <<>> BY <2>1, EmptySeq
  <2> QED BY <2>1, <2>2, <2>3, <2>4
<1>2. /\ \A base : IsChange(w) => EndsAt(r, w.after, base)
      /\ ~IsChange(w) /\ EndsAt(q, e, AtIn(l, c.version)) => EndsAt(r, e, AtIn(l, c.version))
  BY EndsQueued
<1>3. /\ d.loaded = c.loaded /\ d.stale = c.stale /\ d.version = c.version /\ d.key = {w.after}
  BY DEF Caches
<1> HIDE DEF r, d
<1>4. Newest(r, c.version, l) => Newest(q, c.version, l) BY <1>1 DEF Newest
<1>5. ~IsChange(w) => Tip(r, e, c, l) BY <1>1, <1>2, <1>4 DEF Tip
<1>6. IsChange(w) => Tip(r, w.after, d, l) BY <1>1, <1>2, <1>3 DEF Tip
<1> QED BY <1>5, <1>6 DEF r, d

\* A loaded account replaces the engine, and every change that waited with it.
LEMMA TipInstalled ==
  ASSUME NEW q \in Seq(Writes), NEW e \in Content, NEW v \in Nat, NEW l \in Seq(Content),
         q # <<>>, q[1].phase = "loaded", Chained(q, e, v, l), NEW conflict \in BOOLEAN
  PROVE  Tip(Replaced(q), q[1].found.content, CacheOf(q[1].found, conflict), l)
<1> DEFINE r == Replaced(q)  f == q[1].found  d == CacheOf(f, conflict)
<1>1. Len(q) \in Nat \ {0} /\ 1 \in 1 .. Len(q) BY EmptySeq
<1>2. f.content = AtIn(l, f.version) BY <1>1 DEF Chained, Answered
<1>3. ASSUME NEW i \in 1 .. Len(q) - 1 PROVE
        /\ r[i] \in Writes /\ ~IsChange(r[i]) /\ r[i].phase = "queued"
  <2>1. i + 1 \in 1 .. Len(q) /\ i + 1 > 1 BY <1>1
  <2>2. q[i + 1] \in Writes /\ q[i + 1].phase = "queued" BY <2>1 DEF Chained
  <2>3. r[i] = [q[i + 1] EXCEPT !.live = FALSE] BY DEF Replaced
  <2> QED BY <2>2, <2>3 DEF Writes, IsChange
<1>4. r \in Seq(Writes) /\ Len(r) = Len(q) - 1
  <2>1. \A i \in 1 .. Len(q) - 1 : [q[i + 1] EXCEPT !.live = FALSE] \in Writes
    <3>1. \A i \in 1 .. Len(q) - 1 : q[i + 1] \in Writes BY <1>1
    <3> QED BY <3>1 DEF Writes
  <2>2. r \in Seq(Writes) BY <1>1, <2>1, IsASeq DEF Replaced
  <2> QED BY <1>1, <2>2, LenProperties DEF Replaced
<1>5. r # <<>> => r[1].phase = "queued" BY <1>3, <1>4, EmptySeq
<1>6. EndsAt(r, f.content, f.content) BY <1>3, <1>4 DEF EndsAt
<1>7. d.version = f.version /\ d.key \in {{}, {f.content}} BY DEF CacheOf
<1> HIDE DEF r, d, f
<1>8. Tip(r, f.content, d, l) BY <1>2, <1>5, <1>6, <1>7 DEF Tip
<1> QED BY <1>8 DEF r, d, f

\* A cache entry that differs in its conflict, or is to be reloaded, keeps the tip.
Like(d, c) ==
  /\ d.version = c.version /\ d.key = c.key
  /\ d.loaded => c.loaded
  /\ ~d.stale => ~c.stale

LEMMA TipLike ==
  ASSUME NEW q, NEW e, NEW c, NEW d, NEW l, Tip(q, e, c, l), Like(d, c)
  PROVE  Tip(q, e, d, l)
BY DEF Tip, Like

\* What a step leaves of a process it does not touch.
LEMMA TipKept ==
  ASSUME TypeOK, AllChained, AllTip, NEW p \in Procs,
         queue'[p] = queue[p], engine'[p] = engine[p], Like(cache'[p], cache[p]),
         log' = log \/ \E a \in Content : log' = Append(log, a)
  PROVE  Tip(queue'[p], engine'[p], cache'[p], log')
<1>1. /\ queue[p] \in Seq(Writes) /\ engine[p] \in Content /\ cache[p] \in Caches
      /\ log \in Seq(Content) /\ cache[p].version <= Len(log)
      /\ Tip(queue[p], engine[p], cache[p], log)
  BY DEF TypeOK, AllChained, Chained, AllTip, Caches
<1>2. Tip(queue[p], engine[p], cache[p], log') BY <1>1, TipGrows
<1> QED BY <1>2, TipLike

\* A step at one process.
Only(p) ==
  \A o \in Procs : o # p => queue'[o] = queue[o] /\ engine'[o] = engine[o] /\ cache'[o] = cache[o]

Grown == log' = log \/ \E a \in Content : log' = Append(log, a)

LEMMA TipAt ==
  ASSUME TypeOK, AllChained, AllTip, NEW p \in Procs, Only(p), Grown,
         Tip(queue'[p], engine'[p], cache'[p], log')
  PROVE  AllTip'
<1>1. ASSUME NEW o \in Procs, o # p PROVE Tip(queue'[o], engine'[o], cache'[o], log')
  <2>1. Like(cache'[o], cache[o]) BY <1>1 DEF Only, Like
  <2> QED BY <1>1, <2>1, TipKept DEF Only, Grown
<1> QED BY <1>1 DEF AllTip

\* What the proofs below use of a process's state.
LEMMA AtProc ==
  ASSUME TypeOK, AllChained, AllTip, NEW p \in Procs
  PROVE  /\ queue[p] \in Seq(Writes) /\ engine[p] \in Content /\ cache[p] \in Caches
         /\ log \in Seq(Content) /\ cache[p].version \in Nat
         /\ queue \in [Procs -> Seq(Writes)] /\ engine \in [Procs -> Content]
         /\ cache \in [Procs -> Caches]
         /\ Chained(queue[p], engine[p], cache[p].version, log)
         /\ Tip(queue[p], engine[p], cache[p], log)
         /\ queue[p] # <<>> =>
              /\ Len(queue[p]) \in Nat \ {0} /\ 1 \in 1 .. Len(queue[p])
              /\ Head(queue[p]) = queue[p][1] /\ queue[p][1] \in Writes
BY EmptySeq DEF TypeOK, AllChained, AllTip, Caches

LEMMA PersistTip ==
  ASSUME TypeOK, AllChained, AllTip, NEW p \in Procs, NEW c \in Content, engine[p] \subseteq c,
         NEW writes \in Seq(Writes), NEW entry \in Caches,
         Tip(writes, engine[p], entry, log),
         PersistBehind(p, c, writes, entry), UNCHANGED log
  PROVE  AllTip'
<1> DEFINE w == Commits(c, c \ engine[p])  d == [entry EXCEPT !.key = {c}]
<1>1. w \in Writes BY AtProc, ChangeQueued
<1>2. IsChange(w) /\ w.phase = "queued" /\ w.after = c BY DEF Commits, Write, IsChange
<1>3. /\ engine' = [engine EXCEPT ![p] = c]
      /\ \/ /\ {c} = entry.key /\ queue' = [queue EXCEPT ![p] = writes]
            /\ cache' = [cache EXCEPT ![p] = entry]
         \/ /\ queue' = [queue EXCEPT ![p] = Append(writes, w)]
            /\ cache' = [cache EXCEPT ![p] = d]
  BY DEF PersistBehind
<1> HIDE DEF w
<1>0. engine[p] \in Content /\ log \in Seq(Content) BY AtProc
<1>4. Tip(Append(writes, w), c, d, log)
  <2>1. Tip(Append(writes, w), c, [entry EXCEPT !.key = {c}], log)
    BY <1>0, <1>1, <1>2, TipQueued
  <2> QED BY <2>1 DEF d
<1> HIDE DEF d
<1>5. Only(p) BY <1>3, AtProc DEF Only
<1>6. CASE /\ {c} = entry.key /\ queue' = [queue EXCEPT ![p] = writes]
           /\ cache' = [cache EXCEPT ![p] = entry]
  <2>1. entry.loaded => c = engine[p] BY <1>6 DEF Tip
  <2>2. engine'[p] = c /\ queue'[p] = writes /\ cache'[p] = entry BY <1>3, <1>6, AtProc
  <2>3. Tip(writes, c, entry, log) BY <2>1 DEF Tip
  <2> QED BY <1>5, <2>2, <2>3, TipAt DEF Grown
<1>7. CASE /\ queue' = [queue EXCEPT ![p] = Append(writes, w)]
           /\ cache' = [cache EXCEPT ![p] = d]
  <2>1. queue'[p] = Append(writes, w) /\ engine'[p] = c /\ cache'[p] = d
    BY <1>3, <1>7, AtProc
  <2> QED BY <1>4, <1>5, <2>1, TipAt DEF Grown
<1> QED BY <1>3, <1>6, <1>7

LEMMA TipStep ==
  ASSUME CommitInv, AllTip, [Next]_vars
  PROVE  AllTip'
<1>0. TypeOK /\ AllChained BY DEF CommitInv
<1>1. /\ "won" \in Phases /\ "lost" \in Phases /\ "loaded" \in Phases /\ "failed" \in Phases
      /\ NoLoad \in [version : Nat, content : Content]
      /\ Loaded \in [version : Nat, content : Content]
  BY <1>0, StoredType DEF Phases
\* The oldest write is done.
<1>2. ASSUME NEW p \in Procs, queue[p] # <<>>, queue[p][1].phase # "won", Done(p),
             ~IsChange(queue[p][1]) \/ cache[p].stale
               \/ (queue[p][1].kind = "commit" /\ queue[p][1].phase = "lost"),
             UNCHANGED <<log, engine, cache>>
      PROVE  AllTip'
  <2>1. queue' = [queue EXCEPT ![p] = Tail(@)] BY <1>2 DEF Done
  <2>2. queue'[p] = Tail(queue[p]) /\ Only(p) BY <1>0, <1>2, <2>1, AtProc DEF Only
  <2>3. Tip(Tail(queue[p]), engine[p], cache[p], log) BY <1>0, <1>2, AtProc, TipTail
  <2> QED BY <1>0, <1>2, <2>2, <2>3, TipAt DEF Grown
\* The oldest write is marked.
<1>3. ASSUME NEW p \in Procs, queue[p] # <<>>, NEW phase \in Phases,
             NEW found \in [version : Nat, content : Content], Phase(p, phase, found),
             phase # "announcing", queue[p][1].phase # "announcing",
             phase = "won" => cache[p].version = Len(log),
             phase = "lost" => cache[p].version # Len(log),
             Grown, UNCHANGED <<engine, cache>>
      PROVE  AllTip'
  <2> DEFINE r == [queue[p] EXCEPT ![1] = [@ EXCEPT !.phase = phase, !.found = found]]
  <2>1. queue' = [queue EXCEPT ![p] = r] BY <1>3 DEF Phase
  <2>2. queue'[p] = r /\ Only(p) BY <1>0, <1>3, <2>1, AtProc DEF Only
  <2>3. Tip(r, engine[p], cache[p], log) BY <1>0, <1>3, AtProc, TipMarked
  <2>4. r \in Seq(Writes)
    <3>1. [queue[p][1] EXCEPT !.phase = phase, !.found = found] \in Writes
      BY <1>0, <1>3, AtProc DEF Writes
    <3> QED BY <1>0, <1>3, <3>1, AtProc, ExceptSeq
  <2> HIDE DEF r
  <2>5. cache[p].version <= Len(log) BY <1>0, AtProc DEF Chained
  <2>6. Tip(r, engine[p], cache[p], log')
    <3>1. engine[p] \in Content /\ cache[p] \in Caches /\ log \in Seq(Content) BY <1>0, AtProc
    <3>2. ASSUME NEW a \in Content PROVE Tip(r, engine[p], cache[p], Append(log, a))
      BY <2>3, <2>4, <2>5, <3>1, TipGrows
    <3>3. log' = log \/ \E a \in Content : log' = Append(log, a) BY <1>3 DEF Grown
    <3> QED BY <2>3, <3>2, <3>3
  <2> QED BY <1>0, <1>3, <2>2, <2>6, TipAt
\* A write that changes no account is queued, or none.
<1>4. ASSUME NEW p \in Procs, NEW w \in Writes, ~IsChange(w), w.phase = "queued",
             queue' = queue \/ queue' = [queue EXCEPT ![p] = Append(@, w)],
             cache' \in [Procs -> Caches], Like(cache'[p], cache[p]),
             \A o \in Procs : o # p => cache'[o] = cache[o],
             UNCHANGED <<log, engine>>
      PROVE  AllTip'
  <2>1. Only(p) BY <1>0, <1>4, AtProc DEF Only
  <2>2. queue'[p] = queue[p] \/ queue'[p] = Append(queue[p], w) BY <1>0, <1>4, AtProc
  <2>3. Tip(Append(queue[p], w), engine[p], cache[p], log) BY <1>0, <1>4, AtProc, TipQueued
  <2>4. Tip(queue'[p], engine[p], cache[p], log) BY <1>0, <2>2, <2>3, AtProc
  <2>5. Tip(queue'[p], engine[p], cache'[p], log) BY <1>4, <2>4, TipLike
  <2> QED BY <1>0, <1>4, <2>1, <2>5, TipAt DEF Grown
<1>5. ASSUME UNCHANGED <<log, engine, cache, queue>> PROVE AllTip' BY <1>5 DEF AllTip
<1>6. \A p \in Procs : \A kind, phase : Doing(p, kind, phase) =>
        /\ queue[p] # <<>> /\ queue[p][1].kind = kind /\ queue[p][1].phase = phase
  BY <1>0, AtProc DEF Doing
<1>7. ASSUME NEW r \in Reqs, Handle(r) \/ Retry(r) PROVE AllTip'
  <2> DEFINE p == Home[r]
  <2>0. p \in Procs BY CommitAssumption
  <2>1. CASE Run(r)
    <3>2. /\ Applied(r, Synced(engine[p])) \in Content
          /\ engine[p] \subseteq Applied(r, Synced(engine[p]))
      <4>1. Synced(engine[p]) \in Content /\ engine[p] \subseteq Synced(engine[p])
        BY <1>0, <2>0, AtProc, UsedEngine
      <4> QED BY <1>0, <4>1, UsedEngine
    <3>3. PersistBehind(p, Applied(r, Synced(engine[p])), queue[p], cache[p]) /\ UNCHANGED log
      BY <2>1 DEF Run, Persist
    <3> QED BY <1>0, <2>0, <3>2, <3>3, AtProc, PersistTip
  <2> DEFINE plain(w) == w \in Writes /\ ~IsChange(w) /\ w.phase = "queued"
  <2>2. plain(Hydrates) /\ plain(Records(r))
    BY <1>7, PlainWrites DEF Hydrates, Records, Write, IsChange
  <2>3. CASE Receive(r)
    <3>1. /\ queue' = queue \/ queue' = [queue EXCEPT ![p] = Append(@, Hydrates)]
          /\ UNCHANGED <<log, engine, cache>>
      BY <2>3 DEF Receive, Ensure
    <3>2. Like(cache'[p], cache[p]) BY <3>1 DEF Like
    <3> QED BY <1>0, <1>4, <2>0, <2>2, <3>1, <3>2, AtProc
  <2>4. CASE StartSync(r)
    <3>1. /\ queue' = queue \/ queue' = [queue EXCEPT ![p] = Append(@, Hydrates)]
          /\ UNCHANGED <<log, engine>>
          /\ \/ cache' = cache
             \/ /\ ~cache[p].stale
                /\ cache' = [cache EXCEPT ![p] = [Settled(@) EXCEPT !.stale = cache[p].loaded]]
      BY <2>4 DEF StartSync, Ensure
    <3>2. /\ cache' \in [Procs -> Caches]
          /\ \A o \in Procs : o # p => cache'[o] = cache[o]
      <4>1. [Settled(cache[p]) EXCEPT !.stale = cache[p].loaded] \in Caches
        BY <1>0, <2>0, AtProc DEF Settled, Caches
      <4> QED BY <1>0, <2>0, <3>1, <4>1, AtProc
    <3>3. Like(cache'[p], cache[p])
      <4>1. ~cache[p].stale => Like([Settled(cache[p]) EXCEPT !.stale = cache[p].loaded], cache[p])
        <5>1. cache[p] \in Caches BY <1>0, <2>0, AtProc
        <5> QED BY <5>1 DEF Settled, Caches, Like
      <4>2. Like(cache[p], cache[p]) BY DEF Like
      <4>3. cache \in [Procs -> Caches] BY <1>0, <2>0, AtProc
      <4> QED BY <2>0, <3>1, <4>1, <4>2, <4>3
    <3> QED BY <1>0, <1>4, <2>0, <2>2, <3>1, <3>2, <3>3, AtProc
  <2>5. CASE Settle(r)
    <3>1. /\ queue' = queue \/ queue' = [queue EXCEPT ![p] = Append(@, Records(r))]
          /\ UNCHANGED <<log, engine>>
          /\ cache' = cache \/ cache' = [cache EXCEPT ![p] = Settled(@)]
      BY <2>5 DEF Settle
    <3>2. /\ cache' \in [Procs -> Caches]
          /\ \A o \in Procs : o # p => cache'[o] = cache[o]
      <4>1. Settled(cache[p]) \in Caches BY <1>0, <2>0, AtProc DEF Settled, Caches
      <4> QED BY <1>0, <2>0, <3>1, <4>1, AtProc
    <3>3. Like(cache'[p], cache[p])
      <4>1. Like(Settled(cache[p]), cache[p])
        <5>1. cache[p] \in Caches BY <1>0, <2>0, AtProc
        <5> QED BY <5>1 DEF Settled, Caches, Like
      <4>2. Like(cache[p], cache[p]) BY DEF Like
      <4>3. cache \in [Procs -> Caches] BY <1>0, <2>0, AtProc
      <4> QED BY <2>0, <3>1, <4>1, <4>2, <4>3
    <3> QED BY <1>0, <1>4, <2>0, <2>2, <3>1, <3>2, <3>3, AtProc
  <2>6. CASE Retry(r) BY <1>5, <2>6 DEF Retry
  <2> QED BY <1>7, <2>1, <2>3, <2>4, <2>5, <2>6 DEF Handle
<1>8. ASSUME NEW p \in Procs, DoWrite(p) PROVE AllTip'
  <2>1. CASE Drop(p)
    <3>1. queue[p] # <<>> /\ queue[p][1].phase = "queued" BY <1>6, <1>8, <2>1 DEF Drop
    <3>2. ~IsChange(queue[p][1]) \/ cache[p].stale
      BY <1>0, <2>1, <3>1, AtProc DEF Drop, IsChange
    <3> QED BY <1>2, <2>1, <3>1, <3>2 DEF Drop
  <2>2. CASE StoreCommit(p)
    <3>1. queue[p] # <<>> /\ queue[p][1].phase # "announcing" /\ UNCHANGED <<engine, cache>>
      BY <1>6, <2>2 DEF StoreCommit, Writing
    <3> DEFINE found == [version |-> Version + 1, content |-> queue[p][1].after]
    <3>2. queue[p][1].after \in Content /\ found \in [version : Nat, content : Content]
      <4>1. queue[p][1].after \in Content BY <1>0, <3>1, AtProc DEF Writes
      <4>2. Version + 1 \in Nat BY <1>0, StoredType
      <4> QED BY <4>1, <4>2
    <3>3. \/ /\ Phase(p, "won", found) /\ cache[p].version = Len(log)
             /\ log' = Append(log, queue[p][1].after)
          \/ Phase(p, "lost", NoLoad) /\ cache[p].version # Len(log) /\ log' = log
      BY <1>0, <2>2, <3>1, AtProc DEF StoreCommit, AtExpected, Version
    <3>4. Grown BY <3>2, <3>3 DEF Grown
    <3> HIDE DEF found
    <3> QED BY <1>1, <1>3, <3>1, <3>2, <3>3, <3>4
  <2>8. Synced(engine[p]) \in Content /\ engine[p] \subseteq Synced(engine[p])
    BY <1>0, AtProc, UsedEngine
  <2>3. CASE Committed(p)
    <3> DEFINE d == [cache[p] EXCEPT !.version = queue[p][1].found.version]
               r == [queue[p] EXCEPT ![1] = [@ EXCEPT !.phase = "announcing"]]
    <3>1. /\ queue[p] # <<>> /\ queue[p][1].phase = "won" /\ Head(queue[p]) = queue[p][1]
          /\ UNCHANGED log
      BY <1>0, <1>6, <2>3, AtProc DEF Committed
    <3>2. CASE Done(p) /\ cache' = [cache EXCEPT ![p] = d] /\ UNCHANGED engine
      <4>1. Tip(Tail(queue[p]), engine[p], d, log) BY <1>0, <3>1, AtProc, TipCommitted
      <4> HIDE DEF d
      <4>2. queue'[p] = Tail(queue[p]) /\ Only(p) /\ cache'[p] = d
        BY <1>0, <3>2, AtProc DEF Done, Only
      <4> QED BY <1>0, <3>1, <3>2, <4>1, <4>2, TipAt DEF Grown
    <3>3. CASE PersistBehind(p, Synced(engine[p]), r, d)
      <4>1. Tip(r, engine[p], d, log) BY <1>0, <3>1, AtProc, TipAnnounced
      <4>2. r \in Seq(Writes) BY <1>0, <3>1, AtProc, OldestAnnounced
      <4>3. d \in Caches
        <5>1. queue[p][1].found.version \in Nat BY <1>0, <3>1, AtProc DEF Writes
        <5> QED BY <1>0, <5>1, AtProc DEF Caches
      <4> HIDE DEF r, d
      <4> QED BY <1>0, <2>8, <3>1, <3>3, <4>1, <4>2, <4>3, PersistTip
    <3>4. \/ Done(p) /\ cache' = [cache EXCEPT ![p] = d] /\ UNCHANGED engine
          \/ PersistBehind(p, Synced(engine[p]), r, d)
      BY <2>3, <3>1 DEF Committed
    <3> QED BY <3>2, <3>3, <3>4
  <2>9. CASE Announced(p)
    <3>1. /\ queue[p] # <<>> /\ queue[p][1].phase = "announcing" /\ ~IsChange(queue[p][1])
          /\ UNCHANGED log
      BY <1>6, <2>9 DEF Announced, IsChange
    <3>2. Tip(Tail(queue[p]), engine[p], cache[p], log) BY <1>0, <3>1, AtProc, TipTail
    <3>3. Tail(queue[p]) \in Seq(Writes) BY <1>0, <3>1, AtProc, HeadTailProperties
    <3>4. PersistBehind(p, Synced(engine[p]), Tail(queue[p]), cache[p]) BY <2>9 DEF Announced
    <3> QED BY <1>0, <2>8, <3>1, <3>2, <3>3, <3>4, AtProc, PersistTip
  <2>4. CASE CommitFailed(p)
    <3>1. /\ queue[p] # <<>> /\ queue[p][1].phase = "failed"
          /\ UNCHANGED <<log, engine>>
      BY <1>6, <2>4 DEF CommitFailed
    <3>2. /\ queue' = [queue EXCEPT ![p] = Tail(@)]
          /\ cache' = [cache EXCEPT ![p].stale = TRUE]
      BY <2>4 DEF CommitFailed, Done
    <3> DEFINE d == [cache[p] EXCEPT !.stale = TRUE]
    <3>3. d \in Caches /\ Like(d, cache[p]) /\ d.stale /\ d.version = cache[p].version
      BY <1>0, AtProc DEF Caches, Like
    <3>4. queue'[p] = Tail(queue[p]) /\ cache'[p] = d /\ Only(p)
      BY <1>0, <3>1, <3>2, AtProc DEF Only
    <3> HIDE DEF d
    <3>5. Tip(queue[p], engine[p], d, log) BY <1>0, <3>3, AtProc, TipLike
    <3>6. Tip(Tail(queue[p]), engine[p], d, log) BY <1>0, <3>1, <3>3, <3>5, AtProc, TipTail
    <3> QED BY <1>0, <3>1, <3>4, <3>6, TipAt DEF Grown
  <2>5. CASE LoadAccount(p)
    <3>1. queue[p] # <<>> /\ Phase(p, "loaded", Loaded) /\ UNCHANGED <<log, engine, cache>>
          /\ queue[p][1].phase # "announcing"
      BY <1>6, <2>5 DEF LoadAccount, Loading
    <3> QED BY <1>1, <1>3, <3>1 DEF Grown
  <2>6. CASE Install(p)
    <3>1. /\ queue[p] # <<>> /\ queue[p][1].phase = "loaded" /\ Head(queue[p]) = queue[p][1]
          /\ UNCHANGED log
      BY <1>0, <1>6, <2>6, AtProc DEF Install
    <3> DEFINE d == CacheOf(queue[p][1].found, queue[p][1].kind = "commit")
               f == queue[p][1].found.content
    <3>2. /\ queue' = [queue EXCEPT ![p] = Replaced(queue[p])]
          /\ engine' = [engine EXCEPT ![p] = f]
          /\ cache' = [cache EXCEPT ![p] = d]
      BY <1>0, <2>6, <3>1 DEF Install, Replaced
    <3>3. Tip(Replaced(queue[p]), f, d, log) BY <1>0, <3>1, AtProc, TipInstalled
    <3> HIDE DEF d, f
    <3>4. /\ queue'[p] = Replaced(queue[p]) /\ engine'[p] = f /\ cache'[p] = d /\ Only(p)
      BY <1>0, <3>2, AtProc DEF Only
    <3> QED BY <1>0, <3>1, <3>3, <3>4, TipAt DEF Grown
  <2>7. CASE Record(p)
    <3>1. /\ queue[p] # <<>> /\ queue[p][1].phase # "won" /\ ~IsChange(queue[p][1])
      BY <1>6, <2>7 DEF Record, IsChange
    <3> QED BY <1>2, <2>7, <3>1 DEF Record
  <2> QED BY <1>8, <2>1, <2>2, <2>3, <2>4, <2>5, <2>6, <2>7, <2>9 DEF DoWrite
<1>9. ASSUME NEW p \in Procs, Fault(p) PROVE AllTip'
  <2>1. CASE LoadFault(p)
    <3>1. /\ queue[p] # <<>> /\ queue[p][1].phase # "won" /\ ~IsChange(queue[p][1])
      BY <1>6, <2>1 DEF LoadFault, IsChange
    <3> QED BY <1>2, <2>1, <3>1 DEF LoadFault
  <2>2. CASE ReloadFault(p)
    <3>1. /\ queue[p] # <<>> /\ queue[p][1].phase = "lost" /\ queue[p][1].kind = "commit"
      BY <1>6, <2>2 DEF ReloadFault
    <3> QED BY <1>2, <2>2, <3>1 DEF ReloadFault
  <2>3. CASE AuditFault(p)
    <3>1. /\ queue[p] # <<>> /\ queue[p][1].phase # "won" /\ ~IsChange(queue[p][1])
      BY <1>6, <2>3 DEF AuditFault, IsChange
    <3> QED BY <1>2, <2>3, <3>1 DEF AuditFault
  <2>4. CASE CommitFault(p)
    <3>1. /\ queue[p] # <<>> /\ UNCHANGED <<engine, cache>> /\ Phase(p, "failed", NoLoad)
          /\ queue[p][1].phase # "announcing"
          /\ log' = log \/ log' = Append(log, Head(queue[p]).after)
      BY <1>6, <2>4 DEF CommitFault, Writing
    <3>2. Head(queue[p]).after \in Content BY <1>0, <3>1, AtProc DEF Writes
    <3>3. Grown BY <3>1, <3>2 DEF Grown
    <3> QED BY <1>1, <1>3, <3>1, <3>3
  <2>5. CASE Crash(p)
    <3>1. /\ queue' = [queue EXCEPT ![p] = <<>>] /\ cache' = [cache EXCEPT ![p] = NoCache]
          /\ engine' = [engine EXCEPT ![p] = {}] /\ UNCHANGED log
      BY <2>5 DEF Crash
    <3>2. queue'[p] = <<>> /\ ~cache'[p].loaded /\ Only(p)
      BY <1>0, <3>1, AtProc DEF NoCache, Only
    <3>3. Tip(queue'[p], engine'[p], cache'[p], log') BY <3>2 DEF Tip
    <3> QED BY <1>0, <3>1, <3>2, <3>3, TipAt DEF Grown
  <2> QED BY <1>9, <2>1, <2>2, <2>3, <2>4, <2>5 DEF Fault
<1>10. ASSUME NEW p \in Procs, Background(p) PROVE AllTip'
  <2>1. Synced(engine[p]) \in Content /\ engine[p] \subseteq Synced(engine[p])
    BY <1>0, AtProc, UsedEngine
  <2>2. PersistBehind(p, Synced(engine[p]), queue[p], cache[p]) /\ UNCHANGED log
    BY <1>10 DEF Background, Persist
  <2> QED BY <1>0, <2>1, <2>2, AtProc, PersistTip
<1>11. ASSUME NEW e \in Events, EventDue(e) PROVE AllTip' BY <1>5, <1>11 DEF EventDue
<1>12. CASE UNCHANGED vars BY <1>5, <1>12 DEF vars
<1> QED BY <1>7, <1>8, <1>9, <1>10, <1>11, <1>12 DEF Next

\* An idle process whose version is the store's holds exactly the stored account.
THEOREM CommitIdleIsStored == Spec => []IdleEngineIsStored
<1>1. Init => AllTip
  <2> SUFFICES ASSUME Init, NEW p \in Procs PROVE Tip(queue[p], engine[p], cache[p], log)
    BY DEF AllTip
  <2>1. queue[p] = <<>> /\ cache[p] = NoCache BY DEF Init
  <2>2. ~cache[p].loaded BY <2>1 DEF NoCache
  <2> QED BY <2>1, <2>2 DEF Tip
<1>2. CommitInv /\ AllTip /\ [Next]_vars => AllTip' BY TipStep
<1>3. CommitInv /\ AllTip => IdleEngineIsStored
  <2> SUFFICES ASSUME CommitInv, AllTip, NEW p \in Procs, queue[p] = <<>>, cache[p].loaded,
                      ~cache[p].stale, cache[p].version = Version
               PROVE  engine[p] = Stored
    BY DEF IdleEngineIsStored, Idle
  <2>1. Len(<<>>) = 0 BY EmptySeq
  <2>2. EndsAt(<<>>, engine[p], AtIn(log, Version)) BY DEF AllTip, Tip, Newest, Version
  <2>3. engine[p] = AtIn(log, Version) BY <2>1, <2>2 DEF EndsAt
  <2> QED BY <2>3 DEF AtIn, Stored, At
<1> QED BY <1>1, <1>2, <1>3, CommitInvariant, PTL DEF Spec
-----------------------------------------------------------------------------
(* The user's requests one at a time.                                        *)

\* The user's requests come one at a time, each for an order of its own, no tick or sweep syncs an
\* engine, and a reload after a lost commit is answered.  What comes due still changes the engine:
\* with the next request, and with the syncs of an announced commit.
SentOneByOne ==
  Serial /\ Tickers = {} /\ "reload" \notin FaultKinds /\ \A r \in Keyed : SameOrder(r) = {r}

\* A request for the fill of an order that was placed at the process it comes to.
OwnFills == {f \in Fills : Home[OrderOf[f]] = Home[f]}

AtWork(p) == {r \in Reqs : Home[r] = p /\ pc[r] \in Waiting}

\* The engine is the account at the version it was read at or committed.
Clean(p) ==
  /\ cache[p].loaded /\ ~cache[p].stale
  /\ engine[p] = AtIn(log, cache[p].version)
  /\ cache[p].key \in {{}, {engine[p]}}

\* An engine that r has run on.
Acted(r, e) == r \in Acts \cup OwnFills => Ran(r, e)

\* All that an engine e is ahead of the account `base` is what has come due and the n-th run of r.
Ahead(e, base, r, n) ==
  \A x \in e \ base : (x[1] \in Events /\ x[2] = 1) \/ (x = <<r, n>> /\ r \in Acts \cup Fills)

\* What is being committed for the n-th run of r: all of the queue, and no more than the run's own
\* change until something comes due.
Committing(q, e, c, l, r, n, d) ==
  /\ c.loaded /\ ~(c.stale /\ c.conflict)
  /\ \A i \in 1 .. Len(q) : q[i].kind = "commit" /\ q[i].live = ~c.conflict
  /\ c.stale \/ c.conflict => (q # <<>> => q[1].phase = "queued")
  /\ ~c.stale => /\ c.key \in {{}, {e}} /\ EndsAt(q, e, AtIn(l, c.version))
                 /\ Ahead(e, AtIn(l, c.version), r, n)
  /\ ~c.stale /\ ~c.conflict => c.key = {e} /\ Acted(r, e)
  /\ d = {} => Len(q) <= 1

\* What a process is doing for a request that is at the step `at` of its handler.
Working(p, r, at) ==
  LET q == queue[p]  c == cache[p] IN
  CASE at = "loading" ->
         /\ Len(q) = 1 /\ q[1].kind = "hydrate" /\ q[1].phase \in {"queued", "loaded"}
         /\ ~c.conflict /\ (c.loaded => c.stale)
    [] at = "running" -> q = <<>> /\ Clean(p) /\ ~c.conflict
    [] at = "settling" -> Committing(q, engine[p], c, log, r, runs[r], due)
    [] at = "recording" ->
         /\ Len(q) = 1 /\ q[1].kind = "record" /\ q[1].phase = "queued" /\ q[1].req = {r}
         /\ r \in Acts /\ Ran(r, At(Len(log))) /\ ~c.conflict /\ (c.loaded /\ ~c.stale => Clean(p))

\* A process with no request has nothing to write and no conflict to report.
Resting(p) ==
  queue[p] = <<>> /\ ~cache[p].conflict /\ (cache[p].loaded /\ ~cache[p].stale => Clean(p))

SerialAt(p) ==
  /\ \A r \in AtWork(p) : AtWork(p) = {r} /\ Working(p, r, pc[r])
  /\ AtWork(p) = {} => Resting(p)

\* The store has not been asked for what r does, or has refused it.
Undone(r) ==
  \/ pc[r] \in {"new", "loading", "running"}
  \/ /\ pc[r] = "settling"
     /\ IF queue[Home[r]] = <<>> THEN cache[Home[r]].conflict
        ELSE queue[Home[r]][1].phase \in {"queued", "lost", "loaded"}

\* What the store has of its own requests, a process with the account has too.
Knows(p) ==
  \A r \in Reqs : Home[r] = p /\ Ran(r, Stored) =>
    /\ cache[p].loaded => Ran(r, engine[p])
    /\ queue[p] # <<>> /\ queue[p][1].phase = "loaded" => Ran(r, queue[p][1].found.content)

SerialInv ==
  /\ \A p \in Procs : SerialAt(p) /\ Knows(p)
  /\ \A r \in Acts : pc[r] # "failed" /\ (due = {} /\ Undone(r) => ~Ran(r, Stored))
  /\ \A f \in Fills : pc[f] \in Waiting => Ran(OrderOf[f], Stored)
  /\ \A f \in OwnFills : pc[f] = "ok" => Ran(f, Stored)
  /\ \A x \in Stored : x[1] \in Events => x[2] = 1
  /\ \A v \in 1 .. Len(log) : log[v] \subseteq Stored

\* A change of an event, or of the request r that came to p.
OfStep(x, p, r) == (x[1] \in Events /\ x[2] = 1) \/ (x[1] = r /\ r \in Reqs /\ Home[r] = p)

\* What a step of a process p may do, r being the request that it may be about.
Grows(p, r) ==
  \/ log' = log
  \/ \E a \in Content : /\ log' = Append(log, a) /\ Stored \subseteq a
                        /\ \A x \in a \ Stored : OfStep(x, p, r)
StepOf(p, r) ==
  /\ \A q \in Procs \ {p} : engine'[q] = engine[q] /\ cache'[q] = cache[q] /\ queue'[q] = queue[q]
  /\ \A x \in Reqs : x # r \/ Home[x] # p => pc'[x] = pc[x] /\ runs'[x] = runs[x]
  /\ due' = due /\ Grows(p, r)
-----------------------------------------------------------------------------
(* What happens to a queue of commits.                                     *)

LEMMA CommittingTail ==
  ASSUME NEW q \in Seq(Writes), q # <<>>, NEW e, NEW c, NEW l, NEW v, NEW r, NEW n, NEW d,
         Chained(q, e, v, l), Committing(q, e, c, l, r, n, d), ~IsChange(q[1]) \/ c.stale
  PROVE  Committing(Tail(q), e, c, l, r, n, d)
<1> DEFINE t == Tail(q)
<1>1. /\ t \in Seq(Writes) /\ Len(t) \in Nat /\ Len(q) = Len(t) + 1
      /\ \A i \in 1 .. Len(t) : t[i] = q[i + 1] /\ i + 1 \in 1 .. Len(q) /\ i + 1 > 1
  BY HeadTailProperties
<1>2. ~c.stale => EndsAt(t, e, AtIn(l, c.version)) BY EndsTail DEF Committing
<1> HIDE DEF t
<1>3. t # <<>> => t[1].phase = "queued"
  <2>1. t # <<>> => 1 \in 1 .. Len(t) BY <1>1, EmptySeq
  <2> QED BY <1>1, <2>1 DEF Chained
<1>4. \A i \in 1 .. Len(t) : t[i].kind = "commit" /\ t[i].live = ~c.conflict BY <1>1 DEF Committing
<1>5. d = {} => Len(t) <= 1 BY <1>1 DEF Committing
<1>6. Committing(t, e, c, l, r, n, d) BY <1>2, <1>3, <1>4, <1>5 DEF Committing
<1> QED BY <1>6 DEF t

\* A commit that won leaves the account at its version.
LEMMA CommittingWon ==
  ASSUME NEW q \in Seq(Writes), q # <<>>, NEW e, NEW c \in Caches, NEW l, NEW r, NEW n, NEW d,
         Chained(q, e, c.version, l), Committing(q, e, c, l, r, n, d), q[1].phase = "won"
  PROVE  /\ ~c.stale /\ ~c.conflict
         /\ Committing(Tail(q), e, [c EXCEPT !.version = q[1].found.version], l, r, n, d)
         /\ Committing([q EXCEPT ![1] = [@ EXCEPT !.phase = "announcing"]], e,
                       [c EXCEPT !.version = q[1].found.version], l, r, n, d)
<1> DEFINE b == [c EXCEPT !.version = q[1].found.version]  t == Tail(q)
           w == [q[1] EXCEPT !.phase = "announcing"]  m == [q EXCEPT ![1] = w]
<1>0. 1 \in 1 .. Len(q) /\ q[1] \in Writes BY EmptySeq
<1>1. ~c.stale /\ ~c.conflict BY DEF Committing
<1>2. /\ b.loaded = c.loaded /\ b.key = c.key /\ b.stale = c.stale /\ b.conflict = c.conflict
      /\ b.version = q[1].found.version
  BY DEF Caches
<1>3. IsChange(q[1]) /\ AtIn(l, b.version) = q[1].after
  BY <1>0, <1>2 DEF Chained, Answered, AtIn
<1> HIDE DEF b
<1>14. Ahead(e, AtIn(l, b.version), r, n)
  <2>1. AtIn(l, c.version) \subseteq q[1].after BY <1>0, <1>3 DEF Chained, Fits
  <2> QED BY <1>1, <1>3, <2>1 DEF Committing, Ahead
<1>4. EndsAt(q, e, AtIn(l, c.version)) BY <1>1 DEF Committing
<1>5. EndsAt(t, e, AtIn(l, b.version)) BY <1>3, <1>4, EndsTail
<1>6. EndsAt(m, e, AtIn(l, b.version)) BY <1>3, <1>4, EndsAnnounced
<1>7. /\ t \in Seq(Writes) /\ Len(t) \in Nat /\ Len(q) = Len(t) + 1
      /\ \A i \in 1 .. Len(t) : t[i] = q[i + 1] /\ i + 1 \in 1 .. Len(q)
  BY HeadTailProperties
<1>8. w \in Writes /\ w.kind = q[1].kind /\ w.live = q[1].live /\ w.updates = q[1].updates
  BY <1>0 DEF Writes, Phases
<1> HIDE DEF t, w
<1>9. Len(m) = Len(q) /\ m[1] = w /\ \A i \in 1 .. Len(q) : i # 1 => m[i] = q[i]
  BY <1>0, <1>8, ExceptSeq
<1> HIDE DEF m
<1>10. \A i \in 1 .. Len(q) : q[i].kind = "commit" /\ q[i].live = ~c.conflict BY DEF Committing
<1>11. w.kind = "commit" /\ w.live = ~c.conflict BY <1>0, <1>8, <1>10
<1>12. Committing(t, e, b, l, r, n, d)
  <2>1. \A i \in 1 .. Len(t) : t[i].kind = "commit" /\ t[i].live = ~b.conflict BY <1>2, <1>7, <1>10
  <2>2. d = {} => Len(t) <= 1 BY <1>7 DEF Committing
  <2> QED BY <1>1, <1>2, <1>5, <1>14, <2>1, <2>2 DEF Committing
<1>13. Committing(m, e, b, l, r, n, d)
  <2>1. \A i \in 1 .. Len(m) : m[i].kind = "commit" /\ m[i].live = ~b.conflict
    BY <1>2, <1>9, <1>10, <1>11
  <2> QED BY <1>1, <1>2, <1>6, <1>9, <1>14, <2>1 DEF Committing
<1> QED BY <1>1, <1>12, <1>13 DEF b, t, m, w

\* A sync queues what it changed, nothing before something has come due.
LEMMA CommittingSynced ==
  ASSUME NEW q \in Seq(Writes), NEW e, NEW c \in Caches, NEW l, NEW r, NEW n, NEW d, NEW s \in Content,
         Committing(q, e, c, l, r, n, d), ~c.stale, ~c.conflict,
         e \subseteq s, d = {} => s = e, \A x \in s \ e : x[1] \in Events /\ x[2] = 1,
         Commits(s, s \ e) \in Writes
  PROVE  /\ {s} = c.key => Committing(q, s, c, l, r, n, d)
         /\ {s} # c.key => Committing(Append(q, Commits(s, s \ e)), s, [c EXCEPT !.key = {s}], l, r, n, d)
<1> DEFINE w == Commits(s, s \ e)  m == Append(q, w)  b == [c EXCEPT !.key = {s}]
<1>1. c.key = {e} /\ Acted(r, e) BY DEF Committing
<1>2. CASE {s} = c.key
  <2>1. s = e BY <1>1, <1>2
  <2> QED BY <1>2, <2>1
<1>3. CASE {s} # c.key
  <2>1. d # {} BY <1>1, <1>3
  <2>2. /\ w.kind = "commit" /\ w.live /\ w.phase = "queued" /\ w.after = s /\ w.updates = s \ e
        /\ IsChange(w) /\ w \in Writes
    BY DEF Commits, Write, IsChange
  <2>3. /\ b.loaded = c.loaded /\ b.stale = c.stale /\ b.conflict = c.conflict
        /\ b.version = c.version /\ b.key = {s}
    BY DEF Caches
  <2> HIDE DEF w, b
  <2>4. EndsAt(m, s, AtIn(l, b.version)) BY <2>2, EndsQueued
  <2>5. Len(m) = Len(q) + 1 /\ m[Len(q) + 1] = w /\ \A i \in 1 .. Len(q) : m[i] = q[i]
    BY AppendProperties
  <2>6. \A i \in 1 .. Len(q) + 1 : i \in 1 .. Len(q) \/ i = Len(q) + 1 OBVIOUS
  <2> HIDE DEF m
  <2>7. Ahead(s, AtIn(l, b.version), r, n) BY <2>3 DEF Committing, Ahead
  <2>8. \A i \in 1 .. Len(m) : m[i].kind = "commit" /\ m[i].live = ~b.conflict
    <3>1. \A i \in 1 .. Len(q) : q[i].kind = "commit" /\ q[i].live = ~c.conflict BY DEF Committing
    <3>2. w.live = TRUE BY DEF Commits, Write, w
    <3>3. w.kind = "commit" BY DEF Commits, Write, w
    <3>4. b.conflict = FALSE BY <2>3
    <3>5. \A i \in 1 .. Len(q) : q[i].live = TRUE BY <3>1
    <3>6. ASSUME NEW i \in 1 .. Len(m) PROVE m[i].kind = "commit" /\ m[i].live = TRUE
      <4>1. i \in 1 .. Len(q) \/ i = Len(q) + 1 BY <2>5, <2>6
      <4>2. CASE i \in 1 .. Len(q)
        <5>1. m[i] = q[i] BY <2>5, <4>2
        <5> QED BY <3>1, <3>5, <4>2, <5>1
      <4>3. CASE i = Len(q) + 1
        <5>1. m[i] = w BY <2>5, <4>3
        <5> QED BY <3>2, <3>3, <5>1
      <4> QED BY <4>1, <4>2, <4>3
    <3> QED BY <3>4, <3>6
  <2>9. Acted(r, s) BY <1>1 DEF Acted, Ran
  <2>10. Committing(m, s, b, l, r, n, d) BY <2>1, <2>3, <2>4, <2>7, <2>8, <2>9 DEF Committing
  <2> QED BY <1>3, <2>10 DEF m, w, b
<1> QED BY <1>2, <1>3

\* The store's answer changes nothing else about a queue.
LEMMA CommittingMarked ==
  ASSUME NEW q \in Seq(Writes), q # <<>>, NEW e, NEW c \in Caches, NEW l, NEW m, NEW r, NEW n, NEW d,
         Committing(q, e, c, l, r, n, d), AtIn(m, c.version) = AtIn(l, c.version), ~c.stale, ~c.conflict,
         NEW phase \in Phases, NEW found \in [version : Nat, content : Content],
         phase # "announcing", q[1].phase # "announcing"
  PROVE  Committing([q EXCEPT ![1] = [@ EXCEPT !.phase = phase, !.found = found]], e, c, m, r, n, d)
<1> DEFINE w == [q[1] EXCEPT !.phase = phase, !.found = found]  t == [q EXCEPT ![1] = w]
<1>0. 1 \in 1 .. Len(q) /\ q[1] \in Writes BY EmptySeq
<1>1. EndsAt(q, e, AtIn(l, c.version)) BY DEF Committing
<1>2. EndsAt(t, e, AtIn(l, c.version)) BY <1>1, EndsMarked
<1>3. w \in Writes /\ w.kind = q[1].kind /\ w.live = q[1].live /\ w.updates = q[1].updates
  BY <1>0 DEF Writes
<1> HIDE DEF w
<1>4. Len(t) = Len(q) /\ t[1] = w /\ \A i \in 1 .. Len(q) : i # 1 => t[i] = q[i]
  BY <1>0, <1>3, ExceptSeq
<1> HIDE DEF t
<1>5. \A i \in 1 .. Len(q) : q[i].kind = "commit" /\ q[i].live = ~c.conflict BY DEF Committing
<1>6. w.kind = "commit" /\ w.live = ~c.conflict BY <1>0, <1>3, <1>5
<1>7. \A i \in 1 .. Len(t) : t[i].kind = "commit" /\ t[i].live = ~c.conflict BY <1>4, <1>5, <1>6
<1>8. Committing(t, e, c, m, r, n, d) BY <1>2, <1>4, <1>7 DEF Committing
<1> QED BY <1>8 DEF t, w

\* A commit that failed leaves an account to be reloaded, and the changes behind it to be dropped.
LEMMA CommittingFailed ==
  ASSUME NEW q \in Seq(Writes), q # <<>>, NEW e, NEW c \in Caches, NEW l, NEW v, NEW r, NEW n, NEW d,
         Chained(q, e, v, l), Committing(q, e, c, l, r, n, d), q[1].phase = "failed"
  PROVE  Committing(Tail(q), e, [c EXCEPT !.stale = TRUE], l, r, n, d)
<1> DEFINE b == [c EXCEPT !.stale = TRUE]
<1>1. ~c.conflict /\ ~c.stale BY DEF Committing
<1>2. /\ b.loaded = c.loaded /\ b.key = c.key /\ b.stale /\ b.conflict = c.conflict
      /\ b.version = c.version
  BY DEF Caches
<1>3. /\ Tail(q) \in Seq(Writes) /\ Len(Tail(q)) \in Nat /\ Len(q) = Len(Tail(q)) + 1
      /\ \A i \in 1 .. Len(Tail(q)) : /\ Tail(q)[i] = q[i + 1] /\ i + 1 \in 1 .. Len(q)
                                      /\ i + 1 > 1
  BY HeadTailProperties
<1> DEFINE t == Tail(q)
<1> HIDE DEF b, t
<1>4. t # <<>> => t[1].phase = "queued"
  <2>1. t # <<>> => 1 \in 1 .. Len(t) BY <1>3, EmptySeq DEF t
  <2> QED BY <1>3, <2>1 DEF Chained, t
<1>5. \A i \in 1 .. Len(t) : t[i].kind = "commit" /\ t[i].live = ~c.conflict
  BY <1>3 DEF Committing, t
<1>6. d = {} => Len(t) <= 1 BY <1>3 DEF Committing, t
<1>7. Committing(t, e, b, l, r, n, d) BY <1>1, <1>2, <1>4, <1>5, <1>6 DEF Committing
<1> QED BY <1>7 DEF b, t

\* A commit that lost leaves the stored account, and the changes behind it to be dropped.
LEMMA CommittingReplaced ==
  ASSUME NEW q \in Seq(Writes), q # <<>>, NEW e, NEW c \in Caches, NEW l, NEW v, NEW r, NEW n, NEW d,
         Chained(q, e, v, l), Committing(q, e, c, l, r, n, d), q[1].phase = "loaded",
         NEW b, b.loaded, b.stale = FALSE, b.conflict = TRUE, b.version = q[1].found.version,
         b.key \in {{}, {q[1].found.content}}, Replaced(q) \in Seq(Writes)
  PROVE  Committing(Replaced(q), q[1].found.content, b, l, r, n, d)
<1> DEFINE t == Replaced(q)  f == q[1].found
<1>1. 1 \in 1 .. Len(q) /\ Len(q) \in Nat BY EmptySeq
<1>2. f.content = AtIn(l, b.version) BY <1>1 DEF Chained, Answered
<1>3. Len(t) = Len(q) - 1 BY <1>1 DEF Replaced
<1>4. ASSUME NEW i \in 1 .. Len(t)
      PROVE  /\ t[i].live = FALSE /\ t[i].phase = "queued" /\ t[i].kind = "commit"
             /\ ~IsChange(t[i])
  <2>1. i + 1 \in 1 .. Len(q) /\ i + 1 > 1 /\ q[i + 1] \in Writes BY <1>1, <1>3
  <2>2. t[i] = [q[i + 1] EXCEPT !.live = FALSE] BY <1>3 DEF Replaced
  <2>3. q[i + 1].phase = "queued" /\ q[i + 1].kind = "commit" BY <2>1 DEF Chained, Committing
  <2>4. /\ t[i].live = FALSE /\ t[i].phase = q[i + 1].phase /\ t[i].kind = q[i + 1].kind
    BY <2>1, <2>2 DEF Writes
  <2> HIDE DEF t
  <2> QED BY <2>3, <2>4 DEF IsChange
<1> HIDE DEF t
<1>5. t # <<>> => t[1].phase = "queued"
  <2>1. t \in Seq(Writes) BY DEF t
  <2>2. t # <<>> => 1 \in 1 .. Len(t) BY <2>1, EmptySeq
  <2> QED BY <1>4, <2>2
<1>6. EndsAt(t, f.content, AtIn(l, b.version)) BY <1>2, <1>4 DEF EndsAt
<1>10. Ahead(f.content, AtIn(l, b.version), r, n) BY <1>2 DEF Ahead
<1> HIDE DEF f
<1>7. d = {} => Len(t) <= 1 BY <1>1, <1>3 DEF Committing
<1>8. \A i \in 1 .. Len(t) : t[i].kind = "commit" /\ t[i].live = ~b.conflict BY <1>4
<1>9. Committing(t, f.content, b, l, r, n, d) BY <1>5, <1>6, <1>7, <1>8, <1>10 DEF Committing, f
<1> QED BY <1>9 DEF t, f
-----------------------------------------------------------------------------
(* What a step may do.                                                     *)

\* The store only grows, by changes of the step, and what was read of it stays.
LEMMA StoredGrows ==
  ASSUME CommitInv, NEW p, NEW r, Grows(p, r)
  PROVE  /\ log' \in Seq(Content) /\ Len(log) <= Len(log') /\ Len(log) \in Nat
         /\ \A v \in 0 .. Len(log) : AtIn(log', v) = AtIn(log, v)
         /\ Stored \subseteq Stored' /\ Stored \in Content /\ Stored' \in Content
         /\ \A x \in Stored' \ Stored : OfStep(x, p, r)
         /\ \A v \in 1 .. Len(log') : (v \in 1 .. Len(log) /\ log'[v] = log[v]) \/ log'[v] = Stored'
<1>1. log \in Seq(Content) /\ Len(log) \in Nat BY DEF CommitInv, TypeOK
<1>2. Stored = AtIn(log, Len(log)) /\ Stored' = AtIn(log', Len(log')) BY DEF Stored, At, Version, AtIn
<1>3. Stored \in Content BY <1>1, <1>2 DEF AtIn, Content
<1>4. CASE log' = log BY <1>1, <1>2, <1>3, <1>4
<1>5. CASE log' # log
  <2>1. PICK a \in Content :
          /\ log' = Append(log, a) /\ Stored \subseteq a
          /\ \A x \in a \ Stored : OfStep(x, p, r)
    BY <1>5 DEF Grows
  <2>2. /\ log' \in Seq(Content) /\ Len(log') = Len(log) + 1 /\ log'[Len(log) + 1] = a
        /\ \A v \in 1 .. Len(log) : log'[v] = log[v]
    BY <1>1, <2>1
  <2>3. Stored' = a BY <1>1, <1>2, <2>2 DEF AtIn
  <2>4. \A v \in 0 .. Len(log) : AtIn(log', v) = AtIn(log, v) BY <2>2 DEF AtIn
  <2>5. \A v \in 1 .. Len(log') : (v \in 1 .. Len(log) /\ log'[v] = log[v]) \/ log'[v] = Stored'
    BY <1>1, <2>2, <2>3
  <2> QED BY <1>1, <1>3, <2>1, <2>2, <2>3, <2>4, <2>5
<1> QED BY <1>4, <1>5

\* No two requests are for the same order.
LEMMA OwnOrder ==
  ASSUME SentOneByOne, NEW x, NEW c
  PROVE  SameOrder(x) = {x} /\ (Ran(x, c) <=> \E e \in c : e[1] = x)
<1>1. SameOrder(x) = {x} BY DEF SentOneByOne, SameOrder
<1> QED BY <1>1 DEF Ran

\* A request that the step is not about is stored only if it was.
LEMMA RanBefore ==
  ASSUME CommitInv, SentOneByOne, NEW p, NEW r, Grows(p, r), NEW x \in Reqs, x # r \/ Home[x] # p
  PROVE  Ran(x, Stored') = Ran(x, Stored)
<1>1. \A y \in Stored' \ Stored : y[1] # x
  BY StoredGrows, CommitAssumption DEF OfStep
<1>2. Stored \subseteq Stored' BY StoredGrows
<1> DEFINE old == Stored  new == Stored'
<1>3. Ran(x, old) <=> \E e \in old : e[1] = x BY OwnOrder
<1>4. Ran(x, new) <=> \E e \in new : e[1] = x BY OwnOrder
<1>5. Ran(x, new) <=> Ran(x, old) BY <1>1, <1>2, <1>3, <1>4
<1>6. Ran(x, new) \in BOOLEAN /\ Ran(x, old) \in BOOLEAN BY DEF Ran
<1> HIDE DEF old, new
<1>7. Ran(x, new) = Ran(x, old) BY <1>5, <1>6
<1> QED BY <1>7 DEF old, new

\* What an account has, a larger one has.
LEMMA RanMore ==
  ASSUME NEW x, NEW c, NEW d, c \subseteq d, Ran(x, c)
  PROVE  Ran(x, d)
BY DEF Ran

\* What holds at another process goes on holding.
LEMMA Elsewhere ==
  ASSUME CommitInv, SerialInv, SentOneByOne, NEW p, NEW r, StepOf(p, r), NEW q \in Procs \ {p}
  PROVE  SerialAt(q)' /\ Knows(q)'
<1>1. engine'[q] = engine[q] /\ cache'[q] = cache[q] /\ queue'[q] = queue[q] BY DEF StepOf
<1>2. \A x \in Reqs : Home[x] = q => pc'[x] = pc[x] /\ runs'[x] = runs[x] BY DEF StepOf
<1>3. Grows(p, r) BY DEF StepOf
<1>4. AtWork(q)' = AtWork(q) BY <1>2 DEF AtWork
<1>5. SerialAt(q) /\ Knows(q) BY DEF SerialInv
<1>6. cache[q].version \in 0 .. Len(log)
  BY DEF CommitInv, AllChained, Chained, TypeOK
<1>7. AtIn(log', cache'[q].version) = AtIn(log, cache[q].version) BY <1>1, <1>3, <1>6, StoredGrows
<1>8. Clean(q)' = Clean(q) BY <1>1, <1>7 DEF Clean
<1>9. Resting(q)' = Resting(q) BY <1>1, <1>8 DEF Resting
<1>10. ASSUME NEW x \in AtWork(q), Working(q, x, pc[x]) PROVE Working(q, x, pc[x])'
  <2>1. x \in Reqs /\ Home[x] = q /\ pc'[x] = pc[x] /\ runs'[x] = runs[x] BY <1>2 DEF AtWork
  <2>2. Ran(x, Stored') = Ran(x, Stored) BY <1>3, <2>1, RanBefore
  <2>3. Committing(queue[q], engine[q], cache[q], log, x, runs[x], due)'
          = Committing(queue[q], engine[q], cache[q], log, x, runs[x], due)
    <3>1. due' = due /\ runs'[x] = runs[x] BY <2>1 DEF StepOf
    <3> QED BY <1>1, <1>7, <3>1 DEF Committing
  <2>4. At(Len(log)) = Stored /\ At(Len(log))' = Stored' BY DEF Stored, Version
  <2>5. pc[x] \in Waiting BY DEF AtWork
  <2> QED BY <1>1, <1>8, <1>10, <2>1, <2>2, <2>3, <2>4, <2>5 DEF Working, Waiting
<1>11. SerialAt(q)'
  <2>1. \A x \in AtWork(q) : pc'[x] = pc[x] BY <1>2 DEF AtWork
  <2> QED BY <1>4, <1>5, <1>9, <1>10, <2>1 DEF SerialAt
<1>12. Knows(q)'
  <2>1. \A x \in Reqs : Home[x] = q => Ran(x, Stored') = Ran(x, Stored) BY <1>3, RanBefore
  <2> QED BY <1>1, <1>5, <2>1 DEF Knows
<1> QED BY <1>11, <1>12

\* What is left to show of a step of p, whose only request at work is r.
LEMMA WholeStep ==
  ASSUME CommitInv, SerialInv, SentOneByOne, NEW p \in Procs, NEW r, StepOf(p, r), AtWork(p) \subseteq {r},
         r \in AtWork(p)' => Working(p, r, pc[r])', r \notin AtWork(p)' => Resting(p)',
         Knows(p)',
         r \in Reqs /\ Home[r] = p =>
           /\ r \in Acts => pc'[r] # "failed" /\ (due = {} /\ Undone(r)' => ~Ran(r, Stored'))
           /\ r \in Fills /\ pc'[r] \in Waiting => Ran(OrderOf[r], Stored')
           /\ r \in OwnFills /\ pc'[r] = "ok" => Ran(r, Stored')
  PROVE  SerialInv'
<1>1. Grows(p, r) BY DEF StepOf
<1>2. \A x \in Reqs : x # r \/ Home[x] # p => pc'[x] = pc[x] BY DEF StepOf
<1>3. Acts \subseteq Reqs /\ Fills \subseteq Reqs /\ OwnFills \subseteq Fills BY DEF Reqs, OwnFills
<1>4. Home \in [Reqs -> Procs] /\ OrderOf \in [Fills -> Acts] BY CommitAssumption
<1>5. Stored \subseteq Stored' BY <1>1, StoredGrows
<1>6. AtWork(p)' \subseteq {r} BY <1>2 DEF AtWork
<1>7. \A q \in Procs : SerialAt(q)' /\ Knows(q)'
  <2>1. SerialAt(p)'
    <3>1. CASE r \in AtWork(p)' BY <1>6, <3>1 DEF SerialAt
    <3>2. CASE r \notin AtWork(p)' BY <1>6, <3>2 DEF SerialAt
    <3> QED BY <3>1, <3>2
  <2> QED BY <2>1, Elsewhere
<1>0. due' = due BY DEF StepOf
<1>8. \A x \in Acts : pc'[x] # "failed" /\ (due = {} /\ Undone(x)' => ~Ran(x, Stored'))
  <2> SUFFICES ASSUME NEW x \in Acts, x # r \/ Home[x] # p
               PROVE  pc'[x] # "failed" /\ (due = {} /\ Undone(x)' => ~Ran(x, Stored'))
    BY <1>3, <1>4
  <2>1. pc'[x] = pc[x] /\ Ran(x, Stored') = Ran(x, Stored) BY <1>1, <1>2, <1>3, RanBefore
  <2>2. pc[x] # "failed" /\ (due = {} /\ Undone(x) => ~Ran(x, Stored)) BY DEF SerialInv
  <2>3. Undone(x)' => Undone(x)
    <3>1. CASE Home[x] # p
      <4>1. queue'[Home[x]] = queue[Home[x]] /\ cache'[Home[x]] = cache[Home[x]]
        BY <1>3, <1>4, <3>1 DEF StepOf
      <4> QED BY <2>1, <4>1 DEF Undone
    <3>2. CASE Home[x] = p
      <4>1. pc[x] \notin Waiting BY <1>3, <3>2 DEF AtWork
      <4> QED BY <2>1, <4>1 DEF Undone, Waiting
    <3> QED BY <3>1, <3>2
  <2>4. pc'[x] # "failed"
    <3>1. pc[x] # "failed" BY <2>2
    <3>2. pc'[x] = pc[x] BY <2>1
    <3> QED BY <3>1, <3>2
  <2>5. ASSUME due = {}, Undone(x)' PROVE ~Ran(x, Stored')
    <3>1. Undone(x) BY <2>3, <2>5
    <3>2. ~Ran(x, Stored) BY <2>2, <2>5, <3>1
    <3>3. Ran(x, Stored') => Ran(x, Stored) BY <2>1
    <3> QED BY <3>2, <3>3
  <2> QED BY <2>4, <2>5
<1>9. \A f \in Fills : pc'[f] \in Waiting => Ran(OrderOf[f], Stored')
  <2> SUFFICES ASSUME NEW f \in Fills, f # r \/ Home[f] # p, pc'[f] \in Waiting
               PROVE  Ran(OrderOf[f], Stored')
    BY <1>3, <1>4
  <2>1. Ran(OrderOf[f], Stored) BY <1>2, <1>3 DEF SerialInv
  <2> QED BY <1>5, <2>1, RanMore
<1>10. \A f \in OwnFills : pc'[f] = "ok" => Ran(f, Stored')
  <2> SUFFICES ASSUME NEW f \in OwnFills, f # r \/ Home[f] # p, pc'[f] = "ok" PROVE Ran(f, Stored')
    BY <1>3, <1>4
  <2>1. Ran(f, Stored) BY <1>2, <1>3 DEF SerialInv
  <2> QED BY <1>5, <2>1, RanMore
<1>11. \A x \in Stored' : x[1] \in Events => x[2] = 1
  <2>1. \A x \in Stored' \ Stored : OfStep(x, p, r)
    BY <1>1, StoredGrows
  <2> QED BY <2>1, CommitAssumption DEF SerialInv, OfStep
<1>12. \A v \in 1 .. Len(log') : log'[v] \subseteq Stored'
  <2>1. \A v \in 1 .. Len(log') : (v \in 1 .. Len(log) /\ log'[v] = log[v]) \/ log'[v] = Stored'
    BY <1>1, StoredGrows
  <2> QED BY <1>5, <2>1 DEF SerialInv
<1> QED BY <1>0, <1>7, <1>8, <1>9, <1>10, <1>11, <1>12 DEF SerialInv

\* What a process's part of the invariants says.
LEMMA Local ==
  ASSUME CommitInv, SerialInv, NEW p \in Procs
  PROVE  /\ queue \in [Procs -> Seq(Writes)] /\ cache \in [Procs -> Caches] /\ engine \in [Procs -> Content]
         /\ pc \in [Reqs -> {"new"} \cup Waiting \cup Answers] /\ runs \in [Reqs -> Nat]
         /\ cache[p].version \in 0 .. Len(log) /\ Len(log) \in Nat
         /\ AtIn(log, cache[p].version) \subseteq engine[p]
         /\ \A v \in 0 .. Len(log) : AtIn(log, v) \subseteq Stored
         /\ Stored = AtIn(log, Len(log)) /\ Stored \in Content
         /\ Chained(queue[p], engine[p], cache[p].version, log)
         /\ queue[p] # <<>> =>
              /\ Head(queue[p]) = queue[p][1] /\ queue[p][1] \in Writes
              /\ Answered(queue[p][1], log)
              /\ Len(queue[p]) = 1 => Tail(queue[p]) = <<>>
<1>1. TypeOK /\ AllChained BY DEF CommitInv
<1>2. /\ queue \in [Procs -> Seq(Writes)] /\ cache \in [Procs -> Caches] /\ engine \in [Procs -> Content]
      /\ pc \in [Reqs -> {"new"} \cup Waiting \cup Answers] /\ runs \in [Reqs -> Nat]
      /\ log \in Seq(Content)
  BY <1>1 DEF TypeOK, Caches
<1>3. Chained(queue[p], engine[p], cache[p].version, log) BY <1>1 DEF AllChained
<1>4. /\ cache[p].version \in 0 .. Len(log) /\ Len(log) \in Nat
      /\ AtIn(log, cache[p].version) \subseteq engine[p]
  BY <1>2, <1>3 DEF Chained, Caches
<1>5. Stored = AtIn(log, Len(log)) /\ Stored \in Content
  BY <1>1, StoredType DEF Stored, At, AtIn, Version
<1>6. \A v \in 0 .. Len(log) : AtIn(log, v) \subseteq Stored
  <2> SUFFICES ASSUME NEW v \in 0 .. Len(log), v # 0 PROVE AtIn(log, v) \subseteq Stored BY DEF AtIn
  <2>1. v \in 1 .. Len(log) BY <1>4
  <2>2. \A n \in 1 .. Len(log) : log[n] \subseteq Stored BY DEF SerialInv
  <2>3. log[v] \subseteq Stored BY <2>1, <2>2
  <2> QED BY <2>3 DEF AtIn
<1>7. ASSUME queue[p] # <<>>
      PROVE  /\ Head(queue[p]) = queue[p][1] /\ queue[p][1] \in Writes
             /\ Answered(queue[p][1], log)
             /\ Len(queue[p]) = 1 => Tail(queue[p]) = <<>>
  <2>1. 1 \in 1 .. Len(queue[p]) /\ Head(queue[p]) = queue[p][1] BY <1>2, <1>7, EmptySeq
  <2>2. Answered(queue[p][1], log) BY <1>3, <2>1 DEF Chained
  <2>3. Tail(queue[p]) \in Seq(Writes) /\ Len(Tail(queue[p])) = Len(queue[p]) - 1
    BY <1>2, <1>7, HeadTailProperties
  <2>4. ASSUME Len(queue[p]) = 1 PROVE Tail(queue[p]) = <<>>
    <3>1. Len(Tail(queue[p])) = 0 BY <2>3, <2>4
    <3> QED BY <2>3, <3>1, EmptySeq
  <2> QED BY <1>2, <2>1, <2>2, <2>4
<1> QED BY <1>2, <1>3, <1>4, <1>5, <1>6, <1>7

\* Who works at p, and what it does.
LEMMA Worker ==
  ASSUME CommitInv, SerialInv, NEW r \in Reqs, NEW p \in Procs, Home[r] = p, pc[r] \in Waiting
  PROVE  AtWork(p) = {r} /\ Working(p, r, pc[r]) /\ Knows(p)
         /\ (r \in Acts /\ due = {} /\ Undone(r) => ~Ran(r, Stored))
         /\ (r \in Fills => Ran(OrderOf[r], Stored))
<1>1. r \in AtWork(p) BY DEF AtWork
<1>2. SerialAt(p) /\ Knows(p) BY DEF SerialInv
<1>3. AtWork(p) = {r} /\ Working(p, r, pc[r]) BY <1>1, <1>2 DEF SerialAt
<1> QED BY <1>2, <1>3 DEF SerialInv

\* What is being committed for r at process p.
LEMMA Settling ==
  ASSUME CommitInv, SerialInv, NEW p \in Procs, NEW r \in Reqs, Home[r] = p, pc[r] = "settling"
  PROVE  Committing(queue[p], engine[p], cache[p], log, r, runs[r], due)
BY Worker DEF Working, Waiting

\* A process that has something to write has it to write for a request.
LEMMA Writer ==
  ASSUME CommitInv, SerialInv, NEW p \in Procs, queue[p] # <<>>
  PROVE  \E r \in Reqs : /\ Home[r] = p /\ pc[r] \in Waiting /\ pc[r] # "running"
                         /\ pc[r] = "loading" => queue[p][1].kind = "hydrate" /\ Len(queue[p]) = 1
                         /\ pc[r] = "settling" => queue[p][1].kind = "commit"
                         /\ pc[r] = "recording" => queue[p][1].kind = "record" /\ Len(queue[p]) = 1
<1>1. AtWork(p) # {} BY DEF SerialInv, SerialAt, Resting
<1>2. PICK r \in Reqs : Home[r] = p /\ pc[r] \in Waiting BY <1>1 DEF AtWork
<1>3. Working(p, r, pc[r]) BY <1>2, Worker
<1>4. pc[r] \in {"loading", "running", "settling", "recording"} BY <1>2 DEF Waiting
<1>5. CASE pc[r] = "loading" BY <1>2, <1>3, <1>5 DEF Working
<1>6. CASE pc[r] = "running" BY <1>2, <1>3, <1>6 DEF Working
<1>7. CASE pc[r] = "settling"
  <2>1. Committing(queue[p], engine[p], cache[p], log, r, runs[r], due) BY <1>3, <1>7 DEF Working
  <2>2. queue[p] \in Seq(Writes) BY Local
  <2>3. 1 \in 1 .. Len(queue[p]) BY <2>2, EmptySeq
  <2> QED BY <1>2, <1>7, <2>1, <2>3 DEF Committing
<1>8. CASE pc[r] = "recording" BY <1>2, <1>3, <1>8 DEF Working
<1> QED BY <1>4, <1>5, <1>6, <1>7, <1>8

\* A process with no request at work rests.
LEMMA Rests ==
  ASSUME SerialInv, SentOneByOne, NEW r \in Reqs, Arrives(r)
  PROVE  /\ AtWork(Home[r]) = {} /\ Resting(Home[r]) /\ Knows(Home[r]) /\ Home[r] \in Procs
         /\ (r \in Acts /\ due = {} => ~Ran(r, Stored)) /\ (r \in Fills => Ran(OrderOf[r], Stored))
<1>1. AtWork(Home[r]) = {} BY DEF SentOneByOne, Arrives, AtWork
<1>2. Home[r] \in Procs BY CommitAssumption
<1>3. pc[r] = "new" /\ (r \in Fills => Ran(OrderOf[r], Stored)) BY DEF Arrives, Stored
<1>4. Undone(r) BY <1>3 DEF Undone
<1> QED BY <1>1, <1>2, <1>3, <1>4 DEF SerialInv, SerialAt

\* A request that arrives uses the account at rest, or has it loaded.
LEMMA ReceiveSerial ==
  ASSUME CommitInv, SerialInv, SentOneByOne, NEW r \in Reqs, Receive(r)
  PROVE  SerialInv'
<1> DEFINE p == Home[r]
<1>1. /\ AtWork(p) = {} /\ Resting(p) /\ Knows(p) /\ p \in Procs
      /\ (r \in Acts /\ due = {} => ~Ran(r, Stored)) /\ (r \in Fills => Ran(OrderOf[r], Stored))
  BY Rests DEF Receive
<1>0. Home[r] = p OBVIOUS
<1>2. /\ queue \in [Procs -> Seq(Writes)] /\ pc \in [Reqs -> {"new"} \cup Waiting \cup Answers]
      /\ runs \in [Reqs -> Nat]
  BY <1>1, Local
<1>3. /\ log' = log /\ engine' = engine /\ cache' = cache /\ runs' = runs /\ due' = due
      /\ Ensure(r, p, cache[p].loaded /\ ~cache[p].stale)
  BY DEF Receive
<1>4. Stored' = Stored BY <1>3 DEF Stored, At, Version
<1>5. queue[p] = <<>> /\ ~cache[p].conflict /\ (cache[p].loaded /\ ~cache[p].stale => Clean(p))
  BY <1>1 DEF Resting
<1>6. Clean(p)' = Clean(p) BY <1>3 DEF Clean
<1> HIDE DEF p
<1>7. CASE cache[p].loaded /\ ~cache[p].stale
  <2>1. pc' = [pc EXCEPT ![r] = "running"] /\ queue' = queue BY <1>3, <1>7 DEF Ensure, Goto
  <2>2. pc'[r] = "running" BY <1>2, <2>1
  <2>3. StepOf(p, r) BY <1>0, <1>2, <1>3, <2>1 DEF StepOf, Grows
  <2>4. Working(p, r, pc[r])' BY <1>3, <1>5, <1>6, <1>7, <2>1, <2>2 DEF Working
  <2>5. Knows(p)' BY <1>1, <1>3, <1>4, <2>1 DEF Knows
  <2>6. r \in AtWork(p)' BY <2>2 DEF AtWork, Waiting, p
  <2> QED BY <1>1, <1>4, <2>2, <2>3, <2>4, <2>5, <2>6, WholeStep
<1>8. CASE ~(cache[p].loaded /\ ~cache[p].stale)
  <2>1. pc' = [pc EXCEPT ![r] = "loading"] /\ queue' = [queue EXCEPT ![p] = <<Hydrates>>]
    BY <1>3, <1>5, <1>8 DEF Ensure, Goto
  <2>2. pc'[r] = "loading" BY <1>2, <2>1
  <2>3. /\ queue'[p] = <<Hydrates>> /\ Len(queue'[p]) = 1 /\ queue'[p] # <<>>
        /\ queue'[p][1].kind = "hydrate" /\ queue'[p][1].phase = "queued"
    BY <1>1, <1>2, <2>1 DEF Hydrates, Write
  <2>4. StepOf(p, r) BY <1>0, <1>2, <1>3, <2>1 DEF StepOf, Grows
  <2>5. Working(p, r, pc[r])' BY <1>3, <1>5, <1>8, <2>2, <2>3 DEF Working
  <2>6. Knows(p)' BY <1>1, <1>3, <1>4, <2>3 DEF Knows
  <2>7. r \in AtWork(p)' BY <2>2 DEF AtWork, Waiting, p
  <2> QED BY <1>1, <1>4, <2>2, <2>4, <2>5, <2>6, <2>7, WholeStep
<1> QED BY <1>7, <1>8

\* A session job finds its process at rest too, and has it load the account.
LEMMA StartSyncSerial ==
  ASSUME CommitInv, SerialInv, SentOneByOne, NEW r \in Reqs, StartSync(r)
  PROVE  SerialInv'
<1> DEFINE p == Home[r]
<1>1. AtWork(p) = {} /\ Resting(p) /\ Knows(p) /\ p \in Procs
  BY Rests DEF StartSync
<1>0. Home[r] = p OBVIOUS
<1>2. /\ queue \in [Procs -> Seq(Writes)] /\ pc \in [Reqs -> {"new"} \cup Waiting \cup Answers]
      /\ runs \in [Reqs -> Nat] /\ cache \in [Procs -> Caches]
  BY <1>1, Local
<1>3. log' = log /\ engine' = engine /\ runs' = runs /\ due' = due BY DEF StartSync
<1>4. Stored' = Stored BY <1>3 DEF Stored, At, Version
<1>5. queue[p] = <<>> /\ ~cache[p].conflict /\ (cache[p].loaded /\ ~cache[p].stale => Clean(p))
  BY <1>1 DEF Resting
<1>6. r \notin Acts \cup Fills BY CommitAssumption DEF StartSync
<1>7. CASE cache[p].stale
  <2>1. pc' = [pc EXCEPT ![r] = "failed"] /\ cache' = cache /\ queue' = queue
    BY <1>7 DEF StartSync, Goto
  <2>2. pc'[r] = "failed" BY <1>2, <2>1
  <2> HIDE DEF p
  <2>3. StepOf(p, r) BY <1>0, <1>2, <1>3, <2>1 DEF StepOf, Grows
  <2>4. Resting(p)' BY <1>5, <1>7, <2>1 DEF Resting
  <2>5. Knows(p)' BY <1>1, <1>3, <1>4, <2>1 DEF Knows
  <2>6. r \notin AtWork(p)' BY <2>2 DEF AtWork, Waiting
  <2> QED BY <1>1, <1>6, <2>3, <2>4, <2>5, <2>6, WholeStep DEF OwnFills
<1>8. CASE ~cache[p].stale
  <2>1. /\ cache' = [cache EXCEPT ![p] = [@ EXCEPT !.conflict = FALSE, !.stale = cache[p].loaded]]
        /\ Ensure(r, p, FALSE)
    BY <1>8 DEF StartSync, Settled
  <2> HIDE DEF p
  <2>2. /\ ~cache'[p].conflict /\ cache'[p].loaded = cache[p].loaded
        /\ cache'[p].stale = cache[p].loaded
    BY <1>1, <1>2, <2>1 DEF Caches
  <2>3. pc' = [pc EXCEPT ![r] = "loading"] /\ queue' = [queue EXCEPT ![p] = <<Hydrates>>]
    BY <1>5, <2>1 DEF Ensure, Goto
  <2>4. pc'[r] = "loading" BY <1>2, <2>3
  <2>5. /\ queue'[p] = <<Hydrates>> /\ Len(queue'[p]) = 1 /\ queue'[p] # <<>>
        /\ queue'[p][1].kind = "hydrate" /\ queue'[p][1].phase = "queued"
    BY <1>1, <1>2, <2>3 DEF Hydrates, Write
  <2>6. StepOf(p, r) BY <1>0, <1>2, <1>3, <2>1, <2>3 DEF StepOf, Grows
  <2>7. Working(p, r, pc[r])' BY <2>2, <2>4, <2>5 DEF Working
  <2>8. Knows(p)' BY <1>1, <1>3, <1>4, <2>2, <2>5 DEF Knows
  <2>9. r \in AtWork(p)' BY <2>4 DEF AtWork, Waiting, p
  <2> QED BY <1>1, <1>6, <2>6, <2>7, <2>8, <2>9, WholeStep DEF OwnFills
<1> QED BY <1>7, <1>8

\* What a run of r makes of the engine e of its process.
LEMMA RunOn ==
  ASSUME CommitInv, SerialInv, SentOneByOne, NEW r \in Reqs, NEW p \in Procs, Home[r] = p,
         pc[r] = "running"
  PROVE  LET c == Applied(r, Synced(engine[p])) IN
         /\ c \in Content /\ engine[p] \subseteq c /\ Acted(r, c)
         /\ Ahead(c, engine[p], r, runs[r] + 1)
<1> DEFINE s == Synced(engine[p])
           c == Applied(r, s)
<1>1. /\ Working(p, r, "running") /\ Knows(p)
      /\ (r \in Fills => Ran(OrderOf[r], Stored))
  BY Worker DEF Waiting
<1>2. Clean(p) BY <1>1 DEF Working
<1>3. engine[p] \in Content BY Local
<1>4. TypeOK BY DEF CommitInv
<1>6. s \in Content /\ engine[p] \subseteq s BY <1>3, <1>4, UsedEngine
<1>7. c \in Content /\ s \subseteq c BY <1>4, <1>6, UsedEngine
<1>8. s = engine[p] \cup (due \X {1}) /\ due \subseteq Events BY <1>4 DEF Synced, TypeOK
<1> HIDE DEF s
<1>9. c = IF Moot(r, s) THEN s ELSE s \cup {<<r, runs[r] + 1>>} BY DEF Applied
<1> HIDE DEF c
<1>10. ASSUME r \in Acts \cup OwnFills PROVE Ran(r, c)
  <2>1. CASE ~Moot(r, s)
    <3>1. <<r, runs[r] + 1>> \in c /\ <<r, runs[r] + 1>>[1] = r BY <1>9, <2>1
    <3> QED BY <3>1, OwnOrder
  <2>2. CASE Moot(r, s)
    <3>1. r \notin Reads \cup Syncs BY <1>10, CommitAssumption DEF OwnFills
    <3>2. CASE r \in Acts
      <4>1. r \notin Fills BY <3>2, CommitAssumption
      <4> QED BY <1>9, <2>2, <3>1, <4>1 DEF Moot
    <3>3. CASE r \in OwnFills
      <4>1. r \in Fills /\ OrderOf[r] \in Reqs /\ Home[OrderOf[r]] = p
        BY <3>3, CommitAssumption DEF OwnFills, Reqs
      <4>2. Ran(OrderOf[r], engine[p]) BY <1>1, <1>2, <4>1 DEF Knows, Clean
      <4>3. Ran(OrderOf[r], s) BY <1>6, <4>2, RanMore
      <4> QED BY <1>9, <2>2, <3>1, <4>3 DEF Moot
    <3> QED BY <1>10, <3>2, <3>3
  <2> QED BY <2>1, <2>2
<1>11. ASSUME NEW x \in c \ engine[p]
       PROVE  (x[1] \in Events /\ x[2] = 1) \/ (x = <<r, runs[r] + 1>> /\ r \in Acts \cup Fills)
  <2>1. CASE x \in s BY <1>8, <1>11, <2>1
  <2>2. CASE x \notin s
    <3>1. x = <<r, runs[r] + 1>> /\ ~Moot(r, s) BY <1>9, <1>11, <2>2
    <3> QED BY <3>1 DEF Moot, Reqs
  <2> QED BY <2>1, <2>2
<1> QED BY <1>6, <1>7, <1>10, <1>11 DEF Acted, Ahead, s, c

\* A queue and a cache entry to run a request on.
Ready(q, e, c, l) ==
  /\ q = <<>> /\ c \in Caches /\ c.loaded /\ ~c.stale /\ ~c.conflict
  /\ c.key \in {{}, {e}} /\ e = AtIn(l, c.version)

\* What the n-th run of r made of an engine.
Result(s, e, r, n) ==
  /\ Acted(r, s) /\ Commits(s, s \ e) \in Writes
  /\ Ahead(s, e, r, n)

\* The change of a run is the only one in its queue.
LEMMA CommittingRun ==
  ASSUME NEW q, NEW e, NEW c, NEW l, NEW r, NEW n, NEW d, NEW s, Ready(q, e, c, l), Result(s, e, r, n)
  PROVE  /\ {s} = c.key => s = e /\ Committing(q, s, c, l, r, n, d)
         /\ {s} # c.key =>
              Committing(Append(q, Commits(s, s \ e)), s, [c EXCEPT !.key = {s}], l, r, n, d)
<1> DEFINE w == Commits(s, s \ e)  m == Append(q, w)  b == [c EXCEPT !.key = {s}]
<1> USE DEF Ready, Result
<1>0. Len(q) = 0 BY EmptySeq
<1>1. CASE {s} = c.key
  <2>1. s = e BY <1>1
  <2>2. EndsAt(q, s, AtIn(l, c.version)) BY <1>0, <2>1 DEF EndsAt
  <2> QED BY <1>0, <1>1, <2>1, <2>2 DEF Committing
<1>2. CASE {s} # c.key
  <2>2. /\ w.kind = "commit" /\ w.live = TRUE /\ w.phase = "queued" /\ w.after = s
        /\ w.updates = s \ e /\ IsChange(w) /\ w \in Writes
    BY DEF Commits, Write, IsChange
  <2>3. /\ b.loaded = c.loaded /\ b.stale = c.stale /\ b.conflict = c.conflict
        /\ b.version = c.version /\ b.key = {s}
    BY DEF Caches
  <2> HIDE DEF w, b
  <2>4. q \in Seq(Writes) BY EmptySeq
  <2>5. EndsAt(m, s, AtIn(l, b.version)) BY <2>2, <2>4, EndsQueued
  <2>6. Len(m) = 1 /\ m[1] = w BY <1>0, <2>2, <2>4, AppendProperties
  <2> HIDE DEF m
  <2>7. Ahead(s, AtIn(l, b.version), r, n) BY <2>3
  <2>8. \A i \in 1 .. Len(m) : i = 1 BY <2>6
  <2>9. \A i \in 1 .. Len(m) : m[i].kind = "commit" /\ m[i].live = ~b.conflict
    BY <2>2, <2>3, <2>6, <2>8
  <2>10. Committing(m, s, b, l, r, n, d) BY <2>3, <2>5, <2>6, <2>7, <2>9 DEF Committing
  <2> QED BY <1>2, <2>10 DEF m, w, b
<1> QED BY <1>1, <1>2

\* A request runs on the account as it was read, so its change is the only one to commit.
LEMMA RunSerial ==
  ASSUME CommitInv, SerialInv, SentOneByOne, NEW r \in Reqs, Run(r)
  PROVE  SerialInv'
<1> DEFINE p == Home[r]
           c == Applied(r, Synced(engine[p]))
           w == Commits(c, c \ engine[p])
           b == [cache[p] EXCEPT !.key = {c}]
<1>0. Home[r] = p /\ p \in Procs /\ pc[r] = "running" BY CommitAssumption DEF Run
<1>1. /\ AtWork(p) = {r} /\ Working(p, r, "running") /\ Knows(p)
      /\ (r \in Acts /\ due = {} /\ Undone(r) => ~Ran(r, Stored))
      /\ (r \in Fills => Ran(OrderOf[r], Stored))
  BY <1>0, Worker DEF Waiting
<1>2. /\ queue \in [Procs -> Seq(Writes)] /\ pc \in [Reqs -> {"new"} \cup Waiting \cup Answers]
      /\ cache \in [Procs -> Caches] /\ engine \in [Procs -> Content] /\ runs \in [Reqs -> Nat]
  BY <1>0, Local
<1>3. /\ log' = log /\ due' = due /\ runs' = [runs EXCEPT ![r] = @ + 1] /\ Persist(p, c)
      /\ pc' = [pc EXCEPT ![r] = "settling"]
  BY DEF Run, Goto
<1>4. Stored' = Stored BY <1>3 DEF Stored, At, Version
<1>5. /\ c \in Content /\ engine[p] \subseteq c /\ Acted(r, c)
      /\ Ahead(c, engine[p], r, runs[r] + 1)
  BY <1>0, RunOn
<1>6. queue[p] = <<>> /\ ~cache[p].conflict /\ Clean(p) BY <1>1 DEF Working
<1> HIDE DEF p, c
<1>7. pc'[r] = "settling" /\ runs'[r] = runs[r] + 1 BY <1>2, <1>3
<1>8. /\ engine' = [engine EXCEPT ![p] = c] /\ engine'[p] = c
      /\ \/ /\ {c} = cache[p].key /\ queue' = [queue EXCEPT ![p] = queue[p]]
            /\ cache' = [cache EXCEPT ![p] = cache[p]]
         \/ /\ {c} # cache[p].key /\ queue' = [queue EXCEPT ![p] = Append(queue[p], w)]
            /\ cache' = [cache EXCEPT ![p] = b]
  BY <1>0, <1>2, <1>3 DEF Persist, PersistBehind
<1>9. w \in Writes
  <2>1. c \in Content /\ c \ engine[p] \in Content BY <1>5 DEF Content
  <2> QED BY <2>1, PlainWrites
<1>10. /\ {c} = cache[p].key =>
            c = engine[p] /\ Committing(queue[p], c, cache[p], log, r, runs[r] + 1, due)
       /\ {c} # cache[p].key =>
            Committing(Append(queue[p], w), c, b, log, r, runs[r] + 1, due)
  <2>1. /\ cache[p] \in Caches /\ cache[p].loaded /\ ~cache[p].stale
        /\ cache[p].key \in {{}, {engine[p]}} /\ engine[p] = AtIn(log, cache[p].version)
    BY <1>0, <1>2, <1>6 DEF Clean
  <2> DEFINE n == runs[r] + 1  q == queue[p]  e == engine[p]  k == cache[p]
  <2>2. Ahead(c, e, r, n)
    BY <1>5
  <2> HIDE DEF n, q, e, k
  <2>3. q = <<>> /\ ~k.conflict BY <1>6 DEF q, k
  <2>4. /\ k \in Caches /\ k.loaded /\ ~k.stale /\ k.key \in {{}, {e}} /\ e = AtIn(log, k.version)
    BY <2>1 DEF k, e
  <2>5. Commits(c, c \ e) \in Writes BY <1>9 DEF e
  <2>6. Acted(r, c) BY <1>5
  <2>7. /\ {c} = k.key => c = e /\ Committing(q, c, k, log, r, n, due)
        /\ {c} # k.key => Committing(Append(q, Commits(c, c \ e)), c, [k EXCEPT !.key = {c}], log, r, n, due)
    <3>1. Ready(q, e, k, log) BY <2>3, <2>4 DEF Ready
    <3>2. Result(c, e, r, n) BY <2>2, <2>5, <2>6 DEF Result
    <3> QED BY <3>1, <3>2, CommittingRun
  <2> QED BY <2>7 DEF n, q, e, k
<1>11. /\ Committing(queue'[p], engine'[p], cache'[p], log, r, runs[r] + 1, due)
       /\ cache'[p].loaded = cache[p].loaded
       /\ queue'[p] # <<>> => queue'[p][1].phase # "loaded"
  <2>1. CASE {c} = cache[p].key
    <3>1. queue'[p] = queue[p] /\ cache'[p] = cache[p] BY <1>0, <1>2, <1>8, <2>1
    <3> QED BY <1>6, <1>8, <1>10, <2>1, <3>1
  <2>2. CASE {c} # cache[p].key
    <3>1. queue'[p] = Append(queue[p], w) /\ cache'[p] = b BY <1>0, <1>2, <1>8, <2>2
    <3>2. b.loaded = cache[p].loaded BY <1>0, <1>2 DEF Caches
    <3>3. w.phase = "queued" BY DEF Commits, Write
    <3> HIDE DEF w, b
    <3>4. queue'[p] = <<w>> BY <1>6, <3>1
    <3>5. queue'[p][1].phase = "queued" BY <3>3, <3>4
    <3> QED BY <1>8, <1>10, <2>2, <3>1, <3>2, <3>5 DEF w, b
  <2> QED BY <2>1, <2>2
<1> HIDE DEF w, b
<1>12. r \in AtWork(p)' BY <1>0, <1>7 DEF AtWork, Waiting
<1>13. r \in Acts /\ due = {} => ~Ran(r, Stored) BY <1>0, <1>1 DEF Undone
<1>14. \A x \in Reqs : Ran(x, engine[p]) => Ran(x, c) BY <1>5, RanMore
<1>15. Knows(p)' BY <1>1, <1>4, <1>6, <1>8, <1>11, <1>14 DEF Knows, Clean
<1>16. StepOf(p, r) BY <1>0, <1>2, <1>3, <1>8 DEF StepOf, Grows
<1>17. Working(p, r, pc[r])' BY <1>3, <1>7, <1>11 DEF Working
<1> QED BY <1>0, <1>1, <1>4, <1>7, <1>12, <1>13, <1>15, <1>16, <1>17, WholeStep

\* A settled request was stored, or lost its commit and runs again on the account as reloaded.
LEMMA SettleSerial ==
  ASSUME CommitInv, SerialInv, SentOneByOne, NEW r \in Reqs, Settle(r)
  PROVE  SerialInv'
<1> DEFINE p == Home[r]
<1>0. Home[r] = p /\ p \in Procs /\ pc[r] = "settling" /\ queue[p] = <<>>
  BY CommitAssumption DEF Settle, Idle
<1>1. /\ AtWork(p) = {r} /\ Working(p, r, "settling") /\ Knows(p)
      /\ (r \in Acts /\ due = {} /\ Undone(r) => ~Ran(r, Stored))
      /\ (r \in Fills => Ran(OrderOf[r], Stored))
  <2>1. pc[r] \in Waiting BY <1>0 DEF Waiting
  <2>2. /\ AtWork(p) = {r} /\ Working(p, r, pc[r]) /\ Knows(p)
        /\ (r \in Acts /\ due = {} /\ Undone(r) => ~Ran(r, Stored))
        /\ (r \in Fills => Ran(OrderOf[r], Stored))
    BY <1>0, <2>1, Worker, Zenon
  <2>3. Working(p, r, "settling") BY <1>0, <2>2, Zenon
  <2> QED BY <2>2, <2>3, Zenon
<1>2. /\ queue \in [Procs -> Seq(Writes)] /\ pc \in [Reqs -> {"new"} \cup Waiting \cup Answers]
      /\ cache \in [Procs -> Caches]
  BY <1>0, Local
<1>3. log' = log /\ engine' = engine /\ runs' = runs /\ due' = due BY DEF Settle
<1>4. Stored' = Stored BY <1>3 DEF Stored, At, Version
<1>5. \/ cache[p].stale /\ ~cache[p].conflict
      \/ Clean(p) /\ (cache[p].conflict \/ Acted(r, engine[p]))
  <2>1. Committing(queue[p], engine[p], cache[p], log, r, runs[r], due) BY <1>1 DEF Working
  <2>2. \A i \in 1 .. Len(queue[p]) : FALSE BY <1>0, EmptySeq
  <2>3. EndsAt(queue[p], engine[p], AtIn(log, cache[p].version))
          => engine[p] = AtIn(log, cache[p].version)
    BY <2>2 DEF EndsAt
  <2> QED BY <2>1, <2>3 DEF Committing, Clean
<1>6. CASE cache[p].stale
  <2>1. ~cache[p].conflict BY <1>5, <1>6 DEF Clean
  <2>2. pc' = [pc EXCEPT ![r] = Thrown(r)] /\ queue' = queue /\ cache' = cache
    BY <1>6 DEF Settle, Goto
  <2> HIDE DEF p
  <2>3. pc'[r] = Thrown(r) BY <1>2, <2>2
  <2>4. pc'[r] \in {"error", "failed"} /\ (r \in Acts => pc'[r] = "error")
    BY <2>3, CommitAssumption DEF Thrown
  <2>5. StepOf(p, r) BY <1>0, <1>2, <1>3, <2>2 DEF StepOf, Grows
  <2>6. Resting(p)' BY <1>0, <1>6, <2>1, <2>2 DEF Resting
  <2>7. Knows(p)' BY <1>1, <1>3, <1>4, <2>2 DEF Knows
  <2>8. r \notin AtWork(p)' BY <2>4 DEF AtWork, Waiting
  <2>9. r \in Acts => ~Undone(r)' BY <2>4 DEF Undone
  <2> QED BY <1>0, <1>1, <2>4, <2>5, <2>6, <2>7, <2>8, <2>9, WholeStep DEF Waiting
<1>7. CASE ~cache[p].stale
  <2>1. Clean(p) /\ (cache[p].conflict \/ Acted(r, engine[p])) BY <1>5, <1>7
  <2>2. cache' = [cache EXCEPT ![p] = [@ EXCEPT !.conflict = FALSE]]
    BY <1>7 DEF Settle, Settled
  <2> DEFINE again == /\ pc' = [pc EXCEPT ![r] = "running"] /\ queue' = queue
                      /\ cache[p].conflict
             answered(how) == /\ pc' = [pc EXCEPT ![r] = how] /\ queue' = queue
             recorded == /\ pc' = [pc EXCEPT ![r] = "recording"]
                         /\ queue' = [queue EXCEPT ![p] = Append(@, Records(r))]
                         /\ r \in Acts /\ ~cache[p].conflict
  <2>3. \/ again
        \/ recorded
        \/ answered("conflict") /\ r \in Acts
        \/ answered("ok") /\ r \in Fills /\ ~cache[p].conflict
        \/ answered("ok") /\ r \in Syncs \cup Reads
        \/ answered("failed") /\ r \in Fills
    BY <1>7 DEF Settle, Settled, Again, Goto
  <2> HIDE DEF p
  <2>4. /\ ~cache'[p].conflict /\ cache'[p].loaded = cache[p].loaded /\ cache'[p].stale = cache[p].stale
        /\ cache'[p].key = cache[p].key /\ cache'[p].version = cache[p].version
    BY <1>0, <1>2, <2>2 DEF Caches
  <2>5. Clean(p)' BY <1>3, <2>1, <2>4 DEF Clean
  <2>6. engine[p] \subseteq Stored
    <3>1. engine[p] = AtIn(log, cache[p].version) BY <2>1 DEF Clean
    <3> QED BY <1>0, <3>1, Local
  <2>7. CASE again
    <3>1. pc'[r] = "running" BY <1>2, <2>7
    <3>2. StepOf(p, r) BY <1>0, <1>2, <1>3, <2>2, <2>7 DEF StepOf, Grows
    <3>3. Working(p, r, pc[r])' BY <1>0, <2>4, <2>5, <2>7, <3>1 DEF Working
    <3>4. Knows(p)' BY <1>1, <1>3, <1>4, <2>4, <2>7 DEF Knows
    <3>5. r \in AtWork(p)' BY <1>0, <3>1 DEF AtWork, Waiting
    <3>6. Undone(r) BY <1>0, <2>7 DEF Undone
    <3> QED BY <1>0, <1>1, <1>4, <3>1, <3>2, <3>3, <3>4, <3>5, <3>6, WholeStep
  <2>8. CASE recorded
    <3>1. pc'[r] = "recording" BY <1>2, <2>8
    <3>2. StepOf(p, r) BY <1>0, <1>2, <1>3, <2>2, <2>8 DEF StepOf, Grows
    <3>3. /\ Records(r).kind = "record" /\ Records(r).phase = "queued" /\ Records(r).req = {r}
      BY DEF Records, Write
    <3>4. queue'[p] = <<Records(r)>> BY <1>0, <1>2, <2>8
    <3>5. Len(queue'[p]) = 1 /\ queue'[p] # <<>> /\ queue'[p][1] = Records(r) BY <3>4
    <3>6. Ran(r, Stored')
      <4>1. Ran(r, engine[p]) BY <2>1, <2>8 DEF Acted
      <4> QED BY <1>4, <2>6, <4>1, RanMore
    <3>7. At(Len(log))' = Stored' BY DEF Stored, Version
    <3>8. Working(p, r, pc[r])' BY <2>4, <2>5, <2>8, <3>1, <3>3, <3>5, <3>6, <3>7 DEF Working
    <3>9. Knows(p)' BY <1>1, <1>3, <1>4, <2>4, <3>3, <3>5 DEF Knows
    <3>10. r \in AtWork(p)' BY <1>0, <3>1 DEF AtWork, Waiting
    <3>11. ~Undone(r)' BY <3>1 DEF Undone
    <3>12. r \notin Fills BY <2>8, CommitAssumption
    <3> QED BY <1>0, <1>1, <3>1, <3>2, <3>8, <3>9, <3>10, <3>11, <3>12, WholeStep DEF OwnFills
  <2>9. ASSUME NEW how \in {"conflict", "ok", "failed"}, answered(how),
               r \in Acts => how = "conflict",
               r \in Fills => how \in {"ok", "failed"} /\ (how = "ok" => ~cache[p].conflict)
        PROVE  SerialInv'
    <3>1. pc'[r] = how BY <1>2, <2>9
    <3>2. StepOf(p, r) BY <1>0, <1>2, <1>3, <2>2, <2>9 DEF StepOf, Grows
    <3>3. Resting(p)' BY <1>0, <2>4, <2>5, <2>9 DEF Resting
    <3>4. Knows(p)' BY <1>1, <1>3, <1>4, <2>4, <2>9 DEF Knows
    <3>5. r \notin AtWork(p)' /\ pc'[r] \notin Waiting BY <3>1 DEF AtWork, Waiting
    <3>6. r \in Acts => ~Undone(r)' /\ pc'[r] # "failed" BY <2>9, <3>1 DEF Undone
    <3>7. ASSUME r \in OwnFills, pc'[r] = "ok" PROVE Ran(r, Stored')
      <4>1. Acted(r, engine[p]) BY <2>1, <2>9, <3>1, <3>7 DEF OwnFills
      <4>2. Ran(r, engine[p]) BY <3>7, <4>1 DEF Acted
      <4> QED BY <1>4, <2>6, <4>2, RanMore
    <3> QED BY <1>0, <1>1, <3>2, <3>3, <3>4, <3>5, <3>6, <3>7, WholeStep
  <2>10. Acts \cap (Reads \cup Fills \cup Syncs) = {} /\ Fills \cap (Reads \cup Syncs) = {}
    BY CommitAssumption
  <2> HIDE DEF again, recorded, answered
  <2> QED BY <2>3, <2>7, <2>8, <2>9, <2>10
<1> QED BY <1>6, <1>7

\* A failed job or fill is sent again.
LEMMA RetrySerial ==
  ASSUME CommitInv, SerialInv, SentOneByOne, NEW r \in Reqs, Retry(r)
  PROVE  SerialInv'
<1>1. /\ log' = log /\ engine' = engine /\ cache' = cache /\ queue' = queue /\ runs' = runs
      /\ due' = due /\ pc' = [pc EXCEPT ![r] = "new"] /\ pc[r] = "failed" /\ r \notin Acts
  BY CommitAssumption DEF Retry, Goto
<1>2. pc \in [Reqs -> {"new"} \cup Waiting \cup Answers] BY DEF CommitInv, TypeOK
<1>3. \A x \in Reqs : x # r => pc'[x] = pc[x] BY <1>1, <1>2
<1>4. pc'[r] = "new" BY <1>1, <1>2
<1>5. \A p : AtWork(p)' = AtWork(p)
  <2>1. pc[r] \notin Waiting /\ pc'[r] \notin Waiting BY <1>1, <1>4 DEF Waiting
  <2> QED BY <1>3, <2>1 DEF AtWork
<1>6. Stored' = Stored BY <1>1 DEF Stored, At, Version
<1>7. ASSUME NEW p \in Procs PROVE SerialAt(p)' /\ Knows(p)'
  <2>1. SerialAt(p) /\ Knows(p) BY DEF SerialInv
  <2>2. Clean(p)' = Clean(p) BY <1>1 DEF Clean
  <2>3. Resting(p)' = Resting(p) BY <1>1, <2>2 DEF Resting
  <2>5. ASSUME NEW x \in AtWork(p) PROVE pc'[x] = pc[x] /\ (Working(p, x, pc[x]) => Working(p, x, pc[x])')
    <3>1. pc[x] \in Waiting /\ x \in Reqs BY <2>5 DEF AtWork
    <3>2. pc'[x] = pc[x] BY <1>1, <1>3, <3>1 DEF Waiting
    <3>3. At(Len(log))' = At(Len(log)) BY <1>1 DEF At
    <3> QED BY <1>1, <2>2, <3>1, <3>2, <3>3 DEF Working, Waiting
  <2>6. SerialAt(p)' BY <1>5, <2>1, <2>3, <2>5 DEF SerialAt
  <2> QED BY <1>1, <1>6, <2>1, <2>6 DEF Knows
<1>8. ASSUME NEW x \in Acts PROVE pc'[x] # "failed" /\ (due = {} /\ Undone(x)' => ~Ran(x, Stored'))
  <2>1. x \in Reqs /\ x # r BY <1>1 DEF Reqs
  <2>2. pc'[x] = pc[x] BY <1>3, <2>1
  <2>3. Undone(x)' => Undone(x) BY <1>1, <2>2 DEF Undone
  <2> QED BY <1>6, <2>2, <2>3 DEF SerialInv
<1>9. \A f \in Fills : pc'[f] \in Waiting => pc[f] \in Waiting BY <1>3, <1>4 DEF Waiting, Reqs
<1>10. \A f \in OwnFills : pc'[f] = "ok" => pc[f] = "ok" BY <1>3, <1>4 DEF OwnFills, Reqs
<1> QED BY <1>1, <1>6, <1>7, <1>8, <1>9, <1>10 DEF SerialInv

\* A queue with the store's answer noted at its head.
Noted(q, phase, found) == [q EXCEPT ![1] = [@ EXCEPT !.phase = phase, !.found = found]]

\* What the store answers is noted.
LEMMA Marked ==
  ASSUME CommitInv, SerialInv, NEW p \in Procs, queue[p] # <<>>, NEW phase, NEW found,
         Phase(p, phase, found)
  PROVE  /\ queue' = [queue EXCEPT ![p] = queue'[p]] /\ queue'[p] # <<>> /\ Len(queue'[p]) = Len(queue[p])
         /\ queue'[p] = Noted(queue[p], phase, found)
         /\ queue'[p][1].kind = queue[p][1].kind /\ queue'[p][1].phase = phase
         /\ queue'[p][1].found = found
<1> DEFINE w == queue[p][1]  m == [w EXCEPT !.phase = phase, !.found = found]
<1>1. queue \in [Procs -> Seq(Writes)] /\ w \in Writes BY Local
<1>2. queue' = [queue EXCEPT ![p] = [queue[p] EXCEPT ![1] = m]] BY DEF Phase
<1>3. m.kind = w.kind /\ m.phase = phase /\ m.found = found BY <1>1 DEF Writes
<1>4. 1 \in 1 .. Len(queue[p]) /\ Len(queue[p]) \in Nat BY <1>1, EmptySeq
<1> DEFINE t == [queue[p] EXCEPT ![1] = m]
<1>5. t = Noted(queue[p], phase, found) BY DEF Noted
<1> HIDE DEF m
<1>6. Len(t) = Len(queue[p]) /\ t[1] = m /\ t # <<>> BY <1>1, <1>4
<1>7. queue'[p] = t /\ queue' = [queue EXCEPT ![p] = t] BY <1>1, <1>2
<1> HIDE DEF t
<1> QED BY <1>3, <1>5, <1>6, <1>7

\* What is left to show of a step of p while it commits for r.
LEMMA SettlingStep ==
  ASSUME CommitInv, SerialInv, SentOneByOne, NEW p \in Procs, NEW r \in Reqs, Home[r] = p,
         pc[r] = "settling", UNCHANGED <<pc, runs, due>>, Grows(p, r),
         queue' = [queue EXCEPT ![p] = queue'[p]], engine' = [engine EXCEPT ![p] = engine'[p]],
         cache' = [cache EXCEPT ![p] = cache'[p]],
         Committing(queue'[p], engine'[p], cache'[p], log', r, runs[r], due), Knows(p)',
         r \in Acts /\ due = {} /\ Undone(r)' => ~Ran(r, Stored')
  PROVE  SerialInv'
<1>1. AtWork(p) = {r} /\ (r \in Fills => Ran(OrderOf[r], Stored)) BY Worker DEF Waiting
<1>2. pc'[r] = "settling" /\ r \in AtWork(p)' BY DEF AtWork, Waiting
<1>3. Working(p, r, pc[r])' BY <1>2 DEF Working
<1>4. StepOf(p, r) BY Local DEF StepOf
<1>5. Stored \subseteq Stored' BY StoredGrows
<1>6. r \in Fills => Ran(OrderOf[r], Stored') BY <1>1, <1>5, RanMore
<1> QED BY <1>1, <1>2, <1>3, <1>4, <1>6, WholeStep

\* Who a write of a change is for, and what it is about.
LEMMA Settler ==
  ASSUME CommitInv, SerialInv, NEW p \in Procs, queue[p] # <<>>, queue[p][1].kind = "commit"
  PROVE  \E r \in Reqs :
           /\ Home[r] = p /\ pc[r] = "settling"
           /\ Committing(queue[p], engine[p], cache[p], log, r, runs[r], due)
           /\ Knows(p) /\ (r \in Acts /\ due = {} /\ Undone(r) => ~Ran(r, Stored))
<1>1. PICK r \in Reqs : Home[r] = p /\ pc[r] = "settling" BY Writer DEF Waiting
<1>2. pc[r] \in Waiting BY <1>1 DEF Waiting
<1>3. Knows(p) /\ (r \in Acts /\ due = {} /\ Undone(r) => ~Ran(r, Stored))
  BY <1>1, <1>2, Worker
<1> QED BY <1>1, <1>3, Settling

\* The store answers a commit, having done it or not.
LEMMA CommitAnswered ==
  ASSUME CommitInv, SerialInv, SentOneByOne, NEW p \in Procs, Writing(p),
         NEW phase \in {"won", "lost", "failed"}, NEW found \in [version : Nat, content : Content],
         Phase(p, phase, found), UNCHANGED <<due, engine, cache, pc, runs>>,
         \/ log' = log /\ phase # "won"
         \/ log' = Append(log, Head(queue[p]).after) /\ AtExpected(p) /\ phase # "lost"
  PROVE  SerialInv'
<1> DEFINE w == queue[p][1]
<1>1. /\ queue[p] # <<>> /\ Head(queue[p]) = w /\ w.kind = "commit" /\ w.phase = "queued"
      /\ w.live /\ ~cache[p].stale
  BY Local DEF Writing, Doing
<1>2. PICK r \in Reqs :
        /\ Home[r] = p /\ pc[r] = "settling"
        /\ Committing(queue[p], engine[p], cache[p], log, r, runs[r], due)
        /\ Knows(p) /\ (r \in Acts /\ due = {} /\ Undone(r) => ~Ran(r, Stored))
  BY <1>1, Settler
<1>3. /\ queue' = [queue EXCEPT ![p] = queue'[p]] /\ queue'[p] # <<>>
      /\ queue'[p] = Noted(queue[p], phase, found)
      /\ queue'[p][1].phase = phase
  BY <1>1, Marked
<1>4. /\ queue \in [Procs -> Seq(Writes)] /\ engine \in [Procs -> Content] /\ cache \in [Procs -> Caches]
      /\ log \in Seq(Content) /\ cache[p].version \in 0 .. Len(log) /\ w \in Writes
      /\ Chained(queue[p], engine[p], cache[p].version, log) /\ Stored = AtIn(log, Len(log))
  BY <1>1, Local DEF CommitInv, TypeOK
<1>5. 1 \in 1 .. Len(queue[p]) BY <1>1, <1>4, EmptySeq
<1>6. ~cache[p].conflict
  <2>1. w.live = ~cache[p].conflict BY <1>2, <1>5 DEF Committing
  <2> QED BY <1>1, <2>1
<1>7. Ahead(engine[p], AtIn(log, cache[p].version), r, runs[r]) BY <1>1, <1>2 DEF Committing
<1>8. w.after \subseteq engine[p] BY <1>1, <1>4, <1>5 DEF Chained, Fits, IsChange
<1>9. Grows(p, r) /\ (log' # log => Stored' = w.after)
  <2>1. CASE log' = log BY <2>1 DEF Grows
  <2>2. CASE log' # log
    <3>1. log' = Append(log, w.after) /\ cache[p].version = Len(log)
      BY <1>1, <2>2 DEF AtExpected, Version
    <3>2. Stored \subseteq w.after /\ w.after \in Content
      BY <1>1, <3>1, WritingFits DEF CommitInv, Version
    <3> HIDE DEF w
    <3>3. \A x \in w.after \ Stored : OfStep(x, p, r)
      <4>1. \A x \in w.after \ Stored : x \in engine[p] \ AtIn(log, cache[p].version)
        BY <1>4, <1>8, <3>1
      <4>2. r \in Acts \cup Fills => r \in Reqs BY <1>2
      <4> QED BY <1>2, <1>7, <4>1 DEF Ahead, OfStep
    <3>4. Stored' = w.after BY <1>4, <3>1, <3>2 DEF Stored, At, Version
    <3> QED BY <3>1, <3>2, <3>3, <3>4 DEF Grows
  <2> QED BY <2>1, <2>2
<1>10. log' = log => Stored' = Stored BY DEF Stored, At, Version
<1>11. Committing(queue'[p], engine'[p], cache'[p], log', r, runs[r], due)
  <2>1. AtIn(log', cache[p].version) = AtIn(log, cache[p].version) BY <1>4, <1>9, StoredGrows
  <2>2. phase \in Phases /\ phase # "announcing" BY DEF Phases
  <2> DEFINE q == queue[p]  e == engine[p]  c == cache[p]  n == runs[r]  l == log  m == log'
  <2>3. /\ q \in Seq(Writes) /\ q # <<>> /\ c \in Caches /\ Committing(q, e, c, l, r, n, due)
        /\ AtIn(m, c.version) = AtIn(l, c.version) /\ ~c.stale /\ ~c.conflict
        /\ q[1].phase # "announcing"
    BY <1>1, <1>2, <1>4, <1>6, <2>1
  <2>4. queue'[p] = Noted(q, phase, found) BY <1>3
  <2>5. engine'[p] = e /\ cache'[p] = c OBVIOUS
  <2> HIDE DEF q, e, c, n, l, m
  <2>6. Committing(Noted(q, phase, found), e, c, m, r, n, due)
    BY <2>2, <2>3, CommittingMarked DEF Noted
  <2> QED BY <2>4, <2>5, <2>6 DEF m, n
<1> HIDE DEF w
<1>12. Knows(p)'
  <2>1. queue'[p][1].phase # "loaded" BY <1>3
  <2>2. CASE log' = log BY <1>2, <1>10, <2>1, <2>2 DEF Knows
  <2>3. CASE log' # log
    <3>1. \A x : Ran(x, Stored') => Ran(x, engine[p]) BY <1>8, <1>9, <2>3, RanMore
    <3> QED BY <2>1, <3>1 DEF Knows
  <2> QED BY <2>2, <2>3
<1>13. r \in Acts /\ due = {} /\ Undone(r)' => ~Ran(r, Stored')
  <2> SUFFICES ASSUME r \in Acts, due = {}, Undone(r)' PROVE ~Ran(r, Stored') OBVIOUS
  <2>1. phase = "lost" BY <1>2, <1>3 DEF Undone
  <2>2. Undone(r) BY <1>1, <1>2 DEF Undone, w
  <2> QED BY <1>2, <1>10, <2>1, <2>2
<1> QED BY <1>2, <1>3, <1>4, <1>9, <1>11, <1>12, <1>13, SettlingStep

\* What is behind the head of a queue was not answered yet.
LEMMA Behind ==
  ASSUME CommitInv, SerialInv, NEW p \in Procs, queue[p] # <<>>
  PROVE  /\ Tail(queue[p]) \in Seq(Writes)
         /\ Tail(queue[p]) # <<>> => Tail(queue[p])[1].phase = "queued"
         /\ Len(queue[p]) <= 1 => Tail(queue[p]) = <<>>
<1> DEFINE q == queue[p]  t == Tail(q)
<1>1. q \in Seq(Writes) /\ Chained(q, engine[p], cache[p].version, log) BY Local
<1>2. /\ t \in Seq(Writes) /\ Len(t) \in Nat /\ Len(q) = Len(t) + 1
      /\ \A i \in 1 .. Len(t) : t[i] = q[i + 1] /\ i + 1 \in 1 .. Len(q) /\ i + 1 > 1
  BY <1>1, HeadTailProperties
<1>3. t # <<>> => 1 \in 1 .. Len(t) BY <1>2, EmptySeq
<1>4. t # <<>> => t[1].phase = "queued" BY <1>1, <1>2, <1>3 DEF Chained
<1>6. Len(t) = 0 => t = <<>> BY <1>2, EmptySeq
<1> HIDE DEF q, t
<1>5. Len(q) <= 1 => Len(t) = 0 BY <1>2
<1> QED BY <1>2, <1>4, <1>5, <1>6 DEF q, t

\* Syncs of an announced commit leave what has come due behind the queue, if anything has.
LEMMA SyncedSettling ==
  ASSUME CommitInv, SerialInv, NEW p \in Procs, NEW r, NEW m \in Seq(Writes), NEW b \in Caches,
         Committing(m, engine[p], b, log, r, runs[r], due), ~b.stale, ~b.conflict,
         PersistBehind(p, Synced(engine[p]), m, b)
  PROVE  /\ queue' = [queue EXCEPT ![p] = queue'[p]] /\ engine' = [engine EXCEPT ![p] = engine'[p]]
         /\ cache' = [cache EXCEPT ![p] = cache'[p]]
         /\ Committing(queue'[p], engine'[p], cache'[p], log, r, runs[r], due)
         /\ engine[p] \subseteq engine'[p] /\ ~cache'[p].conflict /\ cache'[p].loaded = b.loaded
         /\ due = {} => queue'[p] = m
         /\ queue'[p] # <<>> => queue'[p][1].phase \in {"queued"} \cup {m[i].phase : i \in 1 .. Len(m)}
<1> DEFINE e == engine[p]  s == Synced(e)  n == runs[r]  w == Commits(s, s \ e)  k == [b EXCEPT !.key = {s}]
           a == Append(m, w)
<1>1. /\ queue \in [Procs -> Seq(Writes)] /\ engine \in [Procs -> Content] /\ cache \in [Procs -> Caches]
      /\ e \in Content /\ due \subseteq Events /\ TypeOK
  BY Local DEF CommitInv, TypeOK
<1>2. s \in Content /\ e \subseteq s BY <1>1, UsedEngine
<1>3. \A x \in s \ e : x[1] \in Events /\ x[2] = 1 BY <1>1 DEF Synced
<1>4. due = {} => s = e BY DEF Synced
<1>5. w \in Writes /\ w.phase = "queued"
  <2>1. s \ e \in Content BY <1>2 DEF Content
  <2> QED BY <1>2, <2>1, PlainWrites DEF Commits, Write
<1>6. /\ engine' = [engine EXCEPT ![p] = s]
      /\ \/ /\ {s} = b.key /\ queue' = [queue EXCEPT ![p] = m] /\ cache' = [cache EXCEPT ![p] = b]
         \/ /\ {s} # b.key /\ queue' = [queue EXCEPT ![p] = a] /\ cache' = [cache EXCEPT ![p] = k]
  BY DEF PersistBehind
<1>7. /\ {s} = b.key => Committing(m, s, b, log, r, n, due)
      /\ {s} # b.key => Committing(a, s, k, log, r, n, due)
  <2>1. Committing(m, e, b, log, r, n, due) OBVIOUS
  <2>2. Commits(s, s \ e) \in Writes BY <1>5
  <2> HIDE DEF s, e, n
  <2>3. /\ {s} = b.key => Committing(m, s, b, log, r, n, due)
        /\ {s} # b.key => Committing(Append(m, Commits(s, s \ e)), s, [b EXCEPT !.key = {s}], log, r, n, due)
    <3> DEFINE l == log  d == due
    <3>1. Committing(m, e, b, l, r, n, d) /\ (d = {} => s = e) BY <1>4, <2>1
    <3> HIDE DEF l, d
    <3>2. /\ {s} = b.key => Committing(m, s, b, l, r, n, d)
          /\ {s} # b.key => Committing(Append(m, Commits(s, s \ e)), s, [b EXCEPT !.key = {s}], l, r, n, d)
      BY <1>2, <1>3, <2>2, <3>1, CommittingSynced
    <3> QED BY <3>2 DEF l, d
  <2> QED BY <2>3
<1>8. k.conflict = b.conflict /\ k.loaded = b.loaded BY DEF Caches
<1>9. b.key = {e} BY DEF Committing
<1>10. /\ Len(m) \in Nat /\ (m = <<>> <=> Len(m) = 0)
       /\ Len(m) > 0 => a[1] = m[1] /\ 1 \in 1 .. Len(m)
       /\ Len(m) = 0 => a[1] = w
  BY <1>5, EmptySeq, AppendProperties
<1> HIDE DEF s, e, w, k, a, n
<1>11. CASE {s} = b.key
  <2>1. engine'[p] = s /\ queue'[p] = m /\ cache'[p] = b
        /\ queue' = [queue EXCEPT ![p] = m] /\ cache' = [cache EXCEPT ![p] = b]
    BY <1>1, <1>6, <1>11
  <2>2. Committing(queue'[p], engine'[p], cache'[p], log, r, runs[r], due) BY <1>7, <1>11, <2>1 DEF n
  <2>3. engine[p] \subseteq engine'[p] BY <1>2, <2>1 DEF e
  <2>4. m # <<>> => 1 \in 1 .. Len(m) BY <1>10
  <2>5. m # <<>> => m[1].phase \in {"queued"} \cup {m[i].phase : i \in 1 .. Len(m)} BY <2>4
  <2>6. engine' = [engine EXCEPT ![p] = engine'[p]] BY <1>6, <2>1
  <2> QED BY <2>1, <2>2, <2>3, <2>5, <2>6
<1>12. CASE {s} # b.key
  <2>1. engine'[p] = s /\ queue'[p] = a /\ cache'[p] = k
        /\ queue' = [queue EXCEPT ![p] = a] /\ cache' = [cache EXCEPT ![p] = k]
    BY <1>1, <1>6, <1>12
  <2>2. due # {} BY <1>4, <1>9, <1>12
  <2>3. a[1].phase \in {"queued"} \cup {m[i].phase : i \in 1 .. Len(m)} BY <1>5, <1>10
  <2> QED BY <1>2, <1>6, <1>7, <1>8, <1>12, <2>1, <2>2, <2>3 DEF e, n
<1> QED BY <1>11, <1>12

\* A commit that won leaves the process with the account as stored, and what its announcement synced.
LEMMA CommittedSerial ==
  ASSUME CommitInv, SerialInv, SentOneByOne, NEW p \in Procs, Committed(p)
  PROVE  SerialInv'
<1> DEFINE w == queue[p][1]  b == [cache[p] EXCEPT !.version = w.found.version]  t == Tail(queue[p])
           m == [queue[p] EXCEPT ![1] = [@ EXCEPT !.phase = "announcing"]]
<1>1. queue[p] # <<>> /\ Head(queue[p]) = w /\ w.kind = "commit" /\ w.phase = "won" /\ w \in Writes
  BY Local DEF Committed, Doing
<1>2. PICK r \in Reqs :
        /\ Home[r] = p /\ pc[r] = "settling"
        /\ Committing(queue[p], engine[p], cache[p], log, r, runs[r], due)
        /\ Knows(p) /\ (r \in Acts /\ due = {} /\ Undone(r) => ~Ran(r, Stored))
  BY <1>1, Settler
<1>3. /\ queue \in [Procs -> Seq(Writes)] /\ engine \in [Procs -> Content] /\ cache \in [Procs -> Caches]
      /\ Chained(queue[p], engine[p], cache[p].version, log)
  BY Local
<1>4. /\ ~cache[p].stale /\ ~cache[p].conflict
      /\ Committing(t, engine[p], b, log, r, runs[r], due)
      /\ Committing(m, engine[p], b, log, r, runs[r], due)
  <2> DEFINE q == queue[p]  e == engine[p]  c == cache[p]  n == runs[r]
  <2>1. /\ q \in Seq(Writes) /\ q # <<>> /\ c \in Caches /\ Chained(q, e, c.version, log)
        /\ Committing(q, e, c, log, r, n, due) /\ q[1].phase = "won"
    BY <1>1, <1>2, <1>3
  <2> HIDE DEF q, e, c, n
  <2>2. /\ ~c.stale /\ ~c.conflict
        /\ Committing(Tail(q), e, [c EXCEPT !.version = q[1].found.version], log, r, n, due)
        /\ Committing([q EXCEPT ![1] = [@ EXCEPT !.phase = "announcing"]], e,
                      [c EXCEPT !.version = q[1].found.version], log, r, n, due)
    BY <2>1, CommittingWon
  <2> QED BY <2>2 DEF q, e, c, n
<1>5. /\ log' = log /\ due' = due /\ pc' = pc /\ runs' = runs
      /\ \/ /\ queue' = [queue EXCEPT ![p] = t] /\ cache' = [cache EXCEPT ![p] = b] /\ engine' = engine
         \/ PersistBehind(p, Synced(engine[p]), m, b)
  BY <1>1 DEF Committed, Done
<1>6. /\ b \in Caches /\ b.loaded = cache[p].loaded /\ b.stale = cache[p].stale
      /\ b.conflict = cache[p].conflict
  <2>1. cache[p] \in Caches /\ w.found.version \in Nat BY <1>1, <1>3 DEF Writes
  <2> HIDE DEF w
  <2> QED BY <2>1 DEF Caches
<1>7. Stored' = Stored /\ Grows(p, r) BY <1>5 DEF Stored, At, Version, Grows
<1>8. t \in Seq(Writes) /\ (t # <<>> => t[1].phase = "queued") /\ (due = {} => t = <<>>)
  BY <1>1, <1>2, Behind DEF Committing
<1>9. m \in Seq(Writes) /\ m # <<>> /\ m[1].phase = "announcing"
  <2>1. [w EXCEPT !.phase = "announcing"] \in Writes BY <1>1 DEF Writes, Phases
  <2>2. [w EXCEPT !.phase = "announcing"].phase = "announcing" BY <1>1 DEF Writes
  <2> DEFINE x == [w EXCEPT !.phase = "announcing"]
  <2>3. m = [queue[p] EXCEPT ![1] = x] OBVIOUS
  <2>6. x \in Writes /\ x.phase = "announcing" BY <2>1, <2>2
  <2> HIDE DEF x, m
  <2>5. Len(queue[p]) # 0 /\ 1 \in 1 .. Len(queue[p]) BY <1>1, <1>3, EmptySeq
  <2>4. m \in Seq(Writes) /\ Len(m) = Len(queue[p]) /\ m[1] = x
    BY <1>3, <2>3, <2>5, <2>6, ExceptSeq
  <2> QED BY <2>4, <2>5, <2>6, EmptySeq
<1> HIDE DEF w, b, t, m
<1>10. CASE /\ queue' = [queue EXCEPT ![p] = t] /\ cache' = [cache EXCEPT ![p] = b] /\ engine' = engine
  <2>1. queue'[p] = t /\ cache'[p] = b /\ engine'[p] = engine[p] BY <1>3, <1>10
  <2>2. Knows(p)' BY <1>2, <1>6, <1>7, <1>8, <2>1 DEF Knows
  <2>3. due = {} => ~Undone(r)' BY <1>2, <1>4, <1>5, <1>6, <1>8, <2>1 DEF Undone
  <2>4. Committing(queue'[p], engine'[p], cache'[p], log', r, runs[r], due) BY <1>4, <1>5, <2>1
  <2>5. engine' = [engine EXCEPT ![p] = engine'[p]] BY <1>3, <1>10
  <2> QED BY <1>2, <1>5, <1>7, <1>10, <2>1, <2>2, <2>3, <2>4, <2>5, SettlingStep
<1>11. CASE PersistBehind(p, Synced(engine[p]), m, b)
  <2>1. /\ queue' = [queue EXCEPT ![p] = queue'[p]] /\ engine' = [engine EXCEPT ![p] = engine'[p]]
        /\ cache' = [cache EXCEPT ![p] = cache'[p]]
        /\ Committing(queue'[p], engine'[p], cache'[p], log, r, runs[r], due)
        /\ engine[p] \subseteq engine'[p] /\ ~cache'[p].conflict /\ cache'[p].loaded = b.loaded
        /\ due = {} => queue'[p] = m
        /\ queue'[p] # <<>> => queue'[p][1].phase \in {"queued"} \cup {m[i].phase : i \in 1 .. Len(m)}
    BY <1>4, <1>6, <1>9, <1>11, SyncedSettling
  <2>2. queue'[p] # <<>> => queue'[p][1].phase # "loaded"
    <3>1. \A i \in 1 .. Len(m) : m[i].phase # "loaded"
      <4>1. /\ \A i \in 1 .. Len(queue[p]) : i > 1 => queue[p][i].phase = "queued"
            /\ Len(m) = Len(queue[p]) /\ \A i \in 1 .. Len(queue[p]) : i # 1 => m[i] = queue[p][i]
        <5>1. [w EXCEPT !.phase = "announcing"] \in Writes BY <1>1 DEF Writes, Phases
        <5>2. 1 \in 1 .. Len(queue[p]) BY <1>1, <1>3, EmptySeq
        <5>3. m = [queue[p] EXCEPT ![1] = [w EXCEPT !.phase = "announcing"]] BY DEF m, w
        <5> QED BY <1>3, <5>1, <5>2, <5>3, ExceptSeq DEF Chained
      <4>2. ASSUME NEW i \in 1 .. Len(m) PROVE m[i].phase # "loaded"
        <5>1. CASE i = 1 BY <1>9, <5>1
        <5>2. CASE i # 1 BY <4>1, <4>2, <5>2
        <5> QED BY <5>1, <5>2
      <4> QED BY <4>2
    <3> QED BY <2>1, <3>1
  <2>3. Knows(p)'
    <3>1. \A x : Ran(x, engine[p]) => Ran(x, engine'[p]) BY <2>1, RanMore
    <3> QED BY <1>2, <1>6, <1>7, <2>1, <2>2, <3>1 DEF Knows
  <2>4. due = {} => ~Undone(r)' BY <1>2, <1>5, <1>9, <2>1 DEF Undone
  <2>5. Committing(queue'[p], engine'[p], cache'[p], log', r, runs[r], due) BY <1>5, <2>1
  <2> QED BY <1>2, <1>5, <1>7, <2>1, <2>3, <2>4, <2>5, SettlingStep
<1> QED BY <1>5, <1>10, <1>11

\* An announced commit leaves the queue, and what came due meanwhile is behind it.
LEMMA AnnouncedSerial ==
  ASSUME CommitInv, SerialInv, SentOneByOne, NEW p \in Procs, Announced(p)
  PROVE  SerialInv'
<1> DEFINE t == Tail(queue[p])
<1>1. queue[p] # <<>> /\ queue[p][1].kind = "commit" /\ queue[p][1].phase = "announcing"
  BY Local DEF Announced, Doing
<1>2. PICK r \in Reqs :
        /\ Home[r] = p /\ pc[r] = "settling"
        /\ Committing(queue[p], engine[p], cache[p], log, r, runs[r], due)
        /\ Knows(p) /\ (r \in Acts /\ due = {} /\ Undone(r) => ~Ran(r, Stored))
  BY <1>1, Settler
<1>3. /\ queue \in [Procs -> Seq(Writes)] /\ engine \in [Procs -> Content] /\ cache \in [Procs -> Caches]
      /\ Chained(queue[p], engine[p], cache[p].version, log)
  BY Local
<1>4. ~cache[p].stale /\ ~cache[p].conflict BY <1>1, <1>2, <1>3 DEF Committing, Caches
<1>5. Committing(t, engine[p], cache[p], log, r, runs[r], due)
  <2> DEFINE q == queue[p]  e == engine[p]  c == cache[p]  n == runs[r]  v == cache[p].version
  <2>1. /\ q \in Seq(Writes) /\ q # <<>> /\ Chained(q, e, v, log)
        /\ Committing(q, e, c, log, r, n, due) /\ ~IsChange(q[1])
    BY <1>1, <1>2, <1>3 DEF IsChange
  <2> HIDE DEF q, e, c, n, v
  <2>2. Committing(Tail(q), e, c, log, r, n, due) BY <2>1, CommittingTail
  <2> QED BY <2>2 DEF q, e, c, n
<1>6. /\ log' = log /\ due' = due /\ pc' = pc /\ runs' = runs
      /\ PersistBehind(p, Synced(engine[p]), t, cache[p])
  BY DEF Announced
<1>7. Stored' = Stored /\ Grows(p, r) BY <1>6 DEF Stored, At, Version, Grows
<1>8. t \in Seq(Writes) /\ (due = {} => t = <<>>)
      /\ \A i \in 1 .. Len(t) : t[i].phase = "queued"
  <2>1. /\ t \in Seq(Writes) /\ Len(t) \in Nat /\ Len(queue[p]) = Len(t) + 1
        /\ \A i \in 1 .. Len(t) : t[i] = queue[p][i + 1] /\ i + 1 \in 1 .. Len(queue[p]) /\ i + 1 > 1
    BY <1>1, <1>3, HeadTailProperties
  <2>2. \A i \in 1 .. Len(t) : t[i].phase = "queued" BY <1>3, <2>1 DEF Chained
  <2>3. due = {} => t = <<>> BY <1>1, <1>2, Behind DEF Committing
  <2> QED BY <2>1, <2>2, <2>3
<1> HIDE DEF t
<1>9. cache[p] \in Caches BY <1>3
<1>10. /\ queue' = [queue EXCEPT ![p] = queue'[p]] /\ engine' = [engine EXCEPT ![p] = engine'[p]]
       /\ cache' = [cache EXCEPT ![p] = cache'[p]]
       /\ Committing(queue'[p], engine'[p], cache'[p], log, r, runs[r], due)
       /\ engine[p] \subseteq engine'[p] /\ ~cache'[p].conflict /\ cache'[p].loaded = cache[p].loaded
       /\ due = {} => queue'[p] = t
       /\ queue'[p] # <<>> => queue'[p][1].phase \in {"queued"} \cup {t[i].phase : i \in 1 .. Len(t)}
  <2> DEFINE b == cache[p]
  <2>1. /\ b \in Caches /\ Committing(t, engine[p], b, log, r, runs[r], due) /\ ~b.stale /\ ~b.conflict
        /\ PersistBehind(p, Synced(engine[p]), t, b)
    BY <1>4, <1>5, <1>6, <1>9
  <2> HIDE DEF b
  <2>2. /\ queue' = [queue EXCEPT ![p] = queue'[p]] /\ engine' = [engine EXCEPT ![p] = engine'[p]]
        /\ cache' = [cache EXCEPT ![p] = cache'[p]]
        /\ Committing(queue'[p], engine'[p], cache'[p], log, r, runs[r], due)
        /\ engine[p] \subseteq engine'[p] /\ ~cache'[p].conflict /\ cache'[p].loaded = b.loaded
        /\ due = {} => queue'[p] = t
        /\ queue'[p] # <<>> => queue'[p][1].phase \in {"queued"} \cup {t[i].phase : i \in 1 .. Len(t)}
    BY <1>8, <2>1, SyncedSettling
  <2> QED BY <2>2 DEF b
<1>11. Knows(p)'
  <2>1. \A x : Ran(x, engine[p]) => Ran(x, engine'[p]) BY <1>10, RanMore
  <2>2. queue'[p] # <<>> => queue'[p][1].phase # "loaded" BY <1>8, <1>10
  <2> QED BY <1>2, <1>7, <1>10, <2>1, <2>2 DEF Knows
<1>12. due = {} => ~Undone(r)' BY <1>2, <1>6, <1>8, <1>10 DEF Undone
<1>13. Committing(queue'[p], engine'[p], cache'[p], log', r, runs[r], due) BY <1>6, <1>10
<1> QED BY <1>2, <1>6, <1>7, <1>10, <1>11, <1>12, <1>13, SettlingStep

\* A commit that failed, stored or not, leaves an account to be reloaded.
LEMMA CommitFailedSerial ==
  ASSUME CommitInv, SerialInv, SentOneByOne, NEW p \in Procs, CommitFailed(p)
  PROVE  SerialInv'
<1> DEFINE t == Tail(queue[p])  b == [cache[p] EXCEPT !.stale = TRUE]
<1>1. queue[p] # <<>> /\ queue[p][1].kind = "commit" /\ queue[p][1].phase = "failed"
  BY Local DEF CommitFailed, Doing
<1>2. PICK r \in Reqs :
        /\ Home[r] = p /\ pc[r] = "settling"
        /\ Committing(queue[p], engine[p], cache[p], log, r, runs[r], due)
        /\ Knows(p) /\ (r \in Acts /\ due = {} /\ Undone(r) => ~Ran(r, Stored))
  BY <1>1, Settler
<1>3. /\ queue \in [Procs -> Seq(Writes)] /\ engine \in [Procs -> Content] /\ cache \in [Procs -> Caches]
      /\ Chained(queue[p], engine[p], cache[p].version, log)
  BY Local
<1>4. Committing(t, engine[p], b, log, r, runs[r], due)
  <2> DEFINE q == queue[p]  e == engine[p]  c == cache[p]  n == runs[r]  v == cache[p].version
  <2>1. /\ q \in Seq(Writes) /\ q # <<>> /\ Chained(q, e, v, log) /\ c \in Caches
        /\ Committing(q, e, c, log, r, n, due) /\ q[1].phase = "failed"
    BY <1>1, <1>2, <1>3
  <2> HIDE DEF q, e, c, n, v
  <2>2. Committing(Tail(q), e, [c EXCEPT !.stale = TRUE], log, r, n, due) BY <2>1, CommittingFailed
  <2> QED BY <2>2 DEF q, e, c, n
<1>5. /\ log' = log /\ due' = due /\ pc' = pc /\ runs' = runs /\ engine' = engine
      /\ queue' = [queue EXCEPT ![p] = t] /\ cache' = [cache EXCEPT ![p] = b]
  BY DEF CommitFailed, Done
<1>6. b.stale /\ b.loaded = cache[p].loaded /\ b.conflict = cache[p].conflict BY <1>3 DEF Caches
<1>7. Stored' = Stored /\ Grows(p, r) BY <1>5 DEF Stored, At, Version, Grows
<1>8. (t # <<>> => t[1].phase = "queued") /\ (due = {} => t = <<>>)
  BY <1>1, <1>2, Behind DEF Committing
<1> HIDE DEF t, b
<1>9. queue'[p] = t /\ cache'[p] = b /\ engine'[p] = engine[p] BY <1>3, <1>5
<1>10. Knows(p)' BY <1>2, <1>6, <1>7, <1>8, <1>9 DEF Knows
<1>11. ~b.conflict BY <1>4, <1>6 DEF Committing
<1>12. due = {} => ~Undone(r)' BY <1>2, <1>5, <1>8, <1>9, <1>11 DEF Undone
<1>13. Committing(queue'[p], engine'[p], cache'[p], log', r, runs[r], due) BY <1>4, <1>5, <1>9
<1>14. engine' = [engine EXCEPT ![p] = engine'[p]] BY <1>3, <1>5
<1> QED BY <1>2, <1>5, <1>7, <1>9, <1>10, <1>12, <1>13, <1>14, SettlingStep

\* A change whose engine was replaced is gone.
LEMMA DropSerial ==
  ASSUME CommitInv, SerialInv, SentOneByOne, NEW p \in Procs, Drop(p)
  PROVE  SerialInv'
<1> DEFINE t == Tail(queue[p])
<1>1. /\ queue[p] # <<>> /\ queue[p][1].kind = "commit" /\ queue[p][1].phase = "queued"
      /\ cache[p].stale \/ ~queue[p][1].live
  BY Local DEF Drop, Doing
<1>2. PICK r \in Reqs :
        /\ Home[r] = p /\ pc[r] = "settling"
        /\ Committing(queue[p], engine[p], cache[p], log, r, runs[r], due)
        /\ Knows(p) /\ (r \in Acts /\ due = {} /\ Undone(r) => ~Ran(r, Stored))
  BY <1>1, Settler
<1>3. /\ queue \in [Procs -> Seq(Writes)] /\ engine \in [Procs -> Content] /\ cache \in [Procs -> Caches]
      /\ Chained(queue[p], engine[p], cache[p].version, log)
  BY Local
<1>4. Committing(t, engine[p], cache[p], log, r, runs[r], due)
  <2> DEFINE q == queue[p]  e == engine[p]  c == cache[p]  n == runs[r]  v == cache[p].version
  <2>1. /\ q \in Seq(Writes) /\ q # <<>> /\ Chained(q, e, v, log)
        /\ Committing(q, e, c, log, r, n, due) /\ (~IsChange(q[1]) \/ c.stale)
    BY <1>1, <1>2, <1>3 DEF IsChange
  <2> HIDE DEF q, e, c, n, v
  <2>2. Committing(Tail(q), e, c, log, r, n, due) BY <2>1, CommittingTail
  <2> QED BY <2>2 DEF q, e, c, n
<1>5. /\ log' = log /\ due' = due /\ pc' = pc /\ runs' = runs /\ engine' = engine /\ cache' = cache
      /\ queue' = [queue EXCEPT ![p] = t]
  BY DEF Drop, Done
<1>6. Stored' = Stored /\ Grows(p, r) BY <1>5 DEF Stored, At, Version, Grows
<1>7. t # <<>> => t[1].phase = "queued" BY <1>1, Behind
<1> HIDE DEF t
<1>8. queue'[p] = t /\ cache'[p] = cache[p] /\ engine'[p] = engine[p] BY <1>3, <1>5
<1>9. Knows(p)' BY <1>2, <1>6, <1>7, <1>8 DEF Knows
<1>10. Undone(r) BY <1>1, <1>2 DEF Undone
<1>11. Committing(queue'[p], engine'[p], cache'[p], log', r, runs[r], due) BY <1>4, <1>5, <1>8
<1>12. engine' = [engine EXCEPT ![p] = engine'[p]] /\ cache' = [cache EXCEPT ![p] = cache'[p]]
  BY <1>3, <1>5
<1> QED BY <1>2, <1>5, <1>6, <1>8, <1>9, <1>10, <1>11, <1>12, SettlingStep

\* A process that loads has a load or a lost commit at the head of its queue.
LEMMA LoadingFor ==
  ASSUME CommitInv, SerialInv, NEW p \in Procs, queue[p] # <<>>, queue[p][1].kind = "hydrate"
  PROVE  \E r \in Reqs :
           /\ Home[r] = p /\ pc[r] = "loading" /\ AtWork(p) = {r} /\ Len(queue[p]) = 1
           /\ ~cache[p].conflict /\ (cache[p].loaded => cache[p].stale)
           /\ Knows(p) /\ (r \in Acts /\ due = {} => ~Ran(r, Stored))
           /\ (r \in Fills => Ran(OrderOf[r], Stored))
<1>1. PICK r \in Reqs : Home[r] = p /\ pc[r] = "loading" /\ Len(queue[p]) = 1
  BY Writer DEF Waiting
<1>2. pc[r] \in Waiting /\ Undone(r) BY <1>1 DEF Waiting, Undone
<1>3. /\ AtWork(p) = {r} /\ Working(p, r, pc[r]) /\ Knows(p)
      /\ (r \in Acts /\ due = {} /\ Undone(r) => ~Ran(r, Stored))
      /\ (r \in Fills => Ran(OrderOf[r], Stored))
  BY <1>1, <1>2, Worker
<1>4. ~cache[p].conflict /\ (cache[p].loaded => cache[p].stale) BY <1>1, <1>3 DEF Working
<1> QED BY <1>1, <1>2, <1>3, <1>4

\* What is loaded has every request that was stored.
LEMMA LoadAccountSerial ==
  ASSUME CommitInv, SerialInv, SentOneByOne, NEW p \in Procs, LoadAccount(p)
  PROVE  SerialInv'
<1>1. /\ queue[p] # <<>>
      /\ \/ queue[p][1].kind = "hydrate" /\ queue[p][1].phase = "queued"
         \/ queue[p][1].kind = "commit" /\ queue[p][1].phase = "lost"
  <2>1. Doing(p, "hydrate", "queued") \/ Doing(p, "commit", "lost") BY DEF LoadAccount, Loading
  <2>2. queue[p] # <<>> => Head(queue[p]) = queue[p][1] BY Local
  <2> QED BY <2>1, <2>2 DEF Doing
<1>2. /\ log' = log /\ engine' = engine /\ cache' = cache /\ pc' = pc /\ runs' = runs /\ due' = due
      /\ Phase(p, "loaded", Loaded)
  BY DEF LoadAccount
<1>3. /\ queue' = [queue EXCEPT ![p] = queue'[p]] /\ queue'[p] # <<>> /\ Len(queue'[p]) = Len(queue[p])
      /\ queue'[p] = Noted(queue[p], "loaded", Loaded)
      /\ queue'[p][1].kind = queue[p][1].kind /\ queue'[p][1].phase = "loaded"
      /\ queue'[p][1].found = Loaded
  <2> DEFINE phase == "loaded"  found == Loaded
  <2>1. queue[p] # <<>> /\ Phase(p, phase, found) BY <1>1, <1>2
  <2> HIDE DEF phase, found
  <2>2. /\ queue' = [queue EXCEPT ![p] = queue'[p]] /\ queue'[p] # <<>> /\ Len(queue'[p]) = Len(queue[p])
        /\ queue'[p] = Noted(queue[p], phase, found)
        /\ queue'[p][1].kind = queue[p][1].kind /\ queue'[p][1].phase = phase
        /\ queue'[p][1].found = found
    BY <2>1, Marked
  <2> QED BY <2>2 DEF phase, found
<1>4. /\ queue \in [Procs -> Seq(Writes)] /\ engine \in [Procs -> Content] /\ cache \in [Procs -> Caches]
      /\ Chained(queue[p], engine[p], cache[p].version, log)
  BY Local
<1>5. Stored' = Stored /\ Loaded.content = Stored BY <1>2 DEF Stored, At, Version, Loaded
<1>6. queue'[p][1].found.content = Stored BY <1>3, <1>5
<1>7. CASE queue[p][1].kind = "hydrate"
  <2>1. PICK r \in Reqs :
          /\ Home[r] = p /\ pc[r] = "loading" /\ AtWork(p) = {r} /\ Len(queue[p]) = 1
          /\ ~cache[p].conflict /\ (cache[p].loaded => cache[p].stale)
          /\ Knows(p) /\ (r \in Acts /\ due = {} => ~Ran(r, Stored))
          /\ (r \in Fills => Ran(OrderOf[r], Stored))
    BY <1>1, <1>7, LoadingFor
  <2>2. StepOf(p, r) BY <1>2, <1>3, <1>4 DEF StepOf, Grows
  <2>3. pc'[r] = "loading" /\ r \in AtWork(p)' BY <1>2, <2>1 DEF AtWork, Waiting
  <2>4. Working(p, r, pc[r])' BY <1>2, <1>3, <1>7, <2>1, <2>3 DEF Working
  <2>5. Knows(p)' BY <1>2, <1>5, <1>6, <2>1 DEF Knows
  <2> QED BY <1>5, <2>1, <2>2, <2>3, <2>4, <2>5, WholeStep
<1>8. CASE queue[p][1].kind = "commit" /\ queue[p][1].phase = "lost"
  <2>1. PICK r \in Reqs :
          /\ Home[r] = p /\ pc[r] = "settling"
          /\ Committing(queue[p], engine[p], cache[p], log, r, runs[r], due)
          /\ Knows(p) /\ (r \in Acts /\ due = {} /\ Undone(r) => ~Ran(r, Stored))
    BY <1>1, <1>8, Settler
  <2>2. ~cache[p].stale /\ ~cache[p].conflict BY <1>1, <1>4, <1>8, <2>1 DEF Committing, Caches
  <2>3. Committing(queue'[p], engine'[p], cache'[p], log', r, runs[r], due)
    <3> DEFINE q == queue[p]  e == engine[p]  c == cache[p]  n == runs[r]  l == log  d == due
               phase == "loaded"  found == Loaded
    <3>1. /\ q \in Seq(Writes) /\ q # <<>> /\ c \in Caches /\ Committing(q, e, c, l, r, n, d)
          /\ AtIn(l, c.version) = AtIn(l, c.version) /\ ~c.stale /\ ~c.conflict
          /\ q[1].phase # "announcing"
      BY <1>1, <1>4, <1>8, <2>1, <2>2
    <3>2. found \in [version : Nat, content : Content] /\ phase \in Phases /\ phase # "announcing"
      BY StoredType DEF Phases, CommitInv
    <3>3. queue'[p] = Noted(q, phase, found) BY <1>3
    <3>4. engine'[p] = e /\ cache'[p] = c /\ log' = l BY <1>2
    <3> HIDE DEF q, e, c, n, l, d, phase, found
    <3>5. Committing(Noted(q, phase, found), e, c, l, r, n, d)
      BY <3>1, <3>2, CommittingMarked DEF Noted
    <3> QED BY <3>3, <3>4, <3>5 DEF n, d
  <2>4. Knows(p)' BY <1>2, <1>5, <1>6, <2>1 DEF Knows
  <2>5. Undone(r) BY <1>1, <1>8, <2>1 DEF Undone
  <2>6. Grows(p, r) BY <1>2 DEF Grows
  <2>7. engine' = [engine EXCEPT ![p] = engine'[p]] /\ cache' = [cache EXCEPT ![p] = cache'[p]]
    BY <1>2, <1>4
  <2> QED BY <1>2, <1>3, <1>5, <2>1, <2>3, <2>4, <2>5, <2>6, <2>7, SettlingStep
<1> QED BY <1>1, <1>7, <1>8

\* A process works on what it loaded.
LEMMA InstallSerial ==
  ASSUME CommitInv, SerialInv, SentOneByOne, NEW p \in Procs, Install(p)
  PROVE  SerialInv'
<1> DEFINE w == queue[p][1]  f == w.found  b == CacheOf(f, w.kind = "commit")  t == Replaced(queue[p])
<1>1. /\ queue[p] # <<>> /\ Head(queue[p]) = w /\ w \in Writes /\ Answered(w, log)
      /\ w.phase = "loaded" /\ w.kind \in {"hydrate", "commit"}
  BY Local DEF Install, Doing
<1>2. /\ queue \in [Procs -> Seq(Writes)] /\ engine \in [Procs -> Content] /\ cache \in [Procs -> Caches]
      /\ Chained(queue[p], engine[p], cache[p].version, log) /\ log \in Seq(Content)
      /\ cache[p].version \in Nat /\ pc \in [Reqs -> {"new"} \cup Waiting \cup Answers]
  BY Local DEF CommitInv, TypeOK
<1>3. /\ log' = log /\ runs' = runs /\ due' = due
      /\ engine' = [engine EXCEPT ![p] = f.content] /\ cache' = [cache EXCEPT ![p] = b]
      /\ queue' = [queue EXCEPT ![p] = t]
      /\ pc' = [x \in Reqs |-> IF Home[x] = p /\ pc[x] = "loading" /\ w.kind = "hydrate"
                                 THEN "running" ELSE pc[x]]
  BY <1>1 DEF Install, Replaced
<1>4. f.version \in 0 .. Len(log) /\ f.content = AtIn(log, f.version)
  <2>1. f.version \in Nat BY <1>1 DEF Writes
  <2> QED BY <1>1, <2>1, Local DEF Answered
<1>5. t \in Seq(Writes) /\ Len(t) = Len(queue[p]) - 1
  <2>1. t \in Seq(Writes)
    <3> DEFINE q == queue[p]  e == engine[p]  v == cache[p].version
    <3>1. /\ q \in Seq(Writes) /\ e \in Content /\ v \in Nat /\ q # <<>> /\ Head(q).phase = "loaded"
          /\ Chained(q, e, v, log)
      BY <1>1, <1>2
    <3> HIDE DEF q, e, v, w
    <3>2. Replaced(q) \in Seq(Writes) BY <1>2, <3>1, LoadedInstalled
    <3> QED BY <3>2 DEF q
  <2>2. Len(queue[p]) \in Nat /\ Len(queue[p]) # 0 BY <1>1, <1>2, EmptySeq
  <2> QED BY <2>1, <2>2 DEF Replaced
<1>6. /\ b.loaded /\ b.stale = FALSE /\ b.version = f.version /\ b.key \in {{}, {f.content}}
      /\ b.conflict = (w.kind = "commit")
  BY DEF CacheOf
<1>7. Stored' = Stored /\ \A x : Grows(p, x) BY <1>3 DEF Stored, At, Version, Grows
<1> HIDE DEF w, f, b, t
<1>8. engine'[p] = f.content /\ cache'[p] = b /\ queue'[p] = t BY <1>2, <1>3
<1>9. CASE w.kind = "hydrate"
  <2>1. PICK r \in Reqs :
          /\ Home[r] = p /\ pc[r] = "loading" /\ AtWork(p) = {r} /\ Len(queue[p]) = 1
          /\ ~cache[p].conflict /\ (cache[p].loaded => cache[p].stale)
          /\ Knows(p) /\ (r \in Acts /\ due = {} => ~Ran(r, Stored))
          /\ (r \in Fills => Ran(OrderOf[r], Stored))
    BY <1>1, <1>9, LoadingFor DEF w
  <2>2. t = <<>>
    <3>1. Len(t) = 0 BY <1>5, <2>1
    <3> QED BY <1>5, <3>1, EmptySeq
  <2>3. pc'[r] = "running" /\ \A x \in Reqs : x # r \/ Home[x] # p => pc'[x] = pc[x]
    <3>1. \A x \in Reqs : Home[x] = p /\ pc[x] = "loading" => x = r BY <2>1 DEF AtWork, Waiting
    <3> QED BY <1>3, <1>9, <2>1, <3>1
  <2>4. StepOf(p, r) BY <1>2, <1>3, <1>7, <2>3 DEF StepOf
  <2>5. r \in AtWork(p)' BY <2>1, <2>3 DEF AtWork, Waiting
  <2>6. ~b.conflict BY <1>6, <1>9
  <2>7. Clean(p)' BY <1>3, <1>4, <1>6, <1>8 DEF Clean
  <2>8. Working(p, r, pc[r])' BY <1>8, <2>2, <2>3, <2>6, <2>7 DEF Working
  <2>9. Knows(p)'
    <3>1. \A x \in Reqs : Home[x] = p /\ Ran(x, Stored) => Ran(x, f.content)
      BY <1>1, <2>1 DEF Knows, w, f
    <3> QED BY <1>7, <1>8, <2>2, <3>1 DEF Knows
  <2> QED BY <1>7, <2>1, <2>3, <2>4, <2>5, <2>8, <2>9, WholeStep DEF Waiting
<1>10. CASE w.kind = "commit"
  <2>1. PICK r \in Reqs :
          /\ Home[r] = p /\ pc[r] = "settling"
          /\ Committing(queue[p], engine[p], cache[p], log, r, runs[r], due)
          /\ Knows(p) /\ (r \in Acts /\ due = {} /\ Undone(r) => ~Ran(r, Stored))
    BY <1>1, <1>10, Settler DEF w
  <2>2. Committing(queue'[p], engine'[p], cache'[p], log', r, runs[r], due)
    <3> DEFINE q == queue[p]  e == engine[p]  c == cache[p]  n == runs[r]  v == cache[p].version
    <3>1. /\ q \in Seq(Writes) /\ q # <<>> /\ c \in Caches /\ Chained(q, e, v, log)
          /\ Committing(q, e, c, log, r, n, due) /\ q[1].phase = "loaded" /\ q[1].found = f
          /\ t = Replaced(q)
      BY <1>1, <1>2, <2>1 DEF w, f, t
    <3>2. b.conflict = TRUE BY <1>6, <1>10
    <3> HIDE DEF q, e, c, n, v
    <3>3. Committing(t, f.content, b, log, r, n, due)
      <4>1. b.version = q[1].found.version /\ b.key \in {{}, {q[1].found.content}} BY <1>6, <3>1
      <4>2. Replaced(q) \in Seq(Writes) BY <1>5, <3>1
      <4>3. Committing(Replaced(q), q[1].found.content, b, log, r, n, due)
        BY <1>6, <3>1, <3>2, <4>1, <4>2, CommittingReplaced
      <4> QED BY <3>1, <4>3
    <3> QED BY <1>3, <1>8, <3>3 DEF n
  <2>3. pc' = pc
    <3>1. \A x \in Reqs : pc'[x] = pc[x] BY <1>3, <1>10
    <3> QED BY <1>2, <1>3, <3>1
  <2>4. t # <<>> => t[1].phase = "queued"
    <3>1. t # <<>> => 1 \in 1 .. Len(t) BY <1>5, EmptySeq
    <3>2. ASSUME NEW i \in 1 .. Len(t) PROVE t[i].phase = "queued"
      <4>1. i + 1 \in 1 .. Len(queue[p]) /\ i + 1 > 1 /\ queue[p][i + 1] \in Writes
        <5>1. Len(queue[p]) \in Nat BY <1>2
        <5>2. i + 1 \in 1 .. Len(queue[p]) /\ i + 1 > 1 BY <1>5, <3>2, <5>1
        <5> QED BY <1>2, <5>2
      <4>2. t[i] = [queue[p][i + 1] EXCEPT !.live = FALSE] BY <1>5, <3>2 DEF Replaced, t
      <4>3. t[i].phase = queue[p][i + 1].phase BY <4>1, <4>2 DEF Writes
      <4> QED BY <1>2, <4>1, <4>3 DEF Chained
    <3> QED BY <3>1, <3>2
  <2>5. Knows(p)'
    <3>1. \A x \in Reqs : Home[x] = p /\ Ran(x, Stored) => Ran(x, f.content)
      BY <1>1, <2>1 DEF Knows, w, f
    <3> QED BY <1>7, <1>8, <2>4, <3>1 DEF Knows
  <2>6. Undone(r) BY <1>1, <2>1 DEF Undone, w
  <2>7. /\ queue' = [queue EXCEPT ![p] = queue'[p]] /\ engine' = [engine EXCEPT ![p] = engine'[p]]
        /\ cache' = [cache EXCEPT ![p] = cache'[p]] /\ UNCHANGED <<pc, runs, due>>
    BY <1>3, <1>8, <2>3
  <2> QED BY <1>7, <2>1, <2>2, <2>5, <2>6, <2>7, SettlingStep
<1> QED BY <1>1, <1>9, <1>10

\* The only write of a process leaves its queue empty.
LEMMA Emptied ==
  ASSUME CommitInv, SerialInv, NEW p \in Procs, queue[p] # <<>>, Len(queue[p]) = 1, Done(p)
  PROVE  queue' = [queue EXCEPT ![p] = <<>>] /\ queue'[p] = <<>>
<1>1. queue \in [Procs -> Seq(Writes)] /\ Tail(queue[p]) = <<>> BY Local
<1> QED BY <1>1 DEF Done

\* A request leaves its process with an answer, or to be run again, and nothing of it is left there.
LEMMA Leaves ==
  ASSUME CommitInv, SerialInv, SentOneByOne, NEW p \in Procs, NEW r \in Reqs, Home[r] = p, pc[r] \in Waiting,
         UNCHANGED <<log, due, engine, cache, runs>>, queue' = [queue EXCEPT ![p] = <<>>],
         NEW how \in Answers, pc' = [pc EXCEPT ![r] = how],
         ~cache[p].conflict, cache[p].loaded /\ ~cache[p].stale => Clean(p),
         r \in Acts => how # "failed", r \in OwnFills => how # "ok"
  PROVE  SerialInv'
<1>1. AtWork(p) = {r} /\ Knows(p) /\ (r \in Fills => Ran(OrderOf[r], Stored)) BY Worker
<1>2. queue'[p] = <<>> BY Local
<1>3. pc'[r] = how BY Local
<1>4. pc'[r] \notin Waiting BY <1>3 DEF Answers, Waiting
<1>5. r \notin AtWork(p)' BY <1>4 DEF AtWork
<1>6. Stored' = Stored BY DEF Stored, At, Version
<1>7. Clean(p)' = Clean(p) BY DEF Clean
<1>8. Resting(p)' BY <1>2, <1>7 DEF Resting
<1>9. Knows(p)' BY <1>1, <1>2, <1>6 DEF Knows
<1>10. StepOf(p, r) BY Local DEF StepOf, Grows
<1>11. ~Undone(r)' BY <1>3 DEF Undone, Answers
<1> QED BY <1>1, <1>3, <1>4, <1>5, <1>8, <1>9, <1>10, <1>11, WholeStep

\* An action is answered when its audit entry was written, or was not.
LEMMA RecordSerial ==
  ASSUME CommitInv, SerialInv, SentOneByOne, NEW p \in Procs, Record(p) \/ AuditFault(p)
  PROVE  SerialInv'
<1>1. queue[p] # <<>> /\ Head(queue[p]) = queue[p][1] /\ queue[p][1].kind = "record" /\ Done(p)
  BY Local DEF Record, AuditFault, Doing
<1>2. PICK r \in Reqs : Home[r] = p /\ pc[r] = "recording" /\ Len(queue[p]) = 1
  BY <1>1, Writer DEF Waiting
<1>3. /\ queue[p][1].req = {r} /\ r \in Acts /\ ~cache[p].conflict
      /\ cache[p].loaded /\ ~cache[p].stale => Clean(p)
  BY <1>2, Worker DEF Working, Waiting
<1>4. queue' = [queue EXCEPT ![p] = <<>>] BY <1>1, <1>2, Emptied
<1>5. pc \in [Reqs -> {"new"} \cup Waiting \cup Answers] BY Local
<1>6. PICK how \in {"ok", "error"} : pc' = [x \in Reqs |-> IF x \in {r} THEN how ELSE pc[x]]
  BY <1>1, <1>3 DEF Record, AuditFault
<1>7. pc' = [pc EXCEPT ![r] = how] BY <1>5, <1>6
<1>8. UNCHANGED <<log, due, engine, cache, runs>> BY DEF Record, AuditFault
<1>9. r \notin OwnFills BY <1>3, CommitAssumption DEF OwnFills
<1> QED BY <1>2, <1>3, <1>4, <1>7, <1>8, <1>9, Leaves DEF Answers, Waiting

\* A load that fails answers the request that waits for it.
LEMMA LoadFaultSerial ==
  ASSUME CommitInv, SerialInv, SentOneByOne, NEW p \in Procs, LoadFault(p)
  PROVE  SerialInv'
<1>1. queue[p] # <<>> /\ Head(queue[p]) = queue[p][1] /\ queue[p][1].kind = "hydrate" /\ Done(p)
  BY Local DEF LoadFault, Doing
<1>2. PICK r \in Reqs : Home[r] = p /\ pc[r] = "loading" /\ Len(queue[p]) = 1
  BY <1>1, Writer DEF Waiting
<1>3. AtWork(p) = {r} /\ ~cache[p].conflict /\ (cache[p].loaded => cache[p].stale)
  BY <1>2, Worker DEF Working, Waiting
<1>4. queue' = [queue EXCEPT ![p] = <<>>] BY <1>1, <1>2, Emptied
<1>5. pc \in [Reqs -> {"new"} \cup Waiting \cup Answers] BY Local
<1>6. \A x \in Reqs : Home[x] = p /\ pc[x] = "loading" => x = r BY <1>3 DEF AtWork, Waiting
<1>7. pc' = [x \in Reqs |-> IF Home[x] = p /\ pc[x] = "loading" THEN Thrown(x) ELSE pc[x]]
  BY DEF LoadFault
<1>8. pc' = [pc EXCEPT ![r] = Thrown(r)] BY <1>2, <1>5, <1>6, <1>7
<1>9. UNCHANGED <<log, due, engine, cache, runs>> BY DEF LoadFault
<1>10. Thrown(r) \in {"error", "failed"} /\ (r \in Acts => Thrown(r) = "error")
  BY CommitAssumption DEF Thrown
<1> QED BY <1>2, <1>3, <1>4, <1>8, <1>9, <1>10, Leaves DEF Answers, Waiting

\* A process that starts again rests.
LEMMA CrashSerial ==
  ASSUME CommitInv, SerialInv, SentOneByOne, NEW p \in Procs, Crash(p)
  PROVE  SerialInv'
<1>1. PICK r : AtWork(p) \subseteq {r} BY DEF SerialInv, SerialAt
<1>2. /\ log' = log /\ due' = due /\ runs' = runs
      /\ engine' = [engine EXCEPT ![p] = {}] /\ cache' = [cache EXCEPT ![p] = NoCache]
      /\ queue' = [queue EXCEPT ![p] = <<>>]
      /\ pc' = [x \in Reqs |-> IF Home[x] = p /\ pc[x] \in Waiting
                                 THEN IF x \in Acts \cup Reads THEN "lost" ELSE "failed" ELSE pc[x]]
  BY DEF Crash
<1>3. cache'[p] = NoCache /\ queue'[p] = <<>> BY <1>2, Local
<1>4. \A x \in Reqs : Home[x] = p => pc'[x] \notin Waiting BY <1>2 DEF Waiting
<1>5. r \notin AtWork(p)' BY <1>4 DEF AtWork
<1>6. Resting(p)' BY <1>3 DEF Resting, NoCache
<1>7. Knows(p)' BY <1>3 DEF Knows, NoCache
<1>8. Stored' = Stored BY <1>2 DEF Stored, At, Version
<1>9. StepOf(p, r)
  <2>1. \A x \in Reqs : x # r \/ Home[x] # p => pc'[x] = pc[x]
    <3>1. \A x \in Reqs : Home[x] = p /\ pc[x] \in Waiting => x = r BY <1>1 DEF AtWork
    <3> QED BY <1>2, <3>1
  <2> QED BY <1>2, <2>1, Local DEF StepOf, Grows
<1>10. ASSUME r \in Reqs, Home[r] = p
       PROVE  /\ r \in Acts => pc'[r] # "failed" /\ (due = {} /\ Undone(r)' => ~Ran(r, Stored'))
              /\ r \in Fills /\ pc'[r] \in Waiting => Ran(OrderOf[r], Stored')
              /\ r \in OwnFills /\ pc'[r] = "ok" => Ran(r, Stored')
  <2>1. CASE pc[r] \in Waiting
    <3>1. pc'[r] \in {"lost", "failed"} /\ (r \in Acts => pc'[r] = "lost") BY <1>2, <1>10, <2>1
    <3>2. ~Undone(r)' BY <3>1 DEF Undone
    <3> QED BY <1>4, <1>10, <3>1, <3>2
  <2>2. CASE pc[r] \notin Waiting
    <3>1. pc'[r] = pc[r] BY <1>2, <1>10, <2>2
    <3>2. Undone(r)' => Undone(r) BY <2>2, <3>1 DEF Undone, Waiting
    <3>3. r \in Acts => pc[r] # "failed" /\ (due = {} /\ Undone(r) => ~Ran(r, Stored)) BY DEF SerialInv
    <3>4. r \in OwnFills /\ pc[r] = "ok" => Ran(r, Stored) BY DEF SerialInv
    <3> QED BY <1>8, <2>2, <3>1, <3>2, <3>3, <3>4
  <2> QED BY <2>1, <2>2
<1> QED BY <1>1, <1>5, <1>6, <1>7, <1>9, <1>10, WholeStep

\* Every step keeps the serial invariant.
LEMMA SerialStep ==
  ASSUME CommitInv, SerialInv, SentOneByOne, [Next]_vars
  PROVE  SerialInv'
<1>1. ASSUME NEW r \in Reqs, Handle(r) \/ Retry(r) PROVE SerialInv'
  BY <1>1, ReceiveSerial, StartSyncSerial, RunSerial, SettleSerial, RetrySerial DEF Handle
<1>2. ASSUME NEW p \in Procs, StoreCommit(p) PROVE SerialInv'
  <2>1. Writing(p) /\ UNCHANGED <<due, engine, cache, pc, runs>> BY <1>2 DEF StoreCommit
  <2>2. CASE AtExpected(p)
    <3> DEFINE found == [version |-> Version + 1, content |-> Head(queue[p]).after]  phase == "won"
    <3>1. log' = Append(log, Head(queue[p]).after) /\ Phase(p, phase, found)
      BY <1>2, <2>2 DEF StoreCommit
    <3>2. found \in [version : Nat, content : Content]
      <4>1. Head(queue[p]).after \in Content /\ Version \in Nat
        BY <2>1, <2>2, WritingFits, StoredType DEF CommitInv, AtExpected
      <4> QED BY <4>1
    <3>3. phase \in {"won", "lost", "failed"} /\ phase # "lost" OBVIOUS
    <3> HIDE DEF found, phase
    <3> QED BY <2>1, <2>2, <3>1, <3>2, <3>3, CommitAnswered
  <2>3. CASE ~AtExpected(p)
    <3> DEFINE phase == "lost"
    <3>1. log' = log /\ Phase(p, phase, NoLoad) BY <1>2, <2>3 DEF StoreCommit
    <3>2. NoLoad \in [version : Nat, content : Content] BY StoredType DEF CommitInv
    <3>3. phase \in {"won", "lost", "failed"} /\ phase # "won" OBVIOUS
    <3> HIDE DEF phase
    <3> QED BY <2>1, <3>1, <3>2, <3>3, CommitAnswered
  <2> QED BY <2>2, <2>3
<1>3. ASSUME NEW p \in Procs, CommitFault(p) PROVE SerialInv'
  <2> DEFINE phase == "failed"
  <2>1. Writing(p) /\ Phase(p, phase, NoLoad) /\ UNCHANGED <<due, engine, cache, pc, runs>>
    BY <1>3 DEF CommitFault
  <2>2. log' = log \/ (log' = Append(log, Head(queue[p]).after) /\ AtExpected(p))
    BY <1>3 DEF CommitFault
  <2>3. NoLoad \in [version : Nat, content : Content] BY StoredType DEF CommitInv
  <2>4. phase \in {"won", "lost", "failed"} /\ phase # "won" /\ phase # "lost" OBVIOUS
  <2> HIDE DEF phase
  <2> QED BY <2>1, <2>2, <2>3, <2>4, CommitAnswered
<1>4. ASSUME NEW p \in Procs, DoWrite(p) PROVE SerialInv'
  BY <1>2, <1>4, DropSerial, CommittedSerial, AnnouncedSerial, CommitFailedSerial, LoadAccountSerial, InstallSerial,
     RecordSerial DEF DoWrite
<1>5. ASSUME NEW p \in Procs, Fault(p) PROVE SerialInv'
  <2>1. ~ReloadFault(p) BY DEF SentOneByOne, ReloadFault, Faulty
  <2> QED BY <1>3, <1>5, <2>1, LoadFaultSerial, RecordSerial, CrashSerial DEF Fault
<1>6. \A p \in Procs : ~Background(p) BY DEF SentOneByOne, Background
<1>7. CASE UNCHANGED vars \/ \E e \in Events : EventDue(e)
  <2>1. UNCHANGED <<log, engine, cache, queue, pc, runs>> /\ (due' = {} => due = {})
    BY <1>7 DEF vars, EventDue
  <2>2. Stored' = Stored BY <2>1 DEF Stored, At, Version
  <2>3. \A p : AtWork(p)' = AtWork(p) /\ Resting(p)' = Resting(p) /\ Knows(p)' = Knows(p)
    BY <2>1, <2>2 DEF AtWork, Resting, Knows, Clean
  <2>4. ASSUME NEW p, NEW r, Working(p, r, pc[r]), pc[r] \in Waiting PROVE Working(p, r, pc[r])'
    <3>1. Committing(queue[p], engine[p], cache[p], log, r, runs[r], due)
            => Committing(queue[p], engine[p], cache[p], log, r, runs[r], due')
      BY <2>1 DEF Committing
    <3>2. Clean(p)' = Clean(p) BY <2>1 DEF Clean
    <3>3. At(Len(log))' = At(Len(log)) BY <2>1 DEF At
    <3> QED BY <2>1, <2>4, <3>1, <3>2, <3>3 DEF Working, Waiting
  <2>5. \A p \in Procs : SerialAt(p)'
    <3>1. \A p : \A r \in AtWork(p) : pc[r] \in Waiting BY DEF AtWork
    <3> QED BY <2>1, <2>3, <2>4, <3>1 DEF SerialInv, SerialAt
  <2>6. \A x : Undone(x)' = Undone(x) BY <2>1 DEF Undone
  <2> QED BY <2>1, <2>2, <2>3, <2>5, <2>6 DEF SerialInv
<1> QED BY <1>1, <1>4, <1>5, <1>6, <1>7 DEF Next

LEMMA InitSerial == Init => SerialInv
<1> SUFFICES ASSUME Init PROVE SerialInv OBVIOUS
<1>1. /\ log = <<>> /\ cache = [p \in Procs |-> NoCache] /\ queue = [p \in Procs |-> <<>>]
      /\ pc = [r \in Reqs |-> "new"]
  BY DEF Init
<1>2. Stored = {} /\ Len(log) = 0 BY <1>1 DEF Stored, At, Version
<1>3. \A r : ~Ran(r, Stored) BY <1>2 DEF Ran
<1>4. \A p \in Procs : AtWork(p) = {} BY <1>1 DEF AtWork, Waiting
<1>5. \A p \in Procs : Resting(p) BY <1>1 DEF Resting, NoCache
<1>6. \A p \in Procs : SerialAt(p) /\ Knows(p) BY <1>3, <1>4, <1>5 DEF SerialAt, Knows
<1>7. \A r \in Reqs : pc[r] = "new" BY <1>1
<1>8. Acts \subseteq Reqs /\ Fills \subseteq Reqs BY DEF Reqs
<1>9. \A f \in Fills : pc[f] \notin Waiting BY <1>7, <1>8 DEF Waiting
<1> QED BY <1>2, <1>3, <1>6, <1>7, <1>8, <1>9 DEF SerialInv, OwnFills

\* One request at a time, a process acts on no change that it may still lose.
LEMMA SerialInvariant == SentOneByOne => (Spec => []SerialInv)
<1> SUFFICES ASSUME SentOneByOne PROVE Spec => []SerialInv OBVIOUS
<1>1. CommitInv /\ SerialInv /\ [Next]_vars => SerialInv' BY SerialStep
<1> QED BY <1>1, InitSerial, CommitInvariant, PTL DEF Spec

\* A fill that came to the process of its order, and was acknowledged, is stored.
THEOREM CommitAcksStored ==
  SentOneByOne /\ (\A f \in Fills : Home[OrderOf[f]] = Home[f]) => (Spec => []AckedFillIsStored)
<1> SUFFICES ASSUME SentOneByOne, \A f \in Fills : Home[OrderOf[f]] = Home[f]
             PROVE  Spec => []AckedFillIsStored
  OBVIOUS
<1>1. OwnFills = Fills BY DEF OwnFills
<1>2. SerialInv => AckedFillIsStored BY <1>1 DEF SerialInv, AckedFillIsStored
<1> QED BY <1>2, SerialInvariant, PTL


-----------------------------------------------------------------------------
(* The promise.                                                            *)

\* What a step makes of the pc of an action.
LEMMA AnswerStep ==
  ASSUME CommitInv, SerialInv, SentOneByOne, [Next]_vars, NEW a \in Acts
  PROVE  /\ pc[a] \in Answers => pc'[a] = pc[a]
         /\ pc'[a] = "ok" /\ pc[a] # "ok" => Ran(a, Stored)
         /\ pc'[a] = "conflict" /\ pc[a] # "conflict" => due # {} \/ ~Ran(a, Stored)
<1>0. /\ a \in Reqs /\ a \notin Fills /\ a \notin Syncs /\ a \notin Reads
      /\ pc \in [Reqs -> {"new"} \cup Waiting \cup Answers] /\ Home[a] \in Procs
  BY CommitAssumption DEF Reqs, CommitInv, TypeOK
<1>1. ASSUME NEW r \in Reqs, Handle(r) \/ Retry(r)
      PROVE  \/ pc'[a] = pc[a]
             \/ pc[a] \notin Answers /\ pc'[a] \in {"loading", "running", "settling", "recording", "error"}
             \/ pc[a] \notin Answers /\ pc'[a] = "conflict" /\ (due # {} \/ ~Ran(a, Stored))
  <2>1. CASE r # a
    <3>1. \E place : pc' = [pc EXCEPT ![r] = place]
      BY <1>1 DEF Handle, Receive, StartSync, Run, Settle, Retry, Ensure, Goto, Again
    <3> QED BY <1>0, <2>1, <3>1
  <2>2. CASE r = a
    <3>1. ~StartSync(r) /\ ~Retry(r) BY <1>0, <2>2 DEF StartSync, Retry
    <3>2. CASE Receive(r)
      <4>1. pc[a] = "new" /\ (pc' = [pc EXCEPT ![a] = "running"] \/ pc' = [pc EXCEPT ![a] = "loading"])
        BY <2>2, <3>2 DEF Receive, Arrives, Ensure, Goto
      <4> QED BY <1>0, <4>1 DEF Answers
    <3>3. CASE Run(r)
      <4>1. pc[a] = "running" /\ pc' = [pc EXCEPT ![a] = "settling"]
        BY <2>2, <3>3 DEF Run, Goto
      <4> QED BY <1>0, <4>1 DEF Answers
    <3>4. CASE Settle(r)
      <4>1. pc[a] = "settling" /\ queue[Home[a]] = <<>> BY <2>2, <3>4 DEF Settle, Idle
      <4>2. CASE cache[Home[a]].stale
        <5>1. pc' = [pc EXCEPT ![a] = "error"]
          BY <1>0, <2>2, <3>4, <4>2 DEF Settle, Goto, Thrown
        <5> QED BY <1>0, <4>1, <5>1 DEF Answers
      <4>3. CASE ~cache[Home[a]].stale
        <5>1. \/ pc' = [pc EXCEPT ![a] = "running"] \/ pc' = [pc EXCEPT ![a] = "recording"]
              \/ pc' = [pc EXCEPT ![a] = "conflict"] /\ cache[Home[a]].conflict
          BY <1>0, <2>2, <3>4, <4>3 DEF Settle, Again, Goto
        <5>2. cache[Home[a]].conflict => due # {} \/ ~Ran(a, Stored) BY <4>1 DEF SerialInv, Undone
        <5> QED BY <1>0, <4>1, <5>1, <5>2 DEF Answers
      <4> QED BY <4>2, <4>3
    <3> QED BY <1>1, <3>1, <3>2, <3>3, <3>4 DEF Handle
  <2> QED BY <2>1, <2>2
<1>2. ASSUME NEW p \in Procs, DoWrite(p) \/ Fault(p)
      PROVE  \/ pc'[a] = pc[a]
             \/ pc[a] \notin Answers /\ pc'[a] \in {"running", "error", "lost"}
             \/ pc[a] \notin Answers /\ pc'[a] = "ok" /\ Ran(a, Stored)
  <2>1. CASE Record(p) \/ AuditFault(p)
    <3>1. queue[p] # <<>> /\ Head(queue[p]) = queue[p][1] /\ queue[p][1].kind = "record"
      BY <2>1, Local DEF Record, AuditFault, Doing
    <3>2. PICK r \in Reqs : Home[r] = p /\ pc[r] = "recording"
      BY <3>1, Writer DEF Waiting
    <3>3. queue[p][1].req = {r} /\ Ran(r, Stored)
      BY <3>2, Worker DEF Working, Waiting, Stored, Version
    <3>4. PICK how \in {"ok", "error"} : pc' = [x \in Reqs |-> IF x \in {r} THEN how ELSE pc[x]]
      BY <2>1, <3>1, <3>3 DEF Record, AuditFault
    <3> QED BY <1>0, <3>2, <3>3, <3>4 DEF Answers
  <2>2. CASE Install(p)
    <3>1. pc'[a] = pc[a] \/ (pc[a] = "loading" /\ pc'[a] = "running") BY <1>0, <2>2 DEF Install
    <3> QED BY <3>1 DEF Answers
  <2>3. CASE LoadFault(p)
    <3>1. pc'[a] = pc[a] \/ (pc[a] = "loading" /\ pc'[a] = "error") BY <1>0, <2>3 DEF LoadFault, Thrown
    <3> QED BY <3>1 DEF Answers
  <2>4. CASE Crash(p)
    <3>1. pc'[a] = pc[a] \/ (pc[a] \in Waiting /\ pc'[a] = "lost") BY <1>0, <2>4 DEF Crash
    <3> QED BY <3>1 DEF Answers, Waiting
  <2>5. CASE pc' = pc BY <2>5
  <2>6. pc' = pc \/ Record(p) \/ AuditFault(p) \/ Install(p) \/ LoadFault(p) \/ Crash(p)
    BY <1>2 DEF DoWrite, Fault, Drop, StoreCommit, Committed, Announced, CommitFailed, LoadAccount,
               CommitFault, ReloadFault
  <2> QED BY <2>1, <2>2, <2>3, <2>4, <2>5, <2>6
<1>3. ASSUME UNCHANGED vars \/ (\E e \in Events : EventDue(e)) \/ (\E p \in Procs : Background(p))
      PROVE  pc'[a] = pc[a]
  BY <1>3 DEF vars, EventDue, Background
<1>4. \/ \E r \in Reqs : Handle(r) \/ Retry(r)
      \/ \E p \in Procs : DoWrite(p) \/ Fault(p)
      \/ UNCHANGED vars \/ (\E e \in Events : EventDue(e)) \/ (\E p \in Procs : Background(p))
  BY DEF Next
<1>5. CASE \E r \in Reqs : Handle(r) \/ Retry(r) BY <1>1, <1>5
<1>6. CASE \E p \in Procs : DoWrite(p) \/ Fault(p) BY <1>2, <1>6
<1> QED BY <1>3, <1>4, <1>5, <1>6

\* An effect of a request in an account.
LEMMA EffectiveRan ==
  ASSUME SentOneByOne, NEW r
  PROVE  Promise!Effective(r) <=> Ran(r, Stored)
BY OwnOrder DEF Promise!Effective

\* A commit stores what one request changed, for the first time unless something has come due.
LEMMA StoreStep ==
  ASSUME CommitInv, SerialInv, SentOneByOne, KeyedOnce', [Next]_vars, log' # log
  PROVE  /\ pc' = pc /\ due' = due /\ Stored \subseteq Stored'
         /\ \A e \in Stored' \ Stored :
              /\ e[1] \in Acts \cup (Fills \cup Events)
              /\ Promise!Effective(e[1]) => Promise!Repeatable(e[1])
              /\ e[1] \in Acts => pc[e[1]] = "settling"
              /\ \A f \in Stored' \ Stored : e[1] = f[1] => e = f
<1>1. PICK p \in Procs : StoreCommit(p) \/ CommitFault(p)
  <2>1. ASSUME NEW r \in Reqs, Handle(r) \/ Retry(r) PROVE log' = log
    BY <2>1 DEF Handle, Receive, StartSync, Run, Settle, Settled, Retry
  <2>2. ASSUME NEW p \in Procs, DoWrite(p), ~StoreCommit(p) PROVE log' = log
    BY <2>2 DEF DoWrite, Drop, Committed, Announced, CommitFailed, LoadAccount, Install, Record
  <2>3. ASSUME NEW p \in Procs, Fault(p), ~CommitFault(p) PROVE log' = log
    BY <2>3 DEF Fault, LoadFault, ReloadFault, AuditFault, Crash
  <2>4. ASSUME NEW p \in Procs, Background(p) PROVE log' = log BY <2>4 DEF Background
  <2>5. ASSUME NEW e \in Events, EventDue(e) PROVE log' = log BY <2>5 DEF EventDue
  <2>6. CASE UNCHANGED vars BY <2>6 DEF vars
  <2> QED BY <2>1, <2>2, <2>3, <2>4, <2>5, <2>6 DEF Next
<1>2. /\ Writing(p) /\ pc' = pc /\ due' = due /\ cache[p].version = Version
      /\ log' = Append(log, Head(queue[p]).after)
  BY <1>1 DEF StoreCommit, CommitFault, AtExpected
<1> DEFINE w == queue[p][1]
<1>3. /\ queue[p] # <<>> /\ Head(queue[p]) = w /\ w.kind = "commit" /\ w.phase = "queued"
      /\ w.live /\ ~cache[p].stale /\ w \in Writes
  BY <1>2, Local DEF Writing, Doing
<1>4. PICK r \in Reqs :
        /\ Home[r] = p /\ pc[r] = "settling"
        /\ Committing(queue[p], engine[p], cache[p], log, r, runs[r], due)
        /\ Knows(p) /\ (r \in Acts /\ due = {} /\ Undone(r) => ~Ran(r, Stored))
  BY <1>3, Settler
<1>5. Ahead(engine[p], AtIn(log, cache[p].version), r, runs[r]) BY <1>3, <1>4 DEF Committing
<1>6. /\ Stored \in Content /\ engine[p] \in Content /\ log \in Seq(Content)
      /\ queue[p] \in Seq(Writes) /\ Chained(queue[p], engine[p], cache[p].version, log)
      /\ Stored = AtIn(log, Len(log))
  BY Local DEF CommitInv, TypeOK
<1>7. w.after \in Content /\ Stored \subseteq w.after
  BY <1>2, <1>3, WritingFits DEF CommitInv
<1>8. w.after \subseteq engine[p] /\ AtIn(log, cache[p].version) = Stored
  <2>1. 1 \in 1 .. Len(queue[p]) BY <1>3, <1>6, EmptySeq
  <2>2. w.after \subseteq engine[p] BY <1>3, <1>6, <2>1 DEF Chained, Fits, IsChange
  <2> QED BY <1>2, <1>6, <2>2 DEF Version
<1>9. Stored' = w.after
  <2>1. log' = Append(log, w.after) BY <1>2, <1>3
  <2> HIDE DEF w
  <2> QED BY <1>6, <1>7, <2>1 DEF Stored, At, Version
<1>10. r \in Acts /\ due = {} => ~Ran(r, Stored) BY <1>3, <1>4 DEF Undone
<1> HIDE DEF w
<1>11. ASSUME NEW e \in Stored' \ Stored
       PROVE  \/ e[1] \in Events /\ e[2] = 1
              \/ e = <<r, runs[r]>> /\ r \in Acts \cup Fills
  BY <1>5, <1>8, <1>9, <1>11 DEF Ahead
<1>12. \A e \in Stored' \cup Stored : e = <<e[1], e[2]>>
  <2>1. \A e \in Stored' \cup Stored : e \in (Reqs \cup Events) \X Nat
    BY <1>6, <1>7, <1>9 DEF Content
  <2> QED BY <2>1
<1>13. \A x : Promise!Effective(x) <=> \E f \in Stored : f[1] = x BY DEF Promise!Effective
<1>14. r \notin Events BY CommitAssumption
<1>15. Stored \subseteq Stored' BY <1>7, <1>9
<1>16. ASSUME NEW e \in Stored' \ Stored
       PROVE  /\ e[1] \in Acts \cup (Fills \cup Events)
              /\ Promise!Effective(e[1]) => Promise!Repeatable(e[1])
              /\ e[1] \in Acts => pc[e[1]] = "settling"
              /\ \A f \in Stored' \ Stored : e[1] = f[1] => e = f
  <2>1. CASE e[1] \in Events /\ e[2] = 1
    <3>1. e[1] \notin Acts BY <2>1, CommitAssumption DEF Reqs
    <3>2. ASSUME NEW f \in Stored' \cup Stored, f[1] = e[1] PROVE f = e
      <4>1. f[2] = 1
        <5>1. CASE f \in Stored BY <2>1, <3>2, <5>1 DEF SerialInv
        <5>2. CASE f \notin Stored
          <6>1. f \in Stored' \ Stored BY <3>2, <5>2
          <6>2. f # <<r, runs[r]>> BY <1>14, <2>1, <3>2
          <6> QED BY <1>11, <6>1, <6>2
        <5> QED BY <5>1, <5>2
      <4>2. f = <<f[1], f[2]>> /\ e = <<e[1], e[2]>> BY <1>12, <3>2
      <4> QED BY <2>1, <3>2, <4>1, <4>2
    <3>3. ~Promise!Effective(e[1]) BY <1>13, <3>2
    <3> QED BY <2>1, <3>1, <3>2, <3>3
  <2>2. CASE e = <<r, runs[r]>> /\ r \in Acts \cup Fills
    <3>1. e[1] = r BY <2>2
    <3>2. Promise!Effective(r) => Promise!Repeatable(r)
      <4>1. CASE r \in Keyed \cup Fills
        <5>1. \A f \in Stored : f[1] # r
          <6>1. ASSUME NEW f \in Stored, f[1] = r PROVE FALSE
            <7>1. f[1] \in SameOrder(e[1]) /\ e[1] \in Keyed \cup Fills
              BY <3>1, <4>1, <6>1, OwnOrder
            <7>2. SameOrder(e[1])' = SameOrder(e[1]) BY DEF SameOrder
            <7>3. e \in Stored' /\ f \in Stored' BY <1>15
            <7>4. e = f BY <7>1, <7>2, <7>3 DEF KeyedOnce
            <7> QED BY <7>4
          <6> QED BY <6>1
        <5> QED BY <1>13, <5>1
      <4>2. CASE r \in Acts \ Keyed
        <5>1. due = {} => ~Promise!Effective(r) BY <1>10, <4>2, EffectiveRan
        <5> QED BY <4>2, <5>1 DEF Promise!Repeatable
      <4> QED BY <2>2, <4>1, <4>2
    <3>3. \A f \in Stored' \ Stored : f[1] = r => f = e BY <1>11, <1>14, <2>2
    <3> QED BY <1>4, <2>2, <3>1, <3>2, <3>3
  <2> QED BY <1>11, <2>1, <2>2
<1> QED BY <1>2, <1>15, <1>16

\* Every step is one of the promise, or changes nothing of it.
LEMMA PromiseStep ==
  ASSUME CommitInv, CommitInv', SerialInv, SerialInv', KeyedOnce', SentOneByOne, [Next]_vars
  PROVE  [Promise!Next]_(Promise!vars)
<1> DEFINE answer == [a \in Acts |-> IF pc[a] \in Answers THEN pc[a] ELSE "none"]
<1>1. CASE log' # log
  <2>1. /\ pc' = pc /\ due' = due /\ Stored \subseteq Stored'
        /\ \A e \in Stored' \ Stored :
             /\ e[1] \in Acts \cup (Fills \cup Events)
             /\ Promise!Effective(e[1]) => Promise!Repeatable(e[1])
             /\ e[1] \in Acts => pc[e[1]] = "settling"
             /\ \A f \in Stored' \ Stored : e[1] = f[1] => e = f
    BY <1>1, StoreStep
  <2>2. answer' = answer BY <2>1
  <2>3. \A e \in Stored' \ Stored : e[1] \in Acts => answer[e[1]] = "none"
    BY <2>1 DEF Answers
  <2>4. Stored' = Stored \cup (Stored' \ Stored) BY <2>1
  <2>5. Promise!TakeEffect(Stored' \ Stored)
    BY <2>1, <2>2, <2>3, <2>4 DEF Promise!TakeEffect
  <2> QED BY <2>5 DEF Promise!Next
<1>2. CASE log' = log /\ due' = due
  <2>1. Stored' = Stored /\ (due # {})' = (due # {}) BY <1>2 DEF Stored, At, Version
  <2>2. answer' \in [Acts -> Promise!Answers]
    <3>1. \A a \in Acts : (IF pc'[a] \in Answers THEN pc'[a] ELSE "none") \in Promise!Answers
      <4>1. \A a \in Acts : pc'[a] # "failed" BY DEF SerialInv
      <4> QED BY <4>1 DEF Answers, Promise!Answers
    <3> QED BY <3>1
  <2>3. ASSUME NEW a \in Acts, answer'[a] # answer[a]
        PROVE  /\ answer[a] = "none"
               /\ answer'[a] = "ok" => Promise!Effective(a)
               /\ answer'[a] = "conflict" => due # {} \/ ~Promise!Effective(a)
    <3>1. /\ answer[a] = IF pc[a] \in Answers THEN pc[a] ELSE "none"
          /\ answer'[a] = IF pc'[a] \in Answers THEN pc'[a] ELSE "none"
      OBVIOUS
    <3>2. /\ pc[a] \in Answers => pc'[a] = pc[a]
          /\ pc'[a] = "ok" /\ pc[a] # "ok" => Ran(a, Stored)
          /\ pc'[a] = "conflict" /\ pc[a] # "conflict" => due # {} \/ ~Ran(a, Stored)
      BY AnswerStep
    <3>3. Promise!Effective(a) <=> Ran(a, Stored) BY EffectiveRan
    <3> HIDE DEF answer
    <3>4. pc[a] \notin Answers BY <2>3, <3>1, <3>2
    <3>5. answer[a] = "none" BY <3>1, <3>4
    <3>6. answer'[a] = "ok" => pc'[a] = "ok" BY <3>1
    <3>7. answer'[a] = "conflict" => pc'[a] = "conflict" BY <3>1
    <3>8. pc[a] # "ok" /\ pc[a] # "conflict" BY <3>4 DEF Answers
    <3> QED BY <3>2, <3>3, <3>5, <3>6, <3>7, <3>8
  <2>4. Promise!Reply BY <2>1, <2>2, <2>3 DEF Promise!Reply
  <2> QED BY <2>4 DEF Promise!Next
<1>3. CASE log' = log /\ due' # due
  <2>1. PICK e \in Events : EventDue(e)
    <3>1. ASSUME NEW r \in Reqs, Handle(r) \/ Retry(r) PROVE due' = due
      BY <3>1 DEF Handle, Receive, StartSync, Run, Settle, Retry
    <3>2. ASSUME NEW p \in Procs, DoWrite(p) \/ Background(p) PROVE due' = due
      BY <3>2 DEF DoWrite, Drop, StoreCommit, Committed, Announced, CommitFailed, LoadAccount, Install,
         Record, Background
    <3>3. ASSUME NEW p \in Procs, Fault(p) PROVE due' = due
      BY <3>3 DEF Fault, CommitFault, LoadFault, ReloadFault, AuditFault, Crash
    <3> QED BY <1>3, <3>1, <3>2, <3>3 DEF Next, vars
  <2>2. due' # {} /\ pc' = pc BY <2>1 DEF EventDue
  <2>3. Stored' = Stored BY <1>3 DEF Stored, At, Version
  <2>4. answer' = answer BY <2>2
  <2>5. CASE due = {}
    <3>1. Promise!Disturb BY <2>2, <2>3, <2>4, <2>5 DEF Promise!Disturb
    <3> QED BY <3>1 DEF Promise!Next
  <2>6. CASE due # {}
    <3>1. (due # {})' = (due # {}) BY <2>2, <2>6
    <3>2. UNCHANGED Promise!vars BY <2>3, <2>4, <3>1 DEF Promise!vars
    <3> QED BY <3>2
  <2> QED BY <2>5, <2>6
<1> QED BY <1>1, <1>2, <1>3

\* Sent one at a time and each for an order of its own, with no tickers and no failed reload, the
\* user's actions keep the promise: OK answers only what is stored, a keyed action is done at most
\* once and every action before its answer; and until something comes due, which the syncs of an
\* announced commit would commit too, every action is done at most once, and 409 answers only what
\* is not stored.
THEOREM CommitKeepsPromise == SentOneByOne => (Spec => KeepsPromise)
<1> SUFFICES ASSUME SentOneByOne PROVE Spec => KeepsPromise OBVIOUS
<1>1. Init => Promise!Init
  <2> SUFFICES ASSUME Init PROVE Promise!Init OBVIOUS
  <2>1. Stored = {} /\ due = {} BY DEF Init, Stored, At, Version
  <2>2. \A a \in Acts : pc[a] = "new" BY DEF Init, Reqs
  <2> QED BY <2>1, <2>2 DEF Promise!Init, Answers
<1>2. CommitInv /\ CommitInv' /\ SerialInv /\ SerialInv' /\ KeyedOnce' /\ [Next]_vars
        => [Promise!Next]_(Promise!vars)
  BY PromiseStep
<1> QED
  BY <1>1, <1>2, CommitInvariant, SerialInvariant, CommitKeyedOnce, PTL
  DEF Spec, KeepsPromise, Promise!Spec
=============================================================================
