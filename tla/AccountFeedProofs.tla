-------------------------- MODULE AccountFeedProofs --------------------------
(***************************************************************************)
(* Of every behaviour of AccountFeed, for any orders, sockets, sign-ins and *)
(* faults: its types, that the node is subscribed exactly while the user   *)
(* has a socket there, that a session it heard revoked has no socket open, *)
(* and that the screen never shows an order older than what it was given.  *)
(*                                                                         *)
(* The last rests on how frames are ordered (SentInv, WireInv, HeldInv),   *)
(* on what copies and answers hold (CopiesInv, LoadsInv), and on three     *)
(* facts of the store (StoreInv): a frame still to come that the store     *)
(* would skip as old has nothing new for it; what was given during a load  *)
(* is in its answer or in a frame held; and outside a load it is on the    *)
(* screen.                                                                 *)
(***************************************************************************)
EXTENDS AccountFeed, WellFoundedInduction, TLAPS

\* What the node's subscription will be once the commands it has queued have run.
Wanted == IF commands = <<>> THEN subscribed ELSE commands[Len(commands)] = "subscribe"

SubscribedInv == Wanted <=> Watchers # {}

\* What a socket that is not open yet has on its way, and the session of a store signed in.
QuietInv ==
  /\ \A k \in Socket : conn[k].at \in {"new", "asked", "checked", "refused"} => wire[k] = <<>>
  /\ store.epoch \in 1 .. MaxSignIns + 1
  /\ store.status # "idle" => store.epoch <= MaxSignIns

\* n is the number of a frame on the socket k.
OnWire(k, n) == \E i \in 1 .. Len(wire[k]) : wire[k][i] = <<"frame", n>>

Numbers == LoadedAt + 1 .. Len(log)

\* Commits are numbered, and their frames are sent, arrive and are held in that order.
SentInv ==
  /\ LoadedAt <= Len(log) /\ \A n \in 1 .. Len(log) : log[n] # {}
  /\ sending \in Seq(Numbers)
  /\ \A i, j \in 1 .. Len(sending) : i < j => sending[i] < sending[j]
  /\ \A r \in replies : r.at \in Numbers /\ r.order \in log[r.at]

WireInv ==
  \A k \in Socket : \A i \in 1 .. Len(wire[k]) : wire[k][i][1] = "frame" =>
    /\ wire[k][i][2] \in Numbers
    /\ \A j \in 1 .. Len(sending) : wire[k][i][2] < sending[j]
    /\ \A j \in 1 .. Len(wire[k]) : i < j /\ wire[k][j][1] = "frame" => wire[k][i][2] < wire[k][j][2]

HeldInv ==
  store.held # None =>
    \A i \in 1 .. Len(store.held) :
      /\ store.held[i].seq \in Numbers
      /\ \A j \in 1 .. Len(store.held) : i < j => store.held[i].seq < store.held[j].seq
      /\ \A j \in 1 .. Len(sending) : store.held[i].seq < sending[j]
      /\ mine # 0 => \A n \in Numbers : OnWire(mine, n) => store.held[i].seq < n

At(copy) == IF copy = None THEN 0 ELSE copy.at

\* A copy of the order o as the API makes them.
GoodCopy(o, copy) ==
  copy # None => /\ copy.at \in 1 .. Len(log) /\ o \in log[copy.at]
                 /\ copy.seq = IF copy.at > LoadedAt THEN copy.at ELSE 0

\* An answer has every order as it was after some commit, its seq, or later.
GoodAnswer(a) ==
  /\ a.seq <= Len(log)
  /\ \A o \in Order : GoodCopy(o, a.orders[o])
  /\ \A n \in 1 .. a.seq : \A o \in log[n] : At(a.orders[o]) >= n

CopiesInv ==
  /\ store.seq <= Len(log)
  /\ \A o \in Order : GoodCopy(o, store.orders[o])
  /\ \A o \in Order : seen[o] > 0 => seen[o] <= Len(log) /\ \E n \in seen[o] .. Len(log) : o \in log[n]

LoadsInv ==
  /\ \A l \in loads : l.epoch <= store.epoch /\ (l.answer # None => GoodAnswer(l.answer))
  /\ store.loading => \E l \in loads : l.epoch = store.epoch
  /\ \A l \in loads : l.epoch = store.epoch => store.loading
  /\ \A l, m \in loads : l.epoch = store.epoch /\ m.epoch = store.epoch => l = m
  /\ store.status = "idle" => ~store.loading

\* What the store was given of the order o is in the answer a of its load, or in a frame held.
Kept(a, o) ==
  \/ a # None /\ seen[o] <= At(a.orders[o])
  \/ \E i \in 1 .. Len(store.held) : o \in log[store.held[i].seq] /\ seen[o] <= store.held[i].seq

\* The frame n may still come.
ToCome(n) == (mine # 0 /\ OnWire(mine, n)) \/ \E j \in 1 .. Len(sending) : sending[j] = n

StoreInv ==
  /\ \A n \in 1 .. store.seq : ToCome(n) => \A o \in log[n] : At(store.orders[o]) >= n
  /\ \A l \in loads : l.epoch = store.epoch /\ l.answer # None => \A o \in Order : Kept(l.answer, o)
  /\ store.status = "ready" /\ ~dropped /\ store.held \in {None, <<>>} =>
       \A o \in Order : At(store.orders[o]) >= seen[o]

FeedInv ==
  /\ TypeOK /\ SubscribedInv /\ QuietInv /\ SentInv /\ WireInv /\ HeldInv
  /\ CopiesInv /\ LoadsInv /\ StoreInv

-----------------------------------------------------------------------------
(* The operators of the store.                                              *)

\* A sequence of what is in S, in terms of its elements.
LEMMA OneMore ==
  ASSUME NEW S, NEW s \in Seq(S), NEW e \in S
  PROVE  /\ Append(s, e) \in Seq(S) /\ Len(Append(s, e)) = Len(s) + 1
         /\ \A i \in 1 .. Len(s) : Append(s, e)[i] = s[i]
         /\ Append(s, e)[Len(s) + 1] = e
OBVIOUS

LEMMA SeqElements ==
  ASSUME NEW S, NEW s \in Seq(S)
  PROVE  Len(s) \in Nat /\ \A i \in 1 .. Len(s) : s[i] \in S
OBVIOUS

LEMMA SeqTyped ==
  ASSUME NEW S, NEW T, NEW s \in Seq(T), \A i \in 1 .. Len(s) : s[i] \in S
  PROVE  s \in Seq(S)
<1>1. s \in [1 .. Len(s) -> S] /\ Len(s) \in Nat OBVIOUS
<1>. QED BY <1>1

LEMMA OneLess ==
  ASSUME NEW S, NEW s \in Seq(S), s # <<>>
  PROVE  /\ Tail(s) \in Seq(S) /\ Len(Tail(s)) = Len(s) - 1
         /\ \A i \in 1 .. Len(s) - 1 : Tail(s)[i] = s[i + 1]
         /\ Head(s) = s[1] /\ Head(s) \in S /\ Len(s) \in Nat \ {0}
OBVIOUS

LEMMA EmptyIs ==
  ASSUME NEW F, NEW epoch \in Nat
  PROVE  Empty(epoch) \in Stores(F)
BY DEF Empty, Stores

LEMMA ResyncIs ==
  ASSUME NEW F, NEW s \in Stores(F), s.loading = (s.held # None), None \notin Seq(F)
  PROVE  LET r == Resync(s) IN
         /\ r \in Stores(F) /\ r.loading = (r.held # None)
         /\ r.status = s.status /\ r.seq = s.seq /\ r.orders = s.orders /\ r.epoch = s.epoch
         /\ (s.status = "idle" \/ s.loading) => r = s
         /\ (s.status # "idle" /\ ~s.loading) => r.held = <<>> /\ r.loading
<1>1. <<>> \in Seq(F) OBVIOUS
<1>. QED BY <1>1 DEF Resync, Stores

LEMMA StartIs ==
  ASSUME NEW F, NEW s \in Stores(F), s.loading = (s.held # None), None \notin Seq(F),
         s.status = "idle" => ~s.loading
  PROVE  LET r == Start(s) IN
         /\ r \in Stores(F) /\ r.loading = (r.held # None)
         /\ r.status = (IF s.status \in {"idle", "error"} THEN "loading" ELSE s.status)
         /\ r.seq = s.seq /\ r.orders = s.orders /\ r.epoch = s.epoch
         /\ r.loading /\ r.held = IF s.loading THEN s.held ELSE <<>>
<1>. DEFINE t == [s EXCEPT !.status = IF @ \in {"idle", "error"} THEN "loading" ELSE @]
<1>1. /\ t \in Stores(F) /\ t.loading = s.loading /\ t.held = s.held /\ t.status # "idle"
      /\ t.status = (IF s.status \in {"idle", "error"} THEN "loading" ELSE s.status)
      /\ t.seq = s.seq /\ t.orders = s.orders /\ t.epoch = s.epoch
  BY DEF Stores
<1>2. Start(s) = Resync(t) BY DEF Start
<1>. HIDE DEF t
<1>. QED BY <1>1, <1>2, ResyncIs

LEMMA FailedIs ==
  ASSUME NEW F, NEW s \in Stores(F)
  PROVE  LET r == LoadFailed(s) IN
         /\ r \in Stores(F) /\ ~r.loading /\ r.held = None
         /\ r.status = (IF s.status = "loading" THEN "error" ELSE s.status)
         /\ r.seq = s.seq /\ r.orders = s.orders /\ r.epoch = s.epoch
BY DEF LoadFailed, Stores

LEMMA PutIs ==
  ASSUME NEW F, NEW s \in Stores(F), NEW o \in Order, NEW copy \in Copies
  PROVE  LET r == PutOrder(s, o, copy) IN
         /\ r \in Stores(F) /\ r.loading = s.loading /\ r.held = s.held
         /\ r.status = s.status /\ r.seq = s.seq /\ r.epoch = s.epoch
         /\ r.orders = [s.orders EXCEPT ![o] = Newer(copy, s.orders[o])]
<1>1. Newer(copy, s.orders[o]) \in {None} \cup Copies BY DEF Newer, Stores
<1>. HIDE DEF Newer
<1>. QED BY <1>1 DEF PutOrder, Stores

\* What is known of the log, and of the frames made of it.
Logged == log \in Seq(SUBSET Order) /\ LoadedAt <= Len(log) /\ \A n \in 1 .. Len(log) : log[n] # {}

FramesNow == {Frame(n) : n \in 1 .. Len(log)}

LEMMA FrameIs ==
  ASSUME Logged, NEW n \in 1 .. Len(log)
  PROVE  /\ Frame(n) \in Frames /\ Frame(n).seq = n /\ DOMAIN Frame(n).orders = log[n]
         /\ log[n] \subseteq Order /\ log[n] # {}
         /\ \A o \in log[n] : Frame(n).orders[o] = Copy(n, n) /\ Copy(n, n) \in Copies
         /\ CarriesItsSeq(Frame(n))
<1>1. log[n] \in SUBSET Order /\ log[n] # {} /\ n \in Nat BY DEF Logged
<1>2. /\ Frame(n).seq = n /\ DOMAIN Frame(n).orders = log[n]
      /\ \A o \in log[n] : Frame(n).orders[o] = Copy(n, n) /\ Copy(n, n) \in Copies /\ Copy(n, n).seq = n
  BY <1>1 DEF Frame, Copy, Copies
<1>3. CarriesItsSeq(Frame(n)) BY <1>1, <1>2 DEF CarriesItsSeq
<1>4. Frame(n).orders \in [log[n] -> Copies]
  <2>1. Frame(n).orders = [o \in log[n] |-> Copy(n, n)] BY DEF Frame
  <2>2. Copy(n, n) \in Copies BY <1>1, <1>2
  <2>. QED BY <2>1, <2>2
<1>5. Frame(n) \in Frames
  <2>1. Frame(n) = [seq |-> n, orders |-> Frame(n).orders] BY DEF Frame
  <2>. QED BY <1>1, <1>4, <2>1 DEF Frames
<1>. QED BY <1>1, <1>2, <1>3, <1>5

\* None is not one of the things it stands for the absence of.
LEMMA NoneApart ==
  ASSUME Logged
  PROVE  None \notin Copies /\ None \notin Snapshots /\ None \notin Seq(FramesNow)
<1>1. FramesNow \subseteq Frames BY FrameIs DEF FramesNow
<1>2. Seq(FramesNow) \subseteq Seq(Frames)
  <2>. SUFFICES ASSUME NEW s \in Seq(FramesNow) PROVE s \in Seq(Frames) OBVIOUS
  <2>1. s \in [1 .. Len(s) -> Frames] /\ Len(s) \in Nat BY <1>1
  <2>. QED BY <2>1
<1>. QED BY <1>2, StoreAssumption

\* Of two copies the API made of an order, the store keeps the one of the later state.
LEMMA NewerIs ==
  ASSUME Logged, NEW o \in Order, NEW c \in Copies, GoodCopy(o, c), c.at > LoadedAt,
         NEW d \in {None} \cup Copies, GoodCopy(o, d)
  PROVE  /\ Newer(c, d) \in Copies /\ GoodCopy(o, Newer(c, d))
         /\ At(Newer(c, d)) >= At(d) /\ At(Newer(c, d)) >= c.at
<1>1. None \notin Copies BY StoreAssumption
<1>2. c # None /\ c.at \in Nat /\ c.seq = c.at /\ LoadedAt \in Nat
  BY <1>1, FeedAssumption DEF GoodCopy, Copies
<1>3. CASE d # None /\ d.seq > c.seq
  <2>1. Newer(c, d) = d /\ d \in Copies BY <1>3 DEF Newer
  <2>2. d.at \in Nat /\ d.seq = (IF d.at > LoadedAt THEN d.at ELSE 0) BY <1>3, <2>1 DEF GoodCopy, Copies
  <2>. QED BY <1>2, <1>3, <2>1, <2>2 DEF At
<1>4. CASE d = None
  BY <1>1, <1>2, <1>4 DEF Newer, At
<1>5. CASE d # None /\ ~(d.seq > c.seq)
  <2>1. Newer(c, d) = c BY <1>5 DEF Newer
  <2>2. d.at \in Nat /\ d.seq = (IF d.at > LoadedAt THEN d.at ELSE 0) BY <1>5 DEF GoodCopy, Copies
  <2>. QED BY <1>2, <1>5, <2>1, <2>2 DEF At
<1>. QED BY <1>3, <1>4, <1>5

\* A frame never makes the store load: each carries its own newest change.
LEMMA ApplyIs ==
  ASSUME Logged, NEW n \in 1 .. Len(log), NEW F, NEW s \in Stores(F)
  PROVE  LET r == ApplyFrame(s, Frame(n)) IN
         /\ r \in Stores(F) /\ r.loading = s.loading /\ r.held = s.held
         /\ r.status = s.status /\ r.epoch = s.epoch
         /\ n < s.seq => r = s
         /\ ~(n < s.seq) =>
              /\ r.seq = n
              /\ \A o \in log[n] : r.orders[o] = Newer(Copy(n, n), s.orders[o])
              /\ \A o \in Order \ log[n] : r.orders[o] = s.orders[o]
<1>1. /\ Frame(n).seq = n /\ DOMAIN Frame(n).orders = log[n] /\ CarriesItsSeq(Frame(n)) /\ n \in Nat
      /\ log[n] \subseteq Order
      /\ \A o \in log[n] : Frame(n).orders[o] = Copy(n, n) /\ Copy(n, n) \in Copies
  BY FrameIs
<1>. DEFINE orders == [o \in Order |-> IF o \in log[n] THEN Newer(Copy(n, n), s.orders[o]) ELSE s.orders[o]]
            Orders == [Order -> {None} \cup Copies]
<1>2. orders \in Orders
  <2>1. \A o \in Order : s.orders[o] \in {None} \cup Copies BY DEF Stores
  <2>2. \A o \in log[n] : Newer(Copy(n, n), s.orders[o]) \in {None} \cup Copies BY <1>1, <2>1 DEF Newer
  <2>. QED BY <2>1, <2>2
<1>3. CASE n < s.seq BY <1>1, <1>3 DEF ApplyFrame
<1>4. CASE ~(n < s.seq)
  <2>1. ApplyFrame(s, Frame(n)) = [s EXCEPT !.seq = n, !.orders = orders]
    <3>1. orders = [o \in Order |-> IF o \in DOMAIN Frame(n).orders THEN Newer(Frame(n).orders[o], s.orders[o]) ELSE s.orders[o]]
      BY <1>1, Zenon
    <3>2. ApplyFrame(s, Frame(n)) = [s EXCEPT !.seq = Frame(n).seq,
           !.orders = [o \in Order |-> IF o \in DOMAIN Frame(n).orders THEN Newer(Frame(n).orders[o], s.orders[o])
                                     ELSE s.orders[o]]]
      BY <1>1, <1>4 DEF ApplyFrame, Stores
    <3>. HIDE DEF orders
    <3>. QED BY <1>1, <3>1, <3>2
  <2>2. \A o \in Order : orders[o] = IF o \in log[n] THEN Newer(Copy(n, n), s.orders[o]) ELSE s.orders[o]
    OBVIOUS
  <2>. HIDE DEF orders
  <2>3. LET r == [s EXCEPT !.seq = n, !.orders = orders] IN
        /\ r \in Stores(F) /\ r.loading = s.loading /\ r.held = s.held
        /\ r.status = s.status /\ r.epoch = s.epoch /\ r.seq = n /\ r.orders = orders
    BY <1>1, <1>2 DEF Stores
  <2>. QED BY <1>1, <1>4, <2>1, <2>2, <2>3, Zenon
<1>. QED BY <1>3, <1>4

\* A frame a store applies, or skips having what it brings, leaves nothing older than it or the store had.
LEMMA AppliedIs ==
  ASSUME Logged, NEW n \in Numbers, NEW F, NEW s \in Stores(F), \A o \in Order : GoodCopy(o, s.orders[o]),
         n < s.seq => \A o \in log[n] : At(s.orders[o]) >= n
  PROVE  LET r == ApplyFrame(s, Frame(n)) IN
         /\ \A o \in Order : /\ GoodCopy(o, r.orders[o]) /\ At(r.orders[o]) >= At(s.orders[o])
                             /\ At(r.orders[o]) \in Nat /\ At(s.orders[o]) \in Nat
         /\ \A o \in log[n] : At(r.orders[o]) >= n
<1>. DEFINE r == ApplyFrame(s, Frame(n))
<1>1. n \in 1 .. Len(log) /\ n > LoadedAt /\ n \in Nat BY FeedAssumption DEF Numbers, Logged
<1>2. /\ r \in Stores(F)
      /\ n < s.seq => r = s
      /\ ~(n < s.seq) =>
           /\ \A o \in log[n] : r.orders[o] = Newer(Copy(n, n), s.orders[o])
           /\ \A o \in Order \ log[n] : r.orders[o] = s.orders[o]
  BY <1>1, ApplyIs
<1>. HIDE DEF r
<1>3. \A o \in Order : /\ s.orders[o] \in {None} \cup Copies /\ r.orders[o] \in {None} \cup Copies
                       /\ At(s.orders[o]) \in Nat /\ At(r.orders[o]) \in Nat
  <2>1. \A o \in Order : s.orders[o] \in {None} \cup Copies /\ r.orders[o] \in {None} \cup Copies
    BY <1>2 DEF Stores
  <2>. QED BY <2>1 DEF At, Copies
<1>4. \A o \in log[n] : /\ o \in Order /\ Copy(n, n) \in Copies /\ GoodCopy(o, Copy(n, n))
                        /\ Copy(n, n).at > LoadedAt /\ Copy(n, n).at = n
  BY <1>1, FrameIs DEF Copy, GoodCopy
<1>5. ASSUME NEW o \in Order
      PROVE  /\ GoodCopy(o, r.orders[o]) /\ At(r.orders[o]) >= At(s.orders[o])
             /\ o \in log[n] => At(r.orders[o]) >= n
  <2>1. CASE n < s.seq BY <1>2, <1>3, <2>1
  <2>2. CASE ~(n < s.seq) /\ o \notin log[n]
    <3>1. r.orders[o] = s.orders[o] BY <1>2, <2>2
    <3>. QED BY <1>3, <2>2, <3>1
  <2>3. CASE ~(n < s.seq) /\ o \in log[n]
    <3>1. r.orders[o] = Newer(Copy(n, n), s.orders[o]) BY <1>2, <2>3
    <3>. QED BY <1>3, <1>4, <2>3, <3>1, NewerIs
  <2>. QED BY <2>1, <2>2, <2>3
<1>6. \A o \in log[n] : o \in Order BY <1>4
<1>. QED BY <1>3, <1>5, <1>6 DEF r

\* Induction over the naturals, with a set in place of a predicate.
LEMMA NatSetInduction ==
  ASSUME NEW P, 0 \in P, \A n \in Nat : n \in P => n + 1 \in P
  PROVE  Nat \subseteq P
<1>. DEFINE T == Nat \ P
<1>. SUFFICES ASSUME T # {} PROVE FALSE
  OBVIOUS
<1>1. PICK x \in T : \A y \in T : ~ (<<y, x>> \in OpToRel(<,Nat))
  BY NatLessThanWellFounded, WFMin, Zenon
<1>2. \A y \in T : ~(y < x)
  BY <1>1, Zenon DEF OpToRel
<1>3. x # 0 /\ x - 1 \in Nat /\ x - 1 < x
  OBVIOUS
<1>4. x - 1 \in T
  <2>1. x - 1 \notin P
     BY <1>3
  <2>. QED BY <1>3, <2>1
<1>. QED BY <1>2, <1>3, <1>4

\* There are the steps from `first` that `step` takes, n of them.
Steps(V, first, n, step) ==
  \E f \in [0 .. n -> V] : f[0] = first /\ \A k \in 1 .. n : f[k] = step[<<k, f[k - 1]>>]

\* A function defined by recursion over 0 .. n exists.
LEMMA StepsAdd ==
  ASSUME NEW V, NEW first \in V, NEW n \in Nat, NEW step, \A k \in 1 .. n, v \in V : step[<<k, v>>] \in V
  PROVE  Steps(V, first, n, step)
<1>. DEFINE Runs(f, m) == /\ f \in [0 .. m -> V] /\ f[0] = first
                          /\ \A k \in 1 .. m : f[k] = step[<<k, f[k - 1]>>]
            P == {m \in Nat : m <= n => \E f \in [0 .. m -> V] : Runs(f, m)}
<1>1. 0 \in P
  <2>1. Runs([k \in 0 .. 0 |-> first], 0)
    OBVIOUS
  <2>. QED BY <2>1
<1>2. ASSUME NEW m \in Nat, m \in P PROVE m + 1 \in P
  <2>1. SUFFICES ASSUME m + 1 <= n PROVE \E f \in [0 .. m + 1 -> V] : Runs(f, m + 1)
    OBVIOUS
  <2>2. PICK f \in [0 .. m -> V] : Runs(f, m)
    BY <1>2, <2>1
  <2>. DEFINE g == [k \in 0 .. m + 1 |-> IF k = m + 1 THEN step[<<m + 1, f[m]>>] ELSE f[k]]
  <2>3. step[<<m + 1, f[m]>>] \in V
    BY <2>1, <2>2
  <2>4. g \in [0 .. m + 1 -> V]
    BY <2>2, <2>3
  <2>5. ASSUME NEW k \in 1 .. m + 1 PROVE g[k] = step[<<k, g[k - 1]>>]
    <3>1. k \in 0 .. m + 1 /\ k - 1 \in 0 .. m
      OBVIOUS
    <3>2. g[k - 1] = f[k - 1]
      BY <3>1
    <3>3. CASE k = m + 1
      <4>1. g[k] = step[<<m + 1, f[m]>>]
        BY <3>1, <3>3
      <4>2. <<k, g[k - 1]>> = <<m + 1, f[m]>>
        BY <3>2, <3>3
      <4>. QED BY <4>1, <4>2, Zenon
    <3>4. CASE k \in 1 .. m
      BY <3>1, <3>2, <3>4, <2>2
    <3>. QED BY <3>3, <3>4
  <2>6. g[0] = first
    BY <2>2
  <2>. HIDE DEF g
  <2>. QED BY <2>4, <2>5, <2>6
<1>3. n \in P
  BY <1>1, <1>2, NatSetInduction
<1>4. PICK f \in [0 .. n -> V] : Runs(f, n)
  BY <1>3
<1>. QED BY <1>4 DEF Steps

\* What a load leaves: the answer, with the frames held applied in order on top.
LEMMA LoadedIs ==
  ASSUME Logged, NEW s \in Stores(FramesNow), s.held # None, NEW a \in Snapshots, GoodAnswer(a),
         \A i \in 1 .. Len(s.held) : s.held[i].seq \in Numbers,
         \A i, j \in 1 .. Len(s.held) : i < j => s.held[i].seq < s.held[j].seq
  PROVE  LET r == Loaded(s, a) IN
         /\ r \in Stores(FramesNow) /\ ~r.loading /\ r.held = None /\ r.status = "ready" /\ r.epoch = s.epoch
         /\ r.seq <= Len(log)
         /\ r.seq = a.seq \/ \E i \in 1 .. Len(s.held) : r.seq = s.held[i].seq
         /\ \A o \in Order : GoodCopy(o, r.orders[o]) /\ At(r.orders[o]) >= At(a.orders[o])
         /\ \A i \in 1 .. Len(s.held) : \A o \in log[s.held[i].seq] : At(r.orders[o]) >= s.held[i].seq
<1>. DEFINE V == Stores(FramesNow)
            N == Len(s.held)
            replaced == [s EXCEPT !.status = "ready", !.held = None, !.seq = a.seq, !.orders = a.orders]
            step == [p \in (1 .. N) \X V |-> ApplyFrame(p[2], s.held[p[1]])]
            after == CHOOSE g : g = [n \in 0 .. N |-> IF n = 0 THEN replaced ELSE ApplyFrame(g[n - 1], s.held[n])]
<1>1. /\ s.held \in Seq(FramesNow) /\ N \in Nat
      /\ \A i \in 1 .. N : s.held[i] \in FramesNow
  <2>1. s.held \in Seq(FramesNow) BY DEF Stores
  <2>. QED BY <2>1
<1>2. \A i \in 1 .. N : /\ s.held[i].seq \in 1 .. Len(log) /\ s.held[i] = Frame(s.held[i].seq)
                        /\ s.held[i].seq \in Nat /\ s.held[i].seq > LoadedAt
  <2>. SUFFICES ASSUME NEW i \in 1 .. N
                PROVE  /\ s.held[i].seq \in 1 .. Len(log) /\ s.held[i] = Frame(s.held[i].seq)
                       /\ s.held[i].seq \in Nat /\ s.held[i].seq > LoadedAt
    OBVIOUS
  <2>1. PICK n \in 1 .. Len(log) : s.held[i] = Frame(n) BY <1>1 DEF FramesNow
  <2>2. s.held[i].seq = n BY <2>1, FrameIs
  <2>3. n > LoadedAt BY <2>2, FeedAssumption DEF Numbers
  <2>. QED BY <2>1, <2>2, <2>3
<1>3. a.seq \in Nat /\ a.orders \in [Order -> {None} \cup Copies] BY DEF Snapshots
<1>4. /\ replaced \in V /\ replaced.seq = a.seq /\ replaced.orders = a.orders /\ replaced.status = "ready"
      /\ replaced.held = None /\ replaced.epoch = s.epoch
  BY <1>3 DEF Stores
<1>. HIDE DEF replaced
<1>5. \A n \in 1 .. N, t \in V : ApplyFrame(t, s.held[n]) \in V
  BY <1>2, ApplyIs
<1>7. \A n \in 1 .. N, t \in V : step[<<n, t>>] = ApplyFrame(t, s.held[n])
  <2>. HIDE DEF V
  <2>. QED OBVIOUS
<1>. HIDE DEF step
<1>8. PICK f \in [0 .. N -> V] : f[0] = replaced /\ \A n \in 1 .. N : f[n] = step[<<n, f[n - 1]>>]
  <2>1. N \in Nat /\ replaced \in V BY <1>1, <1>4
  <2>2. \A k \in 1 .. N, v \in V : step[<<k, v>>] \in V BY <1>5, <1>7
  <2>. HIDE DEF V, N, after
  <2>3. Steps(V, replaced, N, step) BY <2>1, <2>2, StepsAdd
  <2>. QED BY <2>3 DEF Steps
<1>9. f = [n \in 0 .. N |-> IF n = 0 THEN replaced ELSE ApplyFrame(f[n - 1], s.held[n])]
  <2>1. \A n \in 0 .. N : f[n] = IF n = 0 THEN replaced ELSE ApplyFrame(f[n - 1], s.held[n])
    <3>. SUFFICES ASSUME NEW n \in 0 .. N, n # 0 PROVE f[n] = ApplyFrame(f[n - 1], s.held[n])
      BY <1>8
    <3>1. n \in 1 .. N /\ n - 1 \in 0 .. N BY <1>1
    <3>2. f[n - 1] \in V BY <3>1
    <3>. QED BY <3>1, <3>2, <1>7, <1>8
  <2>. HIDE DEF V
  <2>. QED BY <2>1
<1>10. after = [n \in 0 .. N |-> IF n = 0 THEN replaced ELSE ApplyFrame(after[n - 1], s.held[n])]
  BY <1>9
<1>11. Loaded(s, a) = [after[N] EXCEPT !.loading = FALSE]
  BY DEF Loaded, replaced
<1>. HIDE DEF after
<1>12. after[0] = replaced BY <1>1, <1>10
<1>13. \A n \in 1 .. N : after[n] = ApplyFrame(after[n - 1], s.held[n])
  <2>. SUFFICES ASSUME NEW n \in 1 .. N PROVE after[n] = ApplyFrame(after[n - 1], s.held[n])
    OBVIOUS
  <2>1. n \in 0 .. N /\ n # 0 BY <1>1
  <2>2. after[n] = IF n = 0 THEN replaced ELSE ApplyFrame(after[n - 1], s.held[n])
    BY <1>10, <2>1, Zenon
  <2>. QED BY <2>1, <2>2
<1>. DEFINE Sound(n) ==
       LET r == after[n] IN
       /\ r \in V /\ r.held = None /\ r.status = "ready" /\ r.epoch = s.epoch
       /\ r.seq <= Len(log)
       /\ r.seq = a.seq \/ \E i \in 1 .. n : r.seq = s.held[i].seq
       /\ \A o \in Order : GoodCopy(o, r.orders[o]) /\ At(r.orders[o]) >= At(a.orders[o])
       /\ \A i \in 1 .. n : \A o \in log[s.held[i].seq] : At(r.orders[o]) >= s.held[i].seq
            P == {n \in Nat : n <= N => Sound(n)}
<1>14. Sound(0)
  <2>1. a.seq <= Len(log) /\ \A o \in Order : GoodCopy(o, a.orders[o]) /\ At(a.orders[o]) \in Nat
    BY <1>3 DEF GoodAnswer, At, Copies
  <2>2. 1 .. 0 = {} OBVIOUS
  <2>. HIDE DEF V, N
  <2>. QED BY <1>4, <1>12, <2>1, <2>2
<1>15. ASSUME NEW n \in 0 .. N - 1, Sound(n) PROVE Sound(n + 1)
  <2>1. n + 1 \in 1 .. N /\ (n + 1) - 1 = n BY <1>1
  <2>. DEFINE t == after[n]  m == s.held[n + 1].seq  r == after[n + 1]
  <2>2. m \in 1 .. Len(log) /\ m > LoadedAt /\ m \in Nat /\ r = ApplyFrame(t, Frame(m))
    <3>1. r = ApplyFrame(t, s.held[n + 1]) BY <2>1, <1>13
    <3>. QED BY <2>1, <3>1, <1>2
  <2>3. t \in V /\ t.seq \in Nat /\ t.orders \in [Order -> {None} \cup Copies]
    BY <1>15 DEF Stores
  <2>4. /\ r \in V /\ r.held = None /\ r.status = "ready" /\ r.epoch = s.epoch
        /\ m < t.seq => r = t
        /\ ~(m < t.seq) =>
              /\ r.seq = m
              /\ \A o \in log[m] : r.orders[o] = Newer(Copy(m, m), t.orders[o])
              /\ \A o \in Order \ log[m] : r.orders[o] = t.orders[o]
    BY <2>2, <1>15, ApplyIs
  <2>. HIDE DEF r
  <2>5. r.seq = a.seq \/ \E i \in 1 .. n + 1 : r.seq = s.held[i].seq
    <3>1. CASE m < t.seq BY <3>1, <2>4, <1>15
    <3>2. CASE ~(m < t.seq) BY <3>2, <2>4, <2>1
    <3>. QED BY <3>1, <3>2
  <2>6. r.seq <= Len(log)
    BY <2>2, <2>4, <1>15
  <2>7. ASSUME m < t.seq PROVE \A o \in log[m] : At(t.orders[o]) >= m
    <3>1. t.seq = a.seq
      <4>1. ASSUME NEW i \in 1 .. n, t.seq = s.held[i].seq PROVE FALSE
        <5>1. i \in 1 .. N /\ i < n + 1 BY <1>1
        <5>2. s.held[i].seq < m BY <2>1, <5>1
        <5>3. s.held[i].seq \in Nat BY <5>1, <1>2
        <5>. QED BY <2>7, <4>1, <5>2, <5>3, <2>2
      <4>. QED BY <4>1, <1>15
    <3>2. m \in 1 .. a.seq BY <2>7, <3>1, <2>2, <1>3
    <3>3. \A o \in log[m] : o \in Order /\ At(a.orders[o]) >= m BY <2>2, <3>2, FrameIs DEF GoodAnswer
    <3>4. \A o \in Order : /\ At(t.orders[o]) >= At(a.orders[o])
                           /\ At(t.orders[o]) \in Nat /\ At(a.orders[o]) \in Nat
      BY <2>3, <1>3, <1>15 DEF At, Copies
    <3>5. m \in Nat BY <2>2
    <3>. SUFFICES ASSUME NEW o \in log[m] PROVE At(t.orders[o]) >= m OBVIOUS
    <3>6. o \in Order /\ At(a.orders[o]) >= m BY <3>3
    <3>7. At(t.orders[o]) >= At(a.orders[o]) /\ At(t.orders[o]) \in Nat /\ At(a.orders[o]) \in Nat
      BY <3>4, <3>6
    <3>. HIDE DEF m, t
    <3>. QED BY <3>5, <3>6, <3>7
  <2>8. \A o \in Order : /\ At(t.orders[o]) >= At(a.orders[o])
                         /\ At(t.orders[o]) \in Nat /\ At(a.orders[o]) \in Nat
    BY <2>3, <1>3, <1>15 DEF At, Copies
  <2>9. /\ \A o \in Order : GoodCopy(o, r.orders[o]) /\ At(r.orders[o]) >= At(t.orders[o])
        /\ \A o \in log[m] : At(r.orders[o]) >= m
    <3>1. m \in Numbers BY <2>1
    <3>2. \A o \in Order : GoodCopy(o, t.orders[o]) BY <1>15
    <3>. QED BY <2>2, <2>3, <2>7, <3>1, <3>2, AppliedIs
  <2>10. \A o \in log[m] : At(r.orders[o]) >= m BY <2>9
  <2>11. ASSUME NEW i \in 1 .. n + 1, NEW o \in log[s.held[i].seq]
         PROVE  At(r.orders[o]) >= s.held[i].seq
    <3>1. CASE i = n + 1 BY <3>1, <2>10
    <3>2. CASE i \in 1 .. n
      <4>1. At(t.orders[o]) >= s.held[i].seq BY <3>2, <1>15
      <4>2. i \in 1 .. N BY <3>2, <1>1
      <4>3. s.held[i].seq \in 1 .. Len(log) BY <4>2, <1>2
      <4>4. o \in Order BY <4>3, FrameIs
      <4>5. At(r.orders[o]) >= At(t.orders[o]) BY <2>9, <4>4
      <4>6. At(r.orders[o]) \in Nat /\ At(t.orders[o]) \in Nat /\ s.held[i].seq \in Nat
        <5>1. r.orders[o] \in {None} \cup Copies BY <2>4, <4>4 DEF Stores
        <5>. QED BY <5>1, <2>8, <4>4, <4>2, <1>2 DEF At, Copies
      <4>. QED BY <4>1, <4>5, <4>6
    <3>3. i = n + 1 \/ i \in 1 .. n BY <1>1
    <3>. QED BY <3>1, <3>2, <3>3
  <2>12. ASSUME NEW o \in Order PROVE At(r.orders[o]) >= At(a.orders[o])
    <3>1. At(r.orders[o]) \in Nat
      <4>1. r.orders[o] \in {None} \cup Copies BY <2>4 DEF Stores
      <4>. QED BY <4>1 DEF At, Copies
    <3>. QED BY <3>1, <2>8, <2>9
  <2>. QED BY <2>4, <2>5, <2>6, <2>9, <2>11, <2>12 DEF r
<1>16. Sound(N)
  <2>. HIDE DEF Sound
  <2>1. 0 \in P BY <1>14
  <2>2. \A n \in Nat : n \in P => n + 1 \in P BY <1>1, <1>15
  <2>. HIDE DEF P
  <2>3. N \in P BY <1>1, <2>1, <2>2, NatSetInduction
  <2>. QED BY <1>1, <2>3 DEF P
<1>17. LET r == Loaded(s, a) IN
       /\ r \in V /\ ~r.loading /\ r.held = None /\ r.status = "ready" /\ r.epoch = s.epoch
       /\ r.seq = after[N].seq /\ r.orders = after[N].orders
  BY <1>11, <1>16 DEF Stores
<1>. QED BY <1>16, <1>17

-----------------------------------------------------------------------------
(* What the API answers, and what the store has been given.                 *)

LEMMA MaxIs ==
  ASSUME NEW S, S \subseteq Nat, S # {}, NEW m \in Nat, \A x \in S : x <= m
  PROVE  Max(S) \in S /\ \A x \in S : x <= Max(S)
<1>. DEFINE T == {y \in Nat : y <= m /\ m - y \in S}
<1>1. T # {}
  <2>1. PICK x \in S : TRUE OBVIOUS
  <2>2. m - x \in T BY <2>1
  <2>. QED BY <2>2
<1>2. PICK y \in T : \A z \in T : ~ (<<z, y>> \in OpToRel(<, Nat))
  BY <1>1, NatLessThanWellFounded, WFMin, Zenon
<1>3. \A z \in T : ~(z < y)
  BY <1>2, Zenon DEF OpToRel
<1>4. m - y \in S /\ \A x \in S : m - y >= x
  <2>. SUFFICES ASSUME NEW x \in S, m - y < x PROVE FALSE OBVIOUS
  <2>1. m - x \in T /\ m - x < y OBVIOUS
  <2>. QED BY <2>1, <1>3
<1>5. Max(S) \in S /\ \A x \in S : Max(S) >= x
  BY <1>4 DEF Max
<1>. QED BY <1>5

LEMMA LatestIs ==
  ASSUME Logged, NEW o \in Order
  PROVE  /\ Latest(o) \in 0 .. Len(log)
         /\ Latest(o) # 0 => o \in log[Latest(o)]
         /\ \A n \in 1 .. Len(log) : o \in log[n] => n <= Latest(o)
<1>. DEFINE S == {0} \cup {n \in 1 .. Len(log) : o \in log[n]}
<1>1. Len(log) \in Nat BY DEF Logged
<1>2. S \subseteq Nat /\ S # {} /\ \A x \in S : x <= Len(log) BY <1>1
<1>3. Max(S) \in S /\ \A x \in S : x <= Max(S)
  <2>. HIDE DEF S
  <2>. QED BY <1>1, <1>2, MaxIs
<1>. QED BY <1>1, <1>3 DEF Latest

LEMMA StateIs ==
  ASSUME Logged
  PROVE  /\ AccountState \in Snapshots /\ GoodAnswer(AccountState)
         /\ \A o \in Order, n \in 1 .. Len(log) : o \in log[n] => n <= At(AccountState.orders[o])
<1>1. Len(log) \in Nat /\ LoadedAt \in Nat BY FeedAssumption DEF Logged
<1>. DEFINE shown(o) == LET at == Latest(o) IN
              IF at = 0 THEN None ELSE Copy(at, IF at > LoadedAt THEN at ELSE 0)
<1>2. ASSUME NEW o \in Order
      PROVE  /\ shown(o) \in {None} \cup Copies /\ GoodCopy(o, shown(o))
             /\ At(shown(o)) = Latest(o)
  <2>1. Latest(o) \in 0 .. Len(log) /\ (Latest(o) # 0 => o \in log[Latest(o)])
    BY LatestIs
  <2>2. CASE Latest(o) = 0 BY <2>2 DEF GoodCopy, At
  <2>3. CASE Latest(o) # 0
    <3>. DEFINE c == Copy(Latest(o), IF Latest(o) > LoadedAt THEN Latest(o) ELSE 0)
    <3>1. c \in Copies /\ c.at = Latest(o) /\ c.seq = IF Latest(o) > LoadedAt THEN Latest(o) ELSE 0
      BY <1>1, <2>1 DEF Copy, Copies
    <3>2. shown(o) = c BY <2>3
    <3>3. c # None BY <3>1, StoreAssumption
    <3>. HIDE DEF c
    <3>. QED BY <1>1, <2>1, <2>3, <3>1, <3>2, <3>3 DEF GoodCopy, At
  <2>. QED BY <2>2, <2>3
<1>3. AccountState = [seq |-> Len(log), orders |-> [o \in Order |-> shown(o)]]
  BY DEF AccountState
<1>. HIDE DEF shown
<1>4. /\ AccountState \in Snapshots /\ AccountState.seq = Len(log)
      /\ \A o \in Order : AccountState.orders[o] = shown(o)
  BY <1>1, <1>2, <1>3 DEF Snapshots
<1>5. \A o \in Order, n \in 1 .. Len(log) : o \in log[n] => n <= At(AccountState.orders[o])
  BY <1>2, <1>4, LatestIs
<1>6. \A n \in 1 .. Len(log) : log[n] \subseteq Order BY DEF Logged
<1>7. \A n \in 1 .. AccountState.seq, o \in Order : o \in log[n] => At(AccountState.orders[o]) >= n
  <2>. SUFFICES ASSUME NEW n \in 1 .. Len(log), NEW o \in Order, o \in log[n]
                PROVE  At(AccountState.orders[o]) >= n
    BY <1>4
  <2>1. n <= At(AccountState.orders[o]) BY <1>5
  <2>2. At(AccountState.orders[o]) \in Nat BY <1>2, <1>4, LatestIs
  <2>. QED BY <2>1, <2>2
<1>8. GoodAnswer(AccountState)
  BY <1>1, <1>2, <1>4, <1>6, <1>7 DEF GoodAnswer
<1>. QED BY <1>4, <1>5, <1>8

-----------------------------------------------------------------------------
(* The node.                                                                *)

\* No frame is added to a wire: what there is on it is as it was, or one place further on.
WireShrinks ==
  \A k \in Socket : \E d \in {0, 1} :
    \A i \in 1 .. Len(wire'[k]) : wire'[k][i][1] = "frame" =>
      i + d \in 1 .. Len(wire[k]) /\ wire'[k][i] = wire[k][i + d]

Wires == [Socket -> Seq(Messages)]

LEMMA Shrunk ==
  ASSUME wire \in Wires, wire' \in Wires, UNCHANGED <<log, sending>>, WireInv, WireShrinks
  PROVE  /\ WireInv'
         /\ \A k \in Socket : \A n : OnWire(k, n)' => OnWire(k, n)
<1>1. \A k \in Socket : Len(wire[k]) \in Nat /\ Len(wire'[k]) \in Nat BY DEF Wires
<1>2. \A k \in Socket : \A n : OnWire(k, n)' => OnWire(k, n)
  <2>. SUFFICES ASSUME NEW k \in Socket, NEW n, NEW i \in 1 .. Len(wire'[k]), wire'[k][i] = <<"frame", n>>
                PROVE  OnWire(k, n)
    BY DEF OnWire
  <2>1. wire'[k][i][1] = "frame" OBVIOUS
  <2>2. PICK d \in {0, 1} : i + d \in 1 .. Len(wire[k]) /\ wire'[k][i] = wire[k][i + d]
    BY <2>1 DEF WireShrinks
  <2>3. wire[k][i + d] = <<"frame", n>> BY <2>2, Zenon
  <2>. QED BY <2>2, <2>3 DEF OnWire
<1>3. WireInv'
  <2>. SUFFICES ASSUME NEW k \in Socket, NEW i \in 1 .. Len(wire'[k]), wire'[k][i][1] = "frame"
                PROVE  /\ wire'[k][i][2] \in Numbers
                       /\ \A j \in 1 .. Len(sending) : wire'[k][i][2] < sending[j]
                       /\ \A j \in 1 .. Len(wire'[k]) :
                            i < j /\ wire'[k][j][1] = "frame" => wire'[k][i][2] < wire'[k][j][2]
    BY DEF WireInv, Numbers
  <2>1. PICK d \in {0, 1} :
          \A j \in 1 .. Len(wire'[k]) : wire'[k][j][1] = "frame" =>
            j + d \in 1 .. Len(wire[k]) /\ wire'[k][j] = wire[k][j + d]
    BY DEF WireShrinks
  <2>2. i + d \in 1 .. Len(wire[k]) /\ wire'[k][i] = wire[k][i + d] /\ wire[k][i + d][1] = "frame"
    BY <2>1
  <2>3. /\ wire'[k][i][2] \in Numbers
        /\ \A j \in 1 .. Len(sending) : wire'[k][i][2] < sending[j]
    BY <2>2 DEF WireInv
  <2>4. ASSUME NEW j \in 1 .. Len(wire'[k]), i < j, wire'[k][j][1] = "frame"
        PROVE  wire'[k][i][2] < wire'[k][j][2]
    <3>1. j + d \in 1 .. Len(wire[k]) /\ wire'[k][j] = wire[k][j + d] /\ i + d < j + d
      BY <2>1, <2>4, <1>1
    <3>. QED BY <2>2, <2>4, <3>1 DEF WireInv
  <2>. QED BY <2>3, <2>4
<1>. QED BY <1>2, <1>3

LEMMA NodeKeeps ==
  ASSUME FeedInv, UNCHANGED <<api, client>>, wire' \in Wires, WireShrinks
  PROVE  /\ ApiTypes' /\ PageTypes' /\ SentInv' /\ WireInv' /\ HeldInv'
         /\ CopiesInv' /\ LoadsInv' /\ StoreInv'
<1>. USE DEF api, client
<1>1. wire \in Wires BY DEF FeedInv, TypeOK, NodeTypes, Wires
<1>2. WireInv' /\ \A k \in Socket : \A n : OnWire(k, n)' => OnWire(k, n)
  BY <1>1, Shrunk DEF FeedInv
<1>3. ApiTypes' BY DEF FeedInv, TypeOK, ApiTypes
<1>4. PageTypes' BY DEF FeedInv, TypeOK, PageTypes, Frame
<1>5. SentInv' BY DEF FeedInv, SentInv, Numbers
<1>6. mine \in {0} \cup Socket BY DEF FeedInv, TypeOK, PageTypes
<1>7. HeldInv' BY <1>2, <1>6 DEF FeedInv, HeldInv, Numbers
<1>8. CopiesInv' BY DEF FeedInv, CopiesInv, GoodCopy
<1>9. LoadsInv' BY DEF FeedInv, LoadsInv, GoodAnswer, GoodCopy
<1>10. \A n : ToCome(n)' => ToCome(n) BY <1>2, <1>6 DEF ToCome
<1>11. StoreInv' BY <1>10 DEF FeedInv, StoreInv, Kept
<1>. QED BY <1>2, <1>3, <1>4, <1>5, <1>7, <1>8, <1>9, <1>11

LEMMA ToldIs ==
  ASSUME wire \in Wires, NEW sockets, NEW m \in {<<"open", 0>>, <<"close", 0>>}, wire' = Told(sockets, m)
  PROVE  /\ wire' \in Wires /\ WireShrinks
         /\ \A k \in Socket : k \notin sockets => wire'[k] = wire[k]
<1>1. m \in Messages /\ m[1] # "frame" BY DEF Messages
<1>2. \A k \in Socket : /\ wire[k] \in Seq(Messages)
                        /\ wire'[k] = IF k \in sockets THEN Append(wire[k], m) ELSE wire[k]
  BY DEF Wires, Told
<1>3. wire' \in Wires BY <1>1, <1>2 DEF Wires, Told
<1>4. ASSUME NEW k \in Socket, NEW i \in 1 .. Len(wire'[k]), wire'[k][i][1] = "frame"
      PROVE  i + 0 \in 1 .. Len(wire[k]) /\ wire'[k][i] = wire[k][i + 0]
  <2>1. CASE k \notin sockets BY <1>2, <2>1
  <2>2. CASE k \in sockets
    <3>1. /\ Len(wire'[k]) = Len(wire[k]) + 1 /\ wire'[k][Len(wire[k]) + 1] = m /\ Len(wire[k]) \in Nat
          /\ \A j \in 1 .. Len(wire[k]) : wire'[k][j] = wire[k][j]
      <4>1. wire[k] \in Seq(Messages) /\ wire'[k] = Append(wire[k], m) BY <1>2, <2>2
      <4>2. m \in Messages BY <1>1
      <4>. QED BY <4>1, <4>2
    <3>2. i # Len(wire[k]) + 1 BY <1>1, <1>4, <3>1
    <3>. QED BY <3>1, <3>2
  <2>. QED BY <2>1, <2>2
<1>. QED BY <1>2, <1>3, <1>4 DEF WireShrinks

Conn == [at : {"new", "asked", "checked", "refused", "open", "closing", "closed"}, session : 0 .. MaxSignIns]

\* A socket k moves to `at`, and no other does.
LEMMA MovedIs ==
  ASSUME NodeTypes, NEW k \in Socket,
         NEW at \in {"new", "asked", "checked", "refused", "open", "closing", "closed"},
         conn' = [conn EXCEPT ![k].at = at]
  PROVE  /\ conn' \in [Socket -> Conn]
         /\ conn'[k].at = at /\ conn'[k].session = conn[k].session
         /\ \A j \in Socket : j # k => conn'[j] = conn[j]
<1>1. conn \in [Socket -> Conn] BY DEF NodeTypes, Conn
<1>2. conn[k] \in Conn BY <1>1
<1>3. conn'[k] = [conn[k] EXCEPT !.at = at] BY <1>1
<1>4. conn'[k] \in Conn /\ conn'[k].at = at /\ conn'[k].session = conn[k].session
  BY <1>2, <1>3 DEF Conn
<1>5. \A j \in Socket : j # k => conn'[j] = conn[j] BY <1>1
<1>6. conn' \in [Socket -> Conn]
  <2>1. \A j \in Socket : conn'[j] \in Conn BY <1>1, <1>4, <1>5
  <2>. QED BY <1>1, <2>1
<1>. QED BY <1>4, <1>5, <1>6

LEMMA SameWires ==
  ASSUME wire \in Wires, UNCHANGED wire
  PROVE  wire' \in Wires /\ WireShrinks
<1>1. \A k \in Socket : \A i \in 1 .. Len(wire[k]) : i + 0 = i OBVIOUS
<1>. QED BY <1>1 DEF WireShrinks, Wires

\* A step of the node that keeps the wires' order, and where its sockets and its subscription fit.
LEMMA NodeFits ==
  ASSUME FeedInv, UNCHANGED <<api, client>>, wire' \in Wires, WireShrinks,
         NodeTypes', faults' \in 0 .. MaxFaults, SubscribedInv',
         \A k \in Socket : conn'[k].at \in {"new", "asked", "checked", "refused"} => wire'[k] = <<>>
  PROVE  FeedInv'
<1>1. /\ ApiTypes' /\ PageTypes' /\ SentInv' /\ WireInv' /\ HeldInv'
      /\ CopiesInv' /\ LoadsInv' /\ StoreInv'
  BY NodeKeeps
<1>2. TypeOK' BY <1>1 DEF TypeOK
<1>3. QuietInv' BY DEF QuietInv, FeedInv, client
<1>. QED BY <1>1, <1>2, <1>3 DEF FeedInv

\* Whoever watches before and after, the subscription that is wanted stays.
LEMMA SameWatchers ==
  ASSUME FeedInv, UNCHANGED <<commands, subscribed>>,
         \A k \in Socket : conn'[k].at \in {"open", "closing"} <=> conn[k].at \in {"open", "closing"}
  PROVE  SubscribedInv'
BY DEF FeedInv, SubscribedInv, Wanted, Watchers

LEMMA CheckStep ==
  ASSUME FeedInv, NEW k \in Socket, Check(k) \/ CheckFails(k)
  PROVE  FeedInv'
<1>. USE DEF node
<1>1. NodeTypes /\ wire \in Wires /\ faults \in 0 .. MaxFaults BY DEF FeedInv, TypeOK, NodeTypes, Wires
<1>2. PICK at \in {"refused", "checked"} : conn' = [conn EXCEPT ![k].at = at]
  BY DEF Check, CheckFails
<1>3. /\ conn' \in [Socket -> Conn] /\ conn'[k].at = at
      /\ \A j \in Socket : j # k => conn'[j] = conn[j]
  BY <1>1, <1>2, MovedIs
<1>4. /\ UNCHANGED <<api, client, commands, subscribed, marked, news, heard, wire>>
      /\ faults' \in 0 .. MaxFaults /\ conn[k].at = "asked"
  BY <1>1, FeedAssumption DEF Check, CheckFails, Faulty
<1>5. wire' \in Wires /\ WireShrinks BY <1>1, <1>4, SameWires
<1>6. NodeTypes' BY <1>1, <1>3, <1>4 DEF NodeTypes, Conn
<1>7. SubscribedInv' BY <1>3, <1>4, SameWatchers
<1>8. \A j \in Socket : conn'[j].at \in {"new", "asked", "checked", "refused"} => wire'[j] = <<>>
  BY <1>3, <1>4 DEF FeedInv, QuietInv
<1>. QED BY <1>4, <1>5, <1>6, <1>7, <1>8, NodeFits

\* A command queued is what will have been done last.
LEMMA Queued ==
  ASSUME commands \in Seq({"subscribe", "unsubscribe"}), NEW c \in {"subscribe", "unsubscribe"},
         commands' = Append(commands, c)
  PROVE  /\ commands' \in Seq({"subscribe", "unsubscribe"})
         /\ Wanted' <=> c = "subscribe"
<1>1. commands' # <<>> /\ commands'[Len(commands')] = c /\ commands' \in Seq({"subscribe", "unsubscribe"})
  OBVIOUS
<1>. QED BY <1>1 DEF Wanted

LEMMA AcceptStep ==
  ASSUME FeedInv, NEW k \in Socket, Accept(k)
  PROVE  FeedInv'
<1>1. NodeTypes /\ wire \in Wires /\ faults \in 0 .. MaxFaults BY DEF FeedInv, TypeOK, NodeTypes, Wires
<1>2. /\ conn' \in [Socket -> Conn] /\ conn'[k].at = "open"
      /\ \A j \in Socket : j # k => conn'[j] = conn[j]
  BY <1>1, MovedIs DEF Accept
<1>3. UNCHANGED <<api, client, subscribed, marked, news, heard, faults>> /\ conn[k].at = "checked"
  BY DEF Accept, Admitted
<1>4. wire' \in Wires /\ WireShrinks /\ \A j \in Socket : j # k => wire'[j] = wire[j]
  <2>1. wire' = Told({k}, <<"open", 0>>) BY DEF Accept
  <2>2. /\ wire' \in Wires /\ WireShrinks
        /\ \A j \in Socket : j \notin {k} => wire'[j] = wire[j]
    BY <2>1, <1>1, ToldIs, Zenon
  <2>. QED BY <2>2, Zenon
<1>5. commands \in Seq({"subscribe", "unsubscribe"}) BY <1>1 DEF NodeTypes
<1>6. k \in Watchers' /\ Watchers' # {} BY <1>2 DEF Watchers
<1>7. commands' \in Seq({"subscribe", "unsubscribe"}) /\ Wanted'
  <2>1. CASE Watchers = {}
    <3>1. commands' = Append(commands, "subscribe") BY <2>1 DEF Accept, Watch
    <3>. QED BY <3>1, <1>5, Queued
  <2>2. CASE Watchers # {}
    <3>1. commands' = commands /\ subscribed' = subscribed BY <2>2, <1>3 DEF Accept, Watch
    <3>. QED BY <3>1, <2>2, <1>5 DEF FeedInv, SubscribedInv, Wanted
  <2>. QED BY <2>1, <2>2
<1>8. SubscribedInv' BY <1>6, <1>7 DEF SubscribedInv
<1>9. NodeTypes' BY <1>1, <1>2, <1>3, <1>4, <1>7 DEF NodeTypes, Conn, Wires
<1>10. \A j \in Socket : conn'[j].at \in {"new", "asked", "checked", "refused"} => wire'[j] = <<>>
  BY <1>2, <1>4 DEF FeedInv, QuietInv
<1>. QED BY <1>1, <1>3, <1>4, <1>8, <1>9, <1>10, NodeFits

LEMMA RefuseStep ==
  ASSUME FeedInv, NEW k \in Socket, Refuse(k)
  PROVE  FeedInv'
<1>1. NodeTypes /\ wire \in Wires /\ faults \in 0 .. MaxFaults BY DEF FeedInv, TypeOK, NodeTypes, Wires
<1>2. /\ conn' \in [Socket -> Conn] /\ conn'[k].at = "closed"
      /\ \A j \in Socket : j # k => conn'[j] = conn[j]
  BY <1>1, MovedIs DEF Refuse
<1>3. /\ UNCHANGED <<api, client, commands, subscribed, marked, news, heard, faults>>
      /\ conn[k].at \in {"refused", "checked"}
  BY DEF Refuse
<1>. DEFINE two == <<<<"open", 0>>, <<"close", 0>>>>
<1>4. two \in Seq(Messages) /\ \A i \in 1 .. Len(two) : two[i][1] # "frame"
  BY DEF Messages
<1>5. wire'[k] = two /\ \A j \in Socket : j # k => wire'[j] = wire[j]
  BY <1>1 DEF Refuse, Wires
<1>. HIDE DEF two
<1>6. wire' \in Wires BY <1>1, <1>4 DEF Refuse, Wires, two
<1>7. WireShrinks
  <2>1. \A j \in Socket : \A i \in 1 .. Len(wire'[j]) : wire'[j][i][1] = "frame" =>
          i + 0 \in 1 .. Len(wire[j]) /\ wire'[j][i] = wire[j][i + 0]
    BY <1>4, <1>5
  <2>. QED BY <2>1 DEF WireShrinks
<1>8. NodeTypes' BY <1>1, <1>2, <1>3, <1>6 DEF NodeTypes, Conn, Wires
<1>9. SubscribedInv' BY <1>2, <1>3, SameWatchers
<1>10. \A j \in Socket : conn'[j].at \in {"new", "asked", "checked", "refused"} => wire'[j] = <<>>
  BY <1>2, <1>5 DEF FeedInv, QuietInv
<1>. QED BY <1>1, <1>3, <1>6, <1>7, <1>8, <1>9, <1>10, NodeFits

LEMMA CommandStep ==
  ASSUME FeedInv, RunCommand
  PROVE  FeedInv'
<1>1. NodeTypes /\ wire \in Wires /\ faults \in 0 .. MaxFaults BY DEF FeedInv, TypeOK, NodeTypes, Wires
<1>2. UNCHANGED <<api, conn, marked, news, heard, wire, client, faults>> BY DEF RunCommand
<1>3. wire' \in Wires /\ WireShrinks BY <1>1, <1>2, SameWires
<1>4. /\ commands \in Seq({"subscribe", "unsubscribe"}) /\ commands # <<>>
      /\ commands' = Tail(commands) /\ subscribed' = (commands[1] = "subscribe")
  BY <1>1 DEF NodeTypes, RunCommand
<1>5. commands' \in Seq({"subscribe", "unsubscribe"}) BY <1>4
<1>6. Wanted' <=> Wanted
  <2>1. CASE Len(commands) = 1
    <3>1. commands' = <<>> BY <1>4, <2>1
    <3>. QED BY <2>1, <3>1, <1>4 DEF Wanted
  <2>2. CASE Len(commands) # 1
    <3>1. /\ Len(commands) \in Nat /\ Len(commands) > 1 /\ Len(commands') = Len(commands) - 1
          /\ \A i \in 1 .. Len(commands) - 1 : commands'[i] = commands[i + 1]
      <4>. DEFINE C == {"subscribe", "unsubscribe"}
      <4>1. commands \in Seq(C) /\ commands # <<>> /\ commands' = Tail(commands) BY <1>4
      <4>. HIDE DEF C
      <4>2. /\ Len(Tail(commands)) = Len(commands) - 1 /\ Len(commands) \in Nat \ {0}
            /\ \A i \in 1 .. Len(commands) - 1 : Tail(commands)[i] = commands[i + 1]
        BY <4>1, OneLess
      <4>. QED BY <4>1, <4>2, <2>2
    <3>2. commands' # <<>> /\ commands'[Len(commands')] = commands[Len(commands)] BY <3>1
    <3>. QED BY <3>2, <1>4 DEF Wanted
  <2>. QED BY <2>1, <2>2
<1>7. Watchers' = Watchers BY <1>2 DEF Watchers
<1>8. SubscribedInv' BY <1>6, <1>7 DEF SubscribedInv, FeedInv
<1>9. NodeTypes' BY <1>1, <1>2, <1>4, <1>5 DEF NodeTypes
<1>10. \A k \in Socket : conn'[k].at \in {"new", "asked", "checked", "refused"} => wire'[k] = <<>>
  BY <1>2 DEF FeedInv, QuietInv
<1>. QED BY <1>1, <1>2, <1>3, <1>8, <1>9, <1>10, NodeFits

LEMMA RevokeStep ==
  ASSUME FeedInv, NEW s \in news, HearRevoked(s)
  PROVE  /\ FeedInv'
         /\ \A k \in Socket : /\ conn'[k].session = conn[k].session
                              /\ conn'[k].at = IF k \in Open({s}) THEN "closing" ELSE conn[k].at
<1>1. NodeTypes /\ wire \in Wires /\ faults \in 0 .. MaxFaults BY DEF FeedInv, TypeOK, NodeTypes, Wires
<1>2. conn \in [Socket -> Conn] BY <1>1 DEF NodeTypes, Conn
<1>3. UNCHANGED <<api, commands, subscribed, marked, client, faults>> BY DEF HearRevoked
<1>4. wire' \in Wires /\ WireShrinks /\ \A k \in Socket : k \notin Open({s}) => wire'[k] = wire[k]
  <2>1. wire' = Told(Open({s}), <<"close", 0>>) BY DEF HearRevoked, Closing
  <2>. QED BY <2>1, <1>1, ToldIs, Zenon
<1>5. \A k \in Socket : /\ conn'[k] \in Conn /\ conn'[k].session = conn[k].session
                        /\ conn'[k].at = IF k \in Open({s}) THEN "closing" ELSE conn[k].at
  <2>. SUFFICES ASSUME NEW k \in Socket
                PROVE  /\ conn'[k] \in Conn /\ conn'[k].session = conn[k].session
                       /\ conn'[k].at = IF k \in Open({s}) THEN "closing" ELSE conn[k].at
    OBVIOUS
  <2>1. conn'[k] = IF k \in Open({s}) THEN [conn[k] EXCEPT !.at = "closing"] ELSE conn[k]
    BY DEF HearRevoked, Closing
  <2>2. conn[k] \in Conn BY <1>2
  <2>. QED BY <2>1, <2>2 DEF Conn
<1>6. conn' \in [Socket -> Conn]
  <2>1. conn' = [k \in Socket |-> conn'[k]] BY DEF HearRevoked, Closing
  <2>. QED BY <1>5, <2>1
<1>7. \A k \in Socket : k \in Open({s}) => conn[k].at = "open" BY DEF Open
<1>8. NodeTypes'
  <2>1. news' \subseteq marked' /\ heard' \subseteq marked' /\ marked' = marked
    BY <1>1, <1>3 DEF HearRevoked, NodeTypes
  <2>. QED BY <1>1, <1>3, <1>4, <1>6, <2>1 DEF NodeTypes, Conn, Wires
<1>9. SubscribedInv' BY <1>3, <1>5, <1>7, SameWatchers
<1>10. \A k \in Socket : conn'[k].at \in {"new", "asked", "checked", "refused"} => wire'[k] = <<>>
  BY <1>4, <1>5 DEF FeedInv, QuietInv
<1>. QED BY <1>1, <1>3, <1>4, <1>5, <1>8, <1>9, <1>10, NodeFits

LEMMA LostStep ==
  ASSUME FeedInv, NEW s \in news, RevocationLost(s)
  PROVE  FeedInv'
<1>1. NodeTypes /\ wire \in Wires /\ faults \in 0 .. MaxFaults BY DEF FeedInv, TypeOK, NodeTypes, Wires
<1>2. /\ UNCHANGED <<api, conn, commands, subscribed, marked, heard, wire, client>>
      /\ news' = news \ {s} /\ faults' \in 0 .. MaxFaults
  BY <1>1, FeedAssumption DEF RevocationLost, Faulty
<1>3. wire' \in Wires /\ WireShrinks BY <1>1, <1>2, SameWires
<1>4. NodeTypes' BY <1>1, <1>2 DEF NodeTypes
<1>5. SubscribedInv' BY <1>2, SameWatchers
<1>6. \A k \in Socket : conn'[k].at \in {"new", "asked", "checked", "refused"} => wire'[k] = <<>>
  BY <1>2 DEF FeedInv, QuietInv
<1>. QED BY <1>2, <1>3, <1>4, <1>5, <1>6, NodeFits

LEMMA GoneStep ==
  ASSUME FeedInv, NEW k \in Socket, Gone(k)
  PROVE  FeedInv'
<1>1. NodeTypes /\ wire \in Wires /\ faults \in 0 .. MaxFaults BY DEF FeedInv, TypeOK, NodeTypes, Wires
<1>2. /\ conn' \in [Socket -> Conn] /\ conn'[k].at = "closed"
      /\ \A j \in Socket : j # k => conn'[j] = conn[j]
  BY <1>1, MovedIs DEF Gone
<1>3. UNCHANGED <<api, subscribed, marked, news, heard, wire, client, faults>> BY DEF Gone
<1>4. wire' \in Wires /\ WireShrinks BY <1>1, <1>3, SameWires
<1>5. commands \in Seq({"subscribe", "unsubscribe"}) BY <1>1 DEF NodeTypes
<1>6. k \in Watchers /\ Watchers' = Watchers \ {k} BY <1>2 DEF Watchers, Gone
<1>7. commands' \in Seq({"subscribe", "unsubscribe"}) /\ SubscribedInv'
  <2>1. CASE Watchers = {k}
    <3>1. commands' = Append(commands, "unsubscribe") BY <2>1 DEF Gone, Unwatch
    <3>2. Watchers' = {} BY <1>6, <2>1
    <3>. QED BY <3>1, <3>2, <1>5, Queued DEF SubscribedInv
  <2>2. CASE Watchers # {k}
    <3>1. commands' = commands /\ subscribed' = subscribed BY <2>2, <1>3 DEF Gone, Unwatch
    <3>2. Watchers' # {} BY <1>6, <2>2
    <3>. QED BY <3>1, <3>2, <1>5, <1>6 DEF FeedInv, SubscribedInv, Wanted
  <2>. QED BY <2>1, <2>2
<1>8. NodeTypes' BY <1>1, <1>2, <1>3, <1>7 DEF NodeTypes, Conn
<1>9. \A j \in Socket : conn'[j].at \in {"new", "asked", "checked", "refused"} => wire'[j] = <<>>
  BY <1>2, <1>3 DEF FeedInv, QuietInv
<1>. QED BY <1>1, <1>3, <1>4, <1>7, <1>8, <1>9, NodeFits

-----------------------------------------------------------------------------
(* The API process.                                                         *)

LEMMA FeedLogged ==
  ASSUME FeedInv
  PROVE  Logged /\ Len(log) \in Nat /\ LoadedAt \in Nat /\ store \in Stores(FramesNow)
BY FeedAssumption DEF FeedInv, TypeOK, ApiTypes, PageTypes, SentInv, Logged, FramesNow

\* The oldest frame goes, and to some of the open sockets.
LEMMA PublishStep ==
  ASSUME FeedInv, Publish \/ PublishFails
  PROVE  FeedInv'
<1>1. /\ ApiTypes /\ NodeTypes /\ PageTypes /\ wire \in Wires /\ faults \in 0 .. MaxFaults
      /\ SentInv /\ WireInv /\ HeldInv /\ StoreInv
  BY DEF FeedInv, TypeOK, NodeTypes, Wires
<1>2. sending # <<>> /\ sending' = Tail(sending) /\ UNCHANGED <<log, replies, node, client>>
  BY DEF Publish, PublishFails
<1>3. faults' \in 0 .. MaxFaults
  BY <1>1, FeedAssumption DEF Publish, PublishFails, Faulty
<1>. DEFINE first == sending[1]  m == <<"frame", first>>
<1>4. /\ sending' \in Seq(Numbers) /\ Len(sending') = Len(sending) - 1 /\ Len(sending) \in Nat \ {0}
      /\ \A i \in 1 .. Len(sending) - 1 : sending'[i] = sending[i + 1]
      /\ Head(sending) = first /\ first \in Numbers
  BY <1>1, <1>2, OneLess DEF SentInv
<1>5. first \in 1 .. Len(log) /\ Len(log) <= MaxCommits /\ first \in 1 .. MaxCommits
  BY <1>1, <1>4, FeedLogged, FeedAssumption DEF Numbers, ApiTypes
<1>6. m \in Messages BY <1>5 DEF Messages
<1>. DEFINE SentTo(S) == /\ \A k \in S : k \in Socket /\ conn[k].at = "open"
                         /\ wire' = [k \in Socket |-> IF k \in S THEN Append(wire[k], m) ELSE wire[k]]
<1>7. PICK sockets : SentTo(sockets)
  <2>1. CASE Publish /\ subscribed
    <3>1. wire' = Told(Open(1 .. MaxSignIns), m) BY <1>4, <2>1 DEF Publish
    <3>2. \A k \in Open(1 .. MaxSignIns) : k \in Socket /\ conn[k].at = "open" BY DEF Open
    <3>3. SentTo(Open(1 .. MaxSignIns)) BY <3>1, <3>2 DEF Told
    <3>. HIDE DEF SentTo
    <3>. QED BY <3>3
  <2>2. CASE ~(Publish /\ subscribed)
    <3>1. wire' = wire BY <2>2 DEF Publish, PublishFails
    <3>2. wire' = [k \in Socket |-> IF k \in {} THEN Append(wire[k], m) ELSE wire[k]]
      BY <1>1, <3>1 DEF Wires
    <3>3. SentTo({}) BY <3>2
    <3>. HIDE DEF SentTo
    <3>. QED BY <3>3
  <2>. QED BY <2>1, <2>2
<1>. HIDE DEF m
<1>8. \A k \in Socket :
        /\ wire'[k] \in Seq(Messages) /\ Len(wire[k]) \in Nat
        /\ k \notin sockets => wire'[k] = wire[k]
        /\ k \in sockets => /\ Len(wire'[k]) = Len(wire[k]) + 1 /\ wire'[k][Len(wire[k]) + 1] = m
                            /\ \A i \in 1 .. Len(wire[k]) : wire'[k][i] = wire[k][i]
  BY <1>1, <1>6, <1>7, OneMore DEF Wires
<1>9. wire' \in Wires BY <1>7, <1>8 DEF Wires
<1>10. ASSUME NEW k \in Socket, NEW i \in 1 .. Len(wire'[k])
       PROVE  \/ i \in 1 .. Len(wire[k]) /\ wire'[k][i] = wire[k][i]
              \/ i = Len(wire[k]) + 1 /\ wire'[k][i] = m
  BY <1>8
<1>11. m[1] = "frame" /\ m[2] = first BY DEF m
<1>12. ApiTypes' BY <1>1, <1>2, <1>4 DEF ApiTypes
<1>13. NodeTypes' BY <1>1, <1>2, <1>9 DEF NodeTypes, node, Wires
<1>14. PageTypes' BY <1>1, <1>2 DEF PageTypes, client, Frame
<1>15. SubscribedInv' /\ CopiesInv' /\ LoadsInv'
  BY <1>2 DEF FeedInv, SubscribedInv, Wanted, Watchers, CopiesInv, LoadsInv, GoodAnswer, GoodCopy, node, client
<1>16. QuietInv' BY <1>2, <1>7, <1>8 DEF FeedInv, QuietInv, node, client
<1>17. SentInv' BY <1>1, <1>2, <1>4 DEF SentInv, Numbers
<1>18. WireInv'
  <2>. SUFFICES ASSUME NEW k \in Socket, NEW i \in 1 .. Len(wire'[k]), wire'[k][i][1] = "frame"
                PROVE  /\ wire'[k][i][2] \in Numbers
                       /\ \A j \in 1 .. Len(sending') : wire'[k][i][2] < sending'[j]
                       /\ \A j \in 1 .. Len(wire'[k]) :
                            i < j /\ wire'[k][j][1] = "frame" => wire'[k][i][2] < wire'[k][j][2]
    BY <1>2 DEF WireInv, Numbers
  <2>1. CASE i \in 1 .. Len(wire[k]) /\ wire'[k][i] = wire[k][i]
    <3>1. /\ wire[k][i][2] \in Numbers
          /\ \A j \in 1 .. Len(sending) : wire[k][i][2] < sending[j]
          /\ \A j \in 1 .. Len(wire[k]) :
               i < j /\ wire[k][j][1] = "frame" => wire[k][i][2] < wire[k][j][2]
      BY <1>1, <2>1 DEF WireInv
    <3>2. \A j \in 1 .. Len(sending') : wire[k][i][2] < sending'[j] BY <1>4, <3>1
    <3>3. wire[k][i][2] < first BY <1>4, <3>1
    <3>. QED BY <1>10, <1>11, <2>1, <3>1, <3>2, <3>3
  <2>2. CASE i = Len(wire[k]) + 1 /\ wire'[k][i] = m
    <3>1. \A j \in 1 .. Len(sending') : first < sending'[j] BY <1>1, <1>4 DEF SentInv
    <3>2. \A j \in 1 .. Len(wire'[k]) : ~(i < j) BY <1>8, <1>10, <2>2
    <3>. QED BY <1>4, <1>11, <2>2, <3>1, <3>2
  <2>. QED BY <1>10, <2>1, <2>2
<1>19. ASSUME NEW k \in Socket, NEW n, OnWire(k, n)' PROVE OnWire(k, n) \/ n = first
  <2>1. PICK i \in 1 .. Len(wire'[k]) : wire'[k][i] = <<"frame", n>> BY <1>19 DEF OnWire
  <2>2. CASE i \in 1 .. Len(wire[k]) /\ wire'[k][i] = wire[k][i] BY <2>1, <2>2 DEF OnWire
  <2>3. CASE wire'[k][i] = m BY <2>1, <2>3 DEF m
  <2>. QED BY <1>10, <2>2, <2>3
<1>20. mine \in {0} \cup Socket /\ mine' = mine /\ store' = store /\ log' = log
  BY <1>1, <1>2 DEF PageTypes, client
<1>21. HeldInv'
  <2>. SUFFICES ASSUME store.held # None, NEW i \in 1 .. Len(store.held)
                PROVE  /\ store.held[i].seq \in Numbers
                       /\ \A j \in 1 .. Len(store.held) : i < j => store.held[i].seq < store.held[j].seq
                       /\ \A j \in 1 .. Len(sending') : store.held[i].seq < sending'[j]
                       /\ mine # 0 => \A n \in Numbers : OnWire(mine, n)' => store.held[i].seq < n
    BY <1>20 DEF HeldInv, Numbers, OnWire
  <2>1. /\ store.held[i].seq \in Numbers
        /\ \A j \in 1 .. Len(store.held) : i < j => store.held[i].seq < store.held[j].seq
        /\ \A j \in 1 .. Len(sending) : store.held[i].seq < sending[j]
        /\ mine # 0 => \A n \in Numbers : OnWire(mine, n) => store.held[i].seq < n
    BY <1>1 DEF HeldInv
  <2>2. \A j \in 1 .. Len(sending') : store.held[i].seq < sending'[j] BY <1>4, <2>1
  <2>3. store.held[i].seq < first BY <1>4, <2>1
  <2>. QED BY <1>19, <1>20, <2>1, <2>2, <2>3
<1>22. ASSUME NEW n, ToCome(n)' PROVE ToCome(n)
  <2>1. CASE mine # 0 /\ OnWire(mine, n)'
    <3>1. OnWire(mine, n) \/ n = first BY <1>19, <1>20, <2>1
    <3>. QED BY <1>4, <2>1, <3>1 DEF ToCome
  <2>2. CASE \E j \in 1 .. Len(sending') : sending'[j] = n
    BY <1>4, <2>2 DEF ToCome
  <2>. QED BY <1>20, <1>22, <2>1, <2>2 DEF ToCome
<1>23. StoreInv' BY <1>1, <1>2, <1>22 DEF StoreInv, Kept, client
<1>. QED BY <1>3, <1>12, <1>13, <1>14, <1>15, <1>16, <1>17, <1>18, <1>21, <1>23 DEF FeedInv, TypeOK

LEMMA StoresGrow ==
  ASSUME NEW F, NEW G, F \subseteq G
  PROVE  Stores(F) \subseteq Stores(G)
<1>1. Seq(F) \subseteq Seq(G)
  <2>. SUFFICES ASSUME NEW s \in Seq(F) PROVE s \in Seq(G) OBVIOUS
  <2>1. s \in [1 .. Len(s) -> G] /\ Len(s) \in Nat OBVIOUS
  <2>. QED BY <2>1
<1>. QED BY <1>1 DEF Stores

\* What was committed stays, and what was said of it.
LEMMA CommitStep ==
  ASSUME FeedInv, NEW changed \in (SUBSET Order) \ {{}}, Commit(changed)
  PROVE  FeedInv'
<1>1. /\ ApiTypes /\ NodeTypes /\ PageTypes /\ faults \in 0 .. MaxFaults
      /\ SentInv /\ WireInv /\ HeldInv /\ CopiesInv /\ LoadsInv /\ StoreInv
  BY DEF FeedInv, TypeOK
<1>. DEFINE new == Len(log) + 1
<1>2. UNCHANGED <<node, wire, client, faults>> BY DEF Commit
<1>3. /\ Len(log) \in Nat /\ log' \in Seq(SUBSET Order) /\ Len(log') = new /\ log'[new] = changed
      /\ \A n \in 1 .. Len(log) : log'[n] = log[n]
  <2>1. log \in Seq(SUBSET Order) /\ log' = Append(log, changed) BY <1>1 DEF Commit, ApiTypes
  <2>. QED BY <2>1
<1>4. new \in Nat /\ new <= MaxCommits /\ LoadedAt \in Nat /\ LoadedAt <= Len(log) /\ MaxCommits \in Nat
  BY <1>1, <1>3, FeedAssumption DEF Commit, SentInv
<1>5. /\ sending' \in Seq(LoadedAt + 1 .. new) /\ Len(sending') = Len(sending) + 1 /\ Len(sending) \in Nat
      /\ sending'[Len(sending) + 1] = new
      /\ \A i \in 1 .. Len(sending) : sending'[i] = sending[i] /\ sending[i] \in LoadedAt + 1 .. Len(log)
  <2>1. sending \in Seq(LoadedAt + 1 .. Len(log)) BY <1>1 DEF SentInv, Numbers
  <2>2. sending \in Seq(LoadedAt + 1 .. new) /\ new \in LoadedAt + 1 .. new
    <3>1. sending \in [1 .. Len(sending) -> LoadedAt + 1 .. new] /\ Len(sending) \in Nat
      BY <2>1, <1>3, <1>4
    <3>. QED BY <3>1, <1>4
  <2>3. sending' = Append(sending, new) BY <1>3 DEF Commit
  <2>. HIDE DEF new
  <2>4. \A i \in 1 .. Len(sending) : sending[i] \in LoadedAt + 1 .. Len(log) BY <2>1, SeqElements
  <2>5. Len(sending) \in Nat BY <2>1
  <2>. DEFINE S == LoadedAt + 1 .. new
  <2>6. sending \in Seq(S) /\ new \in S BY <2>2
  <2>7. /\ sending' \in Seq(S) /\ Len(sending') = Len(sending) + 1
        /\ \A i \in 1 .. Len(sending) : sending'[i] = sending[i]
        /\ sending'[Len(sending) + 1] = new
    <3>. HIDE DEF S
    <3>. QED BY <2>3, <2>6, OneMore
  <2>. QED BY <2>4, <2>5, <2>7
<1>6. \A r \in replies' : r \in replies \/ \E o \in changed : r = [order |-> o, at |-> new]
  <2>1. CASE UNCHANGED replies BY <2>1
  <2>2. CASE \E o \in changed : replies' = replies \cup {[order |-> o, at |-> Len(log')]}
    BY <1>3, <2>2
  <2>. QED BY <2>1, <2>2 DEF Commit
<1>. HIDE DEF new
<1>7. Numbers' = LoadedAt + 1 .. new /\ Numbers = LoadedAt + 1 .. Len(log) BY <1>3 DEF Numbers
<1>8. \A n \in 1 .. Len(log) : n \in 1 .. new /\ n < new BY <1>3, <1>4 DEF new
<1>9. \A n \in Numbers : n \in Numbers' /\ n \in 1 .. Len(log) /\ log'[n] = log[n] /\ n < new /\ n \in Nat
  BY <1>3, <1>4, <1>7 DEF new
<1>10. ApiTypes'
  <2>1. sending' \in Seq(1 .. MaxCommits)
    <3>1. \A x \in LoadedAt + 1 .. new : x \in 1 .. MaxCommits BY <1>4
    <3>2. \A i \in 1 .. Len(sending') : sending'[i] \in LoadedAt + 1 .. new BY <1>5, SeqElements
    <3>3. \A i \in 1 .. Len(sending') : sending'[i] \in 1 .. MaxCommits BY <3>1, <3>2
    <3>. QED BY <1>5, <3>3, SeqTyped
  <2>2. \A r \in replies' : r \in [order : Order, at : 1 .. MaxCommits]
    BY <1>1, <1>3, <1>4, <1>6 DEF ApiTypes, new
  <2>. QED BY <1>3, <1>4, <2>1, <2>2 DEF ApiTypes
<1>11. NodeTypes' BY <1>1, <1>2 DEF NodeTypes, node
<1>12. PageTypes'
  <2>1. FramesNow \subseteq FramesNow'
    <3>. SUFFICES ASSUME NEW n \in 1 .. Len(log) PROVE Frame(n) \in FramesNow'
      BY DEF FramesNow
    <3>1. Frame(n)' = Frame(n) BY <1>3 DEF Frame
    <3>2. n \in 1 .. Len(log') BY <1>3, <1>8
    <3>. QED BY <3>1, <3>2 DEF FramesNow
  <2>2. store \in Stores(FramesNow') BY <1>1, <2>1, StoresGrow DEF PageTypes, FramesNow
  <2>. QED BY <1>1, <1>2, <2>2 DEF PageTypes, client, FramesNow
<1>13. SubscribedInv' /\ QuietInv'
  BY <1>2 DEF FeedInv, SubscribedInv, Wanted, Watchers, QuietInv, node, client
<1>14. SentInv'
  <2>1. \A n \in 1 .. new : log'[n] # {}
    <3>. SUFFICES ASSUME NEW n \in 1 .. new PROVE log'[n] # {} OBVIOUS
    <3>1. n = new \/ n \in 1 .. Len(log) BY <1>3 DEF new
    <3>. QED BY <1>1, <1>3, <3>1 DEF SentInv
  <2>2. \A i, j \in 1 .. Len(sending') : i < j => sending'[i] < sending'[j]
    <3>. SUFFICES ASSUME NEW i \in 1 .. Len(sending'), NEW j \in 1 .. Len(sending'), i < j
                  PROVE  sending'[i] < sending'[j]
      OBVIOUS
    <3>1. i \in 1 .. Len(sending) BY <1>5
    <3>2. CASE j \in 1 .. Len(sending) BY <1>1, <1>5, <3>1, <3>2 DEF SentInv
    <3>3. CASE j = Len(sending) + 1
      <4>1. sending'[i] \in Numbers /\ sending'[j] = new BY <1>5, <1>7, <3>1, <3>3
      <4>. QED BY <4>1, <1>9
    <3>. QED BY <1>5, <3>2, <3>3
  <2>3. ASSUME NEW r \in replies' PROVE r.at \in Numbers' /\ r.order \in log'[r.at]
    <3>1. CASE r \in replies BY <1>1, <1>9, <3>1 DEF SentInv
    <3>2. CASE \E o \in changed : r = [order |-> o, at |-> new]
      <4>1. r.at = new /\ r.order \in changed BY <3>2
      <4>. QED BY <4>1, <1>3, <1>4, <1>7 DEF new
    <3>. QED BY <1>6, <3>1, <3>2
  <2>. QED BY <1>3, <1>4, <1>5, <1>7, <2>1, <2>2, <2>3 DEF SentInv, new
<1>15. ASSUME NEW x \in Numbers, \A j \in 1 .. Len(sending) : x < sending[j]
       PROVE  \A j \in 1 .. Len(sending') : x < sending'[j]
  <2>. SUFFICES ASSUME NEW j \in 1 .. Len(sending') PROVE x < sending'[j] OBVIOUS
  <2>1. CASE j \in 1 .. Len(sending) BY <1>5, <1>15, <2>1
  <2>2. CASE j = Len(sending) + 1 BY <1>5, <1>9, <2>2
  <2>. QED BY <1>5, <2>1, <2>2
<1>16. wire' = wire /\ store' = store /\ mine' = mine /\ loads' = loads /\ seen' = seen /\ dropped' = dropped
  BY <1>2 DEF client
<1>17. WireInv'
  <2>. SUFFICES ASSUME NEW k \in Socket, NEW i \in 1 .. Len(wire[k]), wire[k][i][1] = "frame"
                PROVE  /\ wire[k][i][2] \in Numbers'
                       /\ \A j \in 1 .. Len(sending') : wire[k][i][2] < sending'[j]
                       /\ \A j \in 1 .. Len(wire[k]) :
                            i < j /\ wire[k][j][1] = "frame" => wire[k][i][2] < wire[k][j][2]
    BY <1>16 DEF WireInv
  <2>1. /\ wire[k][i][2] \in Numbers
        /\ \A j \in 1 .. Len(sending) : wire[k][i][2] < sending[j]
        /\ \A j \in 1 .. Len(wire[k]) :
             i < j /\ wire[k][j][1] = "frame" => wire[k][i][2] < wire[k][j][2]
    BY <1>1 DEF WireInv
  <2>. QED BY <2>1, <1>9, <1>15
<1>18. mine \in {0} \cup Socket BY <1>1 DEF PageTypes
<1>19. ASSUME NEW n, mine # 0, OnWire(mine, n) PROVE n \in Numbers
  <2>1. PICK i \in 1 .. Len(wire[mine]) : wire[mine][i] = <<"frame", n>> BY <1>19 DEF OnWire
  <2>2. wire[mine][i][1] = "frame" /\ wire[mine][i][2] = n BY <2>1
  <2>. QED BY <1>1, <1>18, <1>19, <2>2 DEF WireInv
<1>20. HeldInv'
  <2>. SUFFICES ASSUME store.held # None, NEW i \in 1 .. Len(store.held)
                PROVE  /\ store.held[i].seq \in Numbers'
                       /\ \A j \in 1 .. Len(store.held) : i < j => store.held[i].seq < store.held[j].seq
                       /\ \A j \in 1 .. Len(sending') : store.held[i].seq < sending'[j]
                       /\ mine # 0 => \A n \in Numbers' : OnWire(mine, n) => store.held[i].seq < n
    BY <1>16 DEF HeldInv, OnWire
  <2>1. /\ store.held[i].seq \in Numbers
        /\ \A j \in 1 .. Len(store.held) : i < j => store.held[i].seq < store.held[j].seq
        /\ \A j \in 1 .. Len(sending) : store.held[i].seq < sending[j]
        /\ mine # 0 => \A n \in Numbers : OnWire(mine, n) => store.held[i].seq < n
    BY <1>1 DEF HeldInv
  <2>. QED BY <2>1, <1>9, <1>15, <1>19
<1>21. ASSUME NEW o \in Order, NEW c, GoodCopy(o, c) PROVE GoodCopy(o, c)'
  BY <1>3, <1>8, <1>21 DEF GoodCopy
<1>22. ASSUME NEW a \in Snapshots, GoodAnswer(a) PROVE GoodAnswer(a)'
  <2>1. a.seq \in Nat /\ a.seq <= Len(log) /\ \A o \in Order : GoodCopy(o, a.orders[o])'
    BY <1>21, <1>22 DEF GoodAnswer, Snapshots
  <2>2. \A n \in 1 .. a.seq : n \in 1 .. Len(log) /\ log'[n] = log[n] BY <1>3, <2>1
  <2>3. a.seq <= Len(log') BY <1>3, <2>1 DEF new
  <2>. QED BY <2>1, <2>2, <2>3, <1>22 DEF GoodAnswer
<1>23. store.seq \in Nat /\ store.seq <= Len(log) /\ store.orders \in [Order -> {None} \cup Copies]
       /\ (store.held # None => store.held \in Seq(FramesNow))
  BY <1>1, FeedLogged DEF CopiesInv, Stores
<1>24. CopiesInv'
  <2>1. \A o \in Order : GoodCopy(o, store.orders[o])' BY <1>1, <1>16, <1>21 DEF CopiesInv
  <2>2. ASSUME NEW o \in Order, seen[o] > 0
        PROVE  seen[o] <= Len(log') /\ \E n \in seen[o] .. Len(log') : o \in log'[n]
    <3>1. seen[o] \in Nat /\ seen[o] <= Len(log) BY <1>1, <2>2 DEF CopiesInv, PageTypes
    <3>2. PICK n \in seen[o] .. Len(log) : o \in log[n] BY <1>1, <2>2 DEF CopiesInv
    <3>3. n \in 1 .. Len(log) /\ n \in seen[o] .. Len(log') BY <1>3, <2>2, <3>1 DEF new
    <3>. QED BY <1>3, <3>1, <3>2, <3>3 DEF new
  <2>3. store.seq <= Len(log') BY <1>3, <1>23 DEF new
  <2>. QED BY <2>1, <2>2, <2>3, <1>16 DEF CopiesInv
<1>25. LoadsInv'
  <2>1. \A l \in loads : l.answer # None => GoodAnswer(l.answer)'
    BY <1>1, <1>22 DEF LoadsInv, PageTypes
  <2>. QED BY <1>1, <1>16, <2>1 DEF LoadsInv
<1>26. StoreInv'
  <2>1. ASSUME NEW n \in 1 .. store.seq, ToCome(n)'
        PROVE  \A o \in log'[n] : At(store.orders[o]) >= n
    <3>1. n \in 1 .. Len(log) /\ n < new BY <1>8, <1>23
    <3>2. ToCome(n) BY <1>5, <1>16, <2>1, <3>1 DEF ToCome, OnWire
    <3>. QED BY <1>1, <1>3, <3>1, <3>2 DEF StoreInv
  <2>2. ASSUME NEW l \in loads, l.epoch = store.epoch, l.answer # None, NEW o \in Order
        PROVE  Kept(l.answer, o)'
    <3>1. store.held # None BY <1>1, <2>2 DEF LoadsInv, PageTypes
    <3>2. \A i \in 1 .. Len(store.held) : log'[store.held[i].seq] = log[store.held[i].seq]
      BY <1>1, <1>9, <3>1 DEF HeldInv
    <3>3. Kept(l.answer, o) BY <1>1, <2>2 DEF StoreInv
    <3>. QED BY <1>16, <3>2, <3>3 DEF Kept
  <2>. QED BY <1>1, <1>16, <2>1, <2>2 DEF StoreInv
<1>. QED BY <1>1, <1>2, <1>10, <1>11, <1>12, <1>13, <1>14, <1>17, <1>20, <1>24, <1>25, <1>26 DEF FeedInv, TypeOK

-----------------------------------------------------------------------------
(* The page.                                                                *)

\* A message is taken off the page's socket; the frames after a frame are of later commits.
LEMMA ArrivesIs ==
  ASSUME FeedInv, NEW m, Arrives(m)
  PROVE  /\ OnWire(mine, m[2]) \/ m[1] # "frame"
         /\ mine \in Socket /\ wire' \in Wires /\ WireShrinks /\ m \in Messages
         /\ \A k \in Socket : wire[k] = <<>> => wire'[k] = <<>>
         /\ m[1] = "frame" => \A x : OnWire(mine, x) => x = m[2] \/ m[2] < x
         /\ m[1] = "frame" => \A i \in 1 .. Len(wire'[mine]) : wire'[mine][i][1] = "frame" => m[2] < wire'[mine][i][2]
<1>1. wire \in Wires /\ WireInv /\ mine \in {0} \cup Socket
  BY DEF FeedInv, TypeOK, NodeTypes, PageTypes, Wires
<1>2. /\ mine \in Socket /\ wire[mine] # <<>> /\ Head(wire[mine]) = m
      /\ wire' = [wire EXCEPT ![mine] = Tail(@)]
  BY <1>1 DEF Arrives
<1>3. wire[mine] \in Seq(Messages) BY <1>1, <1>2 DEF Wires
<1>4. /\ Tail(wire[mine]) \in Seq(Messages) /\ Len(Tail(wire[mine])) = Len(wire[mine]) - 1
      /\ \A i \in 1 .. Len(wire[mine]) - 1 : Tail(wire[mine])[i] = wire[mine][i + 1]
      /\ Head(wire[mine]) = wire[mine][1] /\ m \in Messages /\ Len(wire[mine]) \in Nat \ {0}
  BY <1>2, <1>3, OneLess
<1>5. wire'[mine] = Tail(wire[mine]) /\ \A k \in Socket : k # mine => wire'[k] = wire[k]
  BY <1>1, <1>2 DEF Wires
<1>6. wire' \in Wires BY <1>1, <1>2, <1>4 DEF Wires
<1>7. WireShrinks
  <2>. SUFFICES ASSUME NEW k \in Socket
                PROVE  \E d \in {0, 1} : \A i \in 1 .. Len(wire'[k]) : wire'[k][i][1] = "frame" =>
                         i + d \in 1 .. Len(wire[k]) /\ wire'[k][i] = wire[k][i + d]
    BY DEF WireShrinks
  <2>1. CASE k = mine
    <3>1. \A i \in 1 .. Len(wire'[k]) : i + 1 \in 1 .. Len(wire[k]) /\ wire'[k][i] = wire[k][i + 1]
      <4>. DEFINE old == wire[mine]  tail == Tail(old)
      <4>1. wire[k] = old /\ wire'[k] = tail BY <1>5, <2>1
      <4>2. /\ Len(tail) = Len(old) - 1 /\ Len(old) \in Nat \ {0}
            /\ \A i \in 1 .. Len(old) - 1 : tail[i] = old[i + 1]
        BY <1>4
      <4>. HIDE DEF old, tail
      <4>3. \A i \in 1 .. Len(tail) : i + 1 \in 1 .. Len(old) /\ tail[i] = old[i + 1] BY <4>2
      <4>. QED BY <4>1, <4>3
    <3>. QED BY <3>1
  <2>2. CASE k # mine
    <3>1. \A i \in 1 .. Len(wire'[k]) : i + 0 \in 1 .. Len(wire[k]) /\ wire'[k][i] = wire[k][i + 0]
      BY <1>5, <2>2
    <3>. QED BY <3>1
  <2>. QED BY <2>1, <2>2
<1>8. ASSUME m[1] = "frame" PROVE m = <<"frame", m[2]>>
  BY <1>4, <1>8 DEF Messages
<1>9. m[1] = "frame" => OnWire(mine, m[2]) BY <1>2, <1>4, <1>8 DEF OnWire
<1>10. ASSUME m[1] = "frame"
       PROVE  \A j \in 2 .. Len(wire[mine]) : wire[mine][j][1] = "frame" => m[2] < wire[mine][j][2]
  <2>1. 1 \in 1 .. Len(wire[mine]) /\ wire[mine][1] = m BY <1>2, <1>4
  <2>2. \A j \in 1 .. Len(wire[mine]) : 1 < j /\ wire[mine][j][1] = "frame" => wire[mine][1][2] < wire[mine][j][2]
    BY <1>1, <1>2, <1>10, <2>1 DEF WireInv
  <2>. QED BY <2>1, <2>2
<1>11. ASSUME m[1] = "frame", NEW x, OnWire(mine, x) PROVE x = m[2] \/ m[2] < x
  <2>1. PICK j \in 1 .. Len(wire[mine]) : wire[mine][j] = <<"frame", x>> BY <1>11 DEF OnWire
  <2>2. wire[mine][j][1] = "frame" /\ wire[mine][j][2] = x BY <2>1
  <2>. QED BY <1>2, <1>4, <1>10, <1>11, <2>2
<1>12. ASSUME m[1] = "frame", NEW i \in 1 .. Len(wire'[mine]), wire'[mine][i][1] = "frame"
       PROVE  m[2] < wire'[mine][i][2]
  <2>1. i + 1 \in 2 .. Len(wire[mine]) /\ wire'[mine][i] = wire[mine][i + 1] BY <1>4, <1>5
  <2>. QED BY <2>1, <1>10, <1>12
<1>13. \A k \in Socket : wire[k] = <<>> => wire'[k] = <<>> BY <1>2, <1>5
<1>. QED BY <1>2, <1>4, <1>6, <1>7, <1>9, <1>11, <1>12, <1>13

\* The parts a step of the page has still to keep.
LEMMA PageFits ==
  ASSUME FeedInv, UNCHANGED <<log, sending, node>>, replies' \subseteq replies,
         wire' \in Wires, WireShrinks, \A k \in Socket : wire[k] = <<>> => wire'[k] = <<>>,
         faults' \in 0 .. MaxFaults, PageTypes', HeldInv', CopiesInv', LoadsInv', StoreInv',
         store'.epoch \in 1 .. MaxSignIns + 1, store'.status # "idle" => store'.epoch <= MaxSignIns
  PROVE  FeedInv'
<1>. USE DEF node
<1>1. wire \in Wires BY DEF FeedInv, TypeOK, NodeTypes, Wires
<1>2. WireInv' BY <1>1, Shrunk DEF FeedInv
<1>3. ApiTypes' BY DEF FeedInv, TypeOK, ApiTypes
<1>4. NodeTypes' BY DEF FeedInv, TypeOK, NodeTypes, Wires
<1>5. SubscribedInv' BY DEF FeedInv, SubscribedInv, Wanted, Watchers
<1>6. QuietInv' BY DEF FeedInv, QuietInv
<1>7. SentInv' BY DEF FeedInv, SentInv, Numbers
<1>. QED BY <1>2, <1>3, <1>4, <1>5, <1>6, <1>7 DEF FeedInv, TypeOK

\* The store stays as it is but that it may begin a load, or await its first.
LEMMA LoadBegins ==
  ASSUME FeedInv, UNCHANGED <<log, sending, replies, node, seen, dropped>>, faults' \in 0 .. MaxFaults,
         mine' \in {mine, 0}, wasOpen' \in BOOLEAN,
         wire' \in Wires, WireShrinks, \A k \in Socket : wire[k] = <<>> => wire'[k] = <<>>,
         NEW new \in Stores(FramesNow), SetStore(new),
         new.loading = (new.held # None), new.seq = store.seq, new.orders = store.orders, new.epoch = store.epoch,
         new.status # "idle" => new.epoch <= MaxSignIns,
         new.status = "idle" => ~new.loading,
         new.status = "ready" => store.status = "ready",
         new.held = store.held \/ (store.held = None /\ new.held = <<>>)
  PROVE  FeedInv'
<1>1. /\ PageTypes /\ HeldInv /\ CopiesInv /\ LoadsInv /\ StoreInv /\ QuietInv /\ WireInv /\ wire \in Wires
  BY DEF FeedInv, TypeOK, NodeTypes, Wires
<1>2. store' = new BY DEF SetStore
<1>3. store.loading = (store.held # None) /\ store \in Stores(FramesNow) BY <1>1, FeedLogged DEF PageTypes
<1>4. None \notin Seq(FramesNow) BY FeedLogged, NoneApart
<1>5. new.held # store.held => ~store.loading /\ new.loading
  BY <1>3
<1>. DEFINE l0 == [epoch |-> new.epoch, answer |-> None]
<1>6. loads' = loads \cup IF ~store.loading /\ new.loading THEN {l0} ELSE {} BY DEF SetStore
<1>7. l0 \in [epoch : 1 .. MaxSignIns + 1, answer : {None} \cup Snapshots] /\ l0.epoch = store.epoch /\ l0.answer = None
  BY <1>1 DEF QuietInv
<1>. HIDE DEF l0
<1>8. store.loading => new.held = store.held /\ new.loading BY <1>3, <1>5
<1>9. PageTypes'
  <2>1. new \in Stores(FramesNow') BY DEF FramesNow, Frame
  <2>. QED BY <1>1, <1>2, <1>6, <1>7, <2>1 DEF PageTypes, FramesNow
<1>10. \A k \in Socket : \A n : OnWire(k, n)' => OnWire(k, n) BY <1>1, Shrunk
<1>11. mine \in {0} \cup Socket BY <1>1 DEF PageTypes
<1>12. mine' # 0 => mine' = mine OBVIOUS
<1>13. HeldInv'
  <2>1. CASE new.held = store.held BY <1>1, <1>2, <1>10, <1>11, <1>12, <2>1 DEF HeldInv, Numbers
  <2>2. CASE new.held = <<>> BY <1>2, <2>2 DEF HeldInv
  <2>. QED BY <2>1, <2>2
<1>14. CopiesInv' BY <1>1, <1>2 DEF CopiesInv, GoodCopy
<1>15. LoadsInv'
  <2>1. \A l \in loads' : l.epoch <= store'.epoch /\ (l.answer # None => GoodAnswer(l.answer)')
    BY <1>1, <1>2, <1>6, <1>7, FeedLogged DEF LoadsInv, GoodAnswer, GoodCopy, QuietInv
  <2>2. CASE ~store.loading /\ new.loading
    <3>1. loads' = loads \cup {l0} /\ \A l \in loads : l.epoch # store.epoch
      BY <1>1, <1>6, <2>2 DEF LoadsInv
    <3>. QED BY <1>2, <1>7, <2>1, <2>2, <3>1 DEF LoadsInv
  <2>3. CASE ~(~store.loading /\ new.loading)
    <3>1. loads' = loads BY <1>6, <2>3
    <3>2. new.loading = store.loading BY <1>3, <1>8, <2>3
    <3>. QED BY <1>1, <1>2, <2>1, <3>1, <3>2 DEF LoadsInv
  <2>. QED BY <2>2, <2>3
<1>16. \A n : ToCome(n)' => ToCome(n) BY <1>10, <1>11, <1>12 DEF ToCome
<1>17. StoreInv'
  <2>1. \A n \in 1 .. store'.seq : ToCome(n)' => \A o \in log'[n] : At(store'.orders[o]) >= n
    BY <1>1, <1>2, <1>16 DEF StoreInv
  <2>2. ASSUME NEW l \in loads', l.epoch = store'.epoch, l.answer # None, NEW o \in Order
        PROVE  Kept(l.answer, o)'
    <3>1. l \in loads BY <1>6, <1>7, <2>2
    <3>2. Kept(l.answer, o) BY <1>1, <1>2, <2>2, <3>1 DEF StoreInv
    <3>3. new.held = store.held BY <1>1, <1>2, <1>8, <2>2, <3>1 DEF LoadsInv
    <3>. QED BY <1>2, <3>2, <3>3 DEF Kept
  <2>3. store'.status = "ready" /\ ~dropped' /\ store'.held \in {None, <<>>} =>
          \A o \in Order : At(store'.orders[o]) >= seen'[o]
    BY <1>1, <1>2 DEF StoreInv
  <2>. QED BY <2>1, <2>2, <2>3 DEF StoreInv
<1>. QED BY <1>1, <1>2, <1>9, <1>13, <1>14, <1>15, <1>17, PageFits DEF QuietInv

LEMMA StoreTyped ==
  ASSUME FeedInv
  PROVE  /\ store \in Stores(FramesNow) /\ store.loading = (store.held # None) /\ None \notin Seq(FramesNow)
         /\ store.status \in {"idle", "loading", "ready", "error"} /\ store.loading \in BOOLEAN
         /\ store.seq \in Nat /\ store.orders \in [Order -> {None} \cup Copies]
         /\ (store.held # None => store.held \in Seq(FramesNow))
         /\ store.status # "idle" => store.epoch <= MaxSignIns
         /\ store.epoch \in Nat /\ (store.status = "idle" => ~store.loading)
         /\ wire \in Wires /\ faults \in 0 .. MaxFaults /\ mine \in {0} \cup Socket /\ wasOpen \in BOOLEAN
<1>1. store \in Stores(FramesNow) /\ None \notin Seq(FramesNow) BY FeedLogged, NoneApart
<1>2. store.epoch \in 1 .. MaxSignIns + 1 /\ (store.status # "idle" => store.epoch <= MaxSignIns)
  BY DEF FeedInv, QuietInv
<1>. QED BY <1>1, <1>2 DEF FeedInv, TypeOK, NodeTypes, PageTypes, LoadsInv, Wires, Stores

\* The steps that begin a load, or change nothing of the store.
LEMMA BeginStep ==
  ASSUME FeedInv, SocketOpens \/ SocketCloses \/ Starts \/ TabReturns \/ IntentTimesOut
  PROVE  FeedInv'
<1>1. /\ store \in Stores(FramesNow) /\ store.loading = (store.held # None) /\ None \notin Seq(FramesNow)
      /\ store.status # "idle" => store.epoch <= MaxSignIns
      /\ store.status = "idle" => ~store.loading
      /\ wire \in Wires /\ faults \in 0 .. MaxFaults /\ wasOpen \in BOOLEAN
  BY StoreTyped
<1>. DEFINE Fit(new) ==
       /\ new \in Stores(FramesNow) /\ new.loading = (new.held # None)
       /\ new.seq = store.seq /\ new.orders = store.orders /\ new.epoch = store.epoch
       /\ new.status # "idle" => new.epoch <= MaxSignIns
       /\ new.status = "idle" => ~new.loading
       /\ new.status = "ready" => store.status = "ready"
       /\ new.held = store.held \/ (store.held = None /\ new.held = <<>>)
<1>2. Fit(store) BY <1>1
<1>3. Fit(Resync(store)) BY <1>1, ResyncIs
<1>4. store.epoch <= MaxSignIns => Fit(Start(store)) BY <1>1, StartIs
<1>5. UNCHANGED wire => /\ wire' \in Wires /\ WireShrinks
                        /\ \A k \in Socket : wire[k] = <<>> => wire'[k] = <<>>
  BY <1>1, SameWires
<1>6. ASSUME NEW m, Arrives(m)
      PROVE  /\ wire' \in Wires /\ WireShrinks
             /\ \A k \in Socket : wire[k] = <<>> => wire'[k] = <<>>
  BY <1>6, ArrivesIs
<1>. HIDE DEF Fit
<1>7. ASSUME NEW new, Fit(new), SetStore(new), UNCHANGED <<log, sending, replies, node, seen, dropped, faults>>,
             mine' \in {mine, 0}, wasOpen' \in BOOLEAN,
             wire' \in Wires, WireShrinks, \A k \in Socket : wire[k] = <<>> => wire'[k] = <<>>
      PROVE  FeedInv'
  BY <1>1, <1>7, LoadBegins DEF Fit
<1>8. CASE SocketOpens
  <2>1. Fit(Opened(store, wasOpen)) BY <1>2, <1>3 DEF Opened
  <2>. QED BY <1>6, <1>7, <1>8, <2>1 DEF SocketOpens, api
<1>9. CASE SocketCloses
  <2>1. SetStore(store) BY <1>9 DEF SocketCloses, SetStore
  <2>. QED BY <1>1, <1>2, <1>6, <1>7, <1>9, <2>1 DEF SocketCloses, api
<1>10. CASE Starts BY <1>1, <1>4, <1>5, <1>7, <1>10 DEF Starts, api
<1>11. CASE TabReturns BY <1>1, <1>3, <1>5, <1>7, <1>11 DEF TabReturns, api
<1>12. CASE IntentTimesOut BY <1>1, <1>3, <1>5, <1>7, <1>12 DEF IntentTimesOut, api
<1>. QED BY <1>8, <1>9, <1>10, <1>11, <1>12

LEMMA MaxTwo ==
  ASSUME NEW a \in Nat, NEW b \in Nat
  PROVE  Max({a, b}) = IF a < b THEN b ELSE a
<1>1. {a, b} \subseteq Nat /\ {a, b} # {} /\ a + b \in Nat /\ \A x \in {a, b} : x <= a + b OBVIOUS
<1>2. Max({a, b}) \in {a, b} /\ \A x \in {a, b} : x <= Max({a, b}) BY <1>1, MaxIs
<1>. QED BY <1>2

\* What FrameArrives gives the store, when it is ready or loads.
LEMMA GivenIs ==
  ASSUME FeedInv, NEW n \in Numbers
  PROVE  /\ Given(Frame(n)) \in [Order -> 0 .. MaxCommits]
         /\ \A o \in Order : \/ Given(Frame(n))[o] = seen[o]
                             \/ Given(Frame(n))[o] = n /\ o \in log[n]
         /\ \A o \in Order : seen[o] \in Nat /\ (o \in log[n] => Given(Frame(n))[o] >= n)
<1>1. Logged /\ n \in 1 .. Len(log) /\ Len(log) <= MaxCommits /\ n \in 0 .. MaxCommits
  BY FeedLogged, FeedAssumption DEF Numbers, FeedInv, TypeOK, ApiTypes
<1>2. Frame(n).seq = n /\ DOMAIN Frame(n).orders = log[n] BY <1>1, FrameIs
<1>3. seen \in [Order -> 0 .. MaxCommits] BY DEF FeedInv, TypeOK, PageTypes
<1>4. \A o \in Order : Max({seen[o], n}) = IF seen[o] < n THEN n ELSE seen[o] BY <1>1, <1>3, MaxTwo
<1>5. Given(Frame(n)) = [o \in Order |-> IF o \in log[n] THEN Max({seen[o], n}) ELSE seen[o]]
  BY <1>2 DEF Given
<1>. QED BY <1>1, <1>3, <1>4, <1>5

\* A frame that the page takes off its socket.
LEMMA FrameNext ==
  ASSUME FeedInv, NEW n, Arrives(<<"frame", n>>)
  PROVE  /\ n \in Numbers /\ n \in 1 .. Len(log) /\ n \in Nat /\ Frame(n) \in FramesNow /\ Frame(n).seq = n
         /\ mine \in Socket /\ ToCome(n)
         /\ \A j \in 1 .. Len(sending) : n < sending[j]
         /\ mine' = mine => \A x : OnWire(mine, x)' => n < x /\ OnWire(mine, x)
         /\ wire' \in Wires /\ WireShrinks /\ \A k \in Socket : wire[k] = <<>> => wire'[k] = <<>>
<1>. DEFINE m == <<"frame", n>>
<1>1. m[1] = "frame" /\ m[2] = n OBVIOUS
<1>2. /\ mine \in Socket /\ OnWire(mine, n) /\ wire' \in Wires /\ WireShrinks
      /\ \A k \in Socket : wire[k] = <<>> => wire'[k] = <<>>
      /\ \A i \in 1 .. Len(wire'[mine]) : wire'[mine][i][1] = "frame" => n < wire'[mine][i][2]
  <2>1. Arrives(m) OBVIOUS
  <2>. HIDE DEF m
  <2>. QED BY <1>1, <2>1, ArrivesIs
<1>3. PICK i \in 1 .. Len(wire[mine]) : wire[mine][i] = <<"frame", n>> BY <1>2 DEF OnWire
<1>4. wire[mine][i][1] = "frame" /\ wire[mine][i][2] = n BY <1>3
<1>5. n \in Numbers /\ \A j \in 1 .. Len(sending) : n < sending[j] BY <1>2, <1>4 DEF FeedInv, WireInv
<1>6. 0 \notin Socket /\ ToCome(n) BY <1>2, FeedAssumption DEF Socket, ToCome
<1>7. /\ n \in 1 .. Len(log) /\ n \in Nat BY <1>5, FeedLogged DEF Numbers
<1>8. Frame(n) \in FramesNow /\ Frame(n).seq = n BY <1>7, FeedLogged, FrameIs DEF FramesNow
<1>9. wire \in Wires /\ UNCHANGED <<log, sending>> => \A k \in Socket : \A x : OnWire(k, x)' => OnWire(k, x)
  BY <1>2, Shrunk DEF FeedInv
<1>10. ASSUME NEW x, \E j \in 1 .. Len(wire'[mine]) : wire'[mine][j] = <<"frame", x>>
       PROVE  n < x /\ OnWire(mine, x)
  <2>1. PICK j \in 1 .. Len(wire'[mine]) : wire'[mine][j] = <<"frame", x>> BY <1>10
  <2>2. wire'[mine][j][1] = "frame" /\ wire'[mine][j][2] = x BY <2>1
  <2>3. PICK d \in {0, 1} : j + d \in 1 .. Len(wire[mine]) /\ wire'[mine][j] = wire[mine][j + d]
    BY <1>2, <2>2 DEF WireShrinks
  <2>4. wire[mine][j + d] = <<"frame", x>> BY <2>1, <2>3, Zenon
  <2>. QED BY <1>2, <2>2, <2>3, <2>4 DEF OnWire
<1>11. mine' = mine => \A x : OnWire(mine, x)' => n < x /\ OnWire(mine, x) BY <1>10 DEF OnWire
<1>. QED BY <1>2, <1>5, <1>6, <1>7, <1>8, <1>11

\* A frame that comes during a load is held.
LEMMA HeldStep ==
  ASSUME FeedInv, NEW n, FrameArrives(n), store.status # "idle", store.held # None
  PROVE  FeedInv'
<1>1. /\ PageTypes /\ HeldInv /\ CopiesInv /\ LoadsInv /\ StoreInv /\ QuietInv /\ faults \in 0 .. MaxFaults
  BY DEF FeedInv, TypeOK
<1>2. /\ store \in Stores(FramesNow) /\ store.loading /\ None \notin Seq(FramesNow)
      /\ store.held \in Seq(FramesNow)
  BY StoreTyped
<1>3. /\ n \in Numbers /\ n \in 1 .. Len(log) /\ n \in Nat /\ Frame(n) \in FramesNow /\ Frame(n).seq = n
      /\ mine \in Socket /\ ToCome(n)
      /\ \A j \in 1 .. Len(sending) : n < sending[j]
      /\ mine' = mine => \A x : OnWire(mine, x)' => n < x /\ OnWire(mine, x)
      /\ wire' \in Wires /\ WireShrinks /\ \A k \in Socket : wire[k] = <<>> => wire'[k] = <<>>
  BY FrameNext DEF FrameArrives
<1>4. /\ UNCHANGED <<log, sending, replies, node, mine, wasOpen, dropped, faults>>
      /\ SetStore([store EXCEPT !.held = Append(@, Frame(n))]) /\ seen' = Given(Frame(n))
  BY DEF FrameArrives, Ingest, api
<1>. DEFINE held == Append(store.held, Frame(n))  N == Len(store.held)
<1>5. /\ held \in Seq(FramesNow) /\ Len(held) = N + 1 /\ N \in Nat /\ held[N + 1] = Frame(n)
      /\ \A i \in 1 .. N : held[i] = store.held[i]
  BY <1>2, <1>3, OneMore
<1>. HIDE DEF held
<1>6. /\ store' \in Stores(FramesNow) /\ store'.held = held /\ store'.loading /\ held # None /\ held # <<>>
      /\ store'.status = store.status /\ store'.seq = store.seq /\ store'.orders = store.orders
      /\ store'.epoch = store.epoch
  <2>1. store' = [store EXCEPT !.held = held] BY <1>4 DEF SetStore, held
  <2>2. held # None /\ held # <<>> BY <1>2, <1>5
  <2>. QED BY <1>2, <1>5, <2>1, <2>2 DEF Stores
<1>7. loads' = loads BY <1>2, <1>4 DEF SetStore
<1>8. /\ seen' \in [Order -> 0 .. MaxCommits]
      /\ \A o \in Order : seen'[o] = seen[o] \/ (seen'[o] = n /\ o \in log[n])
  BY <1>3, <1>4, GivenIs
<1>9. FramesNow' = FramesNow BY <1>4 DEF FramesNow, Frame
<1>10. PageTypes' BY <1>1, <1>4, <1>6, <1>7, <1>8, <1>9 DEF PageTypes, FramesNow
<1>11. HeldInv'
  <2>. SUFFICES ASSUME NEW i \in 1 .. N + 1
                PROVE  /\ held[i].seq \in Numbers
                       /\ \A j \in 1 .. N + 1 : i < j => held[i].seq < held[j].seq
                       /\ \A j \in 1 .. Len(sending) : held[i].seq < sending[j]
                       /\ mine # 0 => \A x \in Numbers : OnWire(mine, x)' => held[i].seq < x
    BY <1>4, <1>5, <1>6 DEF HeldInv, Numbers, OnWire
  <2>1. CASE i = N + 1
    BY <1>3, <1>4, <1>5, <2>1
  <2>2. CASE i \in 1 .. N
    <3>1. /\ held[i].seq \in Numbers /\ mine # 0
          /\ \A j \in 1 .. N : i < j => held[i].seq < held[j].seq
          /\ \A j \in 1 .. Len(sending) : held[i].seq < sending[j]
          /\ mine # 0 => \A x \in Numbers : OnWire(mine, x) => held[i].seq < x
      <4>1. mine # 0 BY <1>3, FeedAssumption DEF Socket
      <4>2. held[i] = store.held[i] /\ \A j \in 1 .. N : held[j] = store.held[j] BY <1>5, <2>2
      <4>3. /\ store.held[i].seq \in Numbers
            /\ \A j \in 1 .. N : i < j => store.held[i].seq < store.held[j].seq
            /\ \A j \in 1 .. Len(sending) : store.held[i].seq < sending[j]
            /\ mine # 0 => \A x \in Numbers : OnWire(mine, x) => store.held[i].seq < x
        BY <1>1, <2>2 DEF HeldInv
      <4>. QED BY <4>1, <4>2, <4>3
    <3>2. held[i].seq < n
      <4>1. CASE OnWire(mine, n) BY <1>3, <3>1, <4>1
      <4>2. CASE \E j \in 1 .. Len(sending) : sending[j] = n BY <3>1, <4>2
      <4>. QED BY <1>3, <4>1, <4>2 DEF ToCome
    <3>3. \A j \in 1 .. N + 1 : j \in 1 .. N \/ j = N + 1 BY <1>5
    <3>. QED BY <1>3, <1>4, <1>5, <3>1, <3>2, <3>3
  <2>. QED BY <1>5, <2>1, <2>2
<1>12. CopiesInv'
  <2>1. ASSUME NEW o \in Order, seen'[o] > 0
        PROVE  seen'[o] <= Len(log) /\ \E x \in seen'[o] .. Len(log) : o \in log[x]
    BY <1>1, <1>3, <1>8, <2>1, FeedLogged DEF CopiesInv
  <2>. QED BY <1>1, <1>4, <1>6, <2>1 DEF CopiesInv, GoodCopy
<1>13. LoadsInv' BY <1>1, <1>2, <1>4, <1>6, <1>7 DEF LoadsInv, GoodAnswer, GoodCopy
<1>14. StoreInv'
  <2>1. \A x \in 1 .. store.seq : ToCome(x)' => ToCome(x)
    BY <1>3, <1>4 DEF ToCome
  <2>2. ASSUME NEW l \in loads, l.epoch = store.epoch, l.answer # None, NEW o \in Order
        PROVE  Kept(l.answer, o)'
    <3>1. Kept(l.answer, o) BY <1>1, <2>2 DEF StoreInv
    <3>2. CASE seen'[o] = seen[o]
      <4>1. CASE seen[o] <= At(l.answer.orders[o]) BY <2>2, <3>2, <4>1 DEF Kept
      <4>2. CASE \E i \in 1 .. N : o \in log[store.held[i].seq] /\ seen[o] <= store.held[i].seq
        <5>1. PICK i \in 1 .. N : o \in log[store.held[i].seq] /\ seen[o] <= store.held[i].seq BY <4>2
        <5>2. i \in 1 .. N + 1 /\ held[i] = store.held[i] BY <1>5
        <5>. QED BY <1>4, <1>5, <1>6, <3>2, <5>1, <5>2 DEF Kept
      <4>. QED BY <3>1, <4>1, <4>2 DEF Kept
    <3>3. CASE seen'[o] = n /\ o \in log[n]
      <4>1. N + 1 \in 1 .. N + 1 /\ held[N + 1].seq = n /\ n <= n BY <1>3, <1>5
      <4>. QED BY <1>4, <1>5, <1>6, <3>3, <4>1 DEF Kept
    <3>. QED BY <1>8, <3>2, <3>3
  <2>. QED BY <1>1, <1>4, <1>6, <1>7, <2>1, <2>2 DEF StoreInv
<1>. QED BY <1>1, <1>3, <1>4, <1>6, <1>10, <1>11, <1>12, <1>13, <1>14, PageFits DEF QuietInv

\* A frame that comes when the store is ready is applied.
LEMMA AppliedStep ==
  ASSUME FeedInv, NEW n, FrameArrives(n), store.status = "ready", store.held = None
  PROVE  FeedInv'
<1>1. /\ PageTypes /\ HeldInv /\ CopiesInv /\ LoadsInv /\ StoreInv /\ QuietInv /\ faults \in 0 .. MaxFaults /\ Logged
  BY FeedLogged DEF FeedInv, TypeOK
<1>2. store \in Stores(FramesNow) /\ ~store.loading /\ store.loading = FALSE /\ store.seq \in Nat BY StoreTyped
<1>3. /\ n \in Numbers /\ n \in 1 .. Len(log) /\ n \in Nat /\ mine \in Socket /\ ToCome(n)
      /\ \A j \in 1 .. Len(sending) : n < sending[j]
      /\ mine' = mine => \A x : OnWire(mine, x)' => n < x /\ OnWire(mine, x)
      /\ wire' \in Wires /\ WireShrinks /\ \A k \in Socket : wire[k] = <<>> => wire'[k] = <<>>
  BY FrameNext DEF FrameArrives
<1>. DEFINE r == ApplyFrame(store, Frame(n))
<1>4. /\ UNCHANGED <<log, sending, replies, node, mine, wasOpen, dropped, faults>>
      /\ SetStore(r) /\ seen' = Given(Frame(n))
  BY DEF FrameArrives, Ingest, api
<1>5. /\ r \in Stores(FramesNow) /\ r.loading = FALSE /\ r.held = None
      /\ r.status = "ready" /\ r.epoch = store.epoch
      /\ n < store.seq => r = store
      /\ ~(n < store.seq) => r.seq = n
  BY <1>1, <1>2, <1>3, ApplyIs
<1>6. /\ \A o \in Order : /\ GoodCopy(o, r.orders[o]) /\ At(r.orders[o]) >= At(store.orders[o])
                          /\ At(r.orders[o]) \in Nat /\ At(store.orders[o]) \in Nat
      /\ \A o \in log[n] : At(r.orders[o]) >= n
  <2>1. n < store.seq => \A o \in log[n] : At(store.orders[o]) >= n
    BY <1>1, <1>2, <1>3 DEF StoreInv
  <2>2. \A o \in Order : GoodCopy(o, store.orders[o]) BY <1>1 DEF CopiesInv
  <2>. QED BY <1>1, <1>2, <1>3, <2>1, <2>2, AppliedIs
<1>. HIDE DEF r
<1>7. store' = r /\ loads' = loads BY <1>4, <1>5 DEF SetStore
<1>8. /\ seen' \in [Order -> 0 .. MaxCommits]
      /\ \A o \in Order : /\ seen'[o] = seen[o] \/ (seen'[o] = n /\ o \in log[n])
                          /\ seen[o] \in Nat
  BY <1>3, <1>4, GivenIs
<1>9. FramesNow' = FramesNow BY <1>4 DEF FramesNow, Frame
<1>10. PageTypes'
  <2>1. r.loading = (r.held # None) BY <1>5
  <2>. QED BY <1>1, <1>4, <1>5, <1>7, <1>8, <1>9, <2>1 DEF PageTypes, FramesNow
<1>11. HeldInv' BY <1>5, <1>7 DEF HeldInv
<1>12. CopiesInv'
  <2>1. ASSUME NEW o \in Order, seen'[o] > 0
        PROVE  seen'[o] <= Len(log) /\ \E x \in seen'[o] .. Len(log) : o \in log[x]
    BY <1>1, <1>3, <1>8, <2>1, FeedLogged DEF CopiesInv
  <2>2. r.seq <= Len(log) BY <1>1, <1>2, <1>3, <1>5 DEF CopiesInv
  <2>. QED BY <1>1, <1>4, <1>6, <1>7, <2>1, <2>2 DEF CopiesInv, GoodCopy
<1>13. LoadsInv' BY <1>1, <1>2, <1>4, <1>5, <1>7 DEF LoadsInv, GoodAnswer, GoodCopy
<1>14. StoreInv'
  <2>1. ASSUME NEW x \in 1 .. r.seq, ToCome(x)'
        PROVE  \A o \in log[x] : At(r.orders[o]) >= x
    <3>1. n < x /\ ToCome(x) BY <1>3, <1>4, <2>1 DEF ToCome
    <3>2. n < store.seq /\ r = store BY <1>2, <1>3, <1>5, <3>1
    <3>. QED BY <1>1, <3>1, <3>2 DEF StoreInv
  <2>2. \A l \in loads : l.epoch # store.epoch BY <1>1, <1>2 DEF LoadsInv
  <2>3. ASSUME ~dropped, NEW o \in Order PROVE At(r.orders[o]) >= seen'[o]
    <3>1. At(store.orders[o]) >= seen[o] BY <1>1, <2>3 DEF StoreInv
    <3>. QED BY <1>6, <1>8, <3>1
  <2>. QED BY <1>4, <1>5, <1>7, <2>1, <2>2, <2>3 DEF StoreInv
<1>. QED BY <1>1, <1>3, <1>4, <1>5, <1>7, <1>10, <1>11, <1>12, <1>13, <1>14, PageFits DEF QuietInv

LEMMA FrameStep ==
  ASSUME FeedInv, NEW n \in 1 .. MaxCommits, FrameArrives(n)
  PROVE  FeedInv'
<1>1. CASE store.status # "idle" /\ store.held # None BY <1>1, HeldStep
<1>2. CASE store.status = "ready" /\ store.held = None BY <1>2, AppliedStep
<1>3. CASE store.status # "ready" /\ (store.status = "idle" \/ store.held = None)
  <2>1. /\ store \in Stores(FramesNow) /\ store.loading = (store.held # None)
        /\ store.status # "idle" => store.epoch <= MaxSignIns
        /\ store.status = "idle" => ~store.loading
        /\ faults \in 0 .. MaxFaults /\ wasOpen \in BOOLEAN
    BY StoreTyped
  <2>2. store.held = None BY <1>3, <2>1
  <2>3. Ingest(store, Frame(n)) = store BY <1>3, <2>2 DEF Ingest
  <2>4. /\ UNCHANGED <<log, sending, replies, node, seen, dropped, faults, mine, wasOpen>> /\ SetStore(store)
    BY <1>3, <2>2, <2>3 DEF FrameArrives, api
  <2>5. wire' \in Wires /\ WireShrinks /\ \A k \in Socket : wire[k] = <<>> => wire'[k] = <<>>
    BY FrameNext DEF FrameArrives
  <2>. QED BY <2>1, <2>4, <2>5, LoadBegins
<1>. QED BY <1>1, <1>2, <1>3

LEMMA ApiStays ==
  ASSUME FeedInv, UNCHANGED <<log, sending>>, replies' \subseteq replies, wire' \in Wires, WireShrinks
  PROVE  /\ ApiTypes' /\ SentInv' /\ WireInv' /\ FramesNow' = FramesNow
         /\ \A k \in Socket : \A n : OnWire(k, n)' => OnWire(k, n)
<1>1. wire \in Wires /\ WireInv BY DEF FeedInv, TypeOK, NodeTypes, Wires
<1>2. WireInv' /\ \A k \in Socket : \A n : OnWire(k, n)' => OnWire(k, n) BY <1>1, Shrunk
<1>3. ApiTypes' BY DEF FeedInv, TypeOK, ApiTypes
<1>4. SentInv' BY DEF FeedInv, SentInv, Numbers
<1>5. FramesNow' = FramesNow BY DEF FramesNow, Frame
<1>. QED BY <1>2, <1>3, <1>4, <1>5

\* Signed out, the page has nothing of the account, and its loads are of an epoch that is over.
LEMMA SignOutStep ==
  ASSUME FeedInv, SignOut
  PROVE  FeedInv'
<1>1. /\ PageTypes /\ NodeTypes /\ LoadsInv /\ QuietInv /\ faults \in 0 .. MaxFaults
  BY DEF FeedInv, TypeOK
<1>2. wire \in Wires /\ store.epoch \in Nat /\ store.epoch \in 1 .. MaxSignIns BY StoreTyped, <1>1, FeedAssumption DEF SignOut, QuietInv
<1>3. UNCHANGED <<api, conn, commands, subscribed, heard, wire, mine, wasOpen, faults>> /\ dropped' = FALSE
  BY DEF SignOut
<1>4. wire' \in Wires /\ WireShrinks BY <1>2, <1>3, SameWires
<1>5. /\ store' \in Stores(FramesNow) /\ store'.loading = FALSE /\ store'.held = None /\ store'.status = "idle"
      /\ store'.epoch = store.epoch + 1 /\ store'.seq = 0 /\ \A o \in Order : store'.orders[o] = None
      /\ loads' = loads
  <2>1. store' = Empty(store.epoch + 1) /\ store.epoch + 1 \in Nat BY <1>2 DEF SignOut, SetStore, Clear
  <2>2. store' \in Stores(FramesNow) BY <2>1, EmptyIs
  <2>. QED BY <2>1, <2>2 DEF SignOut, SetStore, Clear, Empty
<1>6. seen' \in [Order -> 0 .. MaxCommits] /\ \A o \in Order : seen'[o] = 0
  BY FeedAssumption DEF SignOut
<1>7. ApiTypes' /\ SentInv' /\ WireInv' /\ FramesNow' = FramesNow BY <1>3, <1>4, ApiStays DEF api
<1>8. NodeTypes' BY <1>1, <1>2, <1>3 DEF SignOut, NodeTypes
<1>9. PageTypes'
  <2>1. store'.loading = (store'.held # None) BY <1>5
  <2>. QED BY <1>1, <1>3, <1>5, <1>6, <1>7, <2>1 DEF PageTypes, FramesNow
<1>10. SubscribedInv' BY <1>3 DEF FeedInv, SubscribedInv, Wanted, Watchers
<1>11. QuietInv'
  <2>1. store'.epoch \in 1 .. MaxSignIns + 1 BY <1>2, <1>5, FeedAssumption
  <2>. QED BY <1>1, <1>3, <1>5, <2>1 DEF QuietInv
<1>12. HeldInv' BY <1>5 DEF HeldInv
<1>13. CopiesInv' BY <1>3, <1>5, <1>6, FeedLogged DEF CopiesInv, GoodCopy, api
<1>14. LoadsInv'
  <2>1. \A l \in loads : l.epoch \in Nat /\ l.epoch <= store.epoch /\ (l.answer # None => GoodAnswer(l.answer)')
    BY <1>1, <1>3 DEF LoadsInv, GoodAnswer, GoodCopy, PageTypes, api
  <2>2. \A l \in loads : l.epoch <= store'.epoch /\ l.epoch # store'.epoch BY <1>2, <1>5, <2>1
  <2>. QED BY <1>5, <2>1, <2>2 DEF LoadsInv
<1>15. StoreInv'
  <2>1. \A l \in loads' : l.epoch # store'.epoch BY <1>1, <1>2, <1>5 DEF LoadsInv, PageTypes
  <2>. QED BY <1>5, <2>1 DEF StoreInv
<1>. QED BY <1>1, <1>3, <1>7, <1>8, <1>9, <1>10, <1>11, <1>12, <1>13, <1>14, <1>15 DEF FeedInv, TypeOK

LEMMA ReadStep ==
  ASSUME FeedInv, NEW l, LoadRead(l)
  PROVE  FeedInv'
<1>1. /\ PageTypes /\ HeldInv /\ CopiesInv /\ LoadsInv /\ StoreInv /\ QuietInv /\ faults \in 0 .. MaxFaults
      /\ Logged /\ wire \in Wires
  BY FeedLogged, StoreTyped DEF FeedInv, TypeOK
<1>2. UNCHANGED <<api, node, wire, mine, wasOpen, store, seen, dropped, faults>> /\ l \in loads /\ l.answer = None
  BY DEF LoadRead
<1>3. PICK a : /\ a = AccountState /\ a \in Snapshots /\ GoodAnswer(a)
               /\ \A o \in Order, n \in 1 .. Len(log) : o \in log[n] => n <= At(a.orders[o])
  BY <1>1, StateIs
<1>4. a # None BY <1>1, <1>3, NoneApart
<1>. DEFINE m == [l EXCEPT !.answer = a]
<1>5. /\ loads' = (loads \ {l}) \cup {m} /\ m.epoch = l.epoch /\ m.answer = a
      /\ m \in [epoch : 1 .. MaxSignIns + 1, answer : {None} \cup Snapshots]
  BY <1>1, <1>2, <1>3 DEF LoadRead, PageTypes
<1>. HIDE DEF m
<1>6. wire' \in Wires /\ WireShrinks BY <1>1, <1>2, SameWires
<1>7. FramesNow' = FramesNow BY <1>2 DEF FramesNow, Frame, api
<1>8. PageTypes' BY <1>1, <1>2, <1>5, <1>7 DEF PageTypes, FramesNow
<1>9. HeldInv' BY <1>1, <1>2 DEF HeldInv, OnWire, Numbers, api
<1>10. CopiesInv' BY <1>1, <1>2 DEF CopiesInv, GoodCopy, api
<1>11. GoodAnswer(a)' /\ \A k \in loads : k.answer # None => GoodAnswer(k.answer)'
  BY <1>1, <1>2, <1>3 DEF GoodAnswer, GoodCopy, LoadsInv, api
<1>12. LoadsInv'
  <2>1. \A k \in loads' : k.epoch <= store'.epoch /\ (k.answer # None => GoodAnswer(k.answer)')
    BY <1>1, <1>2, <1>5, <1>11 DEF LoadsInv
  <2>2. store'.loading => \E k \in loads' : k.epoch = store'.epoch
    BY <1>1, <1>2, <1>5 DEF LoadsInv
  <2>3. \A k \in loads' : k.epoch = store'.epoch => store'.loading
    BY <1>1, <1>2, <1>5 DEF LoadsInv
  <2>4. \A j, k \in loads' : j.epoch = store'.epoch /\ k.epoch = store'.epoch => j = k
    BY <1>1, <1>2, <1>5 DEF LoadsInv
  <2>. QED BY <1>1, <1>2, <2>1, <2>2, <2>3, <2>4 DEF LoadsInv
<1>13. ASSUME NEW o \in Order PROVE seen[o] <= At(a.orders[o])
  <2>1. At(a.orders[o]) \in Nat BY <1>3 DEF Snapshots, At, Copies
  <2>2. seen[o] \in Nat BY <1>1 DEF PageTypes
  <2>3. CASE seen[o] > 0
    <3>1. PICK n \in seen[o] .. Len(log) : o \in log[n] BY <1>1, <2>3 DEF CopiesInv
    <3>2. n \in 1 .. Len(log) BY <2>2, <2>3, <1>1, FeedLogged
    <3>. QED BY <1>3, <2>1, <2>2, <3>1, <3>2
  <2>. QED BY <2>1, <2>2, <2>3
<1>14. StoreInv'
  <2>1. \A n : ToCome(n)' <=> ToCome(n) BY <1>2 DEF ToCome, OnWire, api
  <2>2. ASSUME NEW k \in loads', k.epoch = store'.epoch, k.answer # None, NEW o \in Order
        PROVE  Kept(k.answer, o)'
    <3>1. CASE k = m BY <1>2, <1>4, <1>5, <1>13, <3>1 DEF Kept
    <3>2. CASE k \in loads
      <4>1. Kept(k.answer, o) BY <1>1, <1>2, <2>2, <3>2 DEF StoreInv
      <4>. QED BY <1>2, <4>1 DEF Kept, api
    <3>. QED BY <1>5, <3>1, <3>2
  <2>. QED BY <1>1, <1>2, <2>1, <2>2 DEF StoreInv, api
<1>. QED BY <1>1, <1>2, <1>6, <1>8, <1>9, <1>10, <1>12, <1>14, PageFits DEF QuietInv, api

\* A load of an epoch that is over leaves all but its own request as it was.
LEMMA StaleLoad ==
  ASSUME FeedInv, NEW l \in loads, l.epoch # store.epoch, loads' = loads \ {l}, faults' \in 0 .. MaxFaults,
         UNCHANGED <<api, node, wire, mine, wasOpen, store, seen, dropped>>
  PROVE  FeedInv'
<1>1. /\ PageTypes /\ HeldInv /\ CopiesInv /\ LoadsInv /\ StoreInv /\ QuietInv /\ wire \in Wires
  BY StoreTyped DEF FeedInv, TypeOK
<1>2. wire' \in Wires /\ WireShrinks BY <1>1, SameWires
<1>3. FramesNow' = FramesNow BY DEF FramesNow, Frame, api
<1>4. PageTypes' BY <1>1, <1>3 DEF PageTypes, FramesNow
<1>5. HeldInv' BY <1>1 DEF HeldInv, OnWire, Numbers, api
<1>6. CopiesInv' BY <1>1 DEF CopiesInv, GoodCopy, api
<1>7. LoadsInv' BY <1>1 DEF LoadsInv, GoodAnswer, GoodCopy, api
<1>8. StoreInv'
  <2>1. \A n : ToCome(n)' <=> ToCome(n) BY DEF ToCome, OnWire, api
  <2>. QED BY <1>1, <2>1 DEF StoreInv, Kept, api
<1>. QED BY <1>1, <1>2, <1>4, <1>5, <1>6, <1>7, <1>8, PageFits DEF QuietInv, api

\* What the store is given of an order by an answer.
LEMMA AnswerGiven ==
  ASSUME NEW s \in Nat, NEW c \in {None} \cup Copies
  PROVE  Max({s} \cup IF c = None THEN {} ELSE {c.at}) = IF s < At(c) THEN At(c) ELSE s
<1>1. CASE c = None
  <2>1. {s} \cup (IF c = None THEN {} ELSE {c.at}) = {s, s} BY <1>1
  <2>. QED BY <1>1, <2>1, MaxTwo DEF At
<1>2. CASE c # None
  <2>1. c.at \in Nat BY <1>2 DEF Copies
  <2>2. {s} \cup (IF c = None THEN {} ELSE {c.at}) = {s, c.at} BY <1>2
  <2>. QED BY <1>2, <2>1, <2>2, MaxTwo DEF At
<1>. QED BY <1>1, <1>2

LEMMA AnsweredStep ==
  ASSUME FeedInv, NEW l, LoadAnswered(l)
  PROVE  FeedInv'
<1>1. /\ PageTypes /\ HeldInv /\ CopiesInv /\ LoadsInv /\ StoreInv /\ QuietInv /\ faults \in 0 .. MaxFaults
      /\ WireInv /\ SentInv /\ Logged /\ wire \in Wires /\ store \in Stores(FramesNow)
      /\ Len(log) \in Nat /\ LoadedAt \in Nat
  BY FeedLogged, StoreTyped DEF FeedInv, TypeOK
<1>2. /\ l \in loads /\ l.answer # None /\ loads' = loads \ {l}
      /\ UNCHANGED <<api, node, wire, mine, wasOpen, faults>>
  BY DEF LoadAnswered
<1>3. CASE l.epoch # store.epoch
  <2>1. UNCHANGED <<store, seen, dropped>> BY <1>3 DEF LoadAnswered
  <2>. QED BY <1>1, <1>2, <1>3, <2>1, StaleLoad
<1>4. CASE l.epoch = store.epoch
  <2>. DEFINE a == l.answer
  <2>1. PICK r : r = Loaded(store, a) OBVIOUS
  <2>2. /\ store' = r /\ dropped' = FALSE
        /\ seen' = [o \in Order |-> Max({seen[o]} \cup IF a.orders[o] = None THEN {} ELSE {a.orders[o].at})]
    BY <1>4, <2>1 DEF LoadAnswered
  <2>3. a \in Snapshots /\ GoodAnswer(a) /\ store.loading /\ store.held # None
    BY <1>1, <1>2, <1>4 DEF LoadsInv, PageTypes
  <2>. HIDE DEF a
  <2>4. /\ r \in Stores(FramesNow) /\ ~r.loading /\ r.held = None /\ r.status = "ready" /\ r.epoch = store.epoch
        /\ r.seq <= Len(log)
        /\ r.seq = a.seq \/ \E i \in 1 .. Len(store.held) : r.seq = store.held[i].seq
        /\ \A o \in Order : GoodCopy(o, r.orders[o]) /\ At(r.orders[o]) >= At(a.orders[o])
        /\ \A i \in 1 .. Len(store.held) : \A o \in log[store.held[i].seq] : At(r.orders[o]) >= store.held[i].seq
    <3>1. /\ \A i \in 1 .. Len(store.held) : store.held[i].seq \in Numbers
          /\ \A i, j \in 1 .. Len(store.held) : i < j => store.held[i].seq < store.held[j].seq
      BY <1>1, <2>3 DEF HeldInv
    <3>. QED BY <1>1, <2>1, <2>3, <3>1, LoadedIs
  <2>5. /\ r.orders \in [Order -> {None} \cup Copies] /\ r.seq \in Nat /\ r.loading = FALSE
        /\ a.orders \in [Order -> {None} \cup Copies] /\ a.seq \in Nat /\ a.seq <= Len(log)
    BY <2>3, <2>4 DEF Stores, Snapshots, GoodAnswer
  <2>6. \A o \in Order : /\ At(r.orders[o]) \in Nat /\ At(a.orders[o]) \in Nat /\ At(a.orders[o]) <= Len(log)
                         /\ At(a.orders[o]) > 0 => o \in log[At(a.orders[o])]
                         /\ seen[o] \in Nat /\ seen[o] <= MaxCommits /\ Len(log) <= MaxCommits
    <3>1. \A o \in Order : GoodCopy(o, a.orders[o]) BY <2>3 DEF GoodAnswer
    <3>2. \A o \in Order : seen[o] \in 0 .. MaxCommits BY <1>1 DEF PageTypes
    <3>3. Len(log) <= MaxCommits BY DEF FeedInv, TypeOK, ApiTypes
    <3>4. MaxCommits \in Nat BY FeedAssumption
    <3>5. ASSUME NEW o \in Order
          PROVE  /\ At(r.orders[o]) \in Nat /\ At(a.orders[o]) \in Nat /\ At(a.orders[o]) <= Len(log)
                 /\ At(a.orders[o]) > 0 => o \in log[At(a.orders[o])]
      <4>1. r.orders[o] \in {None} \cup Copies /\ a.orders[o] \in {None} \cup Copies BY <2>5
      <4>2. GoodCopy(o, a.orders[o]) BY <3>1
      <4>. QED BY <1>1, <4>1, <4>2 DEF At, Copies, GoodCopy
    <3>6. ASSUME NEW o \in Order PROVE seen[o] \in Nat /\ seen[o] <= MaxCommits
      <4>1. seen[o] \in 0 .. MaxCommits BY <3>2
      <4>. QED BY <4>1, <3>4
    <3>. QED BY <3>3, <3>5, <3>6, Zenon
  <2>7. \A o \in Order : seen'[o] = IF seen[o] < At(a.orders[o]) THEN At(a.orders[o]) ELSE seen[o]
    BY <2>2, <2>5, <2>6, AnswerGiven
  <2>8. seen' \in [Order -> 0 .. MaxCommits]
    <3>1. \A o \in Order : seen'[o] \in 0 .. MaxCommits
      BY <1>1, <2>6, <2>7, FeedAssumption DEF FeedInv, TypeOK, ApiTypes
    <3>2. seen' = [o \in Order |-> seen'[o]] BY <2>2
    <3>. QED BY <3>1, <3>2
  <2>9. wire' \in Wires /\ WireShrinks BY <1>1, <1>2, SameWires
  <2>10. FramesNow' = FramesNow BY <1>2 DEF FramesNow, Frame, api
  <2>11. PageTypes'
    <3>1. r.loading = (r.held # None) BY <2>4, <2>5
    <3>. QED BY <1>1, <1>2, <2>2, <2>4, <2>8, <2>10, <3>1 DEF PageTypes, FramesNow
  <2>12. HeldInv' BY <2>2, <2>4 DEF HeldInv
  <2>13. CopiesInv'
    <3>1. ASSUME NEW o \in Order, seen'[o] > 0
          PROVE  seen'[o] <= Len(log) /\ \E n \in seen'[o] .. Len(log) : o \in log[n]
      <4>1. CASE seen[o] < At(a.orders[o])
        <5>1. seen'[o] = At(a.orders[o]) BY <2>7, <4>1
        <5>. QED BY <1>1, <2>6, <3>1, <5>1
      <4>2. CASE ~(seen[o] < At(a.orders[o]))
        <5>1. seen'[o] = seen[o] BY <2>7, <4>2
        <5>. QED BY <1>1, <3>1, <5>1 DEF CopiesInv
      <4>. QED BY <4>1, <4>2
    <3>. QED BY <1>2, <2>2, <2>4, <3>1 DEF CopiesInv, GoodCopy, api
  <2>14. \A k \in loads' : k.epoch # r.epoch
    BY <1>1, <1>2, <1>4, <2>4 DEF LoadsInv
  <2>15. LoadsInv'
    <3>1. \A k \in loads' : k.epoch <= r.epoch /\ (k.answer # None => GoodAnswer(k.answer)')
      BY <1>1, <1>2, <2>4 DEF LoadsInv, GoodAnswer, GoodCopy, api
    <3>. QED BY <2>2, <2>4, <2>14, <3>1 DEF LoadsInv
  <2>16. ASSUME NEW n \in 1 .. r.seq, ToCome(n)
         PROVE  \A o \in log[n] : At(r.orders[o]) >= n
    <3>1. n \in 1 .. Len(log) /\ n \in Nat BY <1>1, <2>4, <2>5
    <3>2. n \in Numbers
      <4>1. CASE \E j \in 1 .. Len(sending) : sending[j] = n
        BY <1>1, <4>1, SeqElements DEF SentInv
      <4>2. CASE mine # 0 /\ OnWire(mine, n)
        <5>1. PICK i \in 1 .. Len(wire[mine]) : wire[mine][i] = <<"frame", n>> BY <4>2 DEF OnWire
        <5>2. wire[mine][i][1] = "frame" /\ wire[mine][i][2] = n /\ mine \in Socket
          BY <1>1, <4>2, <5>1 DEF PageTypes
        <5>. QED BY <1>1, <5>2 DEF WireInv
      <4>. QED BY <2>16, <4>1, <4>2 DEF ToCome
    <3>3. \A i \in 1 .. Len(store.held) : store.held[i].seq < n
      <4>1. CASE \E j \in 1 .. Len(sending) : sending[j] = n
        BY <1>1, <2>3, <4>1 DEF HeldInv
      <4>2. CASE mine # 0 /\ OnWire(mine, n)
        BY <1>1, <2>3, <3>2, <4>2 DEF HeldInv
      <4>. QED BY <2>16, <4>1, <4>2 DEF ToCome
    <3>4. n \in 1 .. a.seq BY <2>4, <2>5, <3>1, <3>3
    <3>5. \A o \in log[n] : o \in Order /\ At(a.orders[o]) >= n BY <1>1, <2>3, <3>1, <3>4, FrameIs DEF GoodAnswer
    <3>. SUFFICES ASSUME NEW o \in log[n] PROVE At(r.orders[o]) >= n OBVIOUS
    <3>6. o \in Order /\ At(a.orders[o]) >= n BY <3>5
    <3>7. At(r.orders[o]) >= At(a.orders[o]) /\ At(r.orders[o]) \in Nat /\ At(a.orders[o]) \in Nat
      BY <2>4, <2>6, <3>6
    <3>. QED BY <3>1, <3>6, <3>7
  <2>17. ASSUME NEW o \in Order PROVE At(r.orders[o]) >= seen'[o]
    <3>1. Kept(a, o) BY <1>1, <1>2, <1>4 DEF StoreInv, a
    <3>2. At(r.orders[o]) >= seen[o]
      <4>1. CASE seen[o] <= At(a.orders[o]) BY <2>4, <2>6, <4>1
      <4>2. CASE \E i \in 1 .. Len(store.held) : o \in log[store.held[i].seq] /\ seen[o] <= store.held[i].seq
        <5>1. PICK i \in 1 .. Len(store.held) : o \in log[store.held[i].seq] /\ seen[o] <= store.held[i].seq BY <4>2
        <5>2. At(r.orders[o]) >= store.held[i].seq /\ store.held[i].seq \in Nat
          BY <1>1, <2>3, <2>4, <5>1 DEF HeldInv, Numbers
        <5>. QED BY <2>6, <5>1, <5>2
      <4>. QED BY <3>1, <4>1, <4>2 DEF Kept
    <3>. QED BY <2>4, <2>6, <2>7, <3>2
  <2>18. StoreInv'
    <3>1. \A n : ToCome(n)' <=> ToCome(n) BY <1>2 DEF ToCome, OnWire, api
    <3>. QED BY <1>2, <2>2, <2>14, <2>16, <2>17, <3>1 DEF StoreInv, api
  <2>19. store'.epoch \in 1 .. MaxSignIns + 1 /\ store'.epoch <= MaxSignIns
    <3>1. store.status # "idle" BY <1>1, <2>3 DEF LoadsInv
    <3>. QED BY <1>1, <2>2, <2>4, <3>1 DEF QuietInv
  <2>. QED BY <1>1, <1>2, <2>9, <2>11, <2>12, <2>13, <2>15, <2>18, <2>19, PageFits DEF api
<1>. QED BY <1>3, <1>4

LEMMA FailsStep ==
  ASSUME FeedInv, NEW l \in loads, LoadFails(l)
  PROVE  FeedInv'
<1>1. /\ PageTypes /\ HeldInv /\ CopiesInv /\ LoadsInv /\ StoreInv /\ QuietInv /\ faults \in 0 .. MaxFaults
      /\ wire \in Wires /\ store \in Stores(FramesNow)
  BY StoreTyped DEF FeedInv, TypeOK
<1>2. /\ loads' = loads \ {l} /\ faults' \in 0 .. MaxFaults
      /\ UNCHANGED <<api, node, wire, mine, wasOpen, seen>>
  BY <1>1, FeedAssumption DEF LoadFails, Faulty
<1>3. CASE l.epoch # store.epoch
  <2>1. UNCHANGED <<store, dropped>> BY <1>3 DEF LoadFails
  <2>. QED BY <1>2, <1>3, <2>1, StaleLoad
<1>4. CASE l.epoch = store.epoch
  <2>1. store' = LoadFailed(store) /\ dropped' = (dropped \/ store.held # <<>>) BY <1>4 DEF LoadFails
  <2>2. /\ store' \in Stores(FramesNow) /\ ~store'.loading /\ store'.held = None
        /\ store'.status = (IF store.status = "loading" THEN "error" ELSE store.status)
        /\ store'.seq = store.seq /\ store'.orders = store.orders /\ store'.epoch = store.epoch
    BY <1>1, <2>1, FailedIs
  <2>3. wire' \in Wires /\ WireShrinks BY <1>1, <1>2, SameWires
  <2>4. FramesNow' = FramesNow BY <1>2 DEF FramesNow, Frame, api
  <2>5. PageTypes'
    <3>1. store'.loading = (store'.held # None) /\ dropped' \in BOOLEAN BY <2>1, <2>2 DEF Stores
    <3>. QED BY <1>1, <1>2, <2>2, <2>4, <3>1 DEF PageTypes, FramesNow
  <2>6. HeldInv' BY <2>2 DEF HeldInv
  <2>7. CopiesInv' BY <1>1, <1>2, <2>2 DEF CopiesInv, GoodCopy, api
  <2>8. \A k \in loads' : k.epoch # store'.epoch BY <1>1, <1>2, <1>4, <2>2 DEF LoadsInv
  <2>9. LoadsInv'
    <3>1. \A k \in loads' : k.epoch <= store'.epoch /\ (k.answer # None => GoodAnswer(k.answer)')
      BY <1>1, <1>2, <2>2 DEF LoadsInv, GoodAnswer, GoodCopy, api
    <3>. QED BY <2>2, <2>8, <3>1 DEF LoadsInv
  <2>10. StoreInv'
    <3>1. \A n : ToCome(n)' <=> ToCome(n) BY <1>2 DEF ToCome, OnWire, api
    <3>2. store'.status = "ready" /\ ~dropped' => store.status = "ready" /\ ~dropped /\ store.held \in {None, <<>>}
      BY <1>1, <2>1, <2>2
    <3>. QED BY <1>1, <1>2, <2>2, <2>8, <3>1, <3>2 DEF StoreInv, api
  <2>. QED BY <1>1, <1>2, <2>2, <2>3, <2>5, <2>6, <2>7, <2>9, <2>10, PageFits DEF QuietInv, api
<1>. QED BY <1>3, <1>4

LEMMA AckedStep ==
  ASSUME FeedInv, NEW r \in replies, Acked(r)
  PROVE  FeedInv'
<1>1. /\ PageTypes /\ HeldInv /\ CopiesInv /\ LoadsInv /\ StoreInv /\ QuietInv /\ faults \in 0 .. MaxFaults
      /\ Logged /\ wire \in Wires /\ store \in Stores(FramesNow) /\ Len(log) \in Nat /\ LoadedAt \in Nat
      /\ store.orders \in [Order -> {None} \cup Copies] /\ store.loading = (store.held # None)
  BY FeedLogged, StoreTyped DEF FeedInv, TypeOK
<1>2. /\ UNCHANGED <<log, sending, node, wire, mine, wasOpen, loads, dropped, faults>> /\ replies' \subseteq replies
  BY DEF Acked
<1>3. /\ r.at \in Numbers /\ r.order \in log[r.at] /\ r.order \in Order /\ r.at \in 1 .. MaxCommits
      /\ r.at \in 1 .. Len(log) /\ r.at \in Nat /\ r.at > LoadedAt
  <2>1. r.at \in Numbers /\ r.order \in log[r.at] /\ r.order \in Order /\ r.at \in 1 .. MaxCommits
    BY DEF FeedInv, SentInv, TypeOK, ApiTypes
  <2>. QED BY <1>1, <2>1 DEF Numbers
<1>4. wire' \in Wires /\ WireShrinks /\ \A k \in Socket : wire[k] = <<>> => wire'[k] = <<>>
  BY <1>1, <1>2, SameWires
<1>5. FramesNow' = FramesNow BY <1>2 DEF FramesNow, Frame
<1>6. \A k \in loads : k.answer # None => GoodAnswer(k.answer)'
  BY <1>1, <1>2 DEF LoadsInv, GoodAnswer, GoodCopy
<1>7. \A n : ToCome(n)' <=> ToCome(n) BY <1>2 DEF ToCome, OnWire
<1>8. CASE store.status = "idle"
  <2>1. UNCHANGED <<store, seen>> BY <1>8 DEF Acked
  <2>2. PageTypes' BY <1>1, <1>2, <1>5, <2>1 DEF PageTypes, FramesNow
  <2>3. HeldInv' BY <1>1, <1>2, <2>1 DEF HeldInv, OnWire, Numbers
  <2>4. CopiesInv' BY <1>1, <1>2, <2>1 DEF CopiesInv, GoodCopy
  <2>5. LoadsInv' BY <1>1, <1>2, <1>6, <2>1 DEF LoadsInv
  <2>6. StoreInv' BY <1>1, <1>2, <1>7, <2>1 DEF StoreInv, Kept
  <2>. QED BY <1>1, <1>2, <1>4, <2>1, <2>2, <2>3, <2>4, <2>5, <2>6, PageFits DEF QuietInv
<1>9. CASE store.status # "idle"
  <2>. DEFINE c == Copy(r.at, r.at)  ready == store.status = "ready" /\ ~store.loading
  <2>1. c \in Copies /\ GoodCopy(r.order, c) /\ c.at = r.at
    BY <1>3 DEF Copy, Copies, GoodCopy
  <2>2. /\ store' = PutOrder(store, r.order, c)
        /\ seen' = IF ready THEN [seen EXCEPT ![r.order] = Max({seen[r.order], r.at})] ELSE seen
    BY <1>9 DEF Acked
  <2>. HIDE DEF c
  <2>3. /\ store' \in Stores(FramesNow) /\ store'.loading = store.loading /\ store'.held = store.held
        /\ store'.status = store.status /\ store'.seq = store.seq /\ store'.epoch = store.epoch
        /\ store'.orders = [store.orders EXCEPT ![r.order] = Newer(c, store.orders[r.order])]
    BY <1>1, <1>3, <2>1, <2>2, PutIs
  <2>4. /\ Newer(c, store.orders[r.order]) \in Copies /\ GoodCopy(r.order, Newer(c, store.orders[r.order]))
        /\ At(Newer(c, store.orders[r.order])) >= At(store.orders[r.order])
        /\ At(Newer(c, store.orders[r.order])) >= c.at
    <3>1. GoodCopy(r.order, store.orders[r.order]) /\ store.orders[r.order] \in {None} \cup Copies
      BY <1>1, <1>3 DEF CopiesInv
    <3>. QED BY <1>1, <1>3, <2>1, <3>1, NewerIs
  <2>5. \A o \in Order : /\ GoodCopy(o, store'.orders[o])
                         /\ At(store'.orders[o]) >= At(store.orders[o])
                         /\ At(store'.orders[o]) \in Nat /\ At(store.orders[o]) \in Nat
                         /\ o = r.order => At(store'.orders[o]) >= r.at
    <3>. SUFFICES ASSUME NEW o \in Order
                  PROVE  /\ GoodCopy(o, store'.orders[o])
                         /\ At(store'.orders[o]) >= At(store.orders[o])
                         /\ At(store'.orders[o]) \in Nat /\ At(store.orders[o]) \in Nat
                         /\ o = r.order => At(store'.orders[o]) >= r.at
      OBVIOUS
    <3>1. At(store.orders[o]) \in Nat BY <1>1 DEF At, Copies
    <3>2. CASE o = r.order
      <4>1. store'.orders[o] = Newer(c, store.orders[r.order]) BY <1>1, <2>3, <3>2
      <4>2. At(store'.orders[o]) \in Nat BY <2>4, <4>1 DEF At, Copies
      <4>. QED BY <2>1, <2>4, <3>1, <3>2, <4>1, <4>2
    <3>3. CASE o # r.order
      <4>1. store'.orders[o] = store.orders[o] BY <1>1, <2>3, <3>3
      <4>. QED BY <1>1, <3>1, <3>3, <4>1 DEF CopiesInv
    <3>. QED BY <3>2, <3>3
  <2>6. \A o \in Order : /\ seen[o] \in 0 .. MaxCommits /\ seen[o] \in Nat
                         /\ seen'[o] = seen[o] \/ (ready /\ o = r.order /\ seen'[o] = r.at)
                         /\ seen'[o] \in 0 .. MaxCommits
    <3>1. \A o \in Order : seen[o] \in 0 .. MaxCommits /\ seen[o] \in Nat BY <1>1 DEF PageTypes
    <3>2. Max({seen[r.order], r.at}) \in {seen[r.order], r.at} BY <1>3, <3>1, MaxTwo
    <3>3. r.at \in 0 .. MaxCommits BY <1>3, FeedAssumption
    <3>. HIDE DEF ready
    <3>. QED BY <1>1, <2>2, <3>1, <3>2, <3>3 DEF PageTypes
  <2>7. seen' \in [Order -> 0 .. MaxCommits]
    <3>1. seen' = [o \in Order |-> seen'[o]] BY <1>1, <2>2 DEF PageTypes
    <3>. QED BY <2>6, <3>1
  <2>8. PageTypes' BY <1>1, <1>2, <1>5, <2>3, <2>7 DEF PageTypes, FramesNow
  <2>9. HeldInv' BY <1>1, <1>2, <2>3 DEF HeldInv, OnWire, Numbers
  <2>10. CopiesInv'
    <3>1. ASSUME NEW o \in Order, seen'[o] > 0
          PROVE  seen'[o] <= Len(log) /\ \E n \in seen'[o] .. Len(log) : o \in log[n]
      <4>1. CASE seen'[o] = seen[o] BY <1>1, <3>1, <4>1 DEF CopiesInv
      <4>2. CASE o = r.order /\ seen'[o] = r.at BY <1>1, <1>3, <4>2
      <4>. QED BY <2>6, <4>1, <4>2
    <3>. QED BY <1>1, <1>2, <2>3, <2>5, <3>1 DEF CopiesInv, GoodCopy
  <2>11. LoadsInv' BY <1>1, <1>2, <1>6, <2>3 DEF LoadsInv
  <2>12. StoreInv'
    <3>1. \A n \in 1 .. store.seq : ToCome(n) => \A o \in log[n] : At(store'.orders[o]) >= n
      <4>. SUFFICES ASSUME NEW n \in 1 .. store.seq, ToCome(n), NEW o \in log[n] PROVE At(store'.orders[o]) >= n
        OBVIOUS
      <4>1. n \in 1 .. Len(log) /\ n \in Nat BY <1>1 DEF CopiesInv, Stores
      <4>2. o \in Order BY <1>1, <4>1, FrameIs
      <4>3. At(store.orders[o]) >= n BY <1>1 DEF StoreInv
      <4>. QED BY <2>5, <4>1, <4>2, <4>3
    <3>2. ASSUME NEW l \in loads, l.epoch = store.epoch, l.answer # None, NEW o \in Order
          PROVE  Kept(l.answer, o)'
      <4>1. store.loading BY <1>1, <3>2 DEF LoadsInv
      <4>2. seen' = seen BY <2>2, <4>1
      <4>3. Kept(l.answer, o) BY <1>1, <3>2 DEF StoreInv
      <4>. QED BY <1>2, <2>3, <4>2, <4>3 DEF Kept
    <3>3. ASSUME store.status = "ready", ~dropped, store.held \in {None, <<>>}, NEW o \in Order
          PROVE  At(store'.orders[o]) >= seen'[o]
      <4>1. At(store.orders[o]) >= seen[o] BY <1>1, <3>3 DEF StoreInv
      <4>2. CASE seen'[o] = seen[o] BY <2>5, <2>6, <4>1, <4>2
      <4>3. CASE o = r.order /\ seen'[o] = r.at BY <2>5, <4>3
      <4>. QED BY <2>6, <4>2, <4>3
    <3>. QED BY <1>2, <1>7, <2>3, <3>1, <3>2, <3>3 DEF StoreInv
  <2>. QED BY <1>1, <1>2, <1>4, <2>3, <2>8, <2>9, <2>10, <2>11, <2>12, PageFits DEF QuietInv
<1>. QED BY <1>8, <1>9

\* A socket has nothing on its way when the page asks for it.
LEMMA ConnectStep ==
  ASSUME FeedInv, Connect
  PROVE  FeedInv'
<1>1. /\ PageTypes /\ NodeTypes /\ HeldInv /\ CopiesInv /\ LoadsInv /\ StoreInv /\ QuietInv /\ faults \in 0 .. MaxFaults
      /\ wire \in Wires
  BY StoreTyped DEF FeedInv, TypeOK
<1>2. /\ UNCHANGED <<api, commands, subscribed, marked, news, heard, wire, wasOpen, store, loads, seen, dropped, faults>>
      /\ store.status # "idle" /\ mine = 0
  BY DEF Connect
<1>3. PICK k \in Socket : /\ conn[k].at = "new" /\ mine' = k
                          /\ conn' = [conn EXCEPT ![k] = [at |-> "asked", session |-> store.epoch]]
  BY DEF Connect
<1>4. [at |-> "asked", session |-> store.epoch] \in Conn BY <1>1, <1>2, FeedAssumption DEF QuietInv, Conn
<1>5. /\ conn' \in [Socket -> Conn] /\ conn'[k].at = "asked" /\ conn'[k].session = store.epoch
      /\ \A j \in Socket : j # k => conn'[j] = conn[j]
  BY <1>1, <1>3, <1>4 DEF NodeTypes, Conn
<1>6. wire[k] = <<>> BY <1>1, <1>3 DEF QuietInv
<1>7. wire' \in Wires /\ WireShrinks BY <1>1, <1>2, SameWires
<1>8. ApiTypes' /\ SentInv' /\ WireInv' /\ FramesNow' = FramesNow BY <1>2, <1>7, ApiStays DEF api
<1>9. NodeTypes' BY <1>1, <1>2, <1>5 DEF NodeTypes, Conn
<1>10. PageTypes' BY <1>1, <1>2, <1>3, <1>8 DEF PageTypes, FramesNow
<1>11. SubscribedInv' BY <1>2, <1>3, <1>5, SameWatchers
<1>12. QuietInv' BY <1>1, <1>2, <1>5, <1>6 DEF QuietInv
<1>13. \A n : ~OnWire(mine, n)'
  <2>1. wire'[mine'] = <<>> BY <1>2, <1>3, <1>6
  <2>2. Len(<<>>) = 0 OBVIOUS
  <2>. QED BY <2>1, <2>2 DEF OnWire
<1>14. HeldInv' BY <1>1, <1>2, <1>13 DEF HeldInv, Numbers, api
<1>15. CopiesInv' /\ LoadsInv' BY <1>1, <1>2 DEF CopiesInv, LoadsInv, GoodAnswer, GoodCopy, api
<1>16. StoreInv'
  <2>1. \A n : ToCome(n)' => ToCome(n) BY <1>2, <1>13 DEF ToCome, api
  <2>. QED BY <1>1, <1>2, <2>1 DEF StoreInv, Kept, api
<1>. QED BY <1>1, <1>2, <1>8, <1>9, <1>10, <1>11, <1>12, <1>14, <1>15, <1>16 DEF FeedInv, TypeOK

LEMMA DropStep ==
  ASSUME FeedInv, Drop
  PROVE  FeedInv'
<1>1. /\ PageTypes /\ NodeTypes /\ HeldInv /\ CopiesInv /\ LoadsInv /\ StoreInv /\ QuietInv /\ faults \in 0 .. MaxFaults
      /\ wire \in Wires /\ mine \in {0} \cup Socket
  BY StoreTyped DEF FeedInv, TypeOK
<1>2. /\ UNCHANGED <<api, commands, subscribed, marked, news, heard, wasOpen, store, loads, seen, dropped>>
      /\ mine \in Socket /\ mine' = 0 /\ wire' = [wire EXCEPT ![mine] = <<>>] /\ faults' \in 0 .. MaxFaults
  BY <1>1, FeedAssumption DEF Drop, Faulty
<1>. DEFINE at == IF conn[mine].at \in {"asked", "checked", "refused"} THEN "closed" ELSE conn[mine].at
<1>3. at \in {"new", "asked", "checked", "refused", "open", "closing", "closed"} BY <1>1, <1>2 DEF NodeTypes
<1>4. conn' = [conn EXCEPT ![mine].at = at] BY <1>1, <1>2 DEF Drop, NodeTypes
<1>5. /\ conn' \in [Socket -> Conn] /\ conn'[mine].at = at
      /\ \A j \in Socket : j # mine => conn'[j] = conn[j]
  <2>. HIDE DEF at
  <2>. QED BY <1>1, <1>2, <1>3, <1>4, MovedIs
<1>6. wire'[mine] = <<>> /\ \A k \in Socket : k # mine => wire'[k] = wire[k] BY <1>1, <1>2 DEF Wires
<1>7. wire' \in Wires
  <2>1. <<>> \in Seq(Messages) OBVIOUS
  <2>. QED BY <1>1, <1>2, <2>1 DEF Wires
<1>8. WireShrinks
  <2>1. \A k \in Socket : \A i \in 1 .. Len(wire'[k]) :
          i + 0 \in 1 .. Len(wire[k]) /\ wire'[k][i] = wire[k][i + 0]
    <3>. SUFFICES ASSUME NEW k \in Socket, NEW i \in 1 .. Len(wire'[k])
                  PROVE  i + 0 \in 1 .. Len(wire[k]) /\ wire'[k][i] = wire[k][i + 0]
      OBVIOUS
    <3>1. k # mine
      <4>1. Len(<<>>) = 0 OBVIOUS
      <4>. QED BY <1>6, <4>1
    <3>. QED BY <1>6, <3>1
  <2>. QED BY <2>1 DEF WireShrinks
<1>9. ApiTypes' /\ SentInv' /\ WireInv' /\ FramesNow' = FramesNow BY <1>2, <1>7, <1>8, ApiStays DEF api
<1>10. NodeTypes' BY <1>1, <1>2, <1>5, <1>7 DEF NodeTypes, Conn, Wires
<1>11. PageTypes' BY <1>1, <1>2, <1>9 DEF PageTypes, FramesNow
<1>12. SubscribedInv'
  <2>1. \A k \in Socket : conn'[k].at \in {"open", "closing"} <=> conn[k].at \in {"open", "closing"}
    BY <1>2, <1>5
  <2>. QED BY <1>2, <2>1, SameWatchers
<1>13. QuietInv' BY <1>1, <1>2, <1>5, <1>6 DEF QuietInv
<1>14. HeldInv' BY <1>1, <1>2 DEF HeldInv, Numbers, api
<1>15. CopiesInv' /\ LoadsInv' BY <1>1, <1>2 DEF CopiesInv, LoadsInv, GoodAnswer, GoodCopy, api
<1>16. StoreInv'
  <2>1. \A n : ToCome(n)' => ToCome(n) BY <1>2 DEF ToCome, api
  <2>. QED BY <1>1, <1>2, <2>1 DEF StoreInv, Kept, api
<1>. QED BY <1>2, <1>9, <1>10, <1>11, <1>12, <1>13, <1>14, <1>15, <1>16 DEF FeedInv, TypeOK

-----------------------------------------------------------------------------
(* The theorems.                                                            *)

LEMMA InitFeed ==
  ASSUME Init
  PROVE  FeedInv
<1>1. /\ log \in [1 .. LoadedAt -> (SUBSET Order) \ {{}}] /\ sending = <<>> /\ replies = {}
      /\ conn = [k \in Socket |-> [at |-> "new", session |-> 0]] /\ wire = [k \in Socket |-> <<>>]
      /\ commands = <<>> /\ subscribed = FALSE /\ marked = {} /\ news = {} /\ heard = {}
      /\ mine = 0 /\ wasOpen = FALSE /\ store = Empty(1) /\ loads = {}
      /\ seen = [o \in Order |-> 0] /\ dropped = FALSE /\ faults = 0
  BY DEF Init
<1>2. /\ store.status = "idle" /\ store.seq = 0 /\ store.orders = [o \in Order |-> None]
      /\ store.held = None /\ store.loading = FALSE /\ store.epoch = 1
      /\ store \in Stores(FramesNow)
  BY <1>1 DEF Empty, Stores
<1>3. log \in Seq(SUBSET Order) /\ Len(log) = LoadedAt /\ \A n \in 1 .. Len(log) : log[n] # {}
  BY <1>1, FeedAssumption
<1>4. Len(<<>>) = 0 OBVIOUS
<1>5. ApiTypes BY <1>1, <1>3, FeedAssumption DEF ApiTypes
<1>6. NodeTypes
  <2>1. \A k \in Socket : conn[k] \in Conn BY <1>1, FeedAssumption DEF Conn
  <2>2. conn \in [Socket -> Conn] BY <1>1, <2>1
  <2>3. wire \in [Socket -> Seq(Messages)]
    <3>1. <<>> \in Seq(Messages) OBVIOUS
    <3>. QED BY <1>1, <3>1
  <2>4. commands \in Seq({"subscribe", "unsubscribe"}) BY <1>1
  <2>. QED BY <1>1, <2>2, <2>3, <2>4 DEF NodeTypes, Conn
<1>7. PageTypes
  <2>1. store \in Stores({Frame(n) : n \in 1 .. Len(log)}) BY <1>2 DEF FramesNow
  <2>2. seen \in [Order -> 0 .. MaxCommits] BY <1>1, FeedAssumption
  <2>. QED BY <1>1, <1>2, <2>1, <2>2 DEF PageTypes
<1>8. SubscribedInv
  <2>1. Watchers = {} BY <1>1 DEF Watchers
  <2>. QED BY <1>1, <2>1 DEF SubscribedInv, Wanted
<1>9. QuietInv BY <1>1, <1>2, FeedAssumption DEF QuietInv
<1>10. SentInv BY <1>1, <1>3, <1>4, FeedAssumption DEF SentInv
<1>11. WireInv BY <1>1, <1>4 DEF WireInv
<1>12. HeldInv BY <1>2 DEF HeldInv
<1>13. CopiesInv BY <1>1, <1>2, <1>3, FeedAssumption DEF CopiesInv, GoodCopy
<1>14. LoadsInv BY <1>1, <1>2 DEF LoadsInv
<1>15. StoreInv BY <1>1, <1>2 DEF StoreInv
<1>. QED BY <1>1, <1>5, <1>6, <1>7, <1>8, <1>9, <1>10, <1>11, <1>12, <1>13, <1>14, <1>15, FeedAssumption
     DEF FeedInv, TypeOK

LEMMA FeedStays ==
  ASSUME FeedInv, UNCHANGED vars
  PROVE  FeedInv'
<1>. USE DEF vars, api, node, client
<1>1. ApiTypes' /\ NodeTypes' BY DEF FeedInv, TypeOK, ApiTypes, NodeTypes
<1>2. PageTypes' BY DEF FeedInv, TypeOK, PageTypes, Frame
<1>3. SubscribedInv' /\ QuietInv' BY DEF FeedInv, SubscribedInv, Wanted, Watchers, QuietInv
<1>4. SentInv' /\ WireInv' BY DEF FeedInv, SentInv, WireInv, Numbers
<1>5. HeldInv' BY DEF FeedInv, HeldInv, Numbers, OnWire
<1>6. CopiesInv' BY DEF FeedInv, CopiesInv, GoodCopy
<1>7. LoadsInv' BY DEF FeedInv, LoadsInv, GoodAnswer, GoodCopy
<1>8. StoreInv' BY DEF FeedInv, StoreInv, ToCome, OnWire, Kept
<1>. QED BY <1>1, <1>2, <1>3, <1>4, <1>5, <1>6, <1>7, <1>8 DEF FeedInv, TypeOK

LEMMA FeedStep ==
  ASSUME FeedInv, [Next]_vars
  PROVE  FeedInv'
<1>1. CASE \E changed \in (SUBSET Order) \ {{}} : Commit(changed) BY <1>1, CommitStep
<1>2. CASE Publish \/ PublishFails BY <1>2, PublishStep
<1>3. CASE RunCommand BY <1>3, CommandStep
<1>4. CASE Connect BY <1>4, ConnectStep
<1>5. CASE Delivers BY <1>5, BeginStep, FrameStep DEF Delivers
<1>6. CASE User BY <1>6, BeginStep, SignOutStep DEF User
<1>7. CASE Drop BY <1>7, DropStep
<1>8. CASE \E k \in Socket : CheckFails(k) BY <1>8, CheckStep
<1>9. CASE \E s \in news : RevocationLost(s) BY <1>9, LostStep
<1>10. CASE \E l \in loads : LoadFails(l) BY <1>10, FailsStep
<1>11. CASE \E k \in Socket : Node(k) BY <1>11, CheckStep, AcceptStep, RefuseStep, GoneStep DEF Node
<1>12. CASE \E s \in news : HearRevoked(s) BY <1>12, RevokeStep
<1>13. CASE \E l \in loads : Load(l) BY <1>13, ReadStep, AnsweredStep DEF Load
<1>14. CASE \E r \in replies : Acked(r) BY <1>14, AckedStep
<1>15. CASE UNCHANGED vars BY <1>15, FeedStays
<1>. QED BY <1>1, <1>2, <1>3, <1>4, <1>5, <1>6, <1>7, <1>8, <1>9, <1>10, <1>11, <1>12, <1>13, <1>14, <1>15
     DEF Next, Fault

\* What the account feed keeps, for any orders, commits, sockets, sign-ins and faults.
THEOREM FeedInvariant == Spec => []FeedInv
<1>1. Init => FeedInv BY InitFeed
<1>2. FeedInv /\ [Next]_vars => FeedInv' BY FeedStep
<1>. QED BY <1>1, <1>2, PTL DEF Spec

\* Every variable of the API process, the node, the sockets and the page has its type.
THEOREM FeedTypes == Spec => []TypeOK
<1>1. FeedInv => TypeOK BY DEF FeedInv
<1>. QED BY <1>1, FeedInvariant, PTL

\* A node whose commands have run is subscribed to the user's channel exactly while it has a
\* socket of theirs, in whatever order sockets opened and closed meanwhile (orderFeed.ts).
THEOREM SubscribedTheorem == Spec => []WatchedIsSubscribed
<1>1. FeedInv => WatchedIsSubscribed BY DEF FeedInv, SubscribedInv, Wanted, WatchedIsSubscribed
<1>. QED BY <1>1, FeedInvariant, PTL

\* The trading store never shows an order older than a state of it that it was given, whatever
\* order frames, answers and loads came in and whatever was lost (tradingStore.ts).
THEOREM KeepsTheorem == Spec => []KeepsWhatItGot
<1>1. ASSUME FeedInv, store.status = "ready", ~store.loading, ~dropped, NEW o \in Order, seen[o] > 0
      PROVE  store.orders[o] # None /\ store.orders[o].at >= seen[o]
  <2>1. PageTypes /\ StoreInv BY <1>1 DEF FeedInv, TypeOK
  <2>2. store.held = None BY <1>1, <2>1 DEF PageTypes
  <2>3. At(store.orders[o]) >= seen[o] BY <1>1, <2>1, <2>2 DEF StoreInv
  <2>4. seen[o] \in Nat BY <2>1, FeedAssumption DEF PageTypes
  <2>. QED BY <1>1, <2>3, <2>4 DEF At
<1>2. FeedInv => KeepsWhatItGot BY <1>1 DEF KeepsWhatItGot
<1>. QED BY <1>2, FeedInvariant, PTL

LEMMA RevokedStep ==
  ASSUME FeedInv, RevokedAreClosed, [Next]_vars
  PROVE  RevokedAreClosed'
<1>. USE DEF vars, api, node, client, RevokedAreClosed
<1>1. conn \in [Socket -> Conn] BY DEF FeedInv, TypeOK, NodeTypes, Conn
<1>2. \A k \in Socket : conn[k] = [at |-> conn[k].at, session |-> conn[k].session] BY <1>1 DEF Conn
<1>3. CASE \E k \in Socket : Accept(k)
  <2>1. PICK k \in Socket : Accept(k) BY <1>3
  <2>2. /\ conn'[k].session = conn[k].session /\ conn[k].session \notin heard /\ heard' = heard
        /\ \A j \in Socket : j # k => conn'[j] = conn[j]
    BY <1>1, <2>1 DEF Accept, Admitted, Conn
  <2>. QED BY <2>2
<1>4. CASE \E s \in news : HearRevoked(s)
  <2>1. PICK s \in news : HearRevoked(s) BY <1>4
  <2>2. \A k \in Socket : /\ conn'[k].session = conn[k].session
                          /\ conn'[k].at = IF k \in Open({s}) THEN "closing" ELSE conn[k].at
    BY <2>1, RevokeStep
  <2>3. heard' = heard \cup {s} BY <2>1 DEF HearRevoked
  <2>. QED BY <2>2, <2>3 DEF Open
<1>5. ASSUME UNCHANGED heard,
             \A k \in Socket : conn'[k] = conn[k] \/ conn'[k].at # "open"
                               \/ (conn[k].at = "open" /\ conn'[k].session = conn[k].session)
      PROVE  RevokedAreClosed'
  BY <1>5
<1>6. CASE \E k \in Socket : Check(k) \/ CheckFails(k) \/ Refuse(k) \/ Gone(k)
  <2>1. PICK k \in Socket : Check(k) \/ CheckFails(k) \/ Refuse(k) \/ Gone(k) BY <1>6
  <2>2. /\ conn'[k].at # "open" /\ heard' = heard
        /\ \A j \in Socket : j # k => conn'[j] = conn[j]
    BY <1>1, <2>1 DEF Check, CheckFails, Refuse, Gone, Conn
  <2>. QED BY <1>5, <2>2
<1>7. CASE Connect
  <2>1. PICK k \in Socket : conn' = [conn EXCEPT ![k] = [at |-> "asked", session |-> store.epoch]]
    BY <1>7 DEF Connect
  <2>2. heard' = heard BY <1>7 DEF Connect
  <2>. QED BY <1>1, <1>5, <2>1, <2>2
<1>8. CASE Drop
  <2>1. heard' = heard /\ mine \in Socket BY <1>8 DEF Drop, FeedInv, TypeOK, PageTypes
  <2>2. conn' = [conn EXCEPT ![mine].at = IF @ \in {"asked", "checked", "refused"} THEN "closed" ELSE @]
    BY <1>8 DEF Drop
  <2>3. /\ conn'[mine].at = (IF conn[mine].at \in {"asked", "checked", "refused"} THEN "closed" ELSE conn[mine].at)
        /\ conn'[mine].session = conn[mine].session
        /\ \A j \in Socket : j # mine => conn'[j] = conn[j]
    BY <1>1, <2>1, <2>2 DEF Conn
  <2>. QED BY <1>5, <2>1, <2>3
<1>9. CASE UNCHANGED <<conn, heard>> BY <1>5, <1>9
<1>10. CASE Publish \/ RunCommand \/ PublishFails BY <1>9, <1>10 DEF Publish, RunCommand, PublishFails
<1>11. CASE \E changed \in (SUBSET Order) \ {{}} : Commit(changed) BY <1>9, <1>11 DEF Commit
<1>12. CASE Delivers \/ User
  BY <1>9, <1>12 DEF Delivers, User, SocketOpens, SocketCloses, FrameArrives, Starts, SignOut, TabReturns,
                     IntentTimesOut
<1>13. CASE \E s \in news : RevocationLost(s) BY <1>9, <1>13 DEF RevocationLost
<1>14. CASE \E l \in loads : LoadFails(l) \/ Load(l) BY <1>9, <1>14 DEF Load, LoadFails, LoadRead, LoadAnswered
<1>15. CASE \E r \in replies : Acked(r) BY <1>9, <1>15 DEF Acked
<1>16. CASE UNCHANGED vars BY <1>9, <1>16
<1>. QED BY <1>3, <1>4, <1>6, <1>7, <1>8, <1>10, <1>11, <1>12, <1>13, <1>14, <1>15, <1>16 DEF Next, Fault, Node

\* No socket of a session is open at a node that heard it revoked, also when the socket was being
\* checked as the revocation came (app.ts, sessionRevocationFeed.ts).
THEOREM RevokedTheorem == Spec => []RevokedAreClosed
<1>1. Init => RevokedAreClosed BY DEF Init, RevokedAreClosed
<1>2. FeedInv /\ RevokedAreClosed /\ [Next]_vars => RevokedAreClosed' BY RevokedStep
<1>. QED BY <1>1, <1>2, FeedInvariant, PTL DEF Spec
=============================================================================
