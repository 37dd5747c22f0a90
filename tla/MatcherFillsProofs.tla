------------------------- MODULE MatcherFillsProofs -------------------------
(***************************************************************************)
(* For any processes, requests, faults and bounds: nothing on the fill     *)
(* stream is forgotten, provided Redis notices a closed connection before  *)
(* it runs the commands its owner sends afterwards (~LateClose).           *)
(*                                                                         *)
(* NoneLost alone is not inductive.  An ack takes a request off the        *)
(* pending list, so what is being acked must be settled (Settling);        *)
(* deleting a consumer takes off what it holds, so it must hold nothing    *)
(* from the check to the deletion (Emptied), although a request it left    *)
(* behind at Redis may still be served before the check (LeftBehind).      *)
(***************************************************************************)
EXTENDS MatcherFills, TLAPS

PendingEntry == [owner : Consumer, count : Nat, idle : BOOLEAN]

\* What of the types the argument needs.
Shaped ==
  /\ stream \in Seq(Fill)
  /\ group \in [made : BOOLEAN, last : Nat] /\ group.last <= Len(stream)
  /\ pending \in [Fill -> PendingEntry \cup {None}]
  /\ pc \in [Consumer -> Places]
  /\ acking = [c \in Consumer |-> acking[c]]
  /\ held \subseteq Consumer

\* What awaits its ack is committed or copied.
Settling == \A c \in Consumer : acking[c] \subseteq applied \cup dead

\* A consumer about to be deleted holds nothing.
Emptied == \A c \in Consumer : pc[c] = "delete" => HeldBy(c) = {}

\* An XREADGROUP nobody listens to was left by a process that is leaving, or dead.
LeftBehind == \A c \in held : pc[c] \in {"closing", "dead"}

FillsInv == Shaped /\ NoneLost /\ Settling /\ Emptied /\ LeftBehind

LEMMA InitFills == Init => FillsInv
<1> SUFFICES ASSUME Init PROVE FillsInv OBVIOUS
<1>1. Shaped
  <2>1. stream \in Seq(Fill) /\ Len(stream) = 0 BY DEF Init
  <2> QED BY <2>1 DEF Init, Shaped, NoGroup, Places
<1>2. NoneLost BY DEF Init, NoneLost
<1>3. Settling /\ Emptied /\ LeftBehind BY DEF Init, Settling, Emptied, LeftBehind
<1> QED BY <1>1, <1>2, <1>3 DEF FillsInv

\* Delivering requests only adds to what is pending, and gives what it adds to the deliverer.
LEMMA Delivering ==
  ASSUME Shaped, NEW c \in Consumer, NEW fills
  PROVE  /\ Delivered(fills, c) \in [Fill -> PendingEntry \cup {None}]
         /\ \A f \in Fill : f \in fills => Delivered(fills, c)[f] # None
         /\ \A f \in Fill : pending[f] # None => Delivered(fills, c)[f] # None
         /\ \A f \in Fill : Delivered(fills, c)[f] = pending[f]
                            \/ Delivered(fills, c)[f].owner = c
<1>1. \A f \in Fill : CountUp(f) \in Nat
  BY FillsAssumption DEF CountUp, Shaped, PendingEntry
<1>2. \A f \in Fill : [owner |-> c, count |-> CountUp(f), idle |-> FALSE] \in PendingEntry
  BY <1>1 DEF PendingEntry
<1>3. None \notin PendingEntry BY FillsAssumption DEF PendingEntry
<1> QED BY <1>2, <1>3 DEF Delivered, Shaped

\* So does handing out what is new, which leaves nothing undelivered.
LEMMA HandingOut ==
  ASSUME Shaped, NoneLost, NEW c \in Consumer, Deliver(c)
  PROVE  /\ stream' = stream
         /\ group' \in [made : BOOLEAN, last : Nat] /\ group'.last <= Len(stream)
         /\ \A i \in 1 .. Len(stream) :
              pending'[stream[i]] # None \/ Settled(stream[i])
<1>1. stream' = stream /\ group' = [group EXCEPT !.last = Len(stream)]
      /\ pending' = Delivered(Range(New), c)
  BY DEF Deliver
<1>2. group' \in [made : BOOLEAN, last : Nat] /\ group'.last = Len(stream)
  BY <1>1 DEF Shaped
<1>3. ASSUME NEW i \in 1 .. Len(stream)
      PROVE  pending'[stream[i]] # None \/ Settled(stream[i])
  <2>1. stream[i] \in Fill BY DEF Shaped
  <2>2. CASE i <= group.last
    BY <2>1, <2>2, <1>1, Delivering DEF NoneLost, Shaped
  <2>3. CASE i > group.last
    <3>1. i - group.last \in 1 .. Len(New) /\ New[i - group.last] = stream[i]
      BY <2>3 DEF New, Shaped
    <3>2. stream[i] \in Range(New)
      <4>1. DOMAIN New = 1 .. Len(New) BY DEF New, Shaped
      <4> QED BY <3>1, <4>1 DEF Range
    <3> QED BY <2>1, <3>2, <1>1, Delivering
  <2> QED BY <2>2, <2>3 DEF Shaped
<1> QED BY <1>1, <1>2, <1>3

\* Whoever deletes a consumer is not the one something is delivered to.
LEMMA StayEmpty ==
  ASSUME FillsInv, NEW c \in Consumer, NEW fills, pending' = Delivered(fills, c),
         pc[c] # "delete", \A b \in Consumer : pc'[b] = "delete" => pc[b] = "delete"
  PROVE  Emptied'
<1> SUFFICES ASSUME NEW b \in Consumer, pc'[b] = "delete", NEW f \in Fill,
                    pending'[f] # None, pending'[f].owner = b
             PROVE  FALSE
  BY DEF Emptied, HeldBy
<1>1. pc[b] = "delete" /\ b # c OBVIOUS
<1>2. pending'[f] = pending[f] BY <1>1, Delivering DEF FillsInv
<1> QED BY <1>1, <1>2 DEF FillsInv, Emptied, HeldBy

\* Taking settled requests, or nothing anybody has, off the pending list loses nothing.
LEMMA Dropping ==
  ASSUME FillsInv, NEW fills, pending' = Dropped(fills),
         \A f \in Fill \cap fills : pending[f] = None \/ Settled(f),
         UNCHANGED <<stream, group>>, applied \subseteq applied', dead \subseteq dead'
  PROVE  pending' \in [Fill -> PendingEntry \cup {None}] /\ NoneLost'
<1>1. pending' \in [Fill -> PendingEntry \cup {None}] BY DEF FillsInv, Shaped, Dropped
<1>2. NoneLost' BY DEF FillsInv, Shaped, Dropped, NoneLost, Settled
<1> QED BY <1>1, <1>2

\* A step that leaves the stream and its group alone, forgets nothing that was settled, and acks
\* nothing it did not settle.
LEMMA Moving ==
  ASSUME FillsInv, UNCHANGED <<stream, group, pending>>,
         applied \subseteq applied', dead \subseteq dead',
         acking' = [c \in Consumer |-> acking'[c]],
         \A c \in Consumer : acking'[c] \subseteq acking[c] \cup applied' \cup dead',
         pc' \in [Consumer -> Places],
         \A c \in Consumer : pc'[c] = "delete" => pc[c] = "delete" \/ HeldBy(c) = {},
         held' \subseteq Consumer,
         \A c \in held' : pc'[c] \in {"closing", "dead"}
  PROVE  FillsInv'
<1>1. Shaped' BY DEF FillsInv, Shaped
<1>2. NoneLost' BY DEF FillsInv, NoneLost, Settled
<1>3. Settling' BY DEF FillsInv, Settling
<1>4. Emptied' BY DEF FillsInv, Emptied, HeldBy
<1>5. LeftBehind' BY DEF LeftBehind
<1> QED BY <1>1, <1>2, <1>3, <1>4, <1>5 DEF FillsInv

\* A step that delivers.
LEMMA Taking ==
  ASSUME FillsInv, NEW c \in Consumer, NEW fills, pending' = Delivered(fills, c),
         stream' = stream, group' \in [made : BOOLEAN, last : Nat], group'.last <= Len(stream),
         \A i \in 1 .. Len(stream) :
           i > group'.last \/ pending'[stream[i]] # None \/ Settled(stream[i]),
         UNCHANGED <<books, acking>>,
         pc[c] # "delete", \A b \in Consumer : pc'[b] = "delete" => pc[b] = "delete",
         pc' \in [Consumer -> Places],
         held' \subseteq Consumer,
         \A b \in held' : pc'[b] \in {"closing", "dead"}
  PROVE  FillsInv'
<1>1. Shaped' BY Delivering DEF FillsInv, Shaped
<1>2. NoneLost' BY DEF NoneLost, Settled, books
<1>3. Settling' BY DEF FillsInv, Settling, books
<1>4. Emptied' BY StayEmpty
<1>5. LeftBehind' BY DEF LeftBehind
<1> QED BY <1>1, <1>2, <1>3, <1>4, <1>5 DEF FillsInv

-----------------------------------------------------------------------------
(* The environment.                                                        *)

LEMMA AskKeeps == ASSUME FillsInv, NEW f \in Fill, Ask(f) PROVE FillsInv'
<1>1. Len(stream') = Len(stream) + 1 /\ stream' \in Seq(Fill)
      /\ \A i \in 1 .. Len(stream) : stream'[i] = stream[i]
  BY DEF Ask, FillsInv, Shaped
<1>2. UNCHANGED <<group, pending, applied, dead, acking, pc, held>>
  BY DEF Ask, books, hands, flow, ends
<1>3. Shaped' BY <1>1, <1>2 DEF FillsInv, Shaped
<1>4. NoneLost'
  <2> SUFFICES ASSUME NEW i \in 1 .. Len(stream'), i <= group.last
               PROVE  pending[stream'[i]] # None \/ Settled(stream'[i])
    BY <1>1, <1>2 DEF NoneLost, Settled, FillsInv, Shaped
  <2>1. i \in 1 .. Len(stream) BY <1>1 DEF FillsInv, Shaped
  <2> QED BY <1>1, <2>1 DEF FillsInv, NoneLost, Shaped
<1>5. Settling' /\ Emptied' /\ LeftBehind'
  BY <1>2 DEF FillsInv, Settling, Emptied, HeldBy, LeftBehind
<1> QED BY <1>3, <1>4, <1>5 DEF FillsInv

LEMMA AgeKeeps == ASSUME FillsInv, NEW f \in Fill, Age(f) PROVE FillsInv'
<1>1. pending[f] \in PendingEntry BY DEF Age, FillsInv, Shaped
<1>2. pending' = [pending EXCEPT ![f] = [@ EXCEPT !.idle = TRUE]] BY DEF Age
<1>3. [pending[f] EXCEPT !.idle = TRUE] \in PendingEntry BY <1>1 DEF PendingEntry
<1>4. None \notin PendingEntry BY FillsAssumption DEF PendingEntry
<1>5. /\ pending' \in [Fill -> PendingEntry \cup {None}]
      /\ \A g \in Fill : pending'[g] = None <=> pending[g] = None
      /\ \A g \in Fill : pending[g] # None => pending'[g].owner = pending[g].owner
  BY <1>1, <1>2, <1>3, <1>4 DEF FillsInv, Shaped, PendingEntry
<1>6. UNCHANGED <<stream, group, applied, dead, acking, pc, held>>
  BY DEF Age, books, hands, flow, ends
<1>7. Shaped' BY <1>5, <1>6 DEF FillsInv, Shaped
<1>8. NoneLost' BY <1>5, <1>6 DEF FillsInv, Shaped, NoneLost, Settled
<1>9. Settling' /\ LeftBehind' BY <1>6 DEF FillsInv, Settling, LeftBehind
<1>10. Emptied' BY <1>5, <1>6 DEF FillsInv, Emptied, HeldBy
<1> QED BY <1>7, <1>8, <1>9, <1>10 DEF FillsInv

LEMMA RestartKeeps == ASSUME FillsInv, RestartRedis PROVE FillsInv'
<1>1. stream' \in Seq(Fill) /\ Len(stream') = 0 BY DEF RestartRedis
<1>2. Shaped'
  BY <1>1 DEF RestartRedis, NoGroup, FillsInv, Shaped, hands, flow
<1>3. NoneLost' BY <1>1 DEF NoneLost
<1>4. Settling' BY DEF RestartRedis, books, hands, FillsInv, Settling
<1>5. Emptied' /\ LeftBehind' BY DEF RestartRedis, flow, Emptied, HeldBy, LeftBehind
<1> QED BY <1>2, <1>3, <1>4, <1>5 DEF FillsInv

-----------------------------------------------------------------------------
(* Steps of a process that deliver nothing.                                *)

\* Where the loop goes next.
LEMMA TurnMoves ==
  ASSUME FillsInv, NEW c \in Consumer, Turn(c)
  PROVE  /\ pc' \in [Consumer -> Places]
         /\ pc'[c] \in {"closing", "claim", "read"}
         /\ \A b \in Consumer \ {c} : pc'[b] = pc[b]
BY DEF FillsInv, Shaped, Turn, Goto, Places

LEMMA LoopKeeps ==
  ASSUME FillsInv, NEW c \in Consumer,
         \/ CreateGroup(c) \/ Count(c) \/ CountLost(c) \/ ReadNothing(c) \/ FindNoGroup(c)
         \/ Handled(c)
  PROVE  FillsInv'
<1>1. CASE CreateGroup(c)
  <2>1. stream' = stream /\ pending' = pending /\ held' = held /\ pc[c] = "start"
        /\ UNCHANGED <<applied, dead, acking>>
    BY <1>1 DEF CreateGroup, books, hands, ends, Listening
  <2>2. group' \in [made : BOOLEAN, last : Nat] /\ group'.last <= group.last
    BY <1>1 DEF CreateGroup, Created, FillsInv, Shaped
  <2>3. Turn(c) BY <1>1 DEF CreateGroup
  <2>4. Shaped' BY <2>1, <2>2, <2>3, TurnMoves DEF FillsInv, Shaped
  <2>5. NoneLost'
    <3> SUFFICES ASSUME NEW i \in 1 .. Len(stream), i <= group'.last
                 PROVE  pending[stream[i]] # None \/ Settled(stream[i])
      BY <2>1, <2>2 DEF NoneLost, Settled, FillsInv, Shaped
    <3> QED BY <2>2 DEF FillsInv, NoneLost, Shaped
  <2>6. Settling' BY <2>1 DEF FillsInv, Settling
  <2>7. Emptied' BY <2>1, <2>3, TurnMoves DEF FillsInv, Emptied, HeldBy
  <2>8. LeftBehind' BY <2>1, <2>3, TurnMoves DEF FillsInv, LeftBehind, Shaped
  <2> QED BY <2>4, <2>5, <2>6, <2>7, <2>8 DEF FillsInv
<1>2. CASE Count(c)
  BY <1>2, Moving DEF Count, Goto, Places, redis, books, ends, FillsInv, Shaped, LeftBehind
<1>3. CASE CountLost(c)
  BY <1>3, Moving DEF CountLost, Goto, Places, redis, books, ends, FillsInv, Shaped, LeftBehind
<1>4. CASE ReadNothing(c)
  BY <1>4, Moving, TurnMoves
     DEF ReadNothing, Listening, redis, books, hands, ends, FillsInv, Shaped, LeftBehind
<1>5. CASE FindNoGroup(c)
  BY <1>5, Moving
     DEF FindNoGroup, Listening, Goto, Places, redis, books, hands, ends, FillsInv, Shaped, LeftBehind
<1>6. CASE Handled(c)
  <2>1. /\ pc' \in [Consumer -> Places]
        /\ pc'[c] \in {"closing", "claim", "read"}
        /\ \A b \in Consumer \ {c} : pc'[b] = pc[b]
    <3>1. CASE pc[c] = "runRead" BY <3>1, <1>6, TurnMoves DEF Handled
    <3>2. CASE pc[c] # "runRead"
      BY <3>2, <1>6 DEF Handled, AfterPage, Goto, Places, FillsInv, Shaped
    <3> QED BY <3>1, <3>2
  <2> QED
    BY <1>6, <2>1, Moving
       DEF Handled, Handling, redis, books, hands, ends, FillsInv, Shaped, LeftBehind
<1> QED BY <1>1, <1>2, <1>3, <1>4, <1>5, <1>6

\* Running and copying settle what they put up for an ack.
LEMMA HandsKeep ==
  ASSUME FillsInv, NEW c \in Consumer,
         \/ Copy(c) \/ CopyFailed(c)
         \/ \E u \in User : Run(c, u) \/ RunFailed(c, u) \/ RunRefused(c, u)
  PROVE  FillsInv'
<1>1. CASE Copy(c)
  BY <1>1, Moving DEF Copy, redis, flow, ends, FillsInv, Shaped, LeftBehind
<1>2. CASE CopyFailed(c)
  BY <1>2, Moving DEF CopyFailed, redis, flow, ends, FillsInv, Shaped, LeftBehind
<1>3. CASE \E u \in User : Run(c, u)
  <2>1. PICK u \in User : Run(c, u) BY <1>3
  <2> QED BY <2>1, Moving DEF Run, redis, flow, ends, FillsInv, Shaped, LeftBehind
<1>4. CASE \E u \in User : RunFailed(c, u)
  <2>1. PICK u \in User : RunFailed(c, u) BY <1>4
  <2> QED BY <2>1, Moving DEF RunFailed, redis, flow, ends, FillsInv, Shaped, LeftBehind
<1>5. CASE \E u \in User : RunRefused(c, u)
  <2>1. PICK u \in User : RunRefused(c, u) BY <1>5
  <2> QED BY <2>1, Moving DEF RunRefused, redis, flow, ends, FillsInv, Shaped, LeftBehind
<1> QED BY <1>1, <1>2, <1>3, <1>4, <1>5

LEMMA EndsKeep ==
  ASSUME ~LateClose, FillsInv, NEW c \in Consumer,
         \/ Close(c) \/ Leave(c) \/ CutOff(c) \/ DropHeld(c) \/ CheckPending(c) \/ Crash(c)
         \/ BecomeDue(c)
  PROVE  FillsInv'
<1>1. CASE Close(c) \/ CutOff(c) \/ DropHeld(c) \/ BecomeDue(c)
  BY <1>1, Moving
     DEF Close, CutOff, DropHeld, BecomeDue, redis, books, hands, flow, ends,
         FillsInv, Shaped, LeftBehind
<1>2. CASE Leave(c)
  BY <1>2, Moving
     DEF Leave, Goto, Places, redis, books, hands, FillsInv, Shaped, LeftBehind
<1>3. CASE CheckPending(c)
  BY <1>3, Moving
     DEF CheckPending, Goto, Places, redis, books, hands, FillsInv, Shaped, LeftBehind
<1>4. CASE Crash(c)
  BY <1>4, Moving
     DEF Crash, Goto, Places, redis, books, FillsInv, Shaped, LeftBehind
<1> QED BY <1>1, <1>2, <1>3, <1>4
-----------------------------------------------------------------------------
(* Steps that take from the pending list, or add to it.                    *)

LEMMA AckKeeps ==
  ASSUME FillsInv, NEW c \in Consumer, NEW f \in Fill, Ack(c, f) \/ AckFailed(c, f)
  PROVE  FillsInv'
<1>1. /\ f \in acking[c] /\ UNCHANGED <<stream, group, applied, dead, pc, held>>
      /\ acking' = [acking EXCEPT ![c] = @ \ {f}]
      /\ pending' = pending \/ pending' = Dropped({f})
  BY DEF Ack, AckFailed, PutDown, books, flow, ends
<1>2. Settled(f) BY <1>1 DEF FillsInv, Settling, Settled
<1>3. CASE pending' = pending
  BY <1>1, <1>3, Moving DEF FillsInv, Shaped, LeftBehind
<1>4. CASE pending' = Dropped({f})
  <2>1. pending' \in [Fill -> PendingEntry \cup {None}] /\ NoneLost'
    BY <1>1, <1>2, <1>4, Dropping
  <2>2. Shaped' BY <1>1, <2>1 DEF FillsInv, Shaped
  <2>3. Settling' /\ LeftBehind' BY <1>1 DEF FillsInv, Shaped, Settling, LeftBehind
  <2>4. Emptied' BY <1>1, <1>4 DEF FillsInv, Emptied, HeldBy, Dropped
  <2> QED BY <2>1, <2>2, <2>3, <2>4 DEF FillsInv
<1> QED BY <1>1, <1>3, <1>4

\* The consumer that is deleted holds nothing, so nothing goes with it.
LEMMA DeleteKeeps == ASSUME FillsInv, NEW c \in Consumer, DeleteConsumer(c) PROVE FillsInv'
<1>1. HeldBy(c) = {} BY DEF DeleteConsumer, FillsInv, Emptied
<1>2. pending' = pending BY <1>1 DEF DeleteConsumer, Dropped, FillsInv, Shaped
<1> QED
  BY <1>2, Moving
     DEF DeleteConsumer, Goto, Places, books, hands, ends, FillsInv, Shaped, LeftBehind

LEMMA ClaimKeeps ==
  ASSUME FillsInv, NEW c \in Consumer, ClaimPage(c) \/ ClaimLost(c)
  PROVE  FillsInv'
<1>1. /\ pc[c] = "claim" /\ UNCHANGED <<stream, group, applied, tried, dead, acking, held>>
      /\ pending' = pending \/ \E fills : pending' = Delivered(fills, c)
  BY DEF ClaimPage, ClaimLost, books, hands, ends
<1>2. /\ pc' \in [Consumer -> Places]
      /\ pc'[c] \in {"closing", "claim", "read", "count"}
      /\ \A b \in Consumer \ {c} : pc'[b] = pc[b]
  <2>1. CASE ClaimPage(c)
    BY <2>1 DEF ClaimPage, AfterPage, Goto, Places, FillsInv, Shaped
  <2>2. CASE ClaimLost(c) BY <2>2, TurnMoves DEF ClaimLost
  <2> QED BY <2>1, <2>2
<1>3. CASE pending' = pending
  BY <1>1, <1>2, <1>3, Moving DEF FillsInv, Shaped, LeftBehind
<1>4. CASE \E fills : pending' = Delivered(fills, c)
  <2>1. PICK fills : pending' = Delivered(fills, c) BY <1>4
  <2>2. ASSUME NEW i \in 1 .. Len(stream)
        PROVE  i > group.last \/ pending'[stream[i]] # None \/ Settled(stream[i])
    BY <2>1, Delivering DEF FillsInv, Shaped, NoneLost
  <2> QED
    BY <1>1, <1>2, <2>1, <2>2, Taking DEF FillsInv, Shaped, LeftBehind, books
<1> QED BY <1>1, <1>3, <1>4

LEMMA ReadKeeps ==
  ASSUME FillsInv, NEW c \in Consumer, Read(c) \/ ReadLost(c) \/ ServeHeld(c)
  PROVE  FillsInv'
<1>1. /\ Deliver(c) /\ UNCHANGED <<books, acking>>
      /\ pc[c] = "read" \/ c \in held
  BY DEF Read, ReadLost, ServeHeld, Listening, hands
<1>2. pc[c] # "delete" BY <1>1 DEF FillsInv, LeftBehind
<1>3. /\ pc' \in [Consumer -> Places]
      /\ pc'[c] # "delete" /\ \A b \in Consumer \ {c} : pc'[b] = pc[b]
      /\ held' \subseteq held /\ \A b \in held' : pc'[b] = pc[b]
  <2>1. CASE Read(c)
    BY <2>1 DEF Read, Listening, Goto, Places, ends, FillsInv, Shaped, LeftBehind
  <2>2. CASE ReadLost(c)
    BY <2>2, TurnMoves DEF ReadLost, Listening, ends, FillsInv, Shaped, LeftBehind
  <2>3. CASE ServeHeld(c) BY <2>3, <1>2 DEF ServeHeld, flow, FillsInv, Shaped
  <2> QED BY <2>1, <2>2, <2>3
<1>4. pending' = Delivered(Range(New), c) BY <1>1 DEF Deliver
<1>5. /\ stream' = stream
      /\ group' \in [made : BOOLEAN, last : Nat] /\ group'.last <= Len(stream)
      /\ \A i \in 1 .. Len(stream) : pending'[stream[i]] # None \/ Settled(stream[i])
  BY <1>1, HandingOut DEF FillsInv
<1>6. /\ \A b \in Consumer : pc'[b] = "delete" => pc[b] = "delete"
      /\ held' \subseteq Consumer /\ \A b \in held' : pc'[b] \in {"closing", "dead"}
  BY <1>3 DEF FillsInv, Shaped, LeftBehind
<1> QED BY <1>1, <1>2, <1>3, <1>4, <1>5, <1>6, Taking

-----------------------------------------------------------------------------

LEMMA NextKeeps == ASSUME ~LateClose, FillsInv, Next PROVE FillsInv'
<1>1. ASSUME NEW c \in Consumer, Work(c) PROVE FillsInv'
  BY <1>1, LoopKeeps, HandsKeep, EndsKeep, AckKeeps, DeleteKeeps, ClaimKeeps, ReadKeeps DEF Work
<1>2. ASSUME NEW c \in Consumer, Fail(c) PROVE FillsInv'
  BY <1>2, LoopKeeps, HandsKeep, EndsKeep, AckKeeps, ClaimKeeps, ReadKeeps DEF Fail
<1>3. ASSUME NEW c \in Consumer, BecomeDue(c) PROVE FillsInv'
  BY <1>3, EndsKeep
<1> QED BY <1>1, <1>2, <1>3, AskKeeps, AgeKeeps, RestartKeeps DEF Next, Untimed

\* Nothing on the stream is ever forgotten (NoneLost), for any number of processes and requests,
\* any page size and delivery cap, and any number of faults.
THEOREM FillsLoseNothing == ~LateClose => (Spec => []NoneLost)
<1> SUFFICES ASSUME ~LateClose PROVE Spec => []NoneLost OBVIOUS
<1>1. Init => FillsInv BY InitFills
<1>2. FillsInv /\ [Next]_vars => FillsInv'
  <2>1. ASSUME FillsInv, UNCHANGED vars PROVE FillsInv'
    BY <2>1, Moving
       DEF vars, redis, books, hands, flow, ends, FillsInv, Shaped, LeftBehind
  <2> QED BY <2>1, NextKeeps
<1>3. FillsInv => NoneLost BY DEF FillsInv
<1> QED BY <1>1, <1>2, <1>3, PTL DEF Spec
=============================================================================
