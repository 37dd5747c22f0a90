------------------------- MODULE MatcherShardProofs --------------------------
(***************************************************************************)
(* Of every behaviour of MatcherShard, for any processes, orders, stops,   *)
(* prices and faults: its types, that what rests on a book is what the     *)
(* account held at the version the book has it at, and that no process     *)
(* goes back on what it has learned of an order.                           *)
(*                                                                         *)
(* Each needs that whatever may come to a book - a command under way or    *)
(* read, a snapshot, an order taken off by a tick whose send may fail -    *)
(* is itself of some version of the account, so that is the invariant.     *)
(***************************************************************************)
EXTENDS MatcherShard, TLAPS

Prices == Nat \ {0}

\* A stop of the account: it protects a long position and, once it trails, has a watermark.
LiveStop(x) ==
  /\ x \in Stops /\ x.direction = "LONG" /\ x.status \in {"ARMED", "TRAILING"}
  /\ x.status = "TRAILING" => x.watermark \in Prices

Good(i, x) == IF i \in Order THEN x \in NewOrders ELSE LiveStop(x)

Commands == [id : Id, version : Nat, value : Values]
Rounds   == [phase : {"idle", "asked", "read"}, asked : BOOLEAN, at : Nat]

\* The value of an order or stop is that of the account's version, a stop perhaps moved on since.
Stored(i, version, value) ==
  value # None =>
    /\ version \in 1 .. Len(log) /\ log[version][i] # None
    /\ IF i \in Order THEN value = log[version][i]
                      ELSE LiveStop(value) /\ NoLooser(value, log[version][i])

LogInv ==
  /\ log \in Seq(Account) /\ Len(log) > 0
  /\ \A v \in 1 .. Len(log), i \in Id : log[v][i] # None => Good(i, log[v][i])

\* A command tells what the commit it names made of the order.
Tells(c) == c \in Commands /\ c.version \in 1 .. Len(log) /\ c.value = log[c.version][c.id]

UnsentInv == \A c \in unsent : Tells(c)

Unread(w) ==
  unread[w] # None =>
    unread[w] \in Seq(Commands) /\ \A n \in 1 .. Len(unread[w]) : Tells(unread[w][n])

UnreadInv == \A w \in Worker : Unread(w)

Booked(w) ==
  book[w] # None =>
    book[w] \in [Id -> Slots] /\ \A i \in Id : Stored(i, book[w][i].version, book[w][i].value)

BookInv == \A w \in Worker : Booked(w)

\* What a failed send would put back.
SendingOf(s) ==
  /\ s.by \in Worker /\ s.ltp \in Price /\ DOMAIN s.taken \subseteq Id
  /\ \A i \in DOMAIN s.taken :
       /\ s.taken[i].version \in Nat /\ PutBack(i, s.taken[i]) \in Values
       /\ Stored(i, s.taken[i].version, PutBack(i, s.taken[i]))

SendingInv == \A s \in sending : SendingOf(s)

\* A process that is sending ticked a book, and has it.
WritersInv == \A s \in sending : s.by \in Worker /\ book[s.by] # None

RoundInv ==
  /\ round \in [Worker -> Rounds]
  /\ \A w \in Worker : round[w].at \in {0} \cup 1 .. Len(log)

RestInv ==
  /\ DOMAIN book = Worker /\ DOMAIN unread = Worker
  /\ erased \in BOOLEAN /\ used \subseteq Id
  /\ requests \subseteq Price /\ holder \in Worker \cup {None}
  /\ faults \in 0 .. MaxFaults

ShardInv == LogInv /\ UnsentInv /\ UnreadInv /\ BookInv /\ SendingInv /\ WritersInv /\ RoundInv /\ RestInv

-----------------------------------------------------------------------------
(* A stop at a price.                                                       *)

LEMMA DivBounds ==
  ASSUME NEW x \in Int, NEW n \in Nat \ {0}
  PROVE  /\ x \div n \in Int
         /\ (x \div n) * n <= x
         /\ x < (x \div n) * n + n
  OBVIOUS

\* The stop a trail gives at a price is a number of paise.
LEMMA StopIsPaise ==
  ASSUME NEW d \in Directions, NEW t \in Trails, NEW w \in Prices
  PROVE  StopFromWatermark(d, t, w) \in Int
<1>1. \A x \in Int : x \div TickSize \in Int /\ x \div BasisPoints \in Int
  BY DivBounds, TrailAssumption
<1>2. \A x \in Int : FloorToTick(x) \in Int /\ CeilToTick(x) \in Int
  BY <1>1, TrailAssumption DEF FloorToTick, CeilToTick
<1>3. t.size \in Int /\ w \in Int BY DEF Trails, Prices
<1>4. \A a \in Int, r \in Int : (w * (BasisPoints + a) + r) \div BasisPoints \in Int
  BY <1>1, <1>3, TrailAssumption
<1> QED BY <1>2, <1>3, <1>4, TrailAssumption DEF StopFromWatermark, Directions, Trails

\* A stop that a price does not trigger stays a stop of the account, no looser than it was; and so
\* does one that it triggers, once put back.
LEMMA StopSteps ==
  ASSUME NEW x, LiveStop(x), NEW ltp \in Price
  PROVE  LET next == StepTrailingStop(x, ltp)
             back == [next EXCEPT !.status = "TRAILING"] IN
         /\ next \in Stops
         /\ ~Triggers(x, ltp) => LiveStop(next)
         /\ Triggers(x, ltp) => LiveStop(back)
         /\ \A old : LiveStop(old) /\ NoLooser(x, old) =>
              /\ ~Triggers(x, ltp) => NoLooser(next, old)
              /\ Triggers(x, ltp) => NoLooser(back, old)
<1>. DEFINE next == StepTrailingStop(x, ltp)
            back == [next EXCEPT !.status = "TRAILING"]
<1>1. /\ x \in Stops /\ ltp \in Prices /\ x.direction = "LONG" /\ x.status \in {"ARMED", "TRAILING"}
      /\ x.trail \in Trails /\ "LONG" \in Directions
  BY ShardAssumption DEF LiveStop, Prices, Stops, Directions
<1>2. \A w \in Prices : StopFromWatermark("LONG", x.trail, w) \in Int BY <1>1, StopIsPaise
<1>3. CASE x.status = "ARMED"
  <2>1. ~Triggers(x, ltp) BY <1>3 DEF Triggers
  <2>2. LiveStop(next)
    <3>1. CASE Activates(x, ltp)
      <4>. DEFINE stop == StopFromWatermark("LONG", x.trail, ltp)
      <4>1. next = [x EXCEPT !.status = "TRAILING", !.watermark = ltp, !.stop = stop]
        BY <1>1, <1>3, <3>1 DEF StepTrailingStop, Activated
      <4>2. stop \in Int BY <1>1, <1>2
      <4>. HIDE DEF stop, next
      <4>. QED BY <1>1, <4>1, <4>2 DEF LiveStop, Stops, Statuses, Prices
    <3>2. CASE ~Activates(x, ltp)
      <4>1. next = x BY <1>3, <3>2 DEF StepTrailingStop
      <4>. QED BY <4>1
    <3>. QED BY <3>1, <3>2
  <2>3. \A old : NoLooser(x, old) => old.status = "ARMED" BY <1>3 DEF NoLooser
  <2>. QED BY <2>1, <2>2, <2>3 DEF LiveStop, NoLooser
<1>4. CASE x.status = "TRAILING"
  <2>. DEFINE best  == Better(x.direction, x.watermark, ltp)
              moved == Ratcheted(x, ltp)
              stop  == Better(x.direction, x.stop, StopFromWatermark(x.direction, x.trail, best))
  <2>1. x.watermark \in Prices /\ best \in Prices /\ x.watermark <= best
    BY <1>1, <1>4 DEF LiveStop, Better, Prices
  <2>2. moved = [x EXCEPT !.watermark = best, !.stop = stop] BY DEF Ratcheted
  <2>3. stop \in Int \cup {None}
    <3>1. x.stop \in Int \cup {None} BY <1>1 DEF Stops
    <3>2. StopFromWatermark(x.direction, x.trail, best) \in Int BY <1>1, <1>2, <2>1
    <3>. QED BY <3>1, <3>2 DEF Better
  <2>. HIDE DEF best, stop
  <2>5. /\ moved \in Stops /\ moved.status = "TRAILING" /\ moved.direction = "LONG"
        /\ moved.watermark = best
    BY <1>1, <1>4, <2>1, <2>2, <2>3 DEF Stops, Prices
  <2>6. LiveStop(moved) BY <2>1, <2>5 DEF LiveStop
  <2>7. ASSUME NEW old, LiveStop(old), NoLooser(x, old)
        PROVE  NoLooser(moved, old)
    <3>1. CASE old.status = "ARMED" BY <3>1 DEF NoLooser
    <3>2. CASE old.status = "TRAILING"
      <4>1. old.watermark \in Prices BY <2>7, <3>2 DEF LiveStop
      <4>2. x.watermark >= old.watermark BY <1>4, <2>7, <3>2, <4>1 DEF NoLooser, Prices
      <4>. QED BY <2>1, <2>5, <4>1, <4>2 DEF NoLooser, Prices
    <3>. QED BY <2>7, <3>1, <3>2 DEF LiveStop
  <2>8. next = IF Reached(x.direction, ltp, moved.stop) THEN [moved EXCEPT !.status = "TRIGGERED"] ELSE moved
    BY <1>4 DEF StepTrailingStop
  <2>. HIDE DEF moved, next
  <2>9. Triggers(x, ltp) <=> next.status = "TRIGGERED" BY <1>4 DEF Triggers, next
  <2>10. CASE Reached(x.direction, ltp, moved.stop)
    <3>1. next = [moved EXCEPT !.status = "TRIGGERED"] BY <2>8, <2>10
    <3>2. /\ next.status = "TRIGGERED" /\ next \in Stops
          /\ [next EXCEPT !.status = "TRAILING"] = moved
      BY <2>5, <3>1 DEF Stops, Statuses
    <3>. QED BY <2>6, <2>7, <2>9, <3>2 DEF next
  <2>11. CASE ~Reached(x.direction, ltp, moved.stop)
    <3>1. next = moved BY <2>8, <2>11
    <3>. QED BY <2>5, <2>6, <2>7, <2>9, <3>1 DEF next
  <2>. QED BY <2>10, <2>11
<1>. QED BY <1>1, <1>3, <1>4

\* The account that a price leaves is one.
LEMMA RunIs ==
  ASSUME NEW account \in Account, \A i \in Id : account[i] # None => Good(i, account[i]), NEW ltp \in Price
  PROVE  /\ RunAt(account, ltp) \in Account
         /\ \A i \in Id : RunAt(account, ltp)[i] # None => Good(i, RunAt(account, ltp)[i])
<1>1. ASSUME NEW i \in Id, account[i] # None, ~Crosses(i, account[i], ltp)
      PROVE  Good(i, Stepped(i, account[i], ltp)) /\ Stepped(i, account[i], ltp) \in Values
  <2>1. Good(i, account[i]) BY <1>1
  <2>2. CASE i \in Order BY <2>1, <2>2 DEF Good, Stepped, Values, NewOrders
  <2>3. CASE i \notin Order
    <3>1. LiveStop(account[i]) /\ ~Triggers(account[i], ltp) BY <1>1, <2>1, <2>3 DEF Good, Crosses
    <3>2. LiveStop(StepTrailingStop(account[i], ltp)) BY <3>1, StopSteps
    <3>. QED BY <2>3, <3>2 DEF Good, Stepped, Values, LiveStop
  <2>. QED BY <2>2, <2>3
<1>2. \A i \in Id : /\ RunAt(account, ltp)[i] # None => Good(i, RunAt(account, ltp)[i])
                    /\ RunAt(account, ltp)[i] \in Values
  <2>1. None \in Values BY DEF Values
  <2>. QED BY <1>1, <2>1 DEF RunAt
<1>. QED BY <1>2 DEF RunAt, Account, Values

-----------------------------------------------------------------------------
(* What stays as the account moves on.                                      *)

\* A version once committed does not change.
LogGrows ==
  /\ log' \in Seq(Account) /\ Len(log) <= Len(log')
  /\ \A v \in 1 .. Len(log) : log'[v] = log[v]

LEMMA SameLog ==
  ASSUME LogInv, UNCHANGED log
  PROVE  LogGrows /\ LogInv'
BY DEF LogInv, LogGrows, Good

LEMMA LogKeeps ==
  ASSUME LogInv, LogGrows
  PROVE  /\ \A c : Tells(c) => Tells(c)'
         /\ \A i, version, value : Stored(i, version, value) => Stored(i, version, value)'
         /\ \A n \in {0} \cup 1 .. Len(log) : n \in {0} \cup 1 .. Len(log')
<1>1. Len(log) \in Nat /\ Len(log') \in Nat /\ Len(log) <= Len(log')
      /\ \A v \in 1 .. Len(log) : log'[v] = log[v] /\ v \in 1 .. Len(log')
  BY DEF LogInv, LogGrows
<1>2. \A c : Tells(c) => Tells(c)' BY <1>1 DEF Tells
<1>3. \A i, version, value : Stored(i, version, value) => Stored(i, version, value)'
  <2>. SUFFICES ASSUME NEW i, NEW version, NEW value, value # None, Stored(i, version, value)
                PROVE  Stored(i, version, value)'
    BY DEF Stored
  <2>1. version \in 1 .. Len(log) BY DEF Stored
  <2>2. log'[version] = log[version] /\ version \in 1 .. Len(log') BY <1>1, <2>1
  <2>. QED BY <2>2 DEF Stored
<1>. QED BY <1>1, <1>2, <1>3

\* The account and what is known of it outside the book of a process.
LEMMA MineKeeps ==
  ASSUME ShardInv, LogGrows, UNCHANGED mine
  PROVE  BookInv' /\ SendingInv' /\ WritersInv' /\ RoundInv' /\ UnreadInv'
<1>. USE DEF mine
<1>1. LogInv BY DEF ShardInv
<1>2. BookInv' BY <1>1, LogKeeps DEF ShardInv, BookInv, Booked
<1>3. SendingInv' BY <1>1, LogKeeps DEF ShardInv, SendingInv, SendingOf
<1>4. RoundInv' BY <1>1, LogKeeps DEF ShardInv, RoundInv
<1>5. UnreadInv' BY <1>1, LogKeeps DEF ShardInv, UnreadInv, Unread
<1>6. WritersInv' BY DEF ShardInv, WritersInv
<1>. QED BY <1>2, <1>3, <1>4, <1>5, <1>6

-----------------------------------------------------------------------------
(* apps/api.                                                                *)

LEMMA CommitStep ==
  ASSUME ShardInv, NEW account \in Account, \A i \in Id : account[i] # None => Good(i, account[i]),
         Commit(account), UNCHANGED <<erased, holder, mine>>, used' \subseteq Id,
         requests' \subseteq Price, faults' \in 0 .. MaxFaults
  PROVE  ShardInv'
<1>1. LogInv /\ Len(log) \in Nat /\ log \in Seq(Account) BY DEF ShardInv, LogInv
<1>. PICK new \in Nat : new = Len(log) + 1 BY <1>1
<1>2. /\ log' \in Seq(Account) /\ Len(log') = new /\ log'[new] = account
      /\ \A v \in 1 .. Len(log) : log'[v] = log[v]
  BY <1>1 DEF Commit
<1>3. LogGrows BY <1>1, <1>2 DEF LogGrows
<1>4. LogInv'
  <2>1. \A v \in 1 .. new, i \in Id : log'[v][i] # None => Good(i, log'[v][i])
    <3>. SUFFICES ASSUME NEW v \in 1 .. new, NEW i \in Id, log'[v][i] # None
                  PROVE  Good(i, log'[v][i])
      OBVIOUS
    <3>1. v = new \/ v \in 1 .. Len(log) BY <1>1
    <3>. QED BY <1>1, <1>2, <3>1 DEF LogInv
  <2>. QED BY <1>1, <1>2, <2>1 DEF LogInv, Good
<1>5. BookInv' /\ SendingInv' /\ WritersInv' /\ RoundInv' /\ UnreadInv' BY <1>3, MineKeeps
<1>6. UnsentInv'
  <2>1. ASSUME NEW i \in Id
        PROVE  Tells(Command(i, new, account[i]))'
    <3>1. account[i] \in Values BY DEF Account, Values
    <3>. QED BY <1>1, <1>2, <3>1 DEF Tells, Command, Commands
  <2>2. \A c \in unsent' : c \in unsent \/ \E i \in Id : c = Command(i, new, account[i])
    BY DEF Commit, Version
  <2>3. \A c \in unsent : Tells(c)' BY <1>1, <1>3, LogKeeps DEF ShardInv, UnsentInv
  <2>. QED BY <1>5, <2>1, <2>2, <2>3 DEF UnsentInv
<1>7. RestInv' BY DEF ShardInv, RestInv, mine
<1>. QED BY <1>4, <1>5, <1>6, <1>7 DEF ShardInv

\* The user's changes.
LEMMA ActStep ==
  ASSUME ShardInv, NEW i \in Id, Place(i) \/ Modify(i) \/ Cancel(i) \/ ActElsewhere
  PROVE  ShardInv'
<1>1. Len(log) \in 1 .. Len(log) /\ LogInv BY DEF ShardInv, LogInv
<1>2. log[Version] \in Account /\ \A j \in Id : log[Version][j] # None => Good(j, log[Version][j])
  BY <1>1 DEF LogInv, Version
<1>3. \A value \in Values : [log[Version] EXCEPT ![i] = value] \in Account BY <1>2 DEF Account, Values
<1>4. used \subseteq Id /\ requests \subseteq Price /\ faults \in 0 .. MaxFaults BY DEF ShardInv, RestInv
<1>5. ASSUME NEW value \in Values, value # None => Good(i, value), Acts(i, value), used' \subseteq Id
      PROVE  ShardInv'
  <2>1. \A j \in Id : [log[Version] EXCEPT ![i] = value][j] # None =>
          Good(j, [log[Version] EXCEPT ![i] = value][j])
    BY <1>2, <1>5 DEF Account
  <2>. QED BY <1>3, <1>4, <1>5, <2>1, CommitStep DEF Acts
<1>6. CASE Place(i)
  <2>1. used' \subseteq Id BY <1>4, <1>6 DEF Place
  <2>2. CASE i \in Order
    <3>1. PICK value \in NewOrders : Acts(i, value) BY <1>6, <2>2 DEF Place
    <3>. QED BY <1>5, <2>1, <2>2, <3>1 DEF Good, Values, NewOrders
  <2>3. CASE i \notin Order
    <3>1. PICK value \in NewStops : Acts(i, value) BY <1>6, <2>3 DEF Place
    <3>2. value = ArmedState("LONG", Trail, None) BY DEF NewStops
    <3>3. LiveStop(value)
      BY <3>2, ShardAssumption DEF LiveStop, ArmedState, Stops, Statuses, Directions
    <3>. QED BY <1>5, <2>1, <2>3, <3>1, <3>3 DEF Good, Values, LiveStop
  <2>. QED BY <2>2, <2>3
<1>7. CASE Modify(i)
  <2>1. PICK value \in NewOrders : Acts(i, value) BY <1>7 DEF Modify
  <2>2. i \in Order /\ used' = used BY <1>7 DEF Modify
  <2>. QED BY <1>4, <1>5, <2>1, <2>2 DEF Good, Values, NewOrders
<1>8. CASE Cancel(i)
  <2>1. Acts(i, None) /\ used' = used BY <1>8 DEF Cancel
  <2>. QED BY <1>4, <1>5, <2>1 DEF Values
<1>9. CASE ActElsewhere
  <2>1. Commit(log[Version]) /\ UNCHANGED <<erased, used, requests, holder, mine, faults>>
    BY <1>9 DEF ActElsewhere
  <2>. QED BY <1>2, <1>4, <2>1, CommitStep
<1>. QED BY <1>6, <1>7, <1>8, <1>9

LEMMA EraseStep ==
  ASSUME ShardInv, Erase
  PROVE  ShardInv'
<1>1. UNCHANGED <<log, used, unsent, requests, holder, mine, faults>> /\ erased' = TRUE BY DEF Erase
<1>2. LogInv /\ LogGrows /\ LogInv' BY <1>1, SameLog DEF ShardInv
<1>3. UnsentInv' BY <1>1, <1>2, LogKeeps DEF ShardInv, UnsentInv
<1>. QED BY <1>1, <1>2, <1>3, MineKeeps DEF ShardInv, RestInv, mine

LEMMA SendStep ==
  ASSUME ShardInv, NEW c \in unsent, Send(c) \/ SendLost(c)
  PROVE  ShardInv'
<1>1. UNCHANGED <<log, erased, used, requests, holder, book, round, sending>> /\ unsent' \subseteq unsent
  BY DEF Send, SendLost, mine
<1>2. LogInv /\ LogGrows /\ LogInv' BY <1>1, SameLog DEF ShardInv
<1>3. faults' \in 0 .. MaxFaults BY ShardAssumption DEF ShardInv, RestInv, Send, SendLost, Faulty
<1>4. BookInv' /\ SendingInv' /\ WritersInv' /\ RoundInv'
  BY <1>1, <1>2, LogKeeps DEF ShardInv, BookInv, Booked, SendingInv, SendingOf, WritersInv, RoundInv
<1>5. DOMAIN unread' = Worker BY DEF ShardInv, RestInv, Send, SendLost, mine
<1>6. \A d : Tells(d) => Tells(d)' BY <1>2, LogKeeps
<1>7. UnsentInv' BY <1>1, <1>6 DEF ShardInv, UnsentInv
<1>8. UnreadInv'
  <2>. SUFFICES ASSUME NEW w \in Worker, unread'[w] # None
                PROVE  Unread(w)'
    BY DEF UnreadInv, Unread
  <2>1. CASE SendLost(c) BY <1>6, <2>1 DEF ShardInv, UnreadInv, Unread, SendLost, mine
  <2>2. CASE Send(c)
    <3>1. unread[w] # None /\ unread'[w] = Append(unread[w], c) BY <2>2 DEF Send
    <3>2. /\ unread[w] \in Seq(Commands) /\ Tells(c) /\ c \in Commands
          /\ \A n \in 1 .. Len(unread[w]) : Tells(unread[w][n])
      BY <3>1 DEF ShardInv, UnsentInv, UnreadInv, Unread, Tells
    <3>3. /\ unread'[w] \in Seq(Commands)
          /\ \A n \in 1 .. Len(unread'[w]) :
               unread'[w][n] = c \/ (n \in 1 .. Len(unread[w]) /\ unread'[w][n] = unread[w][n])
      <4>. DEFINE C == Commands
      <4>1. unread[w] \in Seq(C) /\ c \in C BY <3>2
      <4>. HIDE DEF C
      <4>2. /\ Append(unread[w], c) \in Seq(C) /\ Len(unread[w]) \in Nat
            /\ Len(Append(unread[w], c)) = Len(unread[w]) + 1
            /\ \A n \in 1 .. Len(unread[w]) : Append(unread[w], c)[n] = unread[w][n]
            /\ Append(unread[w], c)[Len(unread[w]) + 1] = c
        BY <4>1
      <4>3. \A n \in 1 .. Len(unread[w]) + 1 : n = Len(unread[w]) + 1 \/ n \in 1 .. Len(unread[w]) BY <4>2
      <4>. QED BY <3>1, <4>2, <4>3 DEF C
    <3>4. \A n \in 1 .. Len(unread'[w]) : \E d : d = unread'[w][n] /\ Tells(d)
      BY <3>2, <3>3
    <3>. QED BY <1>6, <3>3, <3>4 DEF Unread
  <2>. QED BY <2>1, <2>2
<1>. QED BY <1>1, <1>2, <1>3, <1>4, <1>5, <1>7, <1>8 DEF ShardInv, RestInv

\* Whatever version the process that serves a request holds, it runs the price on the newest account
\* or changes nothing.
LEMMA ServedIs ==
  ASSUME NEW ltp, Serve(ltp)
  PROVE  /\ ltp \in requests /\ requests' = requests \ {ltp}
         /\ UNCHANGED <<erased, used, holder, mine, faults>>
         /\ UNCHANGED <<log, unsent>> \/ Commit(RunAt(log[Version], ltp))
<1>1. PICK held \in DOMAIN log : ServeFrom(held, ltp) BY DEF Serve
<1>. QED BY <1>1 DEF ServeFrom

LEMMA FillStep ==
  ASSUME ShardInv, NEW ltp \in requests, Serve(ltp) \/ SetAside(ltp)
  PROVE  ShardInv'
<1>1. UNCHANGED <<erased, used, holder, mine>> /\ requests' \subseteq requests BY ServedIs DEF SetAside, store
<1>2. /\ faults' \in 0 .. MaxFaults /\ used' \subseteq Id /\ ltp \in Price
      /\ requests' \subseteq Price
  BY <1>1, ServedIs, ShardAssumption DEF ShardInv, RestInv, SetAside, Faulty
<1>3. CASE UNCHANGED <<log, unsent>>
  <2>1. LogInv /\ LogGrows /\ LogInv' BY <1>3, SameLog DEF ShardInv
  <2>2. UnsentInv' BY <1>1, <1>3, <2>1, LogKeeps DEF ShardInv, UnsentInv
  <2>. QED BY <1>1, <1>2, <2>1, <2>2, MineKeeps DEF ShardInv, RestInv, mine
<1>4. CASE Commit(RunAt(log[Version], ltp))
  <2>1. log[Version] \in Account /\ \A j \in Id : log[Version][j] # None => Good(j, log[Version][j])
    <3>1. Len(log) \in 1 .. Len(log) /\ LogInv BY DEF ShardInv, LogInv
    <3>. QED BY <3>1 DEF LogInv, Version
  <2>2. /\ RunAt(log[Version], ltp) \in Account
        /\ \A i \in Id : RunAt(log[Version], ltp)[i] # None => Good(i, RunAt(log[Version], ltp)[i])
    BY <1>2, <2>1, RunIs
  <2>. QED BY <1>1, <1>2, <1>4, <2>2, CommitStep
<1>. QED BY <1>3, <1>4, ServedIs DEF SetAside, store

-----------------------------------------------------------------------------
(* A matcher process: its book.                                             *)

\* What a step that leaves the account alone keeps, variable by variable.
LEMMA StoreStays ==
  ASSUME ShardInv, UNCHANGED store
  PROVE  /\ LogInv' /\ UnsentInv'
         /\ \A c : Tells(c) => Tells(c)'
         /\ \A i, version, value : Stored(i, version, value) => Stored(i, version, value)'
         /\ (UNCHANGED book => BookInv') /\ (UNCHANGED unread => UnreadInv')
         /\ (UNCHANGED sending => SendingInv') /\ (UNCHANGED round => RoundInv')
         /\ (UNCHANGED <<book, sending>> => WritersInv')
<1>. USE DEF store
<1>1. LogInv /\ LogGrows /\ LogInv' BY SameLog DEF ShardInv
<1>2. /\ \A c : Tells(c) => Tells(c)'
      /\ \A i, version, value : Stored(i, version, value) => Stored(i, version, value)'
  BY <1>1, LogKeeps
<1>3. UnsentInv' BY <1>2 DEF ShardInv, UnsentInv
<1>4. UNCHANGED book => BookInv' BY <1>2 DEF ShardInv, BookInv, Booked
<1>5. UNCHANGED unread => UnreadInv' BY <1>2 DEF ShardInv, UnreadInv, Unread
<1>6. UNCHANGED sending => SendingInv' BY <1>2 DEF ShardInv, SendingInv, SendingOf
<1>7. UNCHANGED round => RoundInv' BY DEF ShardInv, RoundInv
<1>8. UNCHANGED <<book, sending>> => WritersInv' BY DEF ShardInv, WritersInv
<1>. QED BY <1>1, <1>2, <1>3, <1>4, <1>5, <1>6, <1>7, <1>8

\* A slot only moves on to a newer version, or back to what a tick took off at its own.
News(before, after) ==
  /\ after.version >= before.version
  /\ after.version = before.version /\ before.value = None /\ after.value # None => before.crossed

NewsKept ==
  \A w \in Worker, i \in Id : book[w] # None /\ book'[w] # None => News(book[w][i], book'[w][i])

GoodSlot(i, slot) == slot \in Slots /\ Stored(i, slot.version, slot.value)

LEMMA SlotIs ==
  ASSUME NEW i, NEW slot, GoodSlot(i, slot), NEW version \in Nat, NEW value \in Values, Stored(i, version, value)
  PROVE  /\ GoodSlot(i, Upserted(slot, version, value)) /\ News(slot, Upserted(slot, version, value))
         /\ GoodSlot(i, Restored(slot, version, value)) /\ News(slot, Restored(slot, version, value))
<1>1. slot \in Slots /\ slot.version \in Nat BY DEF GoodSlot, Slots
<1>2. /\ Slot(version, value) \in Slots /\ Slot(version, value).version = version
      /\ Slot(version, value).value = value
  BY DEF Slot, Slots
<1>3. GoodSlot(i, Slot(version, value)) BY <1>2 DEF GoodSlot
<1>4. GoodSlot(i, Upserted(slot, version, value)) BY <1>3 DEF Upserted
<1>5. News(slot, Upserted(slot, version, value)) BY <1>1, <1>2 DEF Upserted, News
<1>6. CASE slot.crossed /\ version = slot.version BY <1>1, <1>2, <1>3, <1>4, <1>5, <1>6 DEF Restored, News
<1>7. CASE ~(slot.crossed /\ version = slot.version) BY <1>4, <1>5, <1>7 DEF Restored
<1>. QED BY <1>6, <1>7, <1>4, <1>5

\* The slots of a book, and of one created on first use.
LEMMA BookIs ==
  ASSUME ShardInv, NEW w \in Worker
  PROVE  /\ BookOf(w) \in [Id -> Slots] /\ \A i \in Id : GoodSlot(i, BookOf(w)[i])
         /\ book[w] # None => BookOf(w) = book[w]
<1>1. CASE book[w] = None
  <2>1. Unseen \in Slots /\ \A i : GoodSlot(i, Unseen) BY DEF Unseen, Slots, Values, GoodSlot, Stored
  <2>. QED BY <1>1, <2>1 DEF BookOf, NewBook
<1>2. CASE book[w] # None BY <1>2 DEF BookOf, ShardInv, BookInv, Booked, GoodSlot
<1>. QED BY <1>1, <1>2

\* A step that gives one process another book.
LEMMA NewBookIs ==
  ASSUME ShardInv, UNCHANGED store, NEW w \in Worker, NEW new,
         book' = [book EXCEPT ![w] = new],
         new # None => /\ new \in [Id -> Slots]
                       /\ \A i \in Id : GoodSlot(i, new[i]) /\ News(BookOf(w)[i], new[i])
  PROVE  /\ BookInv' /\ NewsKept /\ DOMAIN book' = Worker
         /\ \A v \in Worker : book[v] # None /\ (v = w => new # None) => book'[v] # None
<1>1. DOMAIN book = Worker /\ BookInv BY DEF ShardInv, RestInv
<1>2. book'[w] = new /\ \A v \in Worker : v # w => book'[v] = book[v] BY <1>1
<1>3. BookInv'
  <2>. SUFFICES ASSUME NEW v \in Worker, book'[v] # None
                PROVE  Booked(v)'
    BY DEF BookInv, Booked
  <2>1. \A i, version, value : Stored(i, version, value) => Stored(i, version, value)' BY StoreStays
  <2>2. CASE v = w BY <1>2, <2>1, <2>2 DEF Booked, GoodSlot
  <2>3. CASE v # w BY <1>1, <1>2, <2>1, <2>3 DEF BookInv, Booked
  <2>. QED BY <2>2, <2>3
<1>4. NewsKept
  <2>1. \A i \in Id : book[w] # None /\ new # None => News(book[w][i], new[i]) BY BookIs
  <2>2. ASSUME NEW v \in Worker, book[v] # None, NEW i \in Id
        PROVE  News(book[v][i], book[v][i])
    <3>1. book[v][i].version \in Nat BY <1>1, <2>2 DEF BookInv, Booked, Slots
    <3>. QED BY <3>1 DEF News
  <2>. QED BY <1>2, <2>1, <2>2 DEF NewsKept
<1>. QED BY <1>1, <1>2, <1>3, <1>4

LEMMA ReadingStep ==
  ASSUME ShardInv, NEW w \in Worker, StartReading(w)
  PROVE  ShardInv'
<1>1. UNCHANGED <<store, requests, holder, book, round, sending, faults>> /\ unread' = [unread EXCEPT ![w] = <<>>]
  BY DEF StartReading
<1>2. LogInv' /\ UnsentInv' /\ BookInv' /\ SendingInv' /\ WritersInv' /\ RoundInv'
      /\ \A c : Tells(c) => Tells(c)'
  BY <1>1, StoreStays
<1>3. DOMAIN unread = Worker BY DEF ShardInv, RestInv
<1>4. UnreadInv'
  <2>. SUFFICES ASSUME NEW v \in Worker, unread'[v] # None PROVE Unread(v)'
    BY DEF UnreadInv, Unread
  <2>1. CASE v = w
    <3>1. unread'[v] = <<>> BY <1>1, <1>3, <2>1
    <3>. QED BY <3>1 DEF Unread
  <2>2. CASE v # w
    <3>1. unread'[v] = unread[v] BY <1>1, <1>3, <2>2
    <3>. QED BY <1>2, <3>1 DEF ShardInv, UnreadInv, Unread
  <2>. QED BY <2>1, <2>2
<1>. QED BY <1>1, <1>2, <1>3, <1>4 DEF ShardInv, RestInv, store

LEMMA ApplyStep ==
  ASSUME ShardInv, NEW w \in Worker, ApplyCommand(w)
  PROVE  ShardInv' /\ NewsKept
<1>1. /\ UNCHANGED <<store, requests, holder, round, sending, faults>>
      /\ unread[w] # None /\ unread[w] # <<>> /\ unread' = [unread EXCEPT ![w] = Tail(unread[w])]
  BY DEF ApplyCommand
<1>2. /\ LogInv' /\ UnsentInv' /\ SendingInv' /\ RoundInv' /\ \A c : Tells(c) => Tells(c)'
  BY <1>1, StoreStays
<1>3. DOMAIN unread = Worker BY DEF ShardInv, RestInv
<1>4. unread[w] \in Seq(Commands) /\ \A n \in 1 .. Len(unread[w]) : Tells(unread[w][n])
  BY <1>1 DEF ShardInv, UnreadInv, Unread
<1>5. /\ Tail(unread[w]) \in Seq(Commands) /\ Len(unread[w]) \in Nat \ {0}
      /\ Len(Tail(unread[w])) = Len(unread[w]) - 1
      /\ \A n \in 1 .. Len(unread[w]) - 1 : Tail(unread[w])[n] = unread[w][n + 1]
      /\ Head(unread[w]) = unread[w][1]
  <2>. DEFINE C == Commands
  <2>1. unread[w] \in Seq(C) BY <1>4
  <2>. HIDE DEF C
  <2>2. /\ Tail(unread[w]) \in Seq(C) /\ Len(unread[w]) \in Nat \ {0}
        /\ Len(Tail(unread[w])) = Len(unread[w]) - 1
        /\ \A n \in 1 .. Len(unread[w]) - 1 : Tail(unread[w])[n] = unread[w][n + 1]
        /\ Head(unread[w]) = unread[w][1]
    BY <1>1, <2>1
  <2>. QED BY <2>2 DEF C
<1>6. UnreadInv'
  <2>. SUFFICES ASSUME NEW v \in Worker, unread'[v] # None PROVE Unread(v)'
    BY DEF UnreadInv, Unread
  <2>1. CASE v = w
    <3>1. unread'[v] = Tail(unread[w]) BY <1>1, <1>3, <2>1
    <3>2. ASSUME NEW n \in 1 .. Len(unread[w]) - 1
          PROVE  \E c : c = unread'[v][n] /\ Tells(c)'
      <4>1. PICK c : c = unread[w][n + 1] OBVIOUS
      <4>2. Tells(c) BY <1>4, <1>5, <4>1
      <4>3. unread'[v][n] = c BY <1>5, <3>1, <4>1
      <4>4. Tells(c)' BY <1>2, <4>2
      <4>. QED BY <4>3, <4>4
    <3>. QED BY <1>5, <3>1, <3>2 DEF Unread
  <2>2. CASE v # w
    <3>1. unread'[v] = unread[v] BY <1>1, <1>3, <2>2
    <3>. QED BY <1>2, <3>1 DEF ShardInv, UnreadInv, Unread
  <2>. QED BY <2>1, <2>2
<1>7. PICK c : c = Head(unread[w]) OBVIOUS
<1>8. Tells(c) /\ c.id \in Id /\ c.version \in Nat /\ c.value \in Values /\ Stored(c.id, c.version, c.value)
  <2>1. Tells(c) BY <1>4, <1>5, <1>7
  <2>2. c.id \in Id /\ c.version \in Nat /\ c.value \in Values BY <2>1 DEF Tells, Commands
  <2>3. c.value # None => Good(c.id, c.value) BY <2>1, <2>2 DEF Tells, ShardInv, LogInv
  <2>. QED BY <2>1, <2>2, <2>3 DEF Tells, Stored, Good, NoLooser
<1>9. PICK old : old = BookOf(w) OBVIOUS
<1>10. old \in [Id -> Slots] /\ \A i \in Id : GoodSlot(i, old[i]) /\ News(old[i], old[i])
  <2>1. old \in [Id -> Slots] /\ \A i \in Id : GoodSlot(i, old[i]) BY <1>9, BookIs
  <2>. QED BY <2>1 DEF News, Slots
<1>11. PICK slot : slot = Upserted(old[c.id], c.version, c.value) OBVIOUS
<1>12. GoodSlot(c.id, slot) /\ News(old[c.id], slot) /\ slot \in Slots BY <1>8, <1>10, <1>11, SlotIs DEF GoodSlot
<1>13. PICK new : new = IF book[w] = None /\ c.value = None THEN None ELSE [old EXCEPT ![c.id] = slot]
  OBVIOUS
<1>14. book' = [book EXCEPT ![w] = new] BY <1>7, <1>9, <1>10, <1>11, <1>13 DEF ApplyCommand
<1>15. new # None => new \in [Id -> Slots] /\ \A i \in Id : GoodSlot(i, new[i]) /\ News(BookOf(w)[i], new[i])
  BY <1>8, <1>9, <1>10, <1>12, <1>13
<1>16. BookInv' /\ NewsKept /\ DOMAIN book' = Worker BY <1>1, <1>14, <1>15, NewBookIs
<1>17. WritersInv'
  <2>1. book[w] # None => new # None
    <3>1. [old EXCEPT ![c.id] = slot] \in [Id -> Slots] BY <1>8, <1>10, <1>12
    <3>. QED BY <1>13, <3>1, ShardAssumption
  <2>. QED BY <1>1, <1>14, <1>15, <2>1, NewBookIs DEF ShardInv, WritersInv
<1>. QED BY <1>1, <1>2, <1>3, <1>6, <1>16, <1>17 DEF ShardInv, RestInv, store

LEMMA TickStep ==
  ASSUME ShardInv, NEW w \in Worker, NEW ltp \in Price, Tick(w, ltp)
  PROVE  ShardInv' /\ NewsKept
<1>. DEFINE crossed == {i \in Id : Rests(w, i) /\ Crosses(i, book[w][i].value, ltp)}
            step(i) == [book[w][i] EXCEPT !.value = Stepped(i, book[w][i].value, ltp)]
            ticked  == [i \in Id |-> IF i \in crossed THEN Taken(book[w][i])
                                     ELSE IF Rests(w, i) THEN step(i) ELSE book[w][i]]
<1>1. /\ UNCHANGED <<store, requests, holder, unread, round, faults>>
      /\ book[w] # None /\ book' = [book EXCEPT ![w] = ticked]
      /\ sending' = IF crossed = {} THEN sending
                    ELSE sending \cup {[by |-> w, ltp |-> ltp, taken |-> [i \in crossed |-> step(i)]]}
  BY DEF Tick
<1>2. /\ LogInv' /\ UnsentInv' /\ UnreadInv' /\ RoundInv'
      /\ \A i, version, value : Stored(i, version, value) => Stored(i, version, value)'
      /\ (UNCHANGED sending => SendingInv')
  BY <1>1, StoreStays
<1>3. BookOf(w) = book[w] /\ book[w] \in [Id -> Slots] /\ \A i \in Id : GoodSlot(i, book[w][i])
  BY <1>1, BookIs
\* What rests is of the account, so the price leaves or puts back no looser stop.
<1>4. ASSUME NEW i \in Id, Rests(w, i)
      PROVE  /\ step(i).version = book[w][i].version
             /\ i \notin crossed => GoodSlot(i, step(i)) /\ News(book[w][i], step(i))
             /\ i \in crossed => PutBack(i, step(i)) \in Values /\ Stored(i, book[w][i].version, PutBack(i, step(i)))
  <2>1. PICK slot : slot = book[w][i] OBVIOUS
  <2>2. PICK next : next = Stepped(i, slot.value, ltp) OBVIOUS
  <2>3. /\ slot \in Slots /\ slot.version \in Nat /\ slot.value # None
        /\ Stored(i, slot.version, slot.value)
    BY <1>3, <1>4, <2>1 DEF GoodSlot, Slots, Rests
  <2>4. step(i) = [slot EXCEPT !.value = next] /\ (i \in crossed <=> Crosses(i, slot.value, ltp))
    BY <1>4, <2>1, <2>2
  <2>5. slot.version \in 1 .. Len(log) /\ log[slot.version][i] # None /\ Good(i, log[slot.version][i])
    BY <2>3 DEF Stored, ShardInv, LogInv
  <2>. HIDE DEF crossed, step
  <2>6. /\ step(i).version = slot.version /\ step(i).value = next
        /\ next \in Values => step(i) \in Slots
        /\ News(slot, step(i))
    BY <2>3, <2>4 DEF Slots, News
  <2>7. CASE i \in Order
    <3>1. next = slot.value /\ next \in Values BY <2>2, <2>3, <2>7 DEF Stepped, Slots
    <3>. QED BY <2>1, <2>3, <2>6, <2>7, <3>1 DEF GoodSlot, PutBack
  <2>8. CASE i \notin Order
    <3>1. PICK old : old = log[slot.version][i] OBVIOUS
    <3>2. LiveStop(slot.value) /\ NoLooser(slot.value, old) /\ LiveStop(old)
      BY <2>3, <2>5, <2>8, <3>1 DEF Stored, Good
    <3>3. next = StepTrailingStop(slot.value, ltp) /\ (Crosses(i, slot.value, ltp) <=> Triggers(slot.value, ltp))
      BY <2>2, <2>8 DEF Stepped, Crosses
    <3>4. /\ next \in Stops
          /\ ~Triggers(slot.value, ltp) => LiveStop(next) /\ NoLooser(next, old)
          /\ Triggers(slot.value, ltp) =>
               LiveStop([next EXCEPT !.status = "TRAILING"]) /\ NoLooser([next EXCEPT !.status = "TRAILING"], old)
      BY <3>2, <3>3, StopSteps
    <3>5. PutBack(i, step(i)) = [next EXCEPT !.status = "TRAILING"] BY <2>6, <2>8 DEF PutBack
    <3>6. CASE i \notin crossed
      <4>1. LiveStop(next) /\ NoLooser(next, old) /\ next \in Values BY <2>4, <3>3, <3>4, <3>6 DEF Values
      <4>2. Stored(i, slot.version, next) BY <2>5, <2>8, <3>1, <4>1 DEF Stored
      <4>. QED BY <2>1, <2>6, <3>6, <4>1, <4>2 DEF GoodSlot
    <3>7. CASE i \in crossed
      <4>1. /\ LiveStop(PutBack(i, step(i))) /\ NoLooser(PutBack(i, step(i)), old)
            /\ PutBack(i, step(i)) \in Values
        BY <2>4, <3>3, <3>4, <3>5, <3>7 DEF Values, LiveStop
      <4>2. Stored(i, slot.version, PutBack(i, step(i))) BY <2>5, <2>8, <3>1, <4>1 DEF Stored
      <4>. QED BY <2>1, <2>6, <3>7, <4>1, <4>2
    <3>. QED BY <3>6, <3>7
  <2>. QED BY <2>7, <2>8
<1>5. ASSUME NEW i \in Id
      PROVE  ticked[i] \in Slots /\ GoodSlot(i, ticked[i]) /\ News(book[w][i], ticked[i])
  <2>1. book[w][i] \in Slots /\ GoodSlot(i, book[w][i]) BY <1>3
  <2>2. CASE i \in crossed
    <3>1. ticked[i] = Taken(book[w][i]) BY <2>2
    <3>2. /\ Taken(book[w][i]) \in Slots /\ Taken(book[w][i]).value = None
          /\ Taken(book[w][i]).version = book[w][i].version /\ book[w][i].version \in Nat
      BY <2>1 DEF Taken, Slots, Values
    <3>. HIDE DEF ticked
    <3>. QED BY <3>1, <3>2 DEF GoodSlot, Stored, News
  <2>3. CASE i \notin crossed /\ Rests(w, i)
    <3>1. ticked[i] = step(i) BY <2>3
    <3>. QED BY <1>4, <2>3, <3>1 DEF GoodSlot
  <2>4. CASE i \notin crossed /\ ~Rests(w, i)
    <3>1. ticked[i] = book[w][i] BY <2>4
    <3>. QED BY <2>1, <3>1 DEF News, Slots
  <2>. QED BY <2>2, <2>3, <2>4
<1>6. PICK new : new = ticked OBVIOUS
<1>7. new \in [Id -> Slots] /\ \A i \in Id : GoodSlot(i, new[i]) /\ News(BookOf(w)[i], new[i])
  BY <1>3, <1>5, <1>6
<1>8. BookInv' /\ NewsKept /\ DOMAIN book' = Worker
  <2>. HIDE DEF ticked
  <2>. QED BY <1>1, <1>6, <1>7, NewBookIs
<1>9. SendingInv'
  <2>1. CASE crossed = {} BY <1>1, <1>2, <2>1
  <2>2. CASE crossed # {}
    <3>1. PICK s : s = [by |-> w, ltp |-> ltp, taken |-> [i \in crossed |-> step(i)]] OBVIOUS
    <3>2. s.by = w /\ s.ltp = ltp /\ DOMAIN s.taken = crossed /\ \A i \in crossed : s.taken[i] = step(i) BY <3>1
    <3>3. \A i \in crossed : /\ s.taken[i].version \in Nat /\ PutBack(i, s.taken[i]) \in Values
                             /\ Stored(i, s.taken[i].version, PutBack(i, s.taken[i]))
      BY <1>3, <1>4, <3>2 DEF GoodSlot, Slots
    <3>4. sending' = sending \cup {s} BY <1>1, <2>2, <3>1
    <3>5. crossed \subseteq Id OBVIOUS
    <3>6. PICK ids : ids = crossed OBVIOUS
    <3>. HIDE DEF crossed, step
    <3>7. DOMAIN s.taken \subseteq Id /\ DOMAIN s.taken = ids BY <3>2, <3>5, <3>6
    <3>8. \A i \in ids : s.taken[i].version \in Nat /\ PutBack(i, s.taken[i]) \in Values
                      /\ Stored(i, s.taken[i].version, PutBack(i, s.taken[i]))'
      BY <1>2, <3>3, <3>6
    <3>9. \A r \in sending : SendingOf(r)' BY <1>2 DEF ShardInv, SendingInv, SendingOf
    <3>. QED BY <3>2, <3>4, <3>7, <3>8, <3>9 DEF SendingInv, SendingOf
  <2>. QED BY <2>1, <2>2
<1>10. WritersInv'
  <2>1. new # None BY <1>7, ShardAssumption
  <2>. HIDE DEF ticked
  <2>2. \A v \in Worker : book[v] # None => book'[v] # None BY <1>1, <1>6, <1>7, <2>1, NewBookIs
  <2>3. \A s \in sending' : s \in sending \/ s.by = w BY <1>1
  <2>. QED BY <1>1, <2>2, <2>3 DEF ShardInv, WritersInv
<1>. QED BY <1>1, <1>2, <1>8, <1>9, <1>10 DEF ShardInv, RestInv, store

LEMMA SentStep ==
  ASSUME ShardInv, NEW s \in sending, Sent(s)
  PROVE  ShardInv'
<1>1. UNCHANGED <<store, holder, book, unread, round, faults>> /\ sending' \subseteq sending
      /\ requests' = requests \cup {s.ltp}
  BY DEF Sent
<1>2. /\ LogInv' /\ UnsentInv' /\ UnreadInv' /\ RoundInv' /\ BookInv'
      /\ \A i, version, value : Stored(i, version, value) => Stored(i, version, value)'
  BY <1>1, StoreStays
<1>3. SendingInv' BY <1>1, <1>2 DEF ShardInv, SendingInv, SendingOf
<1>4. s.ltp \in Price BY DEF ShardInv, SendingInv, SendingOf
<1>5. WritersInv' BY <1>1 DEF ShardInv, WritersInv
<1>. QED BY <1>1, <1>2, <1>3, <1>4, <1>5 DEF ShardInv, RestInv, store

LEMMA SendFailedStep ==
  ASSUME ShardInv, NEW s \in sending, SendFailed(s)
  PROVE  ShardInv' /\ NewsKept
<1>. DEFINE back == [i \in Id |-> IF i \in DOMAIN s.taken
                       THEN Restored(book[s.by][i], s.taken[i].version, PutBack(i, s.taken[i])) ELSE book[s.by][i]]
<1>1. /\ UNCHANGED <<store, holder, unread, round>> /\ sending' \subseteq sending
      /\ requests' \subseteq requests \cup {s.ltp} /\ book' = [book EXCEPT ![s.by] = back]
  BY DEF SendFailed
<1>2. /\ LogInv' /\ UnsentInv' /\ UnreadInv' /\ RoundInv'
      /\ \A i, version, value : Stored(i, version, value) => Stored(i, version, value)'
  BY <1>1, StoreStays
<1>3. SendingInv' BY <1>1, <1>2 DEF ShardInv, SendingInv, SendingOf
<1>4. SendingOf(s) BY DEF ShardInv, SendingInv
<1>5. faults' \in 0 .. MaxFaults BY ShardAssumption DEF SendFailed, Faulty, ShardInv, RestInv
<1>6. s.by \in Worker /\ book[s.by] # None BY DEF ShardInv, WritersInv
<1>7. book[s.by] \in [Id -> Slots] /\ BookOf(s.by) = book[s.by] /\ \A i \in Id : GoodSlot(i, book[s.by][i])
  BY <1>6, BookIs
<1>8. \A i \in Id : GoodSlot(i, back[i]) /\ back[i] \in Slots /\ News(book[s.by][i], back[i])
  <2>. SUFFICES ASSUME NEW i \in Id PROVE GoodSlot(i, back[i]) /\ News(book[s.by][i], back[i])
    BY DEF GoodSlot
  <2>1. CASE i \in DOMAIN s.taken
    <3>1. PICK slot, version, value : slot = book[s.by][i] /\ version = s.taken[i].version /\ value = PutBack(i, s.taken[i])
      OBVIOUS
    <3>2. GoodSlot(i, slot) /\ version \in Nat /\ value \in Values /\ Stored(i, version, value)
      BY <1>4, <1>7, <2>1, <3>1 DEF SendingOf
    <3>3. GoodSlot(i, Restored(slot, version, value)) /\ News(slot, Restored(slot, version, value)) BY <3>2, SlotIs
    <3>. QED BY <2>1, <3>1, <3>3
  <2>2. CASE i \notin DOMAIN s.taken
    <3>1. back[i] = book[s.by][i] BY <2>2
    <3>. QED BY <1>7, <3>1 DEF GoodSlot, News, Slots
  <2>. QED BY <2>1, <2>2
<1>9. PICK new, w : new = back /\ w = s.by OBVIOUS
<1>10. new \in [Id -> Slots] /\ new # None /\ w \in Worker
       /\ \A i \in Id : GoodSlot(i, new[i]) /\ News(BookOf(w)[i], new[i])
  <2>1. back \in [Id -> Slots] BY <1>8
  <2>2. \A i \in Id : GoodSlot(i, back[i]) /\ News(BookOf(s.by)[i], back[i]) BY <1>7, <1>8
  <2>. HIDE DEF back
  <2>. QED BY <1>6, <1>9, <2>1, <2>2, ShardAssumption
<1>11. /\ BookInv' /\ NewsKept /\ DOMAIN book' = Worker
       /\ \A v \in Worker : book[v] # None => book'[v] # None
  <2>. HIDE DEF back
  <2>1. book' = [book EXCEPT ![w] = new] BY <1>1, <1>9
  <2>. QED BY <1>1, <1>10, <2>1, NewBookIs
<1>12. WritersInv' BY <1>1, <1>11 DEF ShardInv, WritersInv
<1>13. requests' \subseteq Price BY <1>1, <1>4 DEF ShardInv, RestInv, SendingOf
<1>. QED BY <1>1, <1>2, <1>3, <1>5, <1>11, <1>12, <1>13 DEF ShardInv, RestInv, store

-----------------------------------------------------------------------------
(* The reconcile round.                                                     *)

\* The round of one process moves on, with a version of the account or none.
LEMMA RoundStep ==
  ASSUME ShardInv, NEW w \in Worker, Ask(w) \/ Snapshot(w) \/ RoundFailed(w)
  PROVE  ShardInv'
<1>1. UNCHANGED <<store, requests, holder, book, unread, sending>> BY DEF Ask, Snapshot, RoundFailed
<1>2. LogInv' /\ UnsentInv' /\ UnreadInv' /\ BookInv' /\ SendingInv' /\ WritersInv' BY <1>1, StoreStays
<1>3. faults' \in 0 .. MaxFaults
  BY ShardAssumption DEF ShardInv, RestInv, Ask, Snapshot, RoundFailed, Faulty
<1>4. round \in [Worker -> Rounds] /\ \A v \in Worker : round[v].at \in {0} \cup 1 .. Len(log)
  BY DEF ShardInv, RoundInv
<1>5. Len(log) \in Nat \ {0} /\ UNCHANGED log BY <1>1 DEF ShardInv, LogInv, store
<1>6. \E r \in Rounds : round' = [round EXCEPT ![w] = r] /\ r.at \in {0} \cup 1 .. Len(log)
  <2>1. CASE Ask(w)
    <3>1. PICK r : r = [phase |-> "asked", asked |-> \E i \in Id : Rests(w, i), at |-> 0] OBVIOUS
    <3>2. round' = [round EXCEPT ![w] = r] BY <2>1, <3>1 DEF Ask
    <3>3. (\E i \in Id : Rests(w, i)) \in BOOLEAN OBVIOUS
    <3>4. r \in Rounds /\ r.at = 0 BY <3>1, <3>3 DEF Rounds
    <3>. QED BY <3>2, <3>4
  <2>2. CASE Snapshot(w)
    <3>. PICK at : at = IF erased THEN 0 ELSE Version OBVIOUS
    <3>1. PICK r : r = [round[w] EXCEPT !.phase = "read", !.at = at] OBVIOUS
    <3>2. round' = [round EXCEPT ![w] = r] BY <1>4, <2>2, <3>1 DEF Snapshot
    <3>3. at \in {0} \cup 1 .. Len(log) /\ at \in Nat BY <1>5 DEF Version
    <3>4. r \in Rounds /\ r.at = at BY <1>4, <3>1, <3>3 DEF Rounds
    <3>. QED BY <3>2, <3>3, <3>4
  <2>3. CASE RoundFailed(w)
    <3>1. round' = [round EXCEPT ![w] = Idle] BY <2>3 DEF RoundFailed
    <3>2. Idle \in Rounds /\ Idle.at = 0 BY DEF Idle, Rounds
    <3>. QED BY <3>1, <3>2
  <2>. QED BY <2>1, <2>2, <2>3
<1>7. RoundInv' BY <1>4, <1>5, <1>6 DEF RoundInv
<1>. QED BY <1>1, <1>2, <1>3, <1>7 DEF ShardInv, RestInv, store

LEMMA RepairStep ==
  ASSUME ShardInv, NEW w \in Worker, Repair(w)
  PROVE  ShardInv' /\ NewsKept
<1>. DEFINE repaired == [i \in Id |-> Repaired(w, i, BookOf(w)[i])]
<1>1. UNCHANGED <<store, requests, holder, unread, sending, faults>> /\ round' = [round EXCEPT ![w] = Idle]
  BY DEF Repair
<1>2. LogInv' /\ UnsentInv' /\ UnreadInv' /\ SendingInv' BY <1>1, StoreStays
<1>3. /\ round \in [Worker -> Rounds] /\ \A v \in Worker : round[v].at \in {0} \cup 1 .. Len(log)
      /\ Len(log) \in Nat /\ UNCHANGED log
  BY <1>1 DEF ShardInv, RoundInv, LogInv, store
<1>4. RoundInv' BY <1>1, <1>3 DEF RoundInv, Idle, Rounds
<1>5. PICK at : at = round[w].at OBVIOUS
<1>6. at \in Nat /\ RemovalVersion(at) \in Nat BY <1>3, <1>5 DEF RemovalVersion, Version
<1>7. BookOf(w) \in [Id -> Slots] /\ \A i \in Id : GoodSlot(i, BookOf(w)[i]) BY BookIs
<1>8. ASSUME NEW i \in Id
      PROVE  GoodSlot(i, repaired[i]) /\ News(BookOf(w)[i], repaired[i])
  <2>1. PICK slot : slot = BookOf(w)[i] OBVIOUS
  <2>2. GoodSlot(i, slot) BY <1>7, <2>1
  <2>3. PICK found : found = Found(at, i) OBVIOUS
  <2>4. found \in Values /\ Stored(i, at, found)
    <3>1. CASE at = 0 BY <2>3, <3>1 DEF Found, Values, Stored
    <3>2. CASE at \in 1 .. Len(log)
      <4>1. found = log[at][i] BY <2>3, <3>2 DEF Found
      <4>2. log[at] \in Account /\ (found # None => Good(i, found)) BY <3>2, <4>1 DEF ShardInv, LogInv
      <4>. QED BY <3>2, <4>1, <4>2 DEF Account, Stored, Good, NoLooser
    <3>. QED BY <1>3, <1>5, <3>1, <3>2
  <2>5. GoodSlot(i, Restored(slot, at, found)) /\ News(slot, Restored(slot, at, found)) BY <1>6, <2>2, <2>4, SlotIs
  <2>6. PICK removal : removal = RemovalVersion(at) OBVIOUS
  <2>7. GoodSlot(i, Upserted(slot, removal, None)) /\ News(slot, Upserted(slot, removal, None))
    <3>1. None \in Values /\ Stored(i, removal, None) BY DEF Values, Stored
    <3>. QED BY <1>6, <2>2, <2>6, <3>1, SlotIs
  <2>8. News(slot, slot) BY <2>2 DEF GoodSlot, Slots, News
  <2>9. repaired[i] = Repaired(w, i, slot) BY <2>1
  <2>. HIDE DEF repaired
  <2>. QED BY <1>5, <2>1, <2>2, <2>3, <2>5, <2>6, <2>7, <2>8, <2>9 DEF Repaired
<1>9. PICK new : new = IF book[w] = None /\ \A i \in Id : Found(round[w].at, i) = None THEN None ELSE repaired
  OBVIOUS
<1>10. repaired \in [Id -> Slots] /\ repaired # None
  <2>1. repaired \in [Id -> Slots] BY <1>8 DEF GoodSlot
  <2>. HIDE DEF repaired
  <2>. QED BY <2>1, ShardAssumption
<1>11. new # None => new \in [Id -> Slots] /\ \A i \in Id : GoodSlot(i, new[i]) /\ News(BookOf(w)[i], new[i])
  <2>. HIDE DEF repaired
  <2>. QED BY <1>8, <1>9, <1>10
<1>12. book' = [book EXCEPT ![w] = new] BY <1>9 DEF Repair
<1>13. /\ BookInv' /\ NewsKept /\ DOMAIN book' = Worker
       /\ \A v \in Worker : book[v] # None /\ (v = w => new # None) => book'[v] # None
  BY <1>1, <1>11, <1>12, NewBookIs
<1>14. WritersInv'
  <2>1. book[w] # None => new # None
    <3>. HIDE DEF repaired
    <3>. QED BY <1>9, <1>10
  <2>. QED BY <1>1, <1>13, <2>1 DEF ShardInv, WritersInv
<1>. QED BY <1>1, <1>2, <1>4, <1>13, <1>14 DEF ShardInv, RestInv, store

-----------------------------------------------------------------------------
(* The lease, and the end of a process.                                     *)

LEMMA LeaseStep ==
  ASSUME ShardInv,
         \/ \E w \in Worker : TakeLease(w) \/ LoseLease(w)
         \/ \E ltp \in Price : AskedElsewhere(ltp)
  PROVE  ShardInv'
<1>1. UNCHANGED <<store, mine>> BY DEF TakeLease, LoseLease, AskedElsewhere
<1>2. LogInv' /\ UnsentInv' /\ UnreadInv' /\ BookInv' /\ SendingInv' /\ WritersInv' /\ RoundInv'
  BY <1>1, StoreStays DEF mine
<1>3. RestInv'
  <2>1. requests' \subseteq Price /\ holder' \in Worker \cup {None}
    BY DEF ShardInv, RestInv, TakeLease, LoseLease, AskedElsewhere
  <2>2. faults' \in 0 .. MaxFaults
    BY ShardAssumption DEF ShardInv, RestInv, TakeLease, LoseLease, AskedElsewhere, Faulty
  <2>. QED BY <1>1, <2>1, <2>2 DEF ShardInv, RestInv, store, mine
<1>. QED BY <1>2, <1>3 DEF ShardInv

LEMMA CrashStep ==
  ASSUME ShardInv, NEW w \in Worker, Crash(w)
  PROVE  ShardInv' /\ NewsKept
<1>1. /\ UNCHANGED store /\ book' = [book EXCEPT ![w] = None] /\ unread' = [unread EXCEPT ![w] = None]
      /\ round' = [round EXCEPT ![w] = Idle] /\ sending' = {s \in sending : s.by # w}
      /\ holder' = IF holder = w THEN None ELSE holder
  BY DEF Crash
<1>2. /\ LogInv' /\ UnsentInv' /\ \A c : Tells(c) => Tells(c)'
      /\ \A i, version, value : Stored(i, version, value) => Stored(i, version, value)'
  BY <1>1, StoreStays
<1>3. DOMAIN book = Worker /\ DOMAIN unread = Worker BY DEF ShardInv, RestInv
<1>4. faults' \in 0 .. MaxFaults BY ShardAssumption DEF ShardInv, RestInv, Crash, Faulty
<1>5. BookInv' /\ NewsKept /\ DOMAIN book' = Worker
      /\ \A v \in Worker : book[v] # None /\ (v = w => None # None) => book'[v] # None
  BY <1>1, NewBookIs
<1>6. UnreadInv'
  <2>. SUFFICES ASSUME NEW v \in Worker, unread'[v] # None PROVE Unread(v)'
    BY DEF UnreadInv, Unread
  <2>1. unread'[v] = unread[v] BY <1>1, <1>3
  <2>. QED BY <1>2, <2>1 DEF ShardInv, UnreadInv, Unread
<1>7. SendingInv' BY <1>1, <1>2 DEF ShardInv, SendingInv, SendingOf
<1>8. WritersInv' BY <1>1, <1>5 DEF ShardInv, WritersInv
<1>9. RoundInv' BY <1>1 DEF ShardInv, RoundInv, Rounds, Idle, store
<1>10. requests' \subseteq Price
  <2>1. PICK arrived \in SUBSET (sending \ sending') : requests' = requests \cup {s.ltp : s \in arrived}
    BY DEF Crash
  <2>2. \A s \in arrived : s.ltp \in Price BY <2>1 DEF ShardInv, SendingInv, SendingOf
  <2>. QED BY <2>1, <2>2 DEF ShardInv, RestInv
<1>. QED BY <1>1, <1>2, <1>3, <1>4, <1>5, <1>6, <1>7, <1>8, <1>9, <1>10 DEF ShardInv, RestInv, store

-----------------------------------------------------------------------------
(* The theorems.                                                            *)

LEMMA InitShard ==
  ASSUME Init
  PROVE  ShardInv
<1>. PICK none : none = [i \in Id |-> None] OBVIOUS
<1>1. log = <<none>> /\ none \in Account /\ \A i \in Id : none[i] = None BY DEF Init, Account, Values
<1>2. LogInv BY <1>1 DEF LogInv
<1>3. UnsentInv /\ UnreadInv /\ BookInv /\ SendingInv /\ WritersInv
  BY DEF Init, UnsentInv, UnreadInv, Unread, BookInv, Booked, SendingInv, WritersInv
<1>4. RoundInv BY DEF Init, RoundInv, Rounds, Idle
<1>5. MaxFaults \in Nat BY ShardAssumption
<1>6. DOMAIN book = Worker /\ DOMAIN unread = Worker BY DEF Init
<1>7. RestInv
  <2>1. erased \in BOOLEAN /\ used \subseteq Id /\ requests \subseteq Price /\ holder \in Worker \cup {None}
    BY DEF Init
  <2>2. faults \in 0 .. MaxFaults BY <1>5 DEF Init
  <2>. QED BY <1>6, <2>1, <2>2 DEF RestInv
<1>. QED BY <1>2, <1>3, <1>4, <1>7 DEF ShardInv

LEMMA SameBook ==
  ASSUME ShardInv, UNCHANGED book
  PROVE  NewsKept
<1>. SUFFICES ASSUME NEW w \in Worker, NEW i \in Id, book[w] # None PROVE News(book[w][i], book[w][i])
  BY DEF NewsKept
<1>1. book[w][i].version \in Nat BY DEF ShardInv, BookInv, Booked, Slots
<1>. QED BY <1>1 DEF News

LEMMA ShardStep ==
  ASSUME ShardInv, [Next]_vars
  PROVE  ShardInv' /\ NewsKept
<1>1. CASE UNCHANGED vars
  <2>1. UNCHANGED <<store, mine, requests, holder, faults>> BY <1>1 DEF vars
  <2>2. RestInv' BY <2>1 DEF ShardInv, RestInv, store, mine
  <2>. QED BY <2>1, <2>2, StoreStays, SameBook DEF ShardInv, mine
<1>2. CASE \E i \in Id : Place(i) \/ Modify(i) \/ Cancel(i)
  <2>1. UNCHANGED book BY <1>2 DEF Place, Modify, Cancel, Acts, mine
  <2>. QED BY <1>2, <2>1, ActStep, SameBook
<1>3. CASE ActElsewhere
  <2>1. UNCHANGED book BY <1>3 DEF ActElsewhere, mine
  <2>2. CASE Id = {}
    <3>1. UNCHANGED <<erased, used, requests, holder, mine, faults>> /\ Commit(log[Version])
      BY <1>3 DEF ActElsewhere
    <3>2. /\ log[Version] \in Account /\ \A j \in Id : log[Version][j] # None => Good(j, log[Version][j])
          /\ used \subseteq Id /\ requests \subseteq Price /\ faults \in 0 .. MaxFaults
      BY <2>2 DEF ShardInv, LogInv, RestInv, Version
    <3>. QED BY <2>1, <3>1, <3>2, CommitStep, SameBook
  <2>. QED BY <1>3, <2>1, <2>2, ActStep, SameBook
<1>4. CASE Erase BY <1>4, EraseStep, SameBook DEF Erase, mine
<1>5. CASE \E c \in unsent : Send(c) \/ SendLost(c) BY <1>5, SendStep, SameBook DEF Send, SendLost, mine
<1>6. CASE \E ltp \in requests : Serve(ltp) \/ SetAside(ltp)
  BY <1>6, FillStep, ServedIs, SameBook DEF SetAside, mine
<1>7. CASE \E w \in Worker : Reads(w) BY <1>7, ReadingStep, ApplyStep, SameBook DEF Reads, StartReading
<1>8. CASE \E w \in Worker : Reconcile(w) \/ RoundFailed(w)
  BY <1>8, RoundStep, RepairStep, SameBook DEF Reconcile, Ask, Snapshot, RoundFailed
<1>9. CASE \E ltp \in Price, w \in Worker : Tick(w, ltp) BY <1>9, TickStep
<1>10. CASE \E s \in sending : Sent(s) \/ SendFailed(s) BY <1>10, SentStep, SendFailedStep, SameBook DEF Sent
<1>11. CASE \/ \E w \in Worker : TakeLease(w) \/ LoseLease(w)
            \/ \E ltp \in Price : AskedElsewhere(ltp)
  BY <1>11, LeaseStep, SameBook DEF TakeLease, LoseLease, AskedElsewhere, mine
<1>12. CASE \E w \in Worker : Crash(w) BY <1>12, CrashStep
<1>. QED BY <1>1, <1>2, <1>3, <1>4, <1>5, <1>6, <1>7, <1>8, <1>9, <1>10, <1>11, <1>12 DEF Next

\* What a shard keeps, for any processes, orders, stops, prices and faults.
THEOREM ShardInvariant == Spec => []ShardInv
<1>1. Init => ShardInv BY InitShard
<1>2. ShardInv /\ [Next]_vars => ShardInv' BY ShardStep
<1>. QED BY <1>1, <1>2, PTL DEF Spec

\* Every command, book, round and request has its type; above all, a command under way or read
\* tells what the commit it names made of the order (matcherCommands.ts).
THEOREM ShardTypes == Spec => []TypeOK
<1>1. ASSUME ShardInv PROVE TypeOK
  <2>1. DOMAIN log = 1 .. Len(log) /\ log # <<>> /\ log \in Seq(Account) BY <1>1 DEF ShardInv, LogInv
  <2>2. \A v \in DOMAIN log, i \in Id : log[v][i] \in Value(i) \cup {None}
    BY <1>1, <2>1 DEF ShardInv, LogInv, Good, Value, LiveStop
  <2>3. \A c \in unsent : Told(c) BY <1>1, <2>1 DEF ShardInv, UnsentInv, Tells, Told, Commands
  <2>4. ASSUME NEW w \in Worker
        PROVE  /\ book[w] # None => \A i \in Id :
                    /\ book[w][i].version \in Nat /\ book[w][i].crossed \in BOOLEAN
                    /\ book[w][i].value \in Value(i) \cup {None}
               /\ unread[w] # None => \A n \in DOMAIN unread[w] : Told(unread[w][n])
               /\ round[w] \in [phase : {"idle", "asked", "read"}, asked : BOOLEAN, at : {0} \cup DOMAIN log]
    <3>1. ASSUME book[w] # None, NEW i \in Id
          PROVE  /\ book[w][i].version \in Nat /\ book[w][i].crossed \in BOOLEAN
                 /\ book[w][i].value \in Value(i) \cup {None}
      <4>1. PICK slot : slot = book[w][i] OBVIOUS
      <4>2. slot \in Slots /\ Stored(i, slot.version, slot.value) BY <1>1, <3>1, <4>1 DEF ShardInv, BookInv, Booked
      <4>3. slot.value # None => slot.value \in Value(i)
        BY <1>1, <2>1, <2>2, <4>2 DEF Stored, Value, LiveStop
      <4>. QED BY <4>1, <4>2, <4>3 DEF Slots
    <3>2. unread[w] # None => \A n \in DOMAIN unread[w] : Told(unread[w][n])
      BY <1>1, <2>1 DEF ShardInv, UnreadInv, Unread, Tells, Told, Commands
    <3>3. round[w] \in [phase : {"idle", "asked", "read"}, asked : BOOLEAN, at : {0} \cup DOMAIN log]
      BY <1>1, <2>1 DEF ShardInv, RoundInv, Rounds
    <3>. QED BY <3>1, <3>2, <3>3
  <2>5. \A s \in sending : s.by \in Worker /\ s.ltp \in Price /\ DOMAIN s.taken \subseteq Id
    BY <1>1 DEF ShardInv, SendingInv, SendingOf
  <2>. QED BY <1>1, <2>1, <2>2, <2>3, <2>4, <2>5 DEF ShardInv, RestInv, TypeOK
<1>. QED BY <1>1, ShardInvariant, PTL

\* What rests on a book is what the account held at the version the book has it at, a stop at most
\* moved on: commands, snapshots and put-back orders are never mixed (matcher.ts, reconcile.ts).
THEOREM RestsTheorem == Spec => []RestsAsStored
<1>1. ASSUME ShardInv, NEW w \in Worker, NEW i \in Id, Rests(w, i)
      PROVE  LET slot == book[w][i] IN
             /\ slot.version \in DOMAIN log /\ log[slot.version][i] # None
             /\ IF i \in Order THEN slot.value = log[slot.version][i]
                               ELSE NoLooser(slot.value, log[slot.version][i])
  <2>1. Stored(i, book[w][i].version, book[w][i].value) /\ book[w][i].value # None
    BY <1>1 DEF ShardInv, BookInv, Booked, Rests
  <2>2. DOMAIN log = 1 .. Len(log) BY <1>1 DEF ShardInv, LogInv
  <2>. QED BY <2>1, <2>2 DEF Stored
<1>2. ShardInv => RestsAsStored BY <1>1 DEF RestsAsStored
<1>. QED BY <1>2, ShardInvariant, PTL

\* A late command, an old snapshot or a request that could not be sent never undoes what a process
\* has since learned of an order (orderBook.ts, fills.ts, reconcile.ts).
THEOREM NewsTheorem == Spec => NewsStays
<1>1. ASSUME ShardInv, [Next]_vars, NEW w \in Worker, NEW i \in Id, book[w] # None, book'[w] # None
      PROVE  LET before == book[w][i]  after == book'[w][i] IN
             /\ after.version >= before.version
             /\ after.version = before.version /\ before.value = None /\ after.value # None => before.crossed
  <2>1. News(book[w][i], book'[w][i]) BY <1>1, ShardStep DEF NewsKept
  <2>. QED BY <2>1 DEF News
<1>. DEFINE A == \A w \in Worker, i \in Id :
       book[w] # None /\ book'[w] # None =>
         LET before == book[w][i]  after == book'[w][i] IN
         /\ after.version >= before.version
         /\ after.version = before.version /\ before.value = None /\ after.value # None
              => before.crossed
<1>2. ShardInv /\ [Next]_vars => [A]_vars BY <1>1
<1>. QED BY <1>2, ShardInvariant, PTL DEF Spec, NewsStays
=============================================================================
