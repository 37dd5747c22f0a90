---------------------------- MODULE MatcherFills ----------------------------
(***************************************************************************)
(* The readers of the matcher's fill requests (apps/api                    *)
(* modules/orders/matcherFills.ts): every process reads the stream in one  *)
(* Redis consumer group, runs each request through applyMatcherFill, and   *)
(* acks it; a request nobody acked in time is claimed by whichever process *)
(* looks next; a malformed one, or one delivered too often, is copied to   *)
(* the dead-letter stream.  A process may close, and then removes itself   *)
(* from the group, or die.                                                 *)
(*                                                                         *)
(* One shard's stream is modelled: shards share nothing but their readers, *)
(* which take them one after the other.  How long anything takes is left   *)
(* open: `idle` says of a pending request that FILL_CLAIM_IDLE_MS have     *)
(* passed since its last delivery, `due` of a process that they have since *)
(* its last claim round.                                                   *)
(*                                                                         *)
(* CreatedAtEnd, LeaveStart and Unchecked are not part of the              *)
(* specification: each is a bug the definition after it could have had,    *)
(* for the mutation runs.                                                  *)
(***************************************************************************)
EXTENDS Naturals, Sequences, FiniteSets, SequencesExt

CONSTANTS
  Consumer,       \* apps/api processes, each with a name of its own in the group
  Leavers,        \* those of them that may close or die
  Fill,           \* fill requests the matcher may write, each once
  UserOf,         \* the user of each request
  Malformed,      \* requests that do not parse
  Poison,         \* requests the order service may refuse, each time they are run
  PageSize,       \* CLAIM_COUNT, as far as claims go
  MaxPages,       \* MAX_CLAIM_PAGES
  MaxDeliveries,  \* FILL_MAX_DELIVERIES
  LateClose,      \* Redis may notice a closed connection after the cleanup's commands
  FaultKinds,     \* the faults that may happen, of those named in `Faulty`
  MaxFaults,      \* bound: faults in a behaviour, by how many requests it has
  None            \* not pending

User == {UserOf[f] : f \in Fill}

ASSUME FillsAssumption ==
  /\ Leavers \subseteq Consumer
  /\ Malformed \subseteq Fill /\ Poison \subseteq Fill
  /\ PageSize \in Nat \ {0} /\ MaxPages \in Nat \ {0} /\ MaxDeliveries \in Nat \ {0}
  /\ LateClose \in BOOLEAN
  /\ FaultKinds \subseteq {"read", "claim", "count", "fill", "dead", "ack", "cleanup", "crash", "redis"}
  /\ MaxFaults \in [0 .. Cardinality(Fill) -> Nat]
  /\ None \notin [owner : Consumer, count : Nat, idle : BOOLEAN]

VARIABLES
  stream,   \* the shard's stream, oldest first
  asked,    \* the requests written so far
  group,    \* the consumer group: whether it exists, and how far it has delivered
  pending,  \* its pending list: per request, who has it, how often delivered, whether idle
  applied,  \* requests that committed
  tried,    \* requests given to the order service
  dead,     \* the dead-letter stream, as a set
  pc,       \* per process, where its loop is
  batch,    \* per process, the claimed requests whose counts it is asking for
  doomed,   \* per process, the requests it is dead-lettering, in order
  lane,     \* per process and user, the requests still to run, in order
  acking,   \* per process, the requests run or copied and not acked yet
  scan,     \* per process, the claim round's cursor (0: done) and page
  due,      \* per process, whether it is time for a claim round
  closed,   \* processes whose close() was called
  cut,      \* processes disconnected with requests in hand
  held,     \* processes whose last XREADGROUP Redis may still serve, though nobody listens
  faults    \* faults so far

redis == <<stream, asked, group, pending>>
books == <<applied, tried, dead>>
hands == <<batch, doomed, lane, acking>>
flow  == <<pc, scan, due>>
ends  == <<closed, cut, held>>
vars  == <<redis, books, hands, flow, ends, faults>>

-----------------------------------------------------------------------------
(* The stream and its group.                                               *)

Settled(f) == f \in applied \cup dead

CreatedAtEnd == [made |-> TRUE, last |-> Len(stream)]
Created == [made |-> TRUE, last |-> 0]
NoGroup == [made |-> FALSE, last |-> 0]

New == SubSeq(stream, group.last + 1, Len(stream))

\* Delivering a request makes it pending here, fresh, and counts.  The count saturates: it is
\* only ever compared with the cap.
CountUp(f) ==
  IF pending[f] = None THEN 1
  ELSE IF pending[f].count > MaxDeliveries THEN pending[f].count ELSE pending[f].count + 1
Delivered(fills, c) ==
  [f \in Fill |-> IF f \in fills
                  THEN [owner |-> c, count |-> CountUp(f), idle |-> FALSE] ELSE pending[f]]

Dropped(fills) == [f \in Fill |-> IF f \in fills THEN None ELSE pending[f]]

HeldBy(c) == {f \in Fill : pending[f] # None /\ pending[f].owner = c}

\* XAUTOCLAIM: the first idle requests at or after the cursor, and where the next page starts.
Waiting(from) ==
  SelectSeq([i \in 1 .. Len(stream) |-> i], LAMBDA i : i >= from /\ pending[stream[i]] # None)
Idle(from) == SelectSeq(Waiting(from), LAMBDA i : pending[stream[i]].idle)
Claimed(from) == SubSeq(Idle(from), 1, IF Len(Idle(from)) < PageSize THEN Len(Idle(from)) ELSE PageSize)
NextPage(from) ==
  IF Len(Claimed(from)) < PageSize THEN 0
  ELSE LET rest == Waiting(Last(Claimed(from)) + 1) IN IF rest = <<>> THEN 0 ELSE Head(rest)

Init ==
  /\ stream = <<>> /\ asked = {} /\ group = NoGroup
  /\ pending = [f \in Fill |-> None]
  /\ applied = {} /\ tried = {} /\ dead = {}
  /\ pc = [c \in Consumer |-> "start"]
  /\ batch = [c \in Consumer |-> <<>>]
  /\ doomed = [c \in Consumer |-> <<>>]
  /\ lane = [c \in Consumer |-> [u \in User |-> <<>>]]
  /\ acking = [c \in Consumer |-> {}]
  /\ scan = [c \in Consumer |-> [cursor |-> 0, page |-> 0]]
  /\ due = [c \in Consumer |-> TRUE]
  /\ closed = {} /\ cut = {} /\ held = {}
  /\ faults = 0

Bounded(fills, n) == n <= MaxFaults[Cardinality(fills)]

Faulty(kind) ==
  /\ kind \in FaultKinds /\ Bounded(asked, faults + 1)
  /\ faults' = faults + 1

\* A call of a process fails: by a fault, or because the process has disconnected.
Unanswered(c, kind) == IF c \in cut THEN UNCHANGED faults ELSE Faulty(kind)

Goto(c, where) == pc' = [pc EXCEPT ![c] = where]

\* The matcher writes a request (XADD).
Ask(f) ==
  /\ f \notin asked /\ Bounded(asked \cup {f}, faults)
  /\ asked' = asked \cup {f} /\ stream' = Append(stream, f)
  /\ UNCHANGED <<group, pending, books, hands, flow, ends, faults>>

\* FILL_CLAIM_IDLE_MS pass since a request's last delivery.
Age(f) ==
  /\ pending[f] # None /\ ~pending[f].idle
  /\ pending' = [pending EXCEPT ![f].idle = TRUE]
  /\ UNCHANGED <<stream, asked, group, books, hands, flow, ends, faults>>

\* They pass since a process's last claim round.
BecomeDue(c) ==
  /\ ~due[c] /\ pc[c] \notin {"gone", "dead"}
  /\ due' = [due EXCEPT ![c] = TRUE]
  /\ UNCHANGED <<redis, books, hands, pc, scan, ends, faults>>

-----------------------------------------------------------------------------
(* The loop: run(), step() and claim().                                    *)

Listening(c, where) == pc[c] = where /\ c \notin closed

Over == [cursor |-> 0, page |-> 0]

\* The next turn of the loop starts with a claim round, if one is due; close() ends the loop.
Turn(c) ==
  LET claims == c \notin closed /\ due[c] IN
  /\ Goto(c, IF c \in closed THEN "closing" ELSE IF claims THEN "claim" ELSE "read")
  /\ due' = [due EXCEPT ![c] = @ /\ ~claims]
  /\ scan' = [scan EXCEPT ![c] = IF claims THEN [cursor |-> 1, page |-> 0] ELSE Over]

\* createGroups(): a group that exists is kept.
CreateGroup(c) ==
  /\ Listening(c, "start")
  /\ group' = IF group.made THEN group ELSE Created
  /\ Turn(c)
  /\ UNCHANGED <<stream, asked, pending, books, hands, ends, faults>>

\* After a page comes the next, or the read once the round is over.
NextScan(c, next) ==
  IF next = 0 \/ scan[c].page + 1 = MaxPages THEN Over
  ELSE [cursor |-> next, page |-> scan[c].page + 1]
AfterPage(c, rest) == IF c \in closed THEN "closing" ELSE IF rest = Over THEN "read" ELSE "claim"

\* One page of a claim round.
ClaimPage(c) ==
  LET from    == scan[c].cursor
      claimed == [i \in 1 .. Len(Claimed(from)) |-> stream[Claimed(from)[i]]]
      rest    == NextScan(c, NextPage(from)) IN
  /\ pc[c] = "claim" /\ c \notin cut /\ group.made
  /\ pending' = Delivered(Range(claimed), c)
  /\ scan' = [scan EXCEPT ![c] = rest]
  /\ batch' = [batch EXCEPT ![c] = claimed]
  /\ Goto(c, IF claimed = <<>> THEN AfterPage(c, rest) ELSE "count")
  /\ UNCHANGED <<stream, asked, group, books, doomed, lane, acking, due, ends, faults>>

\* The page may be claimed, and its answer is lost: the round ends, and the next is a while away.
ClaimLost(c) ==
  LET claimed == Claimed(scan[c].cursor) IN
  /\ pc[c] = "claim" /\ group.made /\ Unanswered(c, "claim")
  /\ \/ pending' = pending
     \/ pending' = Delivered({stream[claimed[i]] : i \in 1 .. Len(claimed)}, c)
  /\ Turn(c)
  /\ UNCHANGED <<stream, asked, group, books, hands, ends>>

\* handle(): the malformed requests, and those delivered too often, are dead-lettered; the
\* others line up, each user's in order.
Sorted(c, fills, over) ==
  LET bad(f) == f \in Malformed \cup over IN
  /\ doomed' = [doomed EXCEPT ![c] = SelectSeq(fills, LAMBDA f : bad(f))]
  /\ lane' = [lane EXCEPT ![c] =
       [u \in User |-> SelectSeq(fills, LAMBDA f : ~bad(f) /\ UserOf[f] = u)]]

\* deliveriesOf(): how often the requests this process still has were delivered.
Count(c) ==
  /\ pc[c] = "count" /\ c \notin cut
  /\ Sorted(c, batch[c], {f \in HeldBy(c) : pending[f].count > MaxDeliveries})
  /\ batch' = [batch EXCEPT ![c] = <<>>]
  /\ Goto(c, "runClaimed")
  /\ UNCHANGED <<redis, books, acking, scan, due, ends, faults>>

\* deliveriesOrNone(): when XPENDING fails they run as first deliveries.
CountLost(c) ==
  /\ pc[c] = "count" /\ Unanswered(c, "count")
  /\ Sorted(c, batch[c], {})
  /\ batch' = [batch EXCEPT ![c] = <<>>]
  /\ Goto(c, "runClaimed")
  /\ UNCHANGED <<redis, books, acking, scan, due, ends>>

Deliver(c) ==
  /\ group.made /\ New # <<>>
  /\ group' = [group EXCEPT !.last = Len(stream)]
  /\ pending' = Delivered(Range(New), c)
  /\ UNCHANGED <<stream, asked>>

\* XREADGROUP hands this process everything new.
Read(c) ==
  /\ Listening(c, "read") /\ Deliver(c)
  /\ Sorted(c, New, {})
  /\ Goto(c, "runRead")
  /\ UNCHANGED <<books, batch, acking, scan, due, ends, faults>>

\* The block time passes.
ReadNothing(c) ==
  /\ Listening(c, "read") /\ group.made /\ New = <<>>
  /\ Turn(c)
  /\ UNCHANGED <<redis, books, hands, ends, faults>>

\* The answer to XREADGROUP is lost.
ReadLost(c) ==
  /\ Listening(c, "read") /\ Faulty("read") /\ Deliver(c)
  /\ Turn(c)
  /\ UNCHANGED <<books, hands, ends>>

\* NOGROUP: the groups are created again.
FindNoGroup(c) ==
  /\ pc[c] = "claim" \/ Listening(c, "read")
  /\ ~group.made
  /\ Goto(c, IF c \in closed THEN "closing" ELSE "start") /\ scan' = [scan EXCEPT ![c] = Over]
  /\ UNCHANGED <<redis, books, hands, due, ends, faults>>

-----------------------------------------------------------------------------
(* The requests in hand: deadLetter(), the users' lanes, ack().            *)

Handling(c) == pc[c] \in {"runClaimed", "runRead"}
HeadOf(q) == IF q = <<>> THEN {} ELSE {Head(q)}

Copying(c) == Handling(c) /\ doomed[c] # <<>> /\ Head(doomed[c]) \notin acking[c]

Copy(c) ==
  /\ Copying(c) /\ c \notin cut
  /\ dead' = dead \cup {Head(doomed[c])}
  /\ acking' = [acking EXCEPT ![c] = @ \cup {Head(doomed[c])}]
  /\ UNCHANGED <<redis, applied, tried, batch, doomed, lane, flow, ends, faults>>

\* Copying fails, or its answer is lost: the request stays pending.
CopyFailed(c) ==
  /\ Copying(c) /\ Unanswered(c, "dead")
  /\ \/ dead' = dead
     \/ c \notin cut /\ dead' = dead \cup {Head(doomed[c])}
  /\ doomed' = [doomed EXCEPT ![c] = Tail(@)]
  /\ UNCHANGED <<redis, applied, tried, batch, lane, acking, flow, ends>>

\* A user's next request, once nothing is left to dead-letter.
Running(c, u) ==
  /\ Handling(c) /\ doomed[c] = <<>>
  /\ lane[c][u] # <<>> /\ Head(lane[c][u]) \notin acking[c]

Run(c, u) ==
  LET f == Head(lane[c][u]) IN
  /\ Running(c, u)
  /\ applied' = applied \cup {f} /\ tried' = tried \cup {f}
  /\ acking' = [acking EXCEPT ![c] = @ \cup {f}]
  /\ UNCHANGED <<redis, dead, batch, doomed, lane, flow, ends, faults>>

\* applyMatcherFill throws: the request, and the user's later ones, stay pending.
RunFailed(c, u) ==
  LET f == Head(lane[c][u]) IN
  /\ Running(c, u) /\ Faulty("fill")
  /\ applied' \in {applied, applied \cup {f}} /\ tried' = tried \cup {f}
  /\ lane' = [lane EXCEPT ![c][u] = <<>>]
  /\ UNCHANGED <<redis, dead, batch, doomed, acking, flow, ends>>

\* It throws, as it may for a request it refuses however often it runs.
RunRefused(c, u) ==
  /\ Running(c, u) /\ Head(lane[c][u]) \in Poison
  /\ tried' = tried \cup {Head(lane[c][u])}
  /\ lane' = [lane EXCEPT ![c][u] = <<>>]
  /\ UNCHANGED <<redis, applied, dead, batch, doomed, acking, flow, ends, faults>>

\* The handler goes on with the next request.
PutDown(c, f) ==
  /\ acking' = [acking EXCEPT ![c] = @ \ {f}]
  /\ doomed' = [doomed EXCEPT ![c] = IF f \in HeadOf(@) THEN Tail(@) ELSE @]
  /\ lane' = [lane EXCEPT ![c] =
       [u \in User |-> IF f \in HeadOf(@[u]) THEN Tail(@[u]) ELSE @[u]]]

Ack(c, f) ==
  /\ f \in acking[c] /\ c \notin cut
  /\ pending' = Dropped({f})
  /\ PutDown(c, f)
  /\ UNCHANGED <<stream, asked, group, books, batch, flow, ends, faults>>

\* The ack, or its answer, is lost.
AckFailed(c, f) ==
  /\ f \in acking[c] /\ Unanswered(c, "ack")
  /\ \/ pending' = pending
     \/ c \notin cut /\ pending' = Dropped({f})
  /\ PutDown(c, f)
  /\ UNCHANGED <<stream, asked, group, books, batch, flow, ends>>

EmptyHands(c) == doomed[c] = <<>> /\ \A u \in User : lane[c][u] = <<>>

Handled(c) ==
  /\ Handling(c) /\ EmptyHands(c)
  /\ IF pc[c] = "runRead" THEN Turn(c)
     ELSE Goto(c, AfterPage(c, scan[c])) /\ UNCHANGED <<scan, due>>
  /\ UNCHANGED <<redis, books, hands, ends, faults>>

-----------------------------------------------------------------------------
(* close(), a crash, and a Redis that restarts empty.                      *)

Close(c) ==
  /\ c \in Leavers \ closed /\ pc[c] # "dead"
  /\ closed' = closed \cup {c}
  /\ UNCHANGED <<redis, books, hands, flow, cut, held, faults>>

LeaveStart(c) ==
  /\ c \in closed /\ pc[c] = "start" /\ Goto(c, "closing")
  /\ UNCHANGED <<redis, books, hands, scan, due, ends, faults>>

\* A loop that waits sees it; an XREADGROUP that waits is left behind.
Leave(c) ==
  /\ c \in closed /\ pc[c] \in {"start", "read"}
  /\ held' = IF pc[c] = "read" THEN held \cup {c} ELSE held
  /\ Goto(c, "closing")
  /\ UNCHANGED <<redis, books, hands, scan, due, closed, cut, faults>>

\* closeGraceMs pass with requests still in hand.
CutOff(c) ==
  /\ c \in closed \ cut /\ (pc[c] \in {"claim", "count"} \/ Handling(c))
  /\ cut' = cut \cup {c}
  /\ UNCHANGED <<redis, books, hands, flow, closed, held, faults>>

ServeHeld(c) ==
  /\ c \in held /\ Deliver(c)
  /\ held' = held \ {c}
  /\ UNCHANGED <<books, hands, flow, closed, cut, faults>>

DropHeld(c) ==
  /\ c \in held
  /\ held' = held \ {c}
  /\ UNCHANGED <<redis, books, hands, flow, closed, cut, faults>>

Unchecked(c) ==
  /\ pc[c] = "closing" /\ Goto(c, "delete") /\ held' = held \ {c}
  /\ UNCHANGED <<redis, books, hands, scan, due, closed, cut, faults>>

\* The client disconnects, and removeConsumer() looks for pending requests (XPENDING) ...
CheckPending(c) ==
  /\ pc[c] = "closing"
  /\ held' = IF LateClose THEN held ELSE held \ {c}
  /\ \/ Goto(c, IF HeldBy(c) = {} THEN "delete" ELSE "gone") /\ UNCHANGED faults
     \/ Goto(c, "gone") /\ Faulty("cleanup")
  /\ UNCHANGED <<redis, books, hands, scan, due, closed, cut>>

\* ... and, where it saw none, deletes the consumer with what is pending there (DELCONSUMER).
DeleteConsumer(c) ==
  /\ pc[c] = "delete"
  /\ pending' = Dropped(HeldBy(c))
  /\ Goto(c, "gone")
  /\ UNCHANGED <<stream, asked, group, books, hands, scan, due, ends, faults>>

Crash(c) ==
  /\ c \in Leavers /\ pc[c] \notin {"gone", "dead"} /\ Faulty("crash")
  /\ held' = IF pc[c] = "read" THEN held \cup {c} ELSE held
  /\ Goto(c, "dead") /\ scan' = [scan EXCEPT ![c] = Over]
  /\ batch' = [batch EXCEPT ![c] = <<>>] /\ doomed' = [doomed EXCEPT ![c] = <<>>]
  /\ lane' = [lane EXCEPT ![c] = [u \in User |-> <<>>]]
  /\ acking' = [acking EXCEPT ![c] = {}]
  /\ UNCHANGED <<redis, books, due, closed, cut>>

\* The stream and the group are lost; what is asked from now on starts a new stream.
RestartRedis ==
  /\ Faulty("redis")
  /\ stream' = <<>> /\ group' = NoGroup /\ pending' = [f \in Fill |-> None]
  /\ held' = {}
  /\ UNCHANGED <<asked, books, hands, flow, closed, cut>>

-----------------------------------------------------------------------------

Work(c) ==
  \/ CreateGroup(c) \/ ClaimPage(c) \/ Count(c)
  \/ Read(c) \/ ReadNothing(c) \/ FindNoGroup(c) \/ Copy(c)
  \/ \E u \in User : Run(c, u) \/ RunRefused(c, u)
  \/ \E f \in Fill : Ack(c, f)
  \/ c \in cut /\ (ClaimLost(c) \/ CountLost(c) \/ CopyFailed(c) \/ \E f \in Fill : AckFailed(c, f))
  \/ Handled(c) \/ Leave(c) \/ CheckPending(c) \/ DeleteConsumer(c)

Fail(c) ==
  \/ ClaimLost(c) \/ CountLost(c) \/ ReadLost(c) \/ CopyFailed(c)
  \/ \E u \in User : RunFailed(c, u)
  \/ \E f \in Fill : AckFailed(c, f)
  \/ Close(c) \/ CutOff(c) \/ ServeHeld(c) \/ DropHeld(c) \/ Crash(c)

Untimed ==
  \/ \E f \in Fill : Ask(f)
  \/ \E c \in Consumer : Work(c) \/ Fail(c) \/ BecomeDue(c)
  \/ RestartRedis

Next == Untimed \/ \E f \in Fill : Age(f)

Spec == Init /\ [][Next]_vars

\* XPENDING is answered within FILL_CLAIM_IDLE_MS: a request does not turn idle while its counts
\* are asked for.  Otherwise two processes could take it from each other for ever, each finding
\* it gone when the counts come and running it as a first delivery.
Prompt(f) == \A c \in Consumer : f \notin Range(batch[c])

PromptNext == Untimed \/ \E f \in Fill : Prompt(f) /\ Age(f)

Fairness ==
  /\ \A c \in Consumer : WF_vars(Work(c)) /\ WF_vars(BecomeDue(c))
  /\ \A f \in Fill : WF_vars(Prompt(f) /\ Age(f))

FairSpec == Init /\ [][PromptNext]_vars /\ Fairness

-----------------------------------------------------------------------------

Places == {"start", "claim", "count", "runClaimed", "read", "runRead", "closing", "delete",
           "gone", "dead"}

\* Nothing on the stream is ever forgotten ("Nothing is lost", docs/adr/0013, point 4): it is
\* still to be delivered, pending with somebody, committed, or on the dead-letter stream -
\* through lost answers, repeated deliveries, crashes and processes that close.
NoneLost ==
  \A i \in 1 .. Len(stream) :
    i > group.last \/ pending[stream[i]] # None \/ Settled(stream[i])

\* matcherFills.ts handle(), claim(): every request is committed or dead-lettered in the end, unless
\* Redis lost it: one that fails each time does not hold up the user's other for ever, though a
\* claim round sees only a part of what is pending, and what a closed or dead process held is
\* taken over.
EveryFillSettled ==
  \A f \in Fill : f \in asked ~> (Settled(f) \/ f \notin Range(stream))

\* close() comes to an end, whatever the process was doing.
CloseEnds == \A c \in Leavers : c \in closed ~> pc[c] \in {"gone", "dead"}

\* Only a request "it cannot run" goes to the dead-letter stream (contracts
\* matcherCommands.ts:89): one that does not parse, or that was tried.
DeadWasTried == dead \subseteq Malformed \cup tried
=============================================================================
