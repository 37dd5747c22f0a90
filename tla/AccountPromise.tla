--------------------------- MODULE AccountPromise ---------------------------
(***************************************************************************)
(* What the order service promises a user about the account, with no       *)
(* processes, caches or versions: the account changes in one step at a     *)
(* time; an action takes effect at most once, and only between its arrival *)
(* and its answer; OK means that it did, 409 CONFLICT that it did not.     *)
(* After a 500, or no answer at all, it may have taken effect or not.      *)
(*                                                                         *)
(* From the first session event or crossed order on, less is promised: an  *)
(* action without a client order id may take effect again before it is     *)
(* answered, and 409 no longer says that it did not.                       *)
(***************************************************************************)
EXTENDS Naturals

CONSTANTS
  Actions,    \* the user's order actions
  Keyed,      \* those of them that carry a client order id
  Others      \* what else changes the account: fills, session events

VARIABLES
  account,    \* the effects <<who, run>> the account holds
  answer,     \* per action, its answer, or "none"
  disturbed   \* something has come due that the engine does by itself

vars == <<account, answer, disturbed>>

Answers == {"none", "ok", "conflict", "error", "lost"}

Effective(w) == \E e \in account : e[1] = w
Repeatable(w) == disturbed /\ w \in Actions \ Keyed

Init ==
  /\ account = {}
  /\ answer = [a \in Actions |-> "none"]
  /\ disturbed = FALSE

\* Unanswered actions and other changes take effect together.
TakeEffect(effects) ==
  /\ \A e \in effects :
       /\ e[1] \in Actions \cup Others
       /\ Effective(e[1]) => Repeatable(e[1])
       /\ e[1] \in Actions => answer[e[1]] = "none"
       /\ \A f \in effects : e[1] = f[1] => e = f
  /\ account' = account \cup effects
  /\ UNCHANGED <<answer, disturbed>>

\* Actions are answered, each once, by what became of them.
Reply ==
  /\ answer' \in [Actions -> Answers]
  /\ \A a \in Actions : answer'[a] # answer[a] =>
       /\ answer[a] = "none"
       /\ answer'[a] = "ok" => Effective(a)
       /\ answer'[a] = "conflict" => disturbed \/ ~Effective(a)
  /\ UNCHANGED <<account, disturbed>>

Disturb ==
  /\ ~disturbed /\ disturbed'
  /\ UNCHANGED <<account, answer>>

Next == Reply \/ TakeEffect(account' \ account) \/ Disturb

Spec == Init /\ [][Next]_vars
=============================================================================
