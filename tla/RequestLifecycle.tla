-------------------------- MODULE RequestLifecycle --------------------------
(***************************************************************************)
(* What the queue promises about each request, whatever the number of      *)
(* workers and the order they run in. A request is admitted or refused     *)
(* once, waits in a bounded queue, is handed to at most one execution, and *)
(* its future is settled at most once. It leaves the queue without being   *)
(* executed only with a settled future.                                    *)
(*                                                                         *)
(* One step of the queue may move several requests (a submit() discards    *)
(* what has expired before it pushes), so a step of the contract is a      *)
(* transition of every request that moves, subject to the bound.           *)
(***************************************************************************)
EXTENDS Integers, FiniteSets

CONSTANTS Requests, MaxSize

VARIABLES
  phase,     \* "new", "refused", "queued", "held" (by an execution) or "over"
  outcome    \* "none" before admission, then "pending", then the answer

contractVars == <<phase, outcome>>

ContractInit ==
  /\ phase = [r \in Requests |-> "new"]
  /\ outcome = [r \in Requests |-> "none"]

Moves(r, from, to) == phase[r] = from /\ phase'[r] = to

\* A settled future keeps its answer; a pending one takes one of those in A.
Answered(r, A) ==
  IF outcome[r] = "pending" THEN outcome'[r] \in A ELSE outcome'[r] = outcome[r]

Admit(r) == Moves(r, "new", "queued") /\ outcome'[r] = "pending"

Refuse(r) == Moves(r, "new", "refused") /\ outcome'[r] = outcome[r]

\* The request goes to an execution. Its caller may have withdrawn just before.
Execute(r) ==
  /\ Moves(r, "queued", "held")
  /\ outcome[r] \in {"pending", "cancelled"}
  /\ outcome'[r] = outcome[r]

\* The request expires, is withdrawn or is swept by close().
Drop(r) == Moves(r, "queued", "over") /\ Answered(r, {"timeout", "cancelled"})

\* The execution ends; one that is cut short leaves the future pending.
Conclude(r) == Moves(r, "held", "over") /\ Answered(r, {"ran", "pending"})

\* The caller cancels the future it awaits.
Withdraw(r) ==
  /\ phase'[r] = phase[r]
  /\ outcome[r] = "pending" /\ outcome'[r] = "cancelled"

Rests(r) == phase'[r] = phase[r] /\ outcome'[r] = outcome[r]

ContractNext ==
  /\ \A r \in Requests :
       \/ Rests(r)
       \/ Admit(r) \/ Refuse(r) \/ Execute(r) \/ Drop(r)
       \/ Conclude(r) \/ Withdraw(r)
  /\ Cardinality({r \in Requests : Execute(r)}) <= 1
  /\ Cardinality({r \in Requests : phase'[r] = "queued"}) <= MaxSize

ContractSpec == ContractInit /\ [][ContractNext]_contractVars

=============================================================================
