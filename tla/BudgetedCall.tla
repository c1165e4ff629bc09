---------------------------- MODULE BudgetedCall ----------------------------
(***************************************************************************)
(* What RunInstrumented promises its caller, without WASM: a call gets a   *)
(* budget and spends from it as it pleases, but it completes only if what  *)
(* it spent is within the budget, and what it then reports is never less   *)
(* than what it spent.  Every call may fail.                               *)
(***************************************************************************)
EXTENDS Integers

CONSTANT Budgets  \* what a caller may pass

VARIABLES
  status,   \* "idle", "running", "completed" or "failed"
  budget,   \* the budget of the last call
  used,     \* what the last call spent
  reported  \* the report of the last call that completed

bvars == <<status, budget, used, reported>>

Init ==
  /\ status = "idle"
  /\ budget = 0
  /\ used = 0
  /\ reported = 0

Start(b) ==
  /\ status # "running"
  /\ status' = "running"
  /\ budget' = b
  /\ used' = 0
  /\ UNCHANGED reported

\* The call fails before it spends anything.
Refuse(b) ==
  /\ status # "running"
  /\ status' = "failed"
  /\ budget' = b
  /\ used' = 0
  /\ UNCHANGED reported

Spend ==
  /\ status = "running"
  /\ used' \in Nat
  /\ used' > used
  /\ UNCHANGED <<status, budget, reported>>

Complete ==
  /\ status = "running"
  /\ used <= budget
  /\ status' = "completed"
  /\ reported' \in Nat
  /\ reported' >= used
  /\ UNCHANGED <<budget, used>>

Fail ==
  /\ status = "running"
  /\ status' = "failed"
  /\ UNCHANGED <<budget, used, reported>>

\* The caller turns to something else.
Forget ==
  /\ status # "running"
  /\ status' = "idle"
  /\ used' = 0
  /\ UNCHANGED <<budget, reported>>

Next ==
  \/ \E b \in Budgets : Start(b) \/ Refuse(b)
  \/ Spend
  \/ Complete
  \/ Fail
  \/ Forget

Spec == Init /\ [][Next]_bvars
=============================================================================
