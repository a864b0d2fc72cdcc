--------------------------- MODULE BudgetCustody ---------------------------
(***************************************************************************)
(* What the funding layer promises about the user's budget, with none of   *)
(* the database in it.  For each intent the budget is in exactly one pair  *)
(* of hands; it is handed to the executor or to the refund route only out  *)
(* of "held", and once it is spent, returned or written off it never       *)
(* moves again.                                                            *)
(*                                                                         *)
(* This is the race-safety contract written at the head of                 *)
(* migrations/0012_stage2_w5h_funding_intents.sql.  FundingIntents (the    *)
(* repository) is shown to implement it.                                   *)
(***************************************************************************)
CONSTANT Intents

VARIABLE custody

Hands == {"none", "held", "executing", "spent", "refunding", "returned",
          "writtenOff"}

Settled == {"spent", "returned", "writtenOff"}

Init == custody = [i \in Intents |-> "none"]

Move(i, from, to) ==
    /\ custody[i] \in from
    /\ custody' = [custody EXCEPT ![i] = to]

\* The verified funding transaction puts the budget in the controlled wallet.
Fund(i) == Move(i, {"none"}, "held")

LeaseExecution(i) == Move(i, {"held"}, "executing")

\* Nothing was broadcast: the executor hands the budget back.
ReleaseLease(i) == Move(i, {"executing"}, "held")

Spend(i) == Move(i, {"executing"}, "spent")

LeaseRefund(i) == Move(i, {"held"}, "refunding")

Return(i) == Move(i, {"refunding"}, "returned")

WriteOff(i) == Move(i, Hands \ Settled, "writtenOff")

Next == \E i \in Intents :
    \/ Fund(i)
    \/ LeaseExecution(i)
    \/ ReleaseLease(i)
    \/ Spend(i)
    \/ LeaseRefund(i)
    \/ Return(i)
    \/ WriteOff(i)

Spec == Init /\ [][Next]_custody

============================================================================
