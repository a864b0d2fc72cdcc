------------------------------- MODULE Policy -------------------------------
(***************************************************************************)
(* The risk engine (crates/risk-engine/src/policy.rs) over the rule and    *)
(* verdict types of crates/types/src/policy.rs, as pure operators.         *)
(*                                                                         *)
(* A rule is [on, arg, do, stages]: the condition and its argument, the    *)
(* action and, for the two actions that ask people, the stages they ask    *)
(* for.  A context holds what evaluate is given: the network, the summary  *)
(* of each instruction, the simulation, today's spend, the hour.           *)
(***************************************************************************)
EXTENDS Naturals, Integers, Sequences, Null
LOCAL INSTANCE Functions

CONSTANT U64Max     \* the largest amount an integer holds

ASSUME U64Assumption == U64Max \in Nat

PolicyCondition ==
    {"NetworkIn", "ProgramNotInAllowlist", "DestinationInDenylist", "CostExceedsSol",
     "DailySpendExceedsSol", "AmountExceedsLamports", "SimulationNotPassed",
     "TokenAmountExceeds", "MintNotInAllowlist", "LegacyTokenTransferPresent",
     "OutsideAllowedHours", "Always"}

PolicyAction == {"Approve", "RequireHumanApproval", "RequireApprovalChain", "Reject"}

Rule(on, arg, do, stages) == [on |-> on, arg |-> arg, do |-> do, stages |-> stages]

\* now counts hours from a Monday 00:00 UTC.  An offset of a day or more is
\* no FixedOffset and counts as none.
is_outside_allowed_hours_at(now, window) ==
    LET offset == IF window.offset \in -23 .. 23 THEN window.offset ELSE 0
        local  == (now + offset) % 168
        hour   == local % 24
        day    == (local \div 24) + 1
    IN  \/ window.days # {} /\ day \notin window.days
        \/ IF window.start <= window.end
           THEN hour < window.start \/ hour > window.end
           ELSE hour < window.start /\ hour > window.end

\* The indices of the instructions that carry something.
Carrying(ctx, Test(_)) == {i \in DOMAIN ctx.instructions : Test(ctx.instructions[i])}

SumOver(indices, Amount(_)) == SumFunctionOnSet([i \in indices |-> Amount(i)], indices)

\* The SOL a transaction moves, NULL if that is not known: what the transfer
\* instructions say, summed without overflow, and else what the simulation
\* saw leave the wallet besides the fee.
transfer_amount_lamports(ctx) ==
    LET transfers == Carrying(ctx, LAMBDA ix : ix.lamports # NULL)
        total     == SumOver(transfers, LAMBDA i : ctx.instructions[i].lamports)
        diff      == IF ctx.sim = NULL THEN NULL ELSE ctx.sim.diff
        spent     == diff.before - diff.after
        fee       == IF ctx.sim.fee = NULL THEN 0 ELSE ctx.sim.fee
    IN  IF transfers # {} THEN (IF total > U64Max THEN U64Max ELSE total)
        ELSE IF diff = NULL THEN NULL
        ELSE IF spent < 0 THEN NULL
        ELSE IF spent > fee THEN spent - fee ELSE 0

\* The tokens of a mint that a transaction moves.  This sum is the plain one,
\* which wraps around in a release build.
TokensMoved(ctx, mint) ==
    LET transfers == Carrying(ctx, LAMBDA ix : ix.token # NULL /\ ix.token.mint = mint)
    IN  SumOver(transfers, LAMBDA i : ctx.instructions[i].token.amount) % (U64Max + 1)

condition_matches_at(set, rule, ctx) ==
    CASE rule.on = "NetworkIn" -> ctx.network \in rule.arg
      [] rule.on = "ProgramNotInAllowlist" ->
            /\ set.programs # {}
            /\ Carrying(ctx, LAMBDA ix : ix.program \notin set.programs) # {}
      [] rule.on = "DestinationInDenylist" ->
            Carrying(ctx, LAMBDA ix : ix.accounts \cap set.denied # {}) # {}
      [] rule.on = "CostExceedsSol" ->
            ctx.sim # NULL /\ ctx.sim.fee # NULL /\ ctx.sim.fee > rule.arg
      [] rule.on = "DailySpendExceedsSol" -> ctx.spent > rule.arg
      [] rule.on = "AmountExceedsLamports" ->
            LET amount == transfer_amount_lamports(ctx)
            IN  amount # NULL /\ amount >= rule.arg
      [] rule.on = "SimulationNotPassed" -> ctx.sim = NULL \/ ~ctx.sim.success
      [] rule.on = "TokenAmountExceeds" ->
            TokensMoved(ctx, rule.arg.mint) >= rule.arg.threshold
      [] rule.on = "MintNotInAllowlist" ->
            /\ rule.arg # {}
            /\ Carrying(ctx, LAMBDA ix : /\ ix.token # NULL
                                         /\ ix.token.mint \notin rule.arg) # {}
      [] rule.on = "LegacyTokenTransferPresent" -> Carrying(ctx, LAMBDA ix : ix.legacy) # {}
      [] rule.on = "OutsideAllowedHours" -> is_outside_allowed_hours_at(ctx.now, rule.arg)
      [] rule.on = "Always" -> TRUE

\* A verdict: its label and the stages a human approval has to go through.
Verdict(label, stages) == [label |-> label, stages |-> stages]

action_to_verdict(rule) ==
    CASE rule.do = "Approve" -> Verdict("approved", << >>)
      [] rule.do \in {"RequireHumanApproval", "RequireApprovalChain"} ->
            Verdict("requires_human_approval", rule.stages)
      [] rule.do = "Reject" -> Verdict("rejected", << >>)

\* One stage that anybody may decide: single_stage without a role.
AnyApprover == <<[roles |-> {}, min |-> 1]>>

\* The first rule that matches decides; when none does a human has to.
evaluate_at(set, ctx) ==
    LET matching == {i \in DOMAIN set.rules : condition_matches_at(set, set.rules[i], ctx)}
        first    == CHOOSE i \in matching : \A j \in matching : i <= j
    IN  IF ctx.sim # NULL /\ ~ctx.sim.success THEN Verdict("simulation_failed", << >>)
        ELSE IF matching = {} THEN Verdict("requires_human_approval", AnyApprover)
        ELSE action_to_verdict(set.rules[first])

\* The rules of a session come before the global ones, the lists stay.
with_session_rules(set, session) == [set EXCEPT !.rules = session \o @]

permissive_default ==
    [rules    |-> <<Rule("Always", NULL, "Approve", << >>)>>,
     programs |-> {}, denied |-> {}]

mainnet_safe_default ==
    [rules |-> <<Rule("NetworkIn", {"mainnet"}, "RequireHumanApproval", AnyApprover),
                 Rule("NetworkIn", {"devnet", "testnet", "localnet"}, "Approve", << >>)>>,
     programs |-> {}, denied |-> {}]

is_auto_approved(verdict) == verdict.label = "approved"
is_blocked(verdict) == verdict.label \in {"rejected", "simulation_failed"}
requires_human(verdict) == verdict.label = "requires_human_approval"

=============================================================================
