--------------------------- MODULE ReviewPipeline ---------------------------
(***************************************************************************)
(* What the review pipeline does to a transaction, as pure operators:      *)
(* compute budget (crates/solana-core/src/compute.rs), the outcome of      *)
(* sign by approval mode (crates/wallet-engine/src/pipeline.rs), and the   *)
(* executor's own checks (bins/solfrontier-mcp/src/watch_wallet.rs).       *)
(*                                                                         *)
(* A transaction is its proposal, the compute budget that its message      *)
(* sets, NULL where it sets none, and its blockhash, named by the time it  *)
(* is from.                                                                *)
(***************************************************************************)
EXTENDS Policy

CONSTANTS
    DEFAULT_COMPUTE_UNITS,
    MIN_UNITS, MAX_UNITS,   \* compute_limit_from_simulation's clamp
    Canonical               \* the proposal the executor's builder makes

ASSUME UnitsAssumption ==
    {DEFAULT_COMPUTE_UNITS, MIN_UNITS, MAX_UNITS} \subseteq Nat \ {0}

Unsigned(proposal) ==
    [proposal |-> proposal, limit |-> proposal.limit, price |-> proposal.price,
     blockhash |-> NULL]

\* Everything in the message but the blockhash.
Body(tx) == [tx EXCEPT !.blockhash = NULL]

has_compute_budget_instructions(tx) == tx.limit # NULL \/ tx.price # NULL

prepend_compute_budget(tx, units, fee) ==
    IF has_compute_budget_instructions(tx) THEN tx
    ELSE [tx EXCEPT !.limit = units, !.price = IF fee > 0 THEN fee ELSE NULL]

replace_compute_unit_limit(tx, units) ==
    IF tx.limit = NULL THEN tx ELSE [tx EXCEPT !.limit = units]

\* A tenth of headroom.
compute_limit_from_simulation(used) ==
    LET units == (used * 11) \div 10
    IN  IF units < MIN_UNITS THEN MIN_UNITS
        ELSE IF units > MAX_UNITS THEN MAX_UNITS ELSE units

\* Worth a second pass: more than a tenth is saved.
should_tighten(current, derived) == derived < current /\ (current - derived) * 10 > current

\* What becomes of an approved transaction.
SignOutcome(mode, verdict) ==
    CASE mode = "DryRun" -> "dry_run"
      [] mode = "HumanGranted" -> "signed"
      [] mode = "Automatic" -> IF requires_human(verdict) THEN "awaiting" ELSE "signed"
      [] mode = "RequireHuman" -> IF is_auto_approved(verdict) THEN "signed" ELSE "awaiting"

-----------------------------------------------------------------------------
(* The executor. *)

ComputeBudget == "compute_budget"
Solend == "solend"
Usdc == "usdc"

\* The transaction is, but for the blockhash, the one the builder made, and
\* that one is the reviewed sequence of four instructions for a positive
\* amount of USDC: the summary of a transaction that deviates is none.
validate_and_summarize(tx) ==
    LET deposit == Canonical.instructions[4].token
    IN  IF /\ Body(tx) = Unsigned(Canonical)
           /\ deposit.mint = Usdc /\ deposit.amount > 0
           /\ [i \in DOMAIN tx.proposal.instructions |-> tx.proposal.instructions[i].program]
                = <<ComputeBudget, ComputeBudget, Solend, Solend>>
        THEN tx.proposal.instructions ELSE NULL

\* NULL where the amount leaves no room for the cap above it.
execution_policy ==
    LET amount == Canonical.instructions[4].token.amount
    IN  IF amount = U64Max THEN NULL
        ELSE [rules |-> <<Rule("SimulationNotPassed", NULL, "Reject", << >>),
                          Rule("ProgramNotInAllowlist", NULL, "Reject", << >>),
                          Rule("LegacyTokenTransferPresent", NULL, "Reject", << >>),
                          Rule("MintNotInAllowlist", {Usdc}, "Reject", << >>),
                          Rule("TokenAmountExceeds",
                               [mint |-> Usdc, threshold |-> amount + 1], "Reject", << >>),
                          Rule("Always", NULL, "Approve", << >>)>>,
              programs |-> {ComputeBudget, Solend}, denied |-> {}]

=============================================================================
