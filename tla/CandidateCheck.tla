--------------------------- MODULE CandidateCheck ---------------------------
(***************************************************************************)
(* The executor's checks of a candidate (crates/executor/src/candidate.rs, *)
(* condition.rs, report.rs), as pure operators: a funding row and a watch  *)
(* rule before any chain read, the decoded accounts after them.  Findings  *)
(* accumulate; none may be left for a deposit to be planned.               *)
(***************************************************************************)
EXTENDS SupplyApr, Sequences

CONSTANTS
    MAX_STALENESS,          \* REQUIRED_MAX_RESERVE_STALENESS_SLOTS
    MAX_THRESHOLD_BPS

ASSUME StalenessAssumption == {MAX_STALENESS, MAX_THRESHOLD_BPS} \subseteq Nat

SCHEMA_V2 == 2
SUPPORTED_FORMULA_VERSION == 1
REQUIRED_LIQUIDITY_MINT_DECIMALS == 6
audited_solend_program == "solend"
classic_token_program == "token"

\* What the inspection derives addresses with, whatever the accounts say.
token_program == "token"

usdc_mint == "usdc"

Condition == {"PythPrice", "SolendReserveSupplyRate"}
Comparison == {"Lt", "Lte", "Gt", "Gte"}

\* SHA-256 over the Borsh bytes: rules are equal when their hashes are.
canonical_rule_hash(rule) == rule

\* The address a wallet's tokens of a mint are at.
Ata(wallet, mint) == <<wallet, mint>>

compare_wad(observed, comparison, threshold) ==
    CASE comparison = "Lt"  -> observed < threshold * BPS_WAD
      [] comparison = "Lte" -> observed <= threshold * BPS_WAD
      [] comparison = "Gt"  -> observed > threshold * BPS_WAD
      [] comparison = "Gte" -> observed >= threshold * BPS_WAD

\* The codes of a table of checks that apply.
Applying(checks) == {code \in DOMAIN checks : checks[code]}

-----------------------------------------------------------------------------
(* Without the chain. *)

ActionOf(rule) == IF rule.action.kind = "SolendDeposit" THEN rule.action ELSE NULL

EnvelopeFindings(funding, rule) ==
    Applying([UnsupportedSchemaVersion |-> rule.schema # SCHEMA_V2,
              MultiUseRule             |-> ~rule.oneShot,
              UsedAmountNonZero        |-> rule.used # 0,
              ControlledWalletEnvelopeMismatch |->
                  {rule.executor, rule.destination} # {rule.delegated},
              RuleIdMismatch           |-> {funding.intent, funding.rule} # {rule.id},
              CanonicalHashMismatch    |-> funding.hash # canonical_rule_hash(rule),
              ControlledWalletMismatch |-> funding.wallet # rule.delegated])

ActionFindings(funding, rule) ==
    LET action == ActionOf(rule)
    IN  IF action = NULL THEN {"UnsupportedAction"}
        ELSE Applying([AmountMismatch |-> {action.amount, funding.amount} # {rule.max},
                       AmountZero     |-> 0 \in {action.amount, rule.max, funding.amount},
                       UnsupportedSolendProgram |-> action.program # audited_solend_program,
                       UnsupportedInputMint     |-> action.mint # usdc_mint])

\* slot is NULL when no confirmed slot could be read.
ClockFindings(funding, rule, now, slot) ==
    Applying([WallClockExpired         |-> now >= funding.expires,
              SlotExpired              |-> slot # NULL /\ slot >= rule.expires,
              ConfirmedSlotUnavailable |-> slot = NULL])

\* One reserve-rate condition, about what the action is about.
ConditionShapeFindings(rule) ==
    LET action    == ActionOf(rule)
        condition == rule.conditions[1]
    IN  IF action = NULL THEN {}
        ELSE IF \/ rule.logic # "All" \/ Len(rule.conditions) # 1
                \/ condition.kind # "SolendReserveSupplyRate"
        THEN {"UnsupportedConditionShape"}
        ELSE Applying([ConditionActionMismatch |->
                           \/ condition.reserve # action.reserve
                           \/ condition.market # action.market
                           \/ condition.program # action.program,
                       UnsupportedRateKind       |-> condition.rateKind # "Apr",
                       UnsupportedFormulaVersion |->
                           condition.formula # SUPPORTED_FORMULA_VERSION,
                       UnsupportedConditionShape |-> condition.staleness # MAX_STALENESS,
                       RefreshNotRequired        |-> ~condition.refresh])

supported_condition(rule) ==
    IF ActionOf(rule) = NULL \/ ConditionShapeFindings(rule) # {} THEN NULL
    ELSE rule.conditions[1]

ConditionFindings(funding, rule) ==
    LET condition == supported_condition(rule)
    IN  IF condition = NULL THEN ConditionShapeFindings(rule)
        ELSE Applying([ConditionFundingMismatch |-> condition.threshold # funding.threshold,
                       ThresholdOutOfRange |->
                           condition.threshold \notin 1 .. MAX_THRESHOLD_BPS])

\* What a report says of the three amounts.
all_equal_and_nonzero(funding, rule) ==
    /\ {rule.action.amount, rule.max} = {funding.amount}
    /\ funding.amount # 0

\* A candidate whose findings are none goes on to the chain.
preflight_candidate(funding, rule, now, slot) ==
    CASE funding # NULL /\ rule = NULL -> {"OrphanFundingOnly"}
      [] funding = NULL /\ rule # NULL -> {"OrphanRuleOnly"}
      [] funding = NULL /\ rule = NULL -> {"EmptyCandidate"}
      [] OTHER -> UNION {EnvelopeFindings(funding, rule), ActionFindings(funding, rule),
                         ClockFindings(funding, rule, now, slot),
                         ConditionFindings(funding, rule)}

-----------------------------------------------------------------------------
(* With what was read from the chain. *)

\* Whether a reserve names what the action names.
IdentityFindings(action, wallet, facts) ==
    Applying([ReserveIdentityMismatch |->
                  \/ facts.reserve.address # action.reserve
                  \/ facts.reserve.owner # action.program
                  \/ facts.reserve.market # action.market
                  \/ facts.reserve.mint # action.mint,
              UnsupportedMintDecimals |->
                  facts.reserve.decimals # REQUIRED_LIQUIDITY_MINT_DECIMALS,
              ObligationIdentityMismatch |->
                  \/ facts.obligation.address # action.obligation
                  \/ facts.obligation.owner # action.program
                  \/ facts.obligation.market # action.market
                  \/ facts.obligation.authority # wallet])

\* An account of the token program, usable by the wallet, for the mint.
TokenIsUsable(account, mint, wallet) ==
    /\ account.owner = classic_token_program
    /\ account.mint = mint
    /\ account.authority = wallet
    /\ account.state = "Initialized"

SourceFindings(funding, action, wallet, source) ==
    LET ata == Ata(wallet, action.mint)
    IN  Applying([SourceAtaMismatch |->
                      ata # funding.ata \/ (source # NULL /\ source.address # ata),
                  UnsupportedTokenProgram   |-> token_program # classic_token_program,
                  AccountMissing            |-> source = NULL,
                  SourceTokenMismatch       |->
                      source # NULL /\ ~TokenIsUsable(source, action.mint, wallet),
                  SourceBalanceInsufficient |->
                      source # NULL /\ source.amount < action.amount])

CollateralFindings(reserve, wallet, collateral) ==
    LET mint == reserve.collateralMint
    IN  Applying([AtaMissing              |-> collateral = NULL,
                  CollateralAtaMismatch   |->
                      collateral # NULL /\ collateral.address # Ata(wallet, mint),
                  CollateralTokenMismatch |->
                      collateral # NULL /\ ~TokenIsUsable(collateral, mint, wallet)])

FreshnessFindings(reserve, slot) ==
    Applying([ReserveSlotAhead       |-> reserve.updated > slot,
              ReserveExplicitlyStale |-> reserve.stale,
              ReserveTooOld          |->
                  reserve.updated <= slot /\ slot - reserve.updated > MAX_STALENESS])

Disqualifying == {"ReserveIdentityMismatch", "UnsupportedMintDecimals",
                  "ReserveExplicitlyStale", "ReserveSlotAhead", "ReserveTooOld"}

\* Mutant: the deadlines were checked before the chain was read.
validate_chain_OldClocks(funding, rule, facts, now, slot) ==
    LET action == ActionOf(rule)
        other  == UNION {IdentityFindings(action, rule.delegated, facts),
                         SourceFindings(funding, action, rule.delegated, facts.source),
                         CollateralFindings(facts.reserve, rule.delegated, facts.collateral),
                         FreshnessFindings(facts.reserve, slot)}
        condition == supported_condition(rule)
    IN  IF /\ other \cap Disqualifying = {}
           /\ ~compare_wad(facts.rate, condition.comparison, condition.threshold)
        THEN other \cup {"ConditionNotMet"} ELSE other

\* Both deadlines again, with clocks sampled after the reads; the condition
\* is looked at only on a reserve that is what it should be, and fresh.
validate_chain(funding, rule, facts, now, slot) ==
    LET action == ActionOf(rule)
        other  == UNION {ClockFindings(funding, rule, now, slot),
                         IdentityFindings(action, rule.delegated, facts),
                         SourceFindings(funding, action, rule.delegated, facts.source),
                         CollateralFindings(facts.reserve, rule.delegated, facts.collateral),
                         FreshnessFindings(facts.reserve, slot)}
        condition == supported_condition(rule)
    IN  IF /\ other \cap Disqualifying = {}
           /\ ~compare_wad(facts.rate, condition.comparison, condition.threshold)
        THEN other \cup {"ConditionNotMet"} ELSE other

\* What the builder of the deposit is given when there are no findings.
ValidatedSolendPlanInputs(rule, facts) ==
    LET action == ActionOf(rule)
        wallet == rule.delegated
    IN  [program    |-> action.program,
         mint       |-> action.mint,
         amount     |-> action.amount,
         source     |-> Ata(wallet, action.mint),
         collateral |-> Ata(wallet, facts.reserve.collateralMint),
         reserve    |-> action.reserve,
         market     |-> action.market,
         obligation |-> action.obligation,
         authority  |-> wallet]

-----------------------------------------------------------------------------
(* What a report says first. *)

Classes ==
    <<[class |-> "OrphanFundingOnly", of |-> {"OrphanFundingOnly"}],
      [class |-> "OrphanRuleOnly", of |-> {"OrphanRuleOnly"}],
      [class |-> "EmptyCandidate", of |-> {"EmptyCandidate"}],
      [class |-> "UnsupportedAction", of |-> {"UnsupportedAction"}],
      [class |-> "UnsupportedRuleEnvelope",
       of |-> {"UnsupportedSchemaVersion", "MultiUseRule", "UsedAmountNonZero",
               "ThresholdOutOfRange", "ControlledWalletEnvelopeMismatch",
               "UnsupportedSolendProgram", "UnsupportedInputMint"}],
      [class |-> "UnsupportedCondition",
       of |-> {"UnsupportedConditionShape", "UnsupportedFormulaVersion",
               "UnsupportedRateKind", "RefreshNotRequired"}],
      [class |-> "HashMismatch", of |-> {"CanonicalHashMismatch"}],
      [class |-> "IdentityMismatch",
       of |-> {"RuleIdMismatch", "ConditionActionMismatch", "ConditionFundingMismatch",
               "ControlledWalletMismatch"}],
      [class |-> "AmountMismatch", of |-> {"AmountMismatch", "AmountZero"}],
      [class |-> "WallClockExpired", of |-> {"WallClockExpired"}],
      [class |-> "SlotExpired", of |-> {"SlotExpired"}],
      [class |-> "ClockUnavailable", of |-> {"ConfirmedSlotUnavailable"}],
      [class |-> "ReserveStale",
       of |-> {"ReserveExplicitlyStale", "ReserveSlotAhead", "ReserveTooOld"}],
      [class |-> "AtaMissing", of |-> {"AtaMissing"}],
      [class |-> "AccountMissing", of |-> {"AccountMissing"}],
      [class |-> "AccountMismatch",
       of |-> {"ReserveIdentityMismatch", "ObligationIdentityMismatch", "SourceAtaMismatch",
               "SourceTokenMismatch", "CollateralAtaMismatch", "CollateralTokenMismatch",
               "UnsupportedMintDecimals", "UnsupportedTokenProgram"}],
      [class |-> "SourceBalanceInsufficient", of |-> {"SourceBalanceInsufficient"}],
      [class |-> "ConditionNotMet", of |-> {"ConditionNotMet"}]>>

primary_classification(findings) ==
    LET found == {i \in DOMAIN Classes : findings \cap Classes[i].of # {}}
    IN  IF found = {} THEN "Ready"
        ELSE Classes[CHOOSE i \in found : \A j \in found : i <= j].class

=============================================================================
