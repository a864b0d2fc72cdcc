------------------------------ MODULE Proposal ------------------------------
(***************************************************************************)
(* propose_intent (bins/solfrontier-mcp/src/propose.rs) and the mapping of *)
(* a draft to a watch rule (finalize.rs), as pure operators.  Proposing    *)
(* keeps no state: finalize_intent gets the whole proposal again and has   *)
(* only its hash to go by.                                                 *)
(*                                                                         *)
(* The enumerations with one member (deposit, solend, USDC, save, gt) and  *)
(* the two pinned accounts are one value each.                             *)
(***************************************************************************)
EXTENDS Naturals, Null

CONSTANT MaxU64     \* u64::MAX

ASSUME MaxU64Assumption == MaxU64 \in Nat

USDC_DECIMALS == 6
USDC_RAW_PER_WHOLE == 1000000
MIN_AMOUNT_RAW == 100000
MAX_AMOUNT_RAW == 1000000
MAX_THRESHOLD_BPS == 10000
EXPIRY_SECONDS_AFTER_FINALIZE == 180
CONTROLLED_WALLET == "controlled wallet"
CONTROLLED_USDC_ATA == "controlled usdc account"

-----------------------------------------------------------------------------
\* The amount as it is written: [negative, whole, digits, fraction], digits
\* being how many decimal places there are.  "0.5" and "0.50" differ.
\* NULL if the text means no amount that can be moved.
parse_usdc_amount_to_raw(text) ==
    LET raw == text.whole * USDC_RAW_PER_WHOLE
                 + text.fraction * 10 ^ (USDC_DECIMALS - text.digits)
    IN  IF \/ text.negative
           \/ text.digits > USDC_DECIMALS
           \/ text.whole > MaxU64 \div USDC_RAW_PER_WHOLE
        THEN NULL
        ELSE IF raw > MaxU64 \/ raw = 0 THEN NULL ELSE raw

\* The bounds of the first version.
Supported(params) ==
    /\ parse_usdc_amount_to_raw(params.amount) # NULL
    /\ parse_usdc_amount_to_raw(params.amount) \in MIN_AMOUNT_RAW .. MAX_AMOUNT_RAW
    /\ params.threshold_bps \in 1 .. MAX_THRESHOLD_BPS
    /\ params.expiry = EXPIRY_SECONDS_AFTER_FINALIZE
    /\ params.controlled_wallet = CONTROLLED_WALLET
    /\ params.controlled_usdc_ata = CONTROLLED_USDC_ATA
    /\ params.message # ""

\* The message is kept as its hash, for which it stands.
validate_draft(params) ==
    IF ~Supported(params) THEN NULL
    ELSE [threshold_bps |-> params.threshold_bps,
          amount_raw    |-> parse_usdc_amount_to_raw(params.amount),
          message_hash  |-> params.message]

\* SHA-256 of the sorted JSON of all fields, for which they stand.  The
\* random draft id is not among them.
compute_draft_hash(draft) ==
    <<draft.amount_raw, draft.message_hash, draft.threshold_bps>>

validate_and_hash_draft(params) ==
    IF validate_draft(params) = NULL THEN NULL
    ELSE compute_draft_hash(validate_draft(params))

-----------------------------------------------------------------------------
\* Threshold, amount and the start of the controlled wallet, the same for all.
\* Neither the message nor the user's wallet takes part: two users who want
\* the same get the same id.
derive_rule_id(draft) == <<draft.threshold_bps, draft.amount_raw>>

\* What of the rule depends on the draft.
build_watch_rule(draft, last_checked_slot) ==
    [rule_id          |-> derive_rule_id(draft),
     created_at_slot  |-> last_checked_slot,
     threshold_bps    |-> draft.threshold_bps,
     input_amount_raw |-> draft.amount_raw]

=============================================================================
