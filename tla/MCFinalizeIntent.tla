-------------------------- MODULE MCFinalizeIntent --------------------------
(* Wallets, drafts, servers and requests are interchangeable.               *)
EXTENDS FinalizeIntent, TLC

Written(whole, digits, fraction) ==
    [negative |-> FALSE, whole |-> whole, digits |-> digits, fraction |-> fraction]

Params(amount, threshold, message) ==
    [amount |-> amount, threshold_bps |-> threshold, message |-> message,
     expiry |-> EXPIRY_SECONDS_AFTER_FINALIZE,
     controlled_wallet |-> CONTROLLED_WALLET, controlled_usdc_ata |-> CONTROLLED_USDC_ATA]

\* One wish is for a rule that a predecessor stored in another shape, and one
\* amount is too small.
Wishes ==
    [half |-> Params(Written(0, 1, 5), 50, "half a dollar"),
     one  |-> Params(Written(1, 0, 0), 50, "a dollar"),
     tiny |-> Params(Written(0, 6, 1), 50, "next to nothing")]

WishIds == {<<50, 500000>>, <<50, 1000000>>}

LegacyIds == {<<50, 1000000>>}

WishHashes == {<<500000, "half a dollar", 50>>, <<1000000, "a dollar", 50>>}

\* How an amount is written does not matter; where it ends does.
ASSUME AmountsAreExact ==
    /\ parse_usdc_amount_to_raw(Written(0, 1, 5)) = 500000
    /\ parse_usdc_amount_to_raw(Written(0, 6, 500000)) = 500000
    /\ parse_usdc_amount_to_raw(Written(1, 0, 0)) = MAX_AMOUNT_RAW
    /\ parse_usdc_amount_to_raw(Written(0, 7, 5000000)) = NULL
    /\ parse_usdc_amount_to_raw(Written(MaxU64, 0, 0)) = NULL
    /\ parse_usdc_amount_to_raw(Written(0, 0, 0)) = NULL

\* The id alone decides what the rule does; who asks, and how, does not count.
ASSUME RuleIdIdentifies ==
    LET Draft(amount, threshold, message) == validate_draft(Params(amount, threshold, message))
        Valid == {Draft(Written(0, 1, f), t, m) :
                     f \in 1 .. 9, t \in {1, 50}, m \in {"please", "now"}}
    IN  \A one, two \in Valid :
            derive_rule_id(one) = derive_rule_id(two)
                <=> build_watch_rule(one, 0) = build_watch_rule(two, 0)

Symmetry ==
    Permutations(Wallets) \cup Permutations(Drafts)
        \cup Permutations(Servers) \cup Permutations(Requests)

=============================================================================
