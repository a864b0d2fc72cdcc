------------------------ MODULE MCTransactionReview -------------------------
(* A deposit as the executor builds it, one with another amount, and        *)
(* transfers that reach the rules of a policy with every kind of condition. *)
EXTENDS TransactionReview, TLC

Ix(program, accounts, lamports, token, legacy) ==
    [program |-> program, accounts |-> accounts, lamports |-> lamports,
     token |-> token, legacy |-> legacy]

Deposit(amount) ==
    [network |-> "mainnet", limit |-> 40, price |-> 5,
     instructions |-> <<Ix("compute_budget", {}, NULL, NULL, FALSE),
                        Ix("compute_budget", {}, NULL, NULL, FALSE),
                        Ix("solend", {"reserve"}, NULL, NULL, FALSE),
                        Ix("solend", {"reserve"}, NULL,
                           [mint |-> "usdc", amount |-> amount], FALSE)>>]

Transfer(lamports) ==
    [network |-> "mainnet", limit |-> NULL, price |-> NULL,
     instructions |-> <<Ix("system", {"friend"}, lamports, NULL, FALSE),
                        Ix("system", {"friend"}, lamports, NULL, FALSE)>>]

MCCanonical == Deposit(1)
MCProposals == {Deposit(1), Deposit(2), Transfer(1), Transfer(2)}
MCRoleOf == [o1 |-> "risk", o2 |-> "treasury"]
MCOperators == DOMAIN MCRoleOf

TwoStages == <<[roles |-> {"risk"}, min |-> 1], [roles |-> {}, min |-> 2]>>
Weekdays == [start |-> 22, end |-> 1, days |-> {1}, offset |-> 0]

MCGlobalPolicy ==
    [programs |-> {"compute_budget", "solend", "system"}, denied |-> {"thief"},
     rules |-> <<Rule("SimulationNotPassed", NULL, "Reject", << >>),
                 Rule("ProgramNotInAllowlist", NULL, "Reject", << >>),
                 Rule("DestinationInDenylist", NULL, "Reject", << >>),
                 Rule("LegacyTokenTransferPresent", NULL, "Reject", << >>),
                 Rule("MintNotInAllowlist", {"usdc"}, "Reject", << >>),
                 Rule("CostExceedsSol", 1, "Reject", << >>),
                 Rule("DailySpendExceedsSol", 1, "Reject", << >>),
                 Rule("AmountExceedsLamports", 4, "RequireApprovalChain", TwoStages),
                 Rule("OutsideAllowedHours", Weekdays, "Reject", << >>),
                 Rule("TokenAmountExceeds", [mint |-> "usdc", threshold |-> 2],
                      "RequireHumanApproval", <<[roles |-> {"treasury"}, min |-> 1]>>),
                 Rule("NetworkIn", {"devnet", "testnet", "localnet"}, "Approve", << >>)>>]

MCSessionRules ==
    {<< >>, <<Rule("AmountExceedsLamports", 4, "RequireApprovalChain", TwoStages),
              Rule("Always", NULL, "Approve", << >>)>>}
MCUsage == {NULL, 10, 19}

TasksAlike == Permutations(Tasks)

=============================================================================
