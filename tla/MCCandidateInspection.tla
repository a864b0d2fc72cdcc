----------------------- MODULE MCCandidateInspection ------------------------
(* A candidate that is in order and one for each thing that may be wrong    *)
(* with it; reserves on each piece of the curve; accounts that are right,   *)
(* missing, empty or somebody else's.                                       *)
EXTENDS CandidateInspection

Action == [kind |-> "SolendDeposit", obligation |-> "obligation", reserve |-> "reserve",
           market |-> "market", program |-> "solend", mint |-> "usdc", amount |-> 2]

ConditionAt(comparison, threshold) ==
    [kind |-> "SolendReserveSupplyRate", reserve |-> "reserve", market |-> "market",
     program |-> "solend", comparison |-> comparison, threshold |-> threshold,
     rateKind |-> "Apr", formula |-> 1, staleness |-> MAX_STALENESS, refresh |-> TRUE]

RuleAt(comparison, threshold) ==
    [id |-> "rule", schema |-> 2, oneShot |-> TRUE, used |-> 0, executor |-> "wallet",
     delegated |-> "wallet", destination |-> "wallet", logic |-> "All",
     conditions |-> <<ConditionAt(comparison, threshold)>>, action |-> Action,
     max |-> 2, expires |-> 3]

FundingFor(rule, threshold) ==
    [intent |-> "rule", rule |-> "rule", hash |-> rule, wallet |-> "wallet",
     ata |-> <<"wallet", "usdc">>, amount |-> 2, threshold |-> threshold, expires |-> 1]

Candidate(rule, threshold) ==
    [funding |-> FundingFor(rule, threshold), rule |-> rule, eligible |-> TRUE]

InOrder == Candidate(RuleAt("Gt", 1), 1)

\* A rule that is wrong, with a funding row that commits to it.
Wrong(rule) == Candidate(rule, 1)
R == RuleAt("Gt", 1)
C == ConditionAt("Gt", 1)

WrongRules ==
    {[R EXCEPT !.schema = 1], [R EXCEPT !.oneShot = FALSE], [R EXCEPT !.used = 1],
     [R EXCEPT !.executor = "other"], [R EXCEPT !.id = "other"],
     [R EXCEPT !.max = 1], [R EXCEPT !.logic = "Any"], [R EXCEPT !.conditions = << >>],
     [R EXCEPT !.action.kind = "SolendWithdrawAllDelegated"],
     [R EXCEPT !.action.program = "other"], [R EXCEPT !.action.mint = "other"],
     [R EXCEPT !.action.amount = 0, !.max = 0],
     [R EXCEPT !.conditions = <<[C EXCEPT !.kind = "PythPrice"]>>],
     [R EXCEPT !.conditions = <<[C EXCEPT !.reserve = "other"]>>],
     [R EXCEPT !.conditions = <<[C EXCEPT !.rateKind = "Apy"]>>],
     [R EXCEPT !.conditions = <<[C EXCEPT !.formula = 2]>>],
     [R EXCEPT !.conditions = <<[C EXCEPT !.staleness = 9]>>],
     [R EXCEPT !.conditions = <<[C EXCEPT !.refresh = FALSE]>>],
     [R EXCEPT !.conditions = <<[C EXCEPT !.threshold = 2]>>]}

MCCandidates ==
    {InOrder, Candidate(RuleAt("Gt", 2), 2), Candidate(RuleAt("Gte", 2), 2),
     Candidate(RuleAt("Lt", 2), 2), Candidate(RuleAt("Lte", 0), 0)}
        \cup {Wrong(rule) : rule \in WrongRules}
        \cup {[InOrder EXCEPT !.eligible = FALSE], [InOrder EXCEPT !.rule = NULL],
              [InOrder EXCEPT !.funding.hash = RuleAt("Gt", 3)],
              [InOrder EXCEPT !.funding.wallet = "other"],
              [InOrder EXCEPT !.funding.rule = "other"],
              [InOrder EXCEPT !.funding.ata = <<"other", "usdc">>]}

\* The words have 8 bits: a product of 256 or more takes two of them.
ReserveOf(available, borrowed) ==
    [decodes |-> TRUE, address |-> "reserve", owner |-> "solend", market |-> "market",
     mint |-> "usdc", decimals |-> 6, collateralMint |-> "cusdc", stale |-> FALSE,
     available |-> available, borrowed |-> borrowed, minRate |-> 0, optimalRate |-> 2,
     maxRate |-> 3, superMaxRate |-> 6, optimalUtilization |-> 2, maxUtilization |-> 3,
     takeRate |-> 1]

V == ReserveOf(1, 60)
MCReserves ==
    {ReserveOf(a, b) : a \in {0, 1, 3}, b \in {0, 7, 21, 60}}
        \cup {[V EXCEPT !.decodes = FALSE], [V EXCEPT !.stale = TRUE],
              [V EXCEPT !.market = "other"], [V EXCEPT !.decimals = 9],
              [V EXCEPT !.minRate = 4], [V EXCEPT !.optimalUtilization = 3],
              [V EXCEPT !.superMaxRate = 12, !.takeRate = 0, !.available = 0],
              [V EXCEPT !.available = 15]}

MCObligations ==
    {NULL} \cup {[decodes |-> d, address |-> "obligation", owner |-> "solend",
                  market |-> "market", authority |-> w] :
                     d \in BOOLEAN, w \in {"wallet", "other"}}

Token(owner, mint, amount) ==
    [address |-> <<"wallet", mint>>, owner |-> "token", mint |-> mint,
     authority |-> owner, amount |-> amount, state |-> "Initialized"]

MCSources == {NULL, Token("wallet", "usdc", 2), Token("wallet", "usdc", 1),
              Token("other", "usdc", 2)}
MCCollaterals == {NULL, Token("wallet", "cusdc", 0),
                  [Token("wallet", "cusdc", 0) EXCEPT !.state = "Frozen"]}

\* Accounts that are in order, but for one at most.
Sound == [reserve |-> V, obligation |-> CHOOSE o \in MCObligations \ {NULL} :
                                                 o.decodes /\ o.authority = "wallet",
          source |-> Token("wallet", "usdc", 2), collateral |-> Token("wallet", "cusdc", 0)]
MCChains ==
    {[Sound EXCEPT !.reserve = reserve] : reserve \in MCReserves}
        \cup {[Sound EXCEPT !.obligation = obligation] : obligation \in MCObligations}
        \cup {[Sound EXCEPT !.source = source] : source \in MCSources}
        \cup {[Sound EXCEPT !.collateral = collateral] : collateral \in MCCollaterals}

\* Multiplication and division of words agree with those of the integers.
Words == 0 .. 15 \cup {16, 17, 31, 60, 127, 128, 200, 254, 255}
ASSUME MulDivAssumption ==
    \A a, b, d \in Words :
        mul_div_floor_u128(a, b, d) =
            IF d = 0 THEN NULL ELSE checked((a * b) \div d)

=============================================================================
