------------------------ MODULE CandidateInspection -------------------------
(***************************************************************************)
(* The inspection of one candidate                                         *)
(* (inspect_funding_candidate and inspect_candidate,                       *)
(* bins/solfrontier-mcp/src/watch.rs) over the market source of            *)
(* finalize_market.rs: preflight, four account reads, a second slot, the   *)
(* checks of CandidateCheck.                                               *)
(*                                                                         *)
(* Every read is an await.  Between any two of them slots pass, the        *)
(* reserve is refreshed, the wallet's tokens move and time goes on; the    *)
(* slot that a node reports is up to Lag slots old, and any read fails.    *)
(***************************************************************************)
EXTENDS CandidateCheck

CONSTANTS
    Candidates,     \* rows an inspection may be about: [funding, rule, eligible]
    Chains,         \* what the four accounts may hold at first
    Reserves, Sources, Collaterals,     \* what three of them may come to hold
    Lag,
    MaxSlot, MaxNow,    \* bounds on the clocks
    MaxChanges          \* bound on changes of the accounts

ASSUME InspectionAssumption == {Lag, MaxSlot, MaxNow, MaxChanges} \subseteq Nat
ASSUME StatusAssumption == NULL \notin {"ready", "blocked"}
ASSUME ConditionsAssumption ==
    \A candidate \in Candidates : candidate.rule # NULL =>
        /\ DOMAIN candidate.rule.conditions = 1 .. Len(candidate.rule.conditions)
        /\ \A i \in DOMAIN candidate.rule.conditions :
              LET condition == candidate.rule.conditions[i]
              IN  /\ condition # NULL
                  /\ condition.kind \in Condition /\ condition.comparison \in Comparison
\* Amounts, times and slots are numbers.
ASSUME CandidatesAssumption ==
    \A candidate \in Candidates :
        /\ candidate.funding # NULL
        /\ {candidate.funding.amount, candidate.funding.expires} \subseteq Nat
        /\ candidate.rule # NULL => candidate.rule.expires \in Nat
ASSUME AccountsAssumption ==
    /\ \A accounts \in Chains :
          DOMAIN accounts = {"reserve", "obligation", "source", "collateral"}
    /\ \A reserve \in Reserves \cup {accounts.reserve : accounts \in Chains} :
          ReserveRateSnapshot(reserve)
    /\ \A source \in Sources \cup {accounts.source : accounts \in Chains} :
          source # NULL => source.amount \in Nat

VARIABLES
    slot, now,
    chain,      \* the four accounts
    changes,
    insp        \* the inspection

inspectionVars == <<slot, now, chain, changes, insp>>

NoFacts == [reserve |-> NULL, rate |-> NULL, obligation |-> NULL,
            source |-> NULL, collateral |-> NULL]

Steps == {"rows", "reserve", "obligation", "source", "collateral", "validate"}

\* at holds the clocks of the chain when the inspection ended.
NoInspection == [pc |-> "rows", candidate |-> NULL, facts |-> NoFacts,
                 findings |-> {}, status |-> NULL, at |-> NULL]

Observed(reserve, updated) ==
    [f \in DOMAIN reserve \cup {"updated"} |->
        IF f = "updated" THEN updated ELSE reserve[f]]

InspectionInit ==
    /\ slot = 0 /\ now = 0 /\ changes = 0
    /\ \E accounts \in Chains :
          chain = [accounts EXCEPT !.reserve = Observed(accounts.reserve, 0)]
    /\ \E candidate \in Candidates :
          insp = [NoInspection EXCEPT !.candidate = candidate]

-----------------------------------------------------------------------------
(* The chain and the clocks, external. *)

\* What happens after the inspection is no part of it.
Inspecting == insp.pc \in Steps

NextSlot ==
    /\ Inspecting /\ slot < MaxSlot /\ slot' = slot + 1
    /\ UNCHANGED <<now, chain, changes, insp>>

Tick ==
    /\ Inspecting /\ now < MaxNow /\ now' = now + 1
    /\ UNCHANGED <<slot, chain, changes, insp>>

\* Before the preflight, a change is another start.
AccountsChange ==
    /\ Inspecting /\ insp.pc # "rows"
    /\ changes < MaxChanges /\ changes' = changes + 1
    /\ \/ \E reserve \in Reserves : chain' = [chain EXCEPT !.reserve = Observed(reserve, slot)]
       \/ \E source \in Sources : chain' = [chain EXCEPT !.source = source]
       \/ \E collateral \in Collaterals : chain' = [chain EXCEPT !.collateral = collateral]
    /\ UNCHANGED <<slot, now, insp>>

\* A slot that fetch_confirmed_slot may return.
fetch_confirmed_slot == {s \in 0 .. slot : slot <= s + Lag}

-----------------------------------------------------------------------------
(* The inspection. *)

End(status, findings) ==
    insp' = [insp EXCEPT !.pc = "done", !.status = status, !.findings = findings,
                         !.at = [slot |-> slot, now |-> now]]

Read(pc) == insp.pc = pc /\ UNCHANGED <<slot, now, chain, changes>>

\* Any read may fail, or return what does not decode, and ends the inspection.
ReadFails ==
    /\ Inspecting /\ Read(insp.pc)
    /\ End("error", {})

\* The rows; the rule's lifecycle; then preflight, with the slot that the scan
\* began with, if it had one.
inspect_funding_candidate(reported) ==
    LET funding == insp.candidate.funding
        rule    == insp.candidate.rule
        found   == preflight_candidate(funding, rule, now, reported)
    IN  /\ Read("rows")
        /\ IF funding.intent # funding.rule THEN End("identity_mismatch", {})
           ELSE IF rule = NULL THEN End("orphan_funding_only", {})
           ELSE IF ~insp.candidate.eligible THEN End("ineligible_rule_lifecycle", {})
           ELSE IF found # {} THEN End("blocked", found)
           ELSE insp' = [insp EXCEPT !.pc = "reserve"]

\* NULL for bytes that are no such account.
decode_reserve(account) == IF account.decodes THEN account ELSE NULL

decode_obligation(account) == IF account.decodes THEN account ELSE NULL

\* The reserve is decoded twice, for its identity and for the rate.
ReadReserve ==
    LET rate == native_supply_apr_from_reserve_data(chain.reserve)
    IN  /\ Read("reserve")
        /\ IF NULL \in {decode_reserve(chain.reserve), rate} THEN End("decode_error", {})
           ELSE insp' = [insp EXCEPT !.pc = "obligation", !.facts.rate = rate,
                                     !.facts.reserve = chain.reserve]

ReadObligation ==
    /\ Read("obligation")
    /\ IF chain.obligation = NULL THEN End("account_missing", {})
       ELSE IF decode_obligation(chain.obligation) = NULL THEN End("decode_error", {})
       ELSE insp' = [insp EXCEPT !.pc = "source", !.facts.obligation = chain.obligation]

ReadSource ==
    /\ Read("source")
    /\ insp' = [insp EXCEPT !.pc = "collateral", !.facts.source = chain.source]

ReadCollateral ==
    /\ Read("collateral")
    /\ insp' = [insp EXCEPT !.pc = "validate", !.facts.collateral = chain.collateral]

\* The second slot, and the clock right after it.
ValidateChain(reported) ==
    LET found == validate_chain(insp.candidate.funding, insp.candidate.rule,
                                insp.facts, now, reported)
    IN  /\ Read("validate")
        /\ End(IF found = {} THEN "ready" ELSE "blocked", found)

\* What of an inspection the executor takes to the lease: nothing if anything
\* in its report contradicts the rest.
revalidated_candidate(expected) ==
    LET funding == insp.candidate.funding
        rule    == insp.candidate.rule
    IN  IF /\ insp.status = "ready"
           /\ funding.intent = funding.rule
           /\ funding.intent = expected
           /\ primary_classification(insp.findings) = "Ready"
           /\ all_equal_and_nonzero(funding, rule)
        THEN {[intent |-> funding.intent,
               plan   |-> ValidatedSolendPlanInputs(rule, insp.facts)]}
        ELSE {}

InspectionNext ==
    \/ NextSlot \/ Tick \/ AccountsChange
    \/ ReadFails
    \/ \E reported \in (0 .. slot) \cup {NULL} : inspect_funding_candidate(reported)
    \/ ReadReserve \/ ReadObligation \/ ReadSource \/ ReadCollateral
    \/ \E reported \in fetch_confirmed_slot : ValidateChain(reported)

InspectionSpec == InspectionInit /\ [][InspectionNext]_inspectionVars

-----------------------------------------------------------------------------
(* Properties. *)

\* a / b >= c / d, and a / b > c / d.
AtLeast(a, b, c, d) == a * d >= c * b
Exceeds(a, b, c, d) == a * d > c * b

\* Whatever happened between its reads, a candidate that is ready was funded
\* for the very rule, in full, into the wallet that executes it; neither
\* deadline had passed at the end, but for the lag of the node; the reserve
\* was refreshed within the staleness bound, and the rate that it had, taken
\* as the fraction it is, is above the threshold of a Gt rule, the only one
\* the server builds, and reaches that of a Gte rule; the wallet holds the
\* deposit; a report reads Ready for these candidates only; and the executor
\* takes every one of them, with a plan that names the accounts that were read
\* (preflight_candidate, validate_chain, compare_wad, primary_classification,
\* revalidated_candidate).
ReadyIsRight ==
    LET funding   == insp.candidate.funding
        rule      == insp.candidate.rule
        facts     == insp.facts
        condition == rule.conditions[1]
        rate      == SupplyRate(facts.reserve)
        threshold == funding.threshold * BPS_WAD
    IN  /\ insp.status \in {"ready", "blocked"} =>
              (primary_classification(insp.findings) = "Ready") = (insp.status = "ready")
        /\ insp.status = "ready" =>
              /\ \E taken \in revalidated_candidate(rule.id) :
                    /\ taken.plan.amount = funding.amount
                    /\ taken.plan.reserve = facts.reserve.address
                    /\ taken.plan.obligation = facts.obligation.address
                    /\ taken.plan.source = facts.source.address
                    /\ taken.plan.collateral = facts.collateral.address
              /\ funding.hash = rule /\ funding.intent = rule.id
              /\ funding.amount = rule.action.amount /\ funding.amount > 0
              /\ {funding.wallet, rule.executor, facts.obligation.authority} = {rule.delegated}
              /\ insp.at.now < funding.expires
              /\ insp.at.slot < rule.expires + Lag
              /\ insp.at.slot <= facts.reserve.updated + MAX_STALENESS + Lag
              /\ facts.source.amount >= funding.amount
              /\ facts.source.authority = funding.wallet
              /\ condition.comparison = "Gt" =>
                    Exceeds(rate.n * SOLEND_WAD, rate.d, threshold, 1)
              /\ condition.comparison = "Gte" =>
                    AtLeast(rate.n * SOLEND_WAD, rate.d, threshold, 1)

\* The rate that the code computes for a reserve is never above the true one,
\* also where the product of two numbers takes two words, and it fails only
\* on a configuration that makes no sense or a rate out of every range
\* (supply_apr_wad, mul_div_floor_u128).
RateIsSound ==
    LET apr  == native_supply_apr_from_reserve_data(chain.reserve)
        rate == SupplyRate(chain.reserve)
    IN  IF apr # NULL THEN AtLeast(rate.n * SOLEND_WAD, rate.d, apr, 1)
        ELSE \/ ~chain.reserve.decodes \/ ~is_reserve_config_valid(chain.reserve)
             \/ chain.reserve.available * SOLEND_WAD + chain.reserve.borrowed >= U128
             \/ AtLeast(rate.n * SOLEND_WAD, rate.d, APR_BPS_SANITY_MAX * BPS_WAD, 1)

=============================================================================
