--------------------------- MODULE WatchExecutor ---------------------------
(***************************************************************************)
(* `watch --execute` (bins/solfrontier-mcp/src/watch.rs, watch_execute.rs, *)
(* watch_execution_state.rs, watch_submission.rs): scan the reserved       *)
(* intents, revalidate each ready one, lease it with a compare-and-set,    *)
(* sign the deposit, broadcast it once, watch it become final and record   *)
(* the outcome.                                                            *)
(*                                                                         *)
(* Several watchers may run on one database.  The steps of a watcher are   *)
(* the awaits of the code; between them other watchers, the operator, the  *)
(* clocks and the chain move, and the watcher may die and be started       *)
(* again.  A store call may fail, with or without having taken effect.     *)
(***************************************************************************)
EXTENDS FundingIntents, WatchRules, FiniteSets

CONSTANTS
    Watchers,       \* watcher processes
    Deposits,       \* signatures of the deposit transactions
    BatchLimit,     \* WATCH_BATCH_LIMIT
    MaxPolls,       \* polls that fit into TOTAL_POLL_TIMEOUT
    Tolerance,      \* TRANSIENT_ERROR_TOLERANCE
    MaxFaults,      \* bound on failed store calls and crashes
    MaxRollbacks    \* bound on transactions dropped after confirmation

ASSUME DepositsAssumption == Deposits \subseteq Sigs
ASSUME ExecutorStartAssumption == 0 \in Slots /\ Wallets # {}
ASSUME ExecutorBoundsAssumption ==
    {BatchLimit, MaxPolls, Tolerance, MaxFaults, MaxRollbacks} \subseteq Nat

VARIABLES
    deposits,   \* the chain: signature -> deposit transaction
    watchers,   \* watcher -> its position in the cycle
    faults,
    rollbacks

executorVars == <<intents, now, rules, slot, deposits, watchers, faults, rollbacks>>

\* What a step of a watcher leaves alone, besides what it names itself.
outside == <<now, slot, rollbacks>>

-----------------------------------------------------------------------------
(* State *)

Deposit == [status : {"unused", "signed", "sent", "confirmed", "finalized"},
            intent : Intents \cup {NULL},
            ok     : BOOLEAN]

NoDeposit == [status |-> "unused", intent |-> NULL, ok |-> FALSE]

Broadcast == {"sent", "confirmed", "finalized"}

\* Positions at which the watcher has won the lease and not yet given it up.
Holding == {"sign", "release", "send", "poll", "completeRule",
            "completeFunding", "fail"}

Watcher == [pc     : {"idle", "cycle", "chain", "clock", "lease"} \cup Holding,
            ready  : SUBSET Intents,         \* candidates left in this cycle
            intent : Intents \cup {NULL},
            t      : Nat,                    \* lease_now_ms
            sig    : Deposits \cup {NULL},   \* payload.signature
            polls  : Nat,
            errors : Nat]                    \* consecutive_errors

IdleWatcher == [pc |-> "idle", ready |-> {}, intent |-> NULL, t |-> 0,
                sig |-> NULL, polls |-> 0, errors |-> 0]

SubmittedIntent(payment) ==
    [NoRow EXCEPT !.status = "funding_submitted", !.hash = 0,
                  !.wallet = CHOOSE w \in Wallets : TRUE,
                  !.expires = Lifetime, !.fsig = payment]

\* finalize has created the intents at slot and time 0, each has been paid,
\* and confirm_funding is about to reserve them.
ExecutorInit ==
    /\ now = 0
    /\ slot = 0
    /\ \E payment \in [Intents -> Sigs \ Deposits] :
          intents = [i \in Intents |-> SubmittedIntent(payment[i])]
    /\ rules = [i \in Intents |->
                  [NoRule EXCEPT !.status = "active", !.created = 0]]
    /\ deposits = [s \in Deposits |-> NoDeposit]
    /\ watchers = [w \in Watchers |-> IdleWatcher]
    /\ faults = 0
    /\ rollbacks = 0

-----------------------------------------------------------------------------
(* The surroundings *)

\* confirm_funding (module ConfirmFunding).
Reserve(i) ==
    /\ mark_budget_reserved_if_submitted(i, intents[i].fsig, slot)
    /\ UNCHANGED <<rules, now, slot, deposits, rollbacks>>

\* The operator revokes a rule.
Revoke(i) ==
    /\ ~rules[i].revoked
    /\ rule_mark_revoked(i)
    /\ UNCHANGED <<intents, now, slot, deposits, rollbacks>>

ClocksAdvance ==
    /\ \/ Tick /\ UNCHANGED slot
       \/ NextSlot /\ UNCHANGED <<intents, now>>
    /\ UNCHANGED <<rules, deposits, rollbacks>>

\* The chain, external: a transaction that was sent may land, with or without
\* an error, and as long as it is not final it may be dropped again.
SetDeposit(s, from, to) ==
    /\ deposits[s].status = from
    /\ deposits' = [deposits EXCEPT ![s].status = to]

Land(s) ==
    /\ deposits[s].status = "sent"
    /\ \E ok \in BOOLEAN :
          deposits' = [deposits EXCEPT ![s].status = "confirmed", ![s].ok = ok]
    /\ UNCHANGED rollbacks

Finalize(s) == SetDeposit(s, "confirmed", "finalized") /\ UNCHANGED rollbacks

RollBack(s) ==
    /\ rollbacks < MaxRollbacks
    /\ rollbacks' = rollbacks + 1
    /\ SetDeposit(s, "confirmed", "sent")

ChainStep(s) ==
    /\ Land(s) \/ Finalize(s) \/ RollBack(s)
    /\ UNCHANGED <<intents, rules, now, slot>>

Surroundings ==
    /\ \/ ClocksAdvance
       \/ \E i \in Intents : Reserve(i) \/ Revoke(i)
       \/ \E s \in Deposits : ChainStep(s)
    /\ UNCHANGED <<watchers, faults>>

-----------------------------------------------------------------------------
(* Positions *)

At(w, pc) == watchers[w].pc = pc

Goto(w, pc) == watchers' = [watchers EXCEPT ![w].pc = pc]

\* The attempt on this candidate is over: the next one, or the next cycle.
NextCandidate(w, ready) ==
    watchers' = [watchers EXCEPT ![w] =
        [IdleWatcher EXCEPT !.ready = ready,
                            !.pc = IF ready = {} THEN "idle" ELSE "cycle"]]

SkipCandidate(w) == NextCandidate(w, watchers[w].ready)

\* An attempt whose report cannot be written takes the rest of the cycle with it.
EndAttempt(w) == SkipCandidate(w) \/ NextCandidate(w, {})

-----------------------------------------------------------------------------
(* Up to the lease: reads only *)

list_budget_reserved == {i \in Intents : intents[i].status = "budget_reserved"}

Truncated ==
    \/ Cardinality(list_budget_reserved) > BatchLimit
    \/ Cardinality(list_pending_lifecycle) > BatchLimit

\* Mutant: a revoked rule still counts as pending.
LifecycleEligible_revoked_too(i) ==
    /\ rules[i].status \in {"active", "condition_met", "revoked"}
    /\ ~rules[i].completed

LifecycleEligible(i) ==
    /\ rules[i].status \in {"active", "condition_met"}
    /\ ~rules[i].completed
    /\ ~rules[i].revoked

ClocksEligible(i) == now < intents[i].expires /\ NotYetExpired(i, slot)

\* The checks that need no account data.  The status of the funding row is
\* not one of them.
preflight_candidate(i) ==
    /\ HasRule(i)
    /\ LifecycleEligible(i)
    /\ rules[i].created = intents[i].hash
    /\ ClocksEligible(i)

\* The rows of a report that may read ready.  The repository lists an intent
\* once.
execute_ready_intent_ids == {i \in list_budget_reserved : preflight_candidate(i)}

\* The condition on the chain holds for some of the candidates.  A scan that
\* failed or was truncated offers none.
scan_cycle(w) ==
    /\ At(w, "idle")
    /\ ~Truncated
    /\ \E ready \in SUBSET execute_ready_intent_ids : NextCandidate(w, ready)
    /\ UNCHANGED <<intents, rules, deposits, faults, outside>>

\* revalidate_one, up to the account reads.
Revalidate(w) ==
    /\ At(w, "cycle")
    /\ \E i \in watchers[w].ready :
          IF preflight_candidate(i)
          THEN watchers' = [watchers EXCEPT ![w].pc = "chain",
                                            ![w].ready = @ \ {i},
                                            ![w].intent = i]
          ELSE NextCandidate(w, watchers[w].ready \ {i})
    /\ UNCHANGED <<intents, rules, deposits, faults, outside>>

\* validate_chain, with both clocks sampled again after the account reads.
ValidateChain(w) ==
    /\ At(w, "chain")
    /\ \/ ClocksEligible(watchers[w].intent) /\ Goto(w, "clock")
       \/ SkipCandidate(w)
    /\ UNCHANGED <<intents, rules, deposits, faults, outside>>

\* lease_clock(), immediately before the compare-and-set.
SampleClock(w) ==
    /\ At(w, "clock")
    /\ watchers' = [watchers EXCEPT ![w].pc = "lease", ![w].t = now]
    /\ UNCHANGED <<intents, rules, deposits, faults, outside>>

\* Mutant: the number of affected rows is not looked at.
Lease_unchecked(w) ==
    LET i == watchers[w].intent
        t == watchers[w].t
    IN  /\ At(w, "lease")
        /\ IF CanLeaseExecution(i, t)
           THEN lease_execution_if_budget_reserved(i, t) ELSE UNCHANGED intents
        /\ Goto(w, "sign")
        /\ UNCHANGED <<rules, deposits, faults, outside>>

Lease(w) ==
    LET i == watchers[w].intent
        t == watchers[w].t
    IN  /\ At(w, "lease")
        /\ \/ lease_execution_if_budget_reserved(i, t) /\ Goto(w, "sign")
           \/ ~CanLeaseExecution(i, t) /\ EndAttempt(w) /\ UNCHANGED intents
        /\ UNCHANGED <<rules, deposits, faults, outside>>

-----------------------------------------------------------------------------
(* Under the lease *)

\* review_and_sign.  Every refusal (audit, simulation, policy, signer) comes
\* before the broadcast; a missing audit record also ends the cycle.
Sign(w) ==
    /\ At(w, "sign")
    /\ \/ \E s \in Deposits :
             /\ deposits[s].status = "unused"
             /\ deposits' = [deposits EXCEPT ![s].status = "signed",
                                             ![s].intent = watchers[w].intent]
             /\ watchers' = [watchers EXCEPT ![w].pc = "send", ![w].sig = s]
       \/ \E ready \in {watchers[w].ready, {}} :
             /\ watchers' = [watchers EXCEPT ![w].pc = "release",
                                             ![w].ready = ready]
             /\ UNCHANGED deposits
    /\ UNCHANGED <<intents, rules, faults, outside>>

release_prebroadcast_failure(w) ==
    LET i == watchers[w].intent
    IN  /\ At(w, "release")
        /\ IF IsExecuting(i)
           THEN release_execution_lease_to_budget_reserved(i)
           ELSE UNCHANGED intents
        /\ EndAttempt(w)
        /\ UNCHANGED <<rules, deposits, faults, outside>>

\* Mutant: a lost answer counts as a failure before the broadcast.
Send_released_when_unknown(w) ==
    LET s == watchers[w].sig
    IN  /\ At(w, "send")
        /\ \/ Goto(w, "release") /\ UNCHANGED deposits
           \/ Goto(w, "release") /\ SetDeposit(s, "signed", "sent")
           \/ Goto(w, "poll") /\ SetDeposit(s, "signed", "sent")
        /\ UNCHANGED <<intents, rules, faults, outside>>

\* submit_once_and_observe.  Without a write client nothing is sent.  After
\* the send, a lost answer or a foreign signature leaves the outcome unknown;
\* a failed height read does not matter.
Send(w) ==
    LET s == watchers[w].sig
    IN  /\ At(w, "send")
        /\ \/ Goto(w, "release") /\ UNCHANGED deposits
           \/ EndAttempt(w) /\ UNCHANGED deposits
           \/ EndAttempt(w) /\ SetDeposit(s, "signed", "sent")
           \/ Goto(w, "poll") /\ SetDeposit(s, "signed", "sent")
        /\ UNCHANGED <<intents, rules, faults, outside>>

\* Mutant: a confirmed status decides.
Decided_when_confirmed(s) == deposits[s].status \in {"confirmed", "finalized"}

\* classify_status: only a final status decides.
Decided(s) == deposits[s].status = "finalized"

TimedOut(w) == watchers[w].polls >= MaxPolls

\* Mutant: every answer that is not final renews the time budget.
poll_finalized_without_deadline(w) ==
    LET s == watchers[w].sig
    IN  /\ At(w, "poll")
        /\ \/ /\ Decided(s)
              /\ Goto(w, IF deposits[s].ok THEN "completeRule" ELSE "fail")
           \/ /\ ~Decided(s)
              /\ watchers' = [watchers EXCEPT ![w].polls = 0, ![w].errors = 0]
        /\ UNCHANGED <<intents, rules, deposits, faults, outside>>

\* The node that is asked may be behind the chain, or not answer.
poll_finalized(w) ==
    LET s == watchers[w].sig
    IN  /\ At(w, "poll")
        /\ \/ TimedOut(w) /\ EndAttempt(w)
           \/ /\ ~TimedOut(w)
              /\ Decided(s)
              /\ Goto(w, IF deposits[s].ok THEN "completeRule" ELSE "fail")
           \/ /\ ~TimedOut(w)
              /\ watchers' = [watchers EXCEPT ![w].polls = @ + 1,
                                              ![w].errors = 0]
           \/ /\ ~TimedOut(w)
              /\ IF watchers[w].errors + 1 > Tolerance
                 THEN EndAttempt(w)
                 ELSE watchers' = [watchers EXCEPT ![w].polls = @ + 1,
                                                   ![w].errors = @ + 1]
        /\ UNCHANGED <<intents, rules, deposits, faults, outside>>

\* Mutant: the funding row is written first.
CompleteRule_funding_first(w) ==
    /\ At(w, "completeRule")
    /\ mark_completed_if_executing(watchers[w].intent, watchers[w].sig)
    /\ Goto(w, "completeFunding")
    /\ UNCHANGED <<rules, deposits, faults, outside>>

\* mark_finalized writes the rule first and the funding row second.
CompleteRule(w) ==
    /\ At(w, "completeRule")
    /\ rule_mark_completed(watchers[w].intent)
    /\ Goto(w, "completeFunding")
    /\ UNCHANGED <<intents, deposits, faults, outside>>

CompleteFunding(w) ==
    LET i == watchers[w].intent
    IN  /\ At(w, "completeFunding")
        /\ IF IsExecuting(i)
           THEN mark_completed_if_executing(i, watchers[w].sig)
           ELSE UNCHANGED intents
        /\ EndAttempt(w)
        /\ UNCHANGED <<rules, deposits, faults, outside>>

mark_onchain_failed(w) ==
    LET i == watchers[w].intent
    IN  /\ At(w, "fail")
        /\ IF CanMarkFailed(i) THEN mark_failed(i) ELSE UNCHANGED intents
        /\ EndAttempt(w)
        /\ UNCHANGED <<rules, deposits, faults, outside>>

-----------------------------------------------------------------------------
(* Faults *)

\* What the store call at this position writes, one statement each.
ExecutionStatePort(w) ==
    LET i == watchers[w].intent
    IN  \/ /\ At(w, "lease")
           /\ lease_execution_if_budget_reserved(i, watchers[w].t)
           /\ UNCHANGED rules
        \/ /\ At(w, "release")
           /\ release_execution_lease_to_budget_reserved(i)
           /\ UNCHANGED rules
        \/ At(w, "completeRule") /\ rule_mark_completed(i) /\ UNCHANGED intents
        \/ /\ At(w, "completeFunding")
           /\ mark_completed_if_executing(i, watchers[w].sig)
           /\ UNCHANGED rules
        \/ At(w, "fail") /\ mark_failed(i) /\ UNCHANGED rules

\* The call returns an error.  It may have taken effect all the same.  Each
\* such report ends the attempt.
StoreFails(w) ==
    /\ faults < MaxFaults
    /\ faults' = faults + 1
    /\ \/ /\ watchers[w].pc \in {"lease", "release", "completeRule",
                                 "completeFunding", "fail"}
          /\ UNCHANGED <<intents, rules>>
       \/ ExecutionStatePort(w)
    /\ EndAttempt(w)
    /\ UNCHANGED <<deposits, outside>>

\* The process dies and is started again; nothing repairs its lease.
Crash(w) ==
    /\ ~At(w, "idle")
    /\ faults < MaxFaults
    /\ faults' = faults + 1
    /\ watchers' = [watchers EXCEPT ![w] = IdleWatcher]
    /\ UNCHANGED <<intents, rules, deposits, outside>>

-----------------------------------------------------------------------------
Attempt(w) ==
    \/ Revalidate(w) \/ ValidateChain(w) \/ SampleClock(w) \/ Lease(w)
    \/ Sign(w) \/ release_prebroadcast_failure(w) \/ Send(w)
    \/ poll_finalized(w) \/ CompleteRule(w) \/ CompleteFunding(w)
    \/ mark_onchain_failed(w)

ExecutorNext ==
    \/ Surroundings
    \/ \E w \in Watchers :
          scan_cycle(w) \/ Attempt(w) \/ StoreFails(w) \/ Crash(w)

ExecutorSpec == ExecutorInit /\ [][ExecutorNext]_executorVars

-----------------------------------------------------------------------------
(* Properties *)

ExecutorTypeOK ==
    /\ FundingTypeOK
    /\ rules \in [Intents -> RuleRow]
    /\ slot \in Slots
    /\ deposits \in [Deposits -> Deposit]
    /\ watchers \in [Watchers -> Watcher]
    /\ faults \in Nat
    /\ rollbacks \in Nat

SentFor(i) == {s \in Deposits : /\ deposits[s].intent = i
                                /\ deposits[s].status \in Broadcast}

\* One-shot broadcast: over all watchers, retries, failed store calls and
\* restarts, at most one deposit of an intent ever reaches the network.  A
\* second one would spend the budget of somebody else.
AtMostOneBroadcast ==
    \A i \in Intents : \A s1, s2 \in SentFor(i) : s1 = s2

\* An intent whose row is, or is again, open for execution has had nothing
\* broadcast: no path releases a lease that may have spent the budget, an
\* ambiguous send or an exhausted poll included.
ReservedIsUnspent ==
    \A i \in Intents : intents[i].status = "budget_reserved" => SentFor(i) = {}

\* A lease has one holder, from the compare-and-set to the last write, and
\* the row says so all that time: none of the holder's guarded UPDATEs can
\* find the row in another status.
LeaseIsExclusive ==
    \A w \in Watchers : watchers[w].pc \in Holding =>
        /\ IsExecuting(watchers[w].intent)
        /\ \A v \in Watchers :
              /\ watchers[v].pc \in Holding
              /\ watchers[v].intent = watchers[w].intent
              => v = w

\* The recorded outcome is the outcome on the chain, whatever forks were seen
\* on the way: completed names the deposit of this intent that became final
\* without an error, failed has one that became final with an error.
OutcomeIsTrue ==
    \A i \in Intents :
        /\ intents[i].status = "completed" =>
              /\ intents[i].esig \in SentFor(i)
              /\ deposits[intents[i].esig].status = "finalized"
              /\ deposits[intents[i].esig].ok
        /\ intents[i].status = "failed" =>
              \E s \in SentFor(i) : deposits[s].status = "finalized" /\ ~deposits[s].ok

\* The two completion writes can be torn apart in one way only: the rule is
\* completed and the intent still executing, never the other way round, and
\* never so that the intent can be leased again.
SplitStateIsOneSided ==
    \A i \in Intents :
        /\ intents[i].status = "completed" => rules[i].completed
        /\ rules[i].completed => intents[i].status \in {"executing", "completed"}

InFlight(i) == \E w \in Watchers :
    /\ watchers[w].intent = i
    /\ watchers[w].pc \in {"chain", "clock", "lease"} \cup Holding

\* A revocation is honoured unless an attempt has already passed its final
\* revalidation: once the rule is revoked and no watcher is that far, nothing
\* is ever broadcast for the intent.
RevocationIsHonoured ==
    \A i \in Intents :
        [](rules[i].revoked /\ ~InFlight(i) /\ SentFor(i) = {}
              => [](SentFor(i) = {}))

\* Every attempt ends, whatever the chain does: polling gives up.
AttemptEnds ==
    \A w \in Watchers : ~At(w, "idle") ~> At(w, "idle")

=============================================================================
