------------------------- MODULE WatchRuleLifecycle -------------------------
(***************************************************************************)
(* How the rule table is meant to be driven: a watcher that ticks rules    *)
(* with the TOCTOU-safe statements (the "Watcher contract (W2)"), several  *)
(* executors that lease a rule before acting on it (the "Executor contract *)
(* (W4)"), the rail's executor, which leases the funding row instead and   *)
(* completes the rule unleased, and a user who may revoke a rule at any    *)
(* moment.  An executor may crash while it holds a lease.                  *)
(***************************************************************************)
EXTENDS WatchRules

CONSTANT Executors

VARIABLES
    holding,    \* executor -> the rule it has leased, or NULL
    leases      \* rule id -> leases ever granted

vars == <<rules, slot, holding, leases>>

Init ==
    /\ rules = [i \in Intents |-> NoRule]
    /\ slot \in Slots
    /\ \A s \in Slots : slot <= s
    /\ holding = [e \in Executors |-> NULL]
    /\ leases = [i \in Intents |-> 0]

Unleased == UNCHANGED <<slot, holding, leases>>

Create(i) == rule_insert(i, slot) /\ Unleased

\* The watcher's scan may be long past: every rule was pending once, so what
\* it holds of the rule by now is stale in any way.
ConditionMet(i) == rule_mark_condition_met_if_active(i) /\ Unleased

Expire(i) ==
    /\ HasRule(i)
    /\ ~NotYetExpired(i, slot)
    /\ rule_mark_expired_if_not_terminal(i)
    /\ Unleased

TickFails(i) == rule_mark_failed_if_not_terminal(i) /\ Unleased

\* An executor that gets 0 rows backs off, so only a granted lease shows.
Lease(e, i) ==
    /\ holding[e] = NULL
    /\ rule_mark_executing_if_condition_met(i)
    /\ holding' = [holding EXCEPT ![e] = i]
    /\ leases' = [leases EXCEPT ![i] = @ + 1]
    /\ UNCHANGED slot

Finish(e) ==
    /\ holding[e] # NULL
    /\ \/ rule_mark_completed(holding[e])
       \/ rule_mark_failed(holding[e])
    /\ holding' = [holding EXCEPT ![e] = NULL]
    /\ UNCHANGED <<slot, leases>>

CrashExecutor(e) ==
    /\ holding[e] # NULL
    /\ holding' = [holding EXCEPT ![e] = NULL]
    /\ UNCHANGED <<rules, slot, leases>>

\* "The funding row is the sole execution lease: the WatchRule remains active /
\* condition_met until a finalized transaction is recorded."  By then anything
\* may have happened to the rule, and the UPDATE asks for nothing.
RailCompletes(i) == rule_mark_completed(i) /\ Unleased

Revoke(i) == rule_mark_revoked(i) /\ Unleased

SlotPasses == NextSlot /\ UNCHANGED <<rules, holding, leases>>

Next ==
    \/ SlotPasses
    \/ \E i \in Intents :
          \/ Create(i)
          \/ ConditionMet(i)
          \/ Expire(i)
          \/ TickFails(i)
          \/ RailCompletes(i)
          \/ Revoke(i)
          \/ \E e \in Executors : Lease(e, i)
    \/ \E e \in Executors : Finish(e) \/ CrashExecutor(e)

Spec == Init /\ [][Next]_vars

-----------------------------------------------------------------------------
\* "The cross-process leasing primitive that prevents two daemons (or a daemon
\* + a crashed restart) from each issuing a Solend withdraw against the same
\* rule": whatever crashes, revocations and completions happen, a rule is leased
\* once ever; and since the lease looks at the status alone, no rule it would
\* still take was leased, completed or revoked before.
LeasedAtMostOnce ==
    \A i \in Intents :
       /\ leases[i] <= 1
       /\ rules[i].status = "condition_met"
             => leases[i] = 0 /\ ~rules[i].completed /\ ~rules[i].revoked

Retired(i) == HasRule(i) /\ i \notin list_pending_lifecycle

\* Under the contracts a rule that has left the watcher's scan, for whatever
\* reason, never comes back to it.
RetirementIsPermanent ==
    [][\A i \in Intents : Retired(i) => Retired(i)']_vars

=============================================================================
