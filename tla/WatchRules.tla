----------------------------- MODULE WatchRules -----------------------------
(***************************************************************************)
(* Stage2WatchRuleRepository (crates/state-store/src/stage2_watch_rules.rs):*)
(* one row per rule id, which is also the intent id.                        *)
(*                                                                          *)
(* The repository offers each transition twice: a plain UPDATE by primary   *)
(* key, and a "TOCTOU-safe" one whose WHERE clause tests the status.  The   *)
(* operators keep the methods' names behind the prefix rule_, since the     *)
(* funding repository uses some of the same names.  Columns that only serve *)
(* health reports (last_checked_slot, last_error, ticks) are left out.      *)
(***************************************************************************)
EXTENDS Identifiers

CONSTANT RuleSlots     \* WATCH_RULE_EXPIRY_SLOTS

ASSUME RuleSlotsAssumption == RuleSlots \in Nat

VARIABLES
    rules,          \* the table: rule id -> row
    slot            \* the current slot of the chain

ruleVars == <<rules, slot>>

-----------------------------------------------------------------------------
RuleStatus == {"active", "condition_met", "executing", "completed",
               "expired", "revoked", "failed"}

TerminalRule == {"completed", "expired", "revoked", "failed"}

\* created is created_at_slot.  For one id the rest of the canonical rule is
\* fixed, except that a predecessor may have stored another shape under it.
RuleRow == [status    : RuleStatus \cup {"absent"},
            created   : Slots \cup {NULL},
            canonical : BOOLEAN,
            completed : BOOLEAN,
            revoked   : BOOLEAN]

NoRule == [status |-> "absent", created |-> NULL, canonical |-> TRUE,
           completed |-> FALSE, revoked |-> FALSE]

HasRule(i) == rules[i].status # "absent"

\* expires_at_slot > current_slot, the test of list_active and of preflight.
NotYetExpired(i, current) == rules[i].created + RuleSlots > current

list_pending_lifecycle ==
    {i \in Intents : /\ HasRule(i)
                     /\ ~rules[i].completed
                     /\ ~rules[i].revoked
                     /\ rules[i].status \notin TerminalRule}

-----------------------------------------------------------------------------
(* Statements.  Each is one UPDATE that affects one row. *)

rule_insert(i, created) ==
    /\ ~HasRule(i)
    /\ rules' = [rules EXCEPT ![i] =
          [status |-> "active", created |-> created, canonical |-> TRUE,
           completed |-> FALSE, revoked |-> FALSE]]

SetRuleStatus(i, status) ==
    /\ HasRule(i)
    /\ rules' = [rules EXCEPT ![i].status = status]

rule_mark_condition_met(i) == SetRuleStatus(i, "condition_met")

rule_mark_executing(i) == SetRuleStatus(i, "executing")

rule_mark_failed(i) == SetRuleStatus(i, "failed")

rule_mark_expired(i) == SetRuleStatus(i, "expired")

rule_mark_condition_met_if_active(i) ==
    /\ rules[i].status = "active"
    /\ SetRuleStatus(i, "condition_met")

rule_mark_executing_if_condition_met(i) ==
    /\ rules[i].status = "condition_met"
    /\ SetRuleStatus(i, "executing")

rule_mark_failed_if_not_terminal(i) ==
    /\ rules[i].status \in {"active", "condition_met"}
    /\ SetRuleStatus(i, "failed")

rule_mark_expired_if_not_terminal(i) ==
    /\ rules[i].status \in {"active", "condition_met"}
    /\ SetRuleStatus(i, "expired")

rule_mark_completed(i) ==
    /\ HasRule(i)
    /\ rules' = [rules EXCEPT ![i].status = "completed",
                              ![i].completed = TRUE]

rule_mark_revoked(i) ==
    /\ HasRule(i)
    /\ rules' = [rules EXCEPT ![i].status = "revoked",
                              ![i].revoked = TRUE]

\* The chain moves on.
NextSlot ==
    /\ slot + 1 \in Slots
    /\ slot' = slot + 1

=============================================================================
