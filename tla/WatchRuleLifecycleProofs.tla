----------------------- MODULE WatchRuleLifecycleProofs -----------------------
(***************************************************************************)
(* Proofs about the rule table under the watcher's and the executors'      *)
(* contracts, next to the rail's own completions: for every set of rules,  *)
(* of executors and of slots, a rule is leased once ever and a retired     *)
(* rule stays retired.                                                     *)
(***************************************************************************)
EXTENDS WatchRuleLifecycle, TLAPS

LifecycleTypeOK ==
    /\ rules \in [Intents -> RuleRow]
    /\ slot \in Slots
    /\ holding \in [Executors -> Intents \cup {NULL}]
    /\ leases \in [Intents -> Nat]

\* A rule that can still be leased never was; a rule is leased at most once.
LeaseIsSpent ==
    \A i \in Intents :
       /\ leases[i] \in {0, 1}
       /\ rules[i].status \in {"absent", "active", "condition_met"}
             => leases[i] = 0

\* An executor that still holds a rule took the one lease of it.
HolderLeased ==
    \A e \in Executors :
       holding[e] # NULL => leases[holding[e]] = 1

\* The two columns completed and revoked are set with a terminal status, and
\* nothing takes a row back from one.
FlagsAreTerminal ==
    \A i \in Intents :
       rules[i].completed \/ rules[i].revoked
          => rules[i].status \in TerminalRule

Inv == LifecycleTypeOK /\ LeaseIsSpent /\ HolderLeased /\ FlagsAreTerminal

-----------------------------------------------------------------------------
LEMMA InitInv == Init => Inv
BY SlotsAssumption, NullAssumption
   DEF Init, Inv, LifecycleTypeOK, LeaseIsSpent, HolderLeased,
       FlagsAreTerminal, NoRule, RuleRow, RuleStatus, TerminalRule

\* One UPDATE of the status of an existing row by the watcher or by a failing
\* executor: the row keeps its flags, and it does not become leasable again.
LEMMA StatusUpdateInv ==
    ASSUME Inv, NEW i \in Intents, NEW s \in RuleStatus,
           SetRuleStatus(i, s), Unleased,
           s \in {"active", "condition_met"} => leases[i] = 0,
           rules[i].completed \/ rules[i].revoked => s \in TerminalRule
    PROVE  Inv'
<1> USE DEF Inv, SetRuleStatus, HasRule, Unleased
<1>1. LifecycleTypeOK'
  BY DEF LifecycleTypeOK, RuleRow
<1>2. LeaseIsSpent'
  BY DEF LifecycleTypeOK, LeaseIsSpent, RuleRow, RuleStatus
<1>3. HolderLeased'
  BY DEF HolderLeased
<1>4. FlagsAreTerminal'
  BY DEF LifecycleTypeOK, FlagsAreTerminal, RuleRow
<1> QED BY <1>1, <1>2, <1>3, <1>4

LEMMA CreateInv ==
    ASSUME Inv, NEW i \in Intents, Create(i)
    PROVE  Inv'
<1> USE DEF Inv, Create, rule_insert, HasRule, Unleased, LifecycleTypeOK
<1>1. LifecycleTypeOK'
  BY DEF RuleRow, RuleStatus
<1>2. LeaseIsSpent'
  BY DEF LeaseIsSpent
<1>3. HolderLeased'
  BY DEF HolderLeased
<1>4. FlagsAreTerminal'
  BY DEF FlagsAreTerminal
<1> QED BY <1>1, <1>2, <1>3, <1>4

LEMMA ConditionMetInv ==
    ASSUME Inv, NEW i \in Intents, ConditionMet(i)
    PROVE  Inv'
<1>1. SetRuleStatus(i, "condition_met") /\ Unleased /\ rules[i].status = "active"
  BY DEF ConditionMet, rule_mark_condition_met_if_active
<1>2. leases[i] = 0
  BY <1>1 DEF Inv, LeaseIsSpent
<1>3. ~(rules[i].completed \/ rules[i].revoked)
  BY <1>1 DEF Inv, FlagsAreTerminal, TerminalRule
<1> QED BY <1>1, <1>2, <1>3, StatusUpdateInv DEF RuleStatus

LEMMA ExpireInv ==
    ASSUME Inv, NEW i \in Intents, Expire(i)
    PROVE  Inv'
<1>1. SetRuleStatus(i, "expired") /\ Unleased
  BY DEF Expire, rule_mark_expired_if_not_terminal
<1> QED BY <1>1, StatusUpdateInv DEF RuleStatus, TerminalRule

LEMMA TickFailsInv ==
    ASSUME Inv, NEW i \in Intents, TickFails(i)
    PROVE  Inv'
<1>1. SetRuleStatus(i, "failed") /\ Unleased
  BY DEF TickFails, rule_mark_failed_if_not_terminal
<1> QED BY <1>1, StatusUpdateInv DEF RuleStatus, TerminalRule

\* The WHERE clause of the lease tests for condition_met, so the one row it
\* takes has not been leased before.
LEMMA LeaseInv ==
    ASSUME Inv, NEW i \in Intents, NEW e \in Executors, Lease(e, i)
    PROVE  Inv'
<1> USE DEF Inv, Lease, rule_mark_executing_if_condition_met, SetRuleStatus,
            HasRule, LifecycleTypeOK
<1>1. leases[i] = 0 /\ ~rules[i].completed
  BY DEF LeaseIsSpent, FlagsAreTerminal, TerminalRule
<1>2. LifecycleTypeOK'
  BY DEF RuleRow, RuleStatus
<1>3. LeaseIsSpent'
  BY <1>1 DEF LeaseIsSpent, RuleRow
<1>4. HolderLeased'
  BY <1>1, NullAssumption DEF HolderLeased
<1>5. FlagsAreTerminal'
  BY DEF FlagsAreTerminal, TerminalRule, RuleRow
<1> QED BY <1>2, <1>3, <1>4, <1>5

LEMMA FinishInv ==
    ASSUME Inv, NEW e \in Executors, Finish(e)
    PROVE  Inv'
<1> DEFINE i == holding[e]
<1>1. i \in Intents /\ leases[i] = 1
  BY DEF Inv, LifecycleTypeOK, HolderLeased, Finish
<1> HIDE DEF i
<1> USE <1>1 DEF Inv
<1>2. holding' = [holding EXCEPT ![e] = NULL] /\ leases' = leases /\ slot' = slot
  BY DEF Finish
<1>3. HolderLeased'
  BY <1>2 DEF HolderLeased, LifecycleTypeOK
<1>4. CASE rule_mark_completed(i)
  <2> USE <1>2, <1>4 DEF rule_mark_completed, LifecycleTypeOK
  <2>1. LifecycleTypeOK'
    BY DEF RuleRow, RuleStatus
  <2>2. LeaseIsSpent'
    BY DEF LeaseIsSpent, RuleRow
  <2>3. FlagsAreTerminal'
    BY DEF FlagsAreTerminal, TerminalRule, RuleRow
  <2> QED BY <2>1, <2>2, <2>3, <1>3
<1>5. CASE rule_mark_failed(i)
  <2> USE <1>2, <1>5 DEF rule_mark_failed, SetRuleStatus, LifecycleTypeOK
  <2>1. LifecycleTypeOK'
    BY DEF RuleRow, RuleStatus
  <2>2. LeaseIsSpent'
    BY DEF LeaseIsSpent, RuleRow
  <2>3. FlagsAreTerminal'
    BY DEF FlagsAreTerminal, TerminalRule, RuleRow
  <2> QED BY <2>1, <2>2, <2>3, <1>3
<1> QED BY <1>4, <1>5 DEF Finish, i

LEMMA CrashExecutorInv ==
    ASSUME Inv, NEW e \in Executors, CrashExecutor(e)
    PROVE  Inv'
BY DEF Inv, CrashExecutor, LifecycleTypeOK, LeaseIsSpent, HolderLeased,
       FlagsAreTerminal

\* The executor of the rail completes a rule that nobody leased.
LEMMA RailCompletesInv ==
    ASSUME Inv, NEW i \in Intents, RailCompletes(i)
    PROVE  Inv'
<1> USE DEF Inv, RailCompletes, rule_mark_completed, HasRule, Unleased,
            LifecycleTypeOK
<1>1. LifecycleTypeOK'
  BY DEF RuleRow, RuleStatus
<1>2. LeaseIsSpent'
  BY DEF LeaseIsSpent, RuleRow
<1>3. HolderLeased'
  BY DEF HolderLeased
<1>4. FlagsAreTerminal'
  BY DEF FlagsAreTerminal, TerminalRule, RuleRow
<1> QED BY <1>1, <1>2, <1>3, <1>4

LEMMA RevokeInv ==
    ASSUME Inv, NEW i \in Intents, Revoke(i)
    PROVE  Inv'
<1> USE DEF Inv, Revoke, rule_mark_revoked, HasRule, Unleased, LifecycleTypeOK
<1>1. LifecycleTypeOK'
  BY DEF RuleRow, RuleStatus
<1>2. LeaseIsSpent'
  BY DEF LeaseIsSpent, RuleRow
<1>3. HolderLeased'
  BY DEF HolderLeased
<1>4. FlagsAreTerminal'
  BY DEF FlagsAreTerminal, TerminalRule, RuleRow
<1> QED BY <1>1, <1>2, <1>3, <1>4

LEMMA SlotPassesInv == Inv /\ SlotPasses => Inv'
BY DEF Inv, SlotPasses, NextSlot, LifecycleTypeOK, LeaseIsSpent, HolderLeased,
       FlagsAreTerminal

LEMMA NextInv == Inv /\ [Next]_vars => Inv'
<1> SUFFICES ASSUME Inv, [Next]_vars PROVE Inv'
  OBVIOUS
<1>1. CASE UNCHANGED vars
  BY <1>1 DEF vars, Inv, LifecycleTypeOK, LeaseIsSpent, HolderLeased,
              FlagsAreTerminal
<1>2. CASE Next
  BY <1>2, SlotPassesInv, CreateInv, ConditionMetInv, ExpireInv, TickFailsInv,
     RailCompletesInv, RevokeInv, LeaseInv, FinishInv, CrashExecutorInv DEF Next
<1> QED BY <1>1, <1>2

\* The inductive invariant holds in every reachable state.
THEOREM LifecycleInv == Spec => []Inv
BY InitInv, NextInv, PTL DEF Spec

\* A rule is leased at most once, however executors crash, users revoke and the
\* rail completes rules it never leased, and no rule the lease would still take
\* was leased, completed or revoked before: mark_executing_if_condition_met is
\* the cross-process lease its comment says it is.
THEOREM LeasedAtMostOnceAlways == Spec => []LeasedAtMostOnce
<1>1. Inv => LeasedAtMostOnce
  BY DEF Inv, LeaseIsSpent, FlagsAreTerminal, TerminalRule, LeasedAtMostOnce,
         LifecycleTypeOK
<1> QED BY <1>1, LifecycleInv, PTL

-----------------------------------------------------------------------------
\* What retires a rule, in terms of its row: a terminal status (the flags come
\* with one).
LEMMA RetiredIsTerminal ==
    ASSUME Inv, NEW i \in Intents
    PROVE  Retired(i) <=> rules[i].status \in TerminalRule
BY DEF Inv, LifecycleTypeOK, FlagsAreTerminal, Retired, HasRule,
       list_pending_lifecycle, TerminalRule, RuleRow, RuleStatus

\* No statement of the two contracts takes a row out of a terminal status.
LEMMA TerminalStays ==
    ASSUME Inv, Next, NEW i \in Intents, rules[i].status \in TerminalRule
    PROVE  rules'[i].status \in TerminalRule
<1> USE DEF TerminalRule, Inv, LifecycleTypeOK, RuleRow
<1>1. CASE SlotPasses
  BY <1>1 DEF SlotPasses
<1>2. ASSUME NEW j \in Intents,
             \/ Create(j) \/ ConditionMet(j) \/ Expire(j) \/ TickFails(j)
             \/ RailCompletes(j) \/ Revoke(j)
      PROVE  rules'[i].status \in TerminalRule
  BY <1>2 DEF Create, ConditionMet, Expire, TickFails, RailCompletes, Revoke,
       rule_insert, rule_mark_completed, rule_mark_condition_met_if_active, rule_mark_expired_if_not_terminal,
       rule_mark_failed_if_not_terminal, rule_mark_revoked, SetRuleStatus, HasRule
<1>3. ASSUME NEW j \in Intents, NEW e \in Executors, Lease(e, j)
      PROVE  rules'[i].status \in TerminalRule
  BY <1>3 DEF Lease, rule_mark_executing_if_condition_met, SetRuleStatus
<1>4. ASSUME NEW e \in Executors, Finish(e)
      PROVE  rules'[i].status \in TerminalRule
  BY <1>4 DEF Finish, rule_mark_completed, rule_mark_failed, SetRuleStatus
<1>5. ASSUME NEW e \in Executors, CrashExecutor(e)
      PROVE  rules'[i].status \in TerminalRule
  BY <1>5 DEF CrashExecutor
<1> QED BY <1>1, <1>2, <1>3, <1>4, <1>5 DEF Next

\* Once a rule has left the watcher's scan (list_pending_lifecycle), by
\* whatever statement, no later statement of a watcher, an executor or the
\* user brings it back.
THEOREM RetirementIsPermanentAlways == Spec => RetirementIsPermanent
<1>1. Inv /\ [Next]_vars
        => [\A i \in Intents : Retired(i) => Retired(i)']_vars
  <2> SUFFICES ASSUME Inv, Next, NEW i \in Intents, Retired(i)
               PROVE  Retired(i)'
    OBVIOUS
  <2>1. rules[i].status \in TerminalRule
    BY RetiredIsTerminal
  <2>2. rules'[i].status \in TerminalRule
    BY <2>1, TerminalStays
  <2>3. Inv'
    BY NextInv
  <2> QED BY <2>2, <2>3
          DEF Inv, LifecycleTypeOK, FlagsAreTerminal, Retired, HasRule,
              list_pending_lifecycle, TerminalRule
<1> QED BY <1>1, LifecycleInv, PTL DEF Spec, RetirementIsPermanent

===============================================================================
