------------------------ MODULE WatchExecutorProofs ------------------------
(***************************************************************************)
(* One-shot broadcast and truthful outcomes, for any number of watchers,   *)
(* intents and attempts, with any faults.                                  *)
(*                                                                         *)
(* The properties follow from what a watcher knows while it holds a lease  *)
(* (HolderInv) and what a row says when nobody holds it (IntentInv).       *)
(* Neither half is inductive alone: a release keeps IntentInv only because *)
(* its holder has sent nothing, and a lease establishes that only because  *)
(* a reserved row has nothing sent.                                        *)
(*                                                                         *)
(* Then what a status query may say, and what a revocation stops.  A query *)
(* holds on to a row while the tables move; what it knows then (QueryOK)   *)
(* is stable because they move in one direction only (TablesMove): a       *)
(* terminal row stays as it is, and a rule keeps its flags.                *)
(*                                                                         *)
(* Last, the executor as a caller of the funding table.                    *)
(***************************************************************************)
EXTENDS IntentStatus, FundingIntentsProofs, TLAPS

Sent(s, i) == deposits[s].intent = i /\ deposits[s].status \in Broadcast

NoneSent(i) == \A s \in Deposits : ~Sent(s, i)

Attempting == {"chain", "clock", "lease"} \cup Holding

Unsent == {"sign", "release", "send"}

Observing == {"poll", "completeRule", "completeFunding", "fail"}

\* The candidate and the signature are set where the code uses them.
PositionInv(w) ==
    /\ watchers[w].pc \in Attempting => watchers[w].intent \in Intents
    /\ watchers[w].pc \in Observing \cup {"send"} => watchers[w].sig \in Deposits

\* What a watcher knows while it holds the lease of i with signature s.
HolderKnows(pc, i, s) ==
    /\ IsExecuting(i)
    /\ pc \in Unsent => NoneSent(i)
    /\ pc = "send" => deposits[s].status = "signed" /\ deposits[s].intent = i
    /\ pc \in Observing => Sent(s, i)
    /\ pc \in {"completeRule", "completeFunding"} =>
          deposits[s].status = "finalized" /\ deposits[s].ok
    /\ pc = "fail" => deposits[s].status = "finalized" /\ ~deposits[s].ok
    /\ rules[i].completed <=> pc = "completeFunding"

HolderInv(w) ==
    watchers[w].pc \in Holding =>
        HolderKnows(watchers[w].pc, watchers[w].intent, watchers[w].sig)

OneHolder(v, w) ==
    /\ watchers[v].pc \in Holding
    /\ watchers[w].pc \in Holding
    /\ watchers[v].intent = watchers[w].intent
    => v = w

\* What a row says, whoever holds it.
IntentInv(i) ==
    /\ intents[i].status \notin {"executing", "completed", "failed"} => NoneSent(i)
    /\ \A s1, s2 \in Deposits : Sent(s1, i) /\ Sent(s2, i) => s1 = s2
    /\ intents[i].status = "completed" =>
          /\ intents[i].esig \in Deposits
          /\ Sent(intents[i].esig, i)
          /\ deposits[intents[i].esig].status = "finalized"
          /\ deposits[intents[i].esig].ok
          /\ rules[i].completed
    /\ intents[i].status = "failed" =>
          \E s \in Deposits : /\ Sent(s, i)
                              /\ deposits[s].status = "finalized"
                              /\ ~deposits[s].ok
    /\ rules[i].completed => intents[i].status \in {"executing", "completed"}

Typed ==
    /\ ExecutorTypeOK
    /\ \A w \in Watchers : PositionInv(w)

LeaseInv ==
    /\ \A w \in Watchers : HolderInv(w)
    /\ \A v, w \in Watchers : OneHolder(v, w)
    /\ \A i \in Intents : IntentInv(i)

ExecutorInv == Typed /\ LeaseInv

-----------------------------------------------------------------------------
(* Types *)

\* The types of the deposits, the watchers and the counters hold initially.
LEMMA ExecutorInitTyped == ExecutorInit => Typed
<1> SUFFICES ASSUME ExecutorInit
             PROVE  Typed
  OBVIOUS
<1>1. FundingTypeOK
  <2>1. PICK payment \in [Intents -> Sigs \ Deposits] :
           intents = [i \in Intents |-> SubmittedIntent(payment[i])]
    BY DEF ExecutorInit
  <2>2. (CHOOSE x \in Wallets : TRUE) \in Wallets
    BY ExecutorStartAssumption
  <2>3. ASSUME NEW i \in Intents
        PROVE  SubmittedIntent(payment[i]) \in Row
    BY <2>2, ExecutorStartAssumption, LifetimeAssumption
    DEF SubmittedIntent, NoRow, Row, Status
  <2> QED
    BY <2>1, <2>3 DEF FundingTypeOK, ExecutorInit
<1>2. rules \in [Intents -> RuleRow]
  BY ExecutorStartAssumption DEF ExecutorInit, NoRule, RuleRow, RuleStatus
<1>3. deposits \in [Deposits -> Deposit]
  BY DEF ExecutorInit, NoDeposit, Deposit
<1>4. watchers \in [Watchers -> Watcher]
  BY DEF ExecutorInit, IdleWatcher, Watcher
<1> QED
  BY <1>1, <1>2, <1>3, <1>4, ExecutorStartAssumption
  DEF Typed, ExecutorTypeOK, ExecutorInit, IdleWatcher, PositionInv, Attempting,
      Holding, Observing

\* A move of one watcher to a well-formed position keeps positions typed.
LEMMA MoveTyped ==
    ASSUME Typed, NEW w \in Watchers, NEW r \in Watcher,
           watchers' = [watchers EXCEPT ![w] = r],
           r.pc \in Attempting => r.intent \in Intents,
           r.pc \in Observing \cup {"send"} => r.sig \in Deposits
    PROVE  /\ watchers' \in [Watchers -> Watcher]
           /\ \A v \in Watchers : PositionInv(v)'
BY DEF Typed, ExecutorTypeOK, PositionInv

\* Ending an attempt is such a move.
LEMMA NextCandidateMoves ==
    ASSUME NEW w \in Watchers, NEW ready \in SUBSET Intents, NextCandidate(w, ready)
    PROVE  \E r \in Watcher : /\ watchers' = [watchers EXCEPT ![w] = r]
                              /\ r.pc \in {"idle", "cycle"}
<1> DEFINE r == [IdleWatcher EXCEPT !.ready = ready,
                                    !.pc = IF ready = {} THEN "idle" ELSE "cycle"]
<1>1. r \in Watcher /\ r.pc \in {"idle", "cycle"}
  BY DEF IdleWatcher, Watcher
<1>2. watchers' = [watchers EXCEPT ![w] = r]
  BY DEF NextCandidate
<1> QED
  BY <1>1, <1>2

\* A watcher's move: it retreats from the attempt, or goes on with it.
Retreats(w) == \E r \in Watcher : /\ watchers' = [watchers EXCEPT ![w] = r]
                                  /\ r.pc \in {"idle", "cycle"}

Advances(w, pc) == \E r \in Watcher : /\ watchers' = [watchers EXCEPT ![w] = r]
                                      /\ r.pc = pc
                                      /\ r.intent = watchers[w].intent
                                      /\ r.sig = watchers[w].sig

\* The two ways in which the actions move a watcher.
LEMMA EndAttemptRetreats ==
    ASSUME Typed, NEW w \in Watchers, EndAttempt(w)
    PROVE  Retreats(w)
<1>1. watchers[w].ready \in SUBSET Intents /\ {} \in SUBSET Intents
  BY DEF Typed, ExecutorTypeOK, Watcher
<1>2. CASE NextCandidate(w, watchers[w].ready)
  BY <1>1, <1>2, NextCandidateMoves DEF Retreats
<1>3. CASE NextCandidate(w, {})
  BY <1>1, <1>3, NextCandidateMoves DEF Retreats
<1> QED
  BY <1>2, <1>3 DEF EndAttempt, SkipCandidate

\* Goto changes the position alone.
LEMMA GotoAdvances ==
    ASSUME Typed, NEW w \in Watchers, NEW pc \in {"clock"} \cup Holding, Goto(w, pc)
    PROVE  Advances(w, pc)
<1> DEFINE r == [watchers[w] EXCEPT !.pc = pc]
<1>1. r \in Watcher /\ r.pc = pc /\ r.intent = watchers[w].intent
      /\ r.sig = watchers[w].sig
  BY DEF Typed, ExecutorTypeOK, Watcher
<1>2. watchers' = [watchers EXCEPT ![w] = r]
  BY DEF Goto, Typed, ExecutorTypeOK
<1> QED
  BY <1>1, <1>2 DEF Advances

\* The statements the executor uses keep the table typed.
LEMMA StatementTyped ==
    ASSUME FundingTypeOK, NEW i \in Intents, UNCHANGED now,
           \/ \E t \in Nat : lease_execution_if_budget_reserved(i, t)
           \/ release_execution_lease_to_budget_reserved(i)
           \/ \E s \in Deposits : mark_completed_if_executing(i, s)
           \/ mark_failed(i)
    PROVE  FundingTypeOK'
BY DepositsAssumption
DEF FundingTypeOK, Row, Status, lease_execution_if_budget_reserved,
    release_execution_lease_to_budget_reserved, mark_completed_if_executing,
    mark_failed

\* So do the two rule statements, and the reservation.
LEMMA RuleStatementTyped ==
    ASSUME rules \in [Intents -> RuleRow], NEW i \in Intents,
           rule_mark_completed(i) \/ rule_mark_revoked(i)
    PROVE  rules' \in [Intents -> RuleRow]
BY DEF rule_mark_completed, rule_mark_revoked, RuleRow, RuleStatus

\* The surroundings keep the types.
LEMMA SurroundingsTyped ==
    ASSUME Typed, Surroundings
    PROVE  Typed'
<1> USE DEF Typed, ExecutorTypeOK
<1>1. UNCHANGED <<watchers, faults>> /\ \A w \in Watchers : PositionInv(w)'
  BY DEF Surroundings, PositionInv
<1>2. CASE ClocksAdvance
  BY <1>1, <1>2 DEF ClocksAdvance, Tick, NextSlot, FundingTypeOK
<1>3. ASSUME NEW i \in Intents, Reserve(i)
      PROVE  Typed'
  <2>1. FundingTypeOK'
    <3>1. intents' = [intents EXCEPT ![i] =
             [intents[i] EXCEPT !.status = "budget_reserved", !.fslot = slot]]
      BY <1>3 DEF Reserve, mark_budget_reserved_if_submitted, FundingTypeOK
    <3>2. [intents[i] EXCEPT !.status = "budget_reserved", !.fslot = slot] \in Row
      BY DEF FundingTypeOK, Row, Status
    <3> QED
      BY <1>3, <3>1, <3>2 DEF Reserve, FundingTypeOK
  <2> QED
    BY <1>1, <1>3, <2>1 DEF Reserve
<1>4. ASSUME NEW i \in Intents, Revoke(i)
      PROVE  Typed'
  BY <1>1, <1>4, RuleStatementTyped DEF Revoke, FundingTypeOK
<1>5. ASSUME NEW s \in Deposits, ChainStep(s)
      PROVE  Typed'
  <2>1. deposits' \in [Deposits -> Deposit] /\ rollbacks' \in Nat
    BY <1>5 DEF ChainStep, Land, Finalize, RollBack, SetDeposit, Deposit
  <2> QED
    BY <1>1, <1>5, <2>1 DEF ChainStep, FundingTypeOK
<1> QED
  BY <1>2, <1>3, <1>4, <1>5 DEF Surroundings

\* The reading steps, up to the lease, move the watcher and write nothing.
LEMMA ReadingMoves ==
    ASSUME Typed, NEW w \in Watchers,
           scan_cycle(w) \/ Revalidate(w) \/ ValidateChain(w) \/ SampleClock(w)
    PROVE  \E r \in Watcher :
              /\ watchers' = [watchers EXCEPT ![w] = r]
              /\ r.pc \in {"idle", "cycle", "chain", "clock", "lease"}
              /\ r.pc \in Attempting => r.intent \in Intents
<1>1. CASE scan_cycle(w)
  <2>1. PICK ready \in SUBSET Intents : NextCandidate(w, ready)
    BY <1>1 DEF scan_cycle, execute_ready_intent_ids, list_budget_reserved
  <2> QED
    BY <2>1, NextCandidateMoves DEF Attempting, Holding
<1>2. CASE Revalidate(w)
  <2>1. PICK i \in watchers[w].ready :
           IF preflight_candidate(i)
           THEN watchers' = [watchers EXCEPT ![w].pc = "chain",
                                             ![w].ready = @ \ {i},
                                             ![w].intent = i]
           ELSE NextCandidate(w, watchers[w].ready \ {i})
    BY <1>2 DEF Revalidate
  <2>2. i \in Intents /\ watchers[w].ready \ {i} \in SUBSET Intents
    BY DEF Typed, ExecutorTypeOK, Watcher
  <2>3. CASE preflight_candidate(i)
    <3> DEFINE r == [watchers[w] EXCEPT !.pc = "chain", !.ready = @ \ {i},
                                        !.intent = i]
    <3>1. r \in Watcher /\ r.pc = "chain" /\ r.intent = i
      BY <2>2 DEF Typed, ExecutorTypeOK, Watcher
    <3>2. watchers' = [watchers EXCEPT ![w] = r]
      BY <2>1, <2>3 DEF Typed, ExecutorTypeOK
    <3> QED
      BY <2>2, <3>1, <3>2
  <2>4. CASE ~preflight_candidate(i)
    BY <2>1, <2>2, <2>4, NextCandidateMoves DEF Attempting, Holding
  <2> QED
    BY <2>3, <2>4
<1>3. CASE ValidateChain(w)
  <2>1. watchers[w].intent \in Intents
    BY <1>3 DEF ValidateChain, At, Typed, PositionInv, Attempting
  <2>2. Advances(w, "clock") \/ Retreats(w)
    BY <1>3, GotoAdvances, EndAttemptRetreats DEF ValidateChain, EndAttempt
  <2> QED
    BY <2>1, <2>2 DEF Advances, Retreats, Attempting, Holding
<1>4. CASE SampleClock(w)
  <2> DEFINE r == [watchers[w] EXCEPT !.pc = "lease", !.t = now]
  <2>1. r \in Watcher /\ r.pc = "lease" /\ r.intent \in Intents
    BY <1>4 DEF SampleClock, At, Typed, ExecutorTypeOK, FundingTypeOK, Watcher,
                PositionInv, Attempting
  <2>2. watchers' = [watchers EXCEPT ![w] = r]
    BY <1>4 DEF SampleClock, Typed, ExecutorTypeOK
  <2> QED
    BY <2>1, <2>2
<1> QED
  BY <1>1, <1>2, <1>3, <1>4

-----------------------------------------------------------------------------
(* Leases *)

\* Nothing is sent and nobody holds a lease initially.
LEMMA ExecutorInitLease == ExecutorInit => LeaseInv
<1> SUFFICES ASSUME ExecutorInit
             PROVE  LeaseInv
  OBVIOUS
<1>1. \A w \in Watchers : watchers[w].pc = "idle"
  BY DEF ExecutorInit, IdleWatcher
<1>2. \A s \in Deposits : deposits[s].status = "unused"
  BY DEF ExecutorInit, NoDeposit
<1>3. \A i \in Intents : intents[i].status = "funding_submitted"
  <2>1. PICK payment \in [Intents -> Sigs \ Deposits] :
           intents = [i \in Intents |-> SubmittedIntent(payment[i])]
    BY DEF ExecutorInit
  <2> QED
    BY <2>1 DEF SubmittedIntent, NoRow
<1>4. \A i \in Intents : ~rules[i].completed
  BY DEF ExecutorInit, NoRule
<1> QED
  BY <1>1, <1>2, <1>3, <1>4
  DEF LeaseInv, HolderInv, OneHolder, IntentInv, NoneSent, Sent, Holding, Broadcast

\* A move that takes no lease and writes nothing.
LEMMA QuietMove ==
    ASSUME ExecutorInv, NEW w \in Watchers, NEW r \in Watcher,
           watchers' = [watchers EXCEPT ![w] = r], r.pc \notin Holding,
           UNCHANGED <<intents, rules, deposits>>
    PROVE  LeaseInv'
BY DEF ExecutorInv, Typed, ExecutorTypeOK, LeaseInv, HolderInv, HolderKnows,
       OneHolder, IntentInv, NoneSent, Sent, IsExecuting

\* The compare-and-set: a reserved row has no holder and nothing sent.
LEMMA LeaseKeeps ==
    ASSUME ExecutorInv, NEW w \in Watchers, NEW t \in Nat, At(w, "lease"),
           lease_execution_if_budget_reserved(watchers[w].intent, t),
           Retreats(w) \/ Advances(w, "sign"),
           UNCHANGED <<rules, deposits>>
    PROVE  LeaseInv'
<1> DEFINE i == watchers[w].intent
<1>1. i \in Intents
  BY DEF ExecutorInv, Typed, PositionInv, At, Attempting
<1>2. /\ intents[i].status = "budget_reserved"
      /\ intents'[i].status = "executing"
      /\ \A j \in Intents \ {i} : intents'[j] = intents[j]
  BY <1>1 DEF ExecutorInv, Typed, ExecutorTypeOK, FundingTypeOK, Row,
              lease_execution_if_budget_reserved, CanLeaseExecution
<1>3. PICK r \in Watcher :
         /\ watchers' = [watchers EXCEPT ![w] = r]
         /\ r.pc \in Holding => r.pc = "sign" /\ r.intent = i
  BY DEF Retreats, Advances, Holding
<1>4. NoneSent(i) /\ ~rules[i].completed
  BY <1>1, <1>2 DEF ExecutorInv, LeaseInv, IntentInv
<1>5. ASSUME NEW v \in Watchers, v # w, watchers[v].pc \in Holding
      PROVE  watchers[v].intent \in Intents \ {i} /\ watchers'[v] = watchers[v]
  BY <1>2, <1>3, <1>5
  DEF ExecutorInv, LeaseInv, HolderInv, HolderKnows, IsExecuting, Typed,
      ExecutorTypeOK, PositionInv, Attempting
<1>6. ASSUME NEW v \in Watchers
      PROVE  HolderInv(v)'
  <2>1. CASE v = w
    BY <1>1, <1>2, <1>3, <1>4, <2>1
    DEF HolderInv, HolderKnows, IsExecuting, NoneSent, Sent, Observing,
        ExecutorInv, Typed, ExecutorTypeOK
  <2>2. CASE v # w
    BY <1>2, <1>3, <1>5, <2>2
    DEF HolderInv, HolderKnows, IsExecuting, NoneSent, Sent, ExecutorInv, LeaseInv,
        Typed, ExecutorTypeOK
  <2> QED
    BY <2>1, <2>2
<1>7. ASSUME NEW u \in Watchers, NEW v \in Watchers
      PROVE  OneHolder(u, v)'
  BY <1>3, <1>5 DEF OneHolder, ExecutorInv, LeaseInv, Typed, ExecutorTypeOK
<1>8. ASSUME NEW j \in Intents
      PROVE  IntentInv(j)'
  BY <1>2, <1>4 DEF IntentInv, NoneSent, Sent, ExecutorInv, LeaseInv
<1> QED
  BY <1>6, <1>7, <1>8 DEF LeaseInv

\* The holder of a lease at its last write: it retreats, its row changes from
\* executing to what the new status demands, and no other holder notices.
LEMMA LastWriteKeeps ==
    ASSUME ExecutorInv, NEW w \in Watchers, watchers[w].pc \in Holding, Retreats(w),
           NEW i \in Intents, watchers[w].intent = i,
           UNCHANGED <<rules, deposits>>,
           \A j \in Intents \ {i} : intents'[j] = intents[j],
           IntentInv(i)'
    PROVE  LeaseInv'
<1>1. PICK r \in Watcher : /\ watchers' = [watchers EXCEPT ![w] = r]
                           /\ r.pc \notin Holding
  BY DEF Retreats, Holding
<1>2. ASSUME NEW v \in Watchers, v # w, watchers[v].pc \in Holding
      PROVE  watchers[v].intent \in Intents \ {i} /\ watchers'[v] = watchers[v]
  BY <1>1, <1>2 DEF ExecutorInv, LeaseInv, OneHolder, Typed, ExecutorTypeOK,
                    PositionInv, Attempting
<1>3. ASSUME NEW v \in Watchers
      PROVE  HolderInv(v)'
  <2>1. CASE v = w
    BY <1>1, <2>1 DEF HolderInv, ExecutorInv, Typed, ExecutorTypeOK
  <2>2. CASE v # w
    BY <1>1, <1>2, <2>2
    DEF HolderInv, HolderKnows, IsExecuting, NoneSent, Sent, ExecutorInv, LeaseInv,
        Typed, ExecutorTypeOK
  <2> QED
    BY <2>1, <2>2
<1>4. ASSUME NEW u \in Watchers, NEW v \in Watchers
      PROVE  OneHolder(u, v)'
  BY <1>1 DEF OneHolder, ExecutorInv, LeaseInv, Typed, ExecutorTypeOK
<1>5. ASSUME NEW j \in Intents
      PROVE  IntentInv(j)'
  <2>1. CASE j = i
    BY <2>1
  <2>2. CASE j # i
    BY <2>2 DEF IntentInv, NoneSent, Sent, ExecutorInv, LeaseInv
  <2> QED
    BY <2>1, <2>2
<1> QED
  BY <1>3, <1>4, <1>5 DEF LeaseInv

\* A release: its holder has sent nothing.
LEMMA ReleaseKeeps ==
    ASSUME ExecutorInv, NEW w \in Watchers, At(w, "release"), Retreats(w),
           release_execution_lease_to_budget_reserved(watchers[w].intent),
           UNCHANGED <<rules, deposits>>
    PROVE  LeaseInv'
<1>0. PICK i \in Intents : watchers[w].intent = i
  BY DEF ExecutorInv, Typed, PositionInv, At, Attempting, Holding
<1>1. watchers[w].pc \in Holding
  BY DEF At, Holding
<1>2. /\ intents'[i].status = "budget_reserved"
      /\ \A j \in Intents \ {i} : intents'[j] = intents[j]
  BY <1>0, <1>1 DEF ExecutorInv, Typed, ExecutorTypeOK, FundingTypeOK, Row,
              release_execution_lease_to_budget_reserved
<1>3. NoneSent(i) /\ ~rules[i].completed
  BY <1>0, <1>1 DEF ExecutorInv, LeaseInv, HolderInv, HolderKnows, At, Unsent
<1>4. IntentInv(i)'
  BY <1>2, <1>3 DEF IntentInv, NoneSent, Sent
<1> QED
  BY <1>0, <1>1, <1>2, <1>4, LastWriteKeeps

\* The second completion write: the deposit is final and the rule is completed.
LEMMA CompleteFundingKeeps ==
    ASSUME ExecutorInv, NEW w \in Watchers, At(w, "completeFunding"), Retreats(w),
           mark_completed_if_executing(watchers[w].intent, watchers[w].sig),
           UNCHANGED <<rules, deposits>>
    PROVE  LeaseInv'
<1>0. PICK i \in Intents, s \in Deposits :
         watchers[w].intent = i /\ watchers[w].sig = s
  BY DEF ExecutorInv, Typed, PositionInv, At, Attempting, Holding, Observing
<1>1. watchers[w].pc \in Holding
  BY DEF At, Holding
<1>2. /\ intents'[i].status = "completed"
      /\ intents'[i].esig = s
      /\ \A j \in Intents \ {i} : intents'[j] = intents[j]
  BY <1>0, <1>1 DEF ExecutorInv, Typed, ExecutorTypeOK, FundingTypeOK, Row,
              mark_completed_if_executing
<1>3. /\ Sent(s, i) /\ deposits[s].status = "finalized" /\ deposits[s].ok
      /\ rules[i].completed
  BY <1>0, <1>1 DEF ExecutorInv, LeaseInv, HolderInv, HolderKnows, At, Observing
<1>4. IntentInv(i)'
  BY <1>2, <1>3 DEF IntentInv, NoneSent, Sent, ExecutorInv, LeaseInv
<1> QED
  BY <1>0, <1>1, <1>2, <1>4, LastWriteKeeps

\* The failure write: the deposit is final with an error.
LEMMA FailKeeps ==
    ASSUME ExecutorInv, NEW w \in Watchers, At(w, "fail"), Retreats(w),
           mark_failed(watchers[w].intent),
           UNCHANGED <<rules, deposits>>
    PROVE  LeaseInv'
<1>0. PICK i \in Intents, s \in Deposits :
         watchers[w].intent = i /\ watchers[w].sig = s
  BY DEF ExecutorInv, Typed, PositionInv, At, Attempting, Holding, Observing
<1>1. watchers[w].pc \in Holding
  BY DEF At, Holding
<1>2. /\ intents'[i].status = "failed"
      /\ \A j \in Intents \ {i} : intents'[j] = intents[j]
  BY <1>0, <1>1 DEF ExecutorInv, Typed, ExecutorTypeOK, FundingTypeOK, Row, mark_failed
<1>3. /\ Sent(s, i) /\ deposits[s].status = "finalized" /\ ~deposits[s].ok
      /\ ~rules[i].completed
  BY <1>0, <1>1 DEF ExecutorInv, LeaseInv, HolderInv, HolderKnows, At, Observing
<1>4. IntentInv(i)'
  BY <1>2, <1>3 DEF IntentInv, NoneSent, Sent, ExecutorInv, LeaseInv
<1> QED
  BY <1>0, <1>1, <1>2, <1>4, LastWriteKeeps

\* A step of the holder that leaves the funding rows alone.  It is enough to
\* look at the holder, at its intent, and at what others see of the deposits.
LEMMA HolderStepKeeps ==
    ASSUME ExecutorInv, NEW w \in Watchers, watchers[w].pc \in Holding,
           NEW i \in Intents, watchers[w].intent = i,
           NEW r \in Watcher, watchers' = [watchers EXCEPT ![w] = r],
           r.pc \in Holding => r.intent = i,
           UNCHANGED intents,
           \A j \in Intents \ {i} : rules'[j] = rules[j],
           \A s \in Deposits :
              \/ deposits'[s] = deposits[s]
              \/ /\ deposits[s].status = "unused"
                 /\ deposits'[s].status = "signed"
              \/ /\ deposits[s].intent = i
                 /\ deposits'[s].intent = i
                 /\ deposits[s].status = "signed",
           HolderInv(w)', IntentInv(i)'
    PROVE  LeaseInv'
<1>1. ASSUME NEW v \in Watchers, v # w, watchers[v].pc \in Holding
      PROVE  watchers[v].intent \in Intents \ {i} /\ watchers'[v] = watchers[v]
  BY <1>1 DEF ExecutorInv, LeaseInv, OneHolder, Typed, ExecutorTypeOK,
              PositionInv, Attempting
<1>2. ASSUME NEW j \in Intents \ {i}, NEW s \in Deposits
      PROVE  /\ Sent(s, j)' <=> Sent(s, j)
             /\ Sent(s, j) => deposits'[s] = deposits[s]
             /\ deposits[s].status = "signed" /\ deposits[s].intent = j
                   => deposits'[s] = deposits[s]
  BY DEF Sent, Broadcast
<1>3. ASSUME NEW v \in Watchers
      PROVE  HolderInv(v)'
  <2>1. CASE v = w
    BY <2>1
  <2>2. CASE v # w /\ watchers[v].pc \in Holding
    <3>1. PICK j \in Intents \ {i} : watchers[v].intent = j
      BY <1>1, <2>2
    <3>2. watchers'[v] = watchers[v]
      BY <1>1, <2>2
    <3>3. HolderKnows(watchers[v].pc, j, watchers[v].sig)
      BY <2>2, <3>1 DEF ExecutorInv, LeaseInv, HolderInv
    <3>4. watchers[v].pc \in Observing \cup {"send"} => watchers[v].sig \in Deposits
      BY DEF ExecutorInv, Typed, PositionInv
    <3>5. NoneSent(j) => NoneSent(j)'
      BY <1>2 DEF NoneSent
    <3> QED
      BY <1>2, <2>2, <3>1, <3>2, <3>3, <3>4, <3>5
      DEF HolderInv, HolderKnows, IsExecuting, Observing
  <2>3. CASE v # w /\ watchers[v].pc \notin Holding
    BY <2>3 DEF HolderInv, ExecutorInv, Typed, ExecutorTypeOK
  <2> QED
    BY <2>1, <2>2, <2>3
<1>4. ASSUME NEW u \in Watchers, NEW v \in Watchers
      PROVE  OneHolder(u, v)'
  BY <1>1 DEF OneHolder, ExecutorInv, LeaseInv, Typed, ExecutorTypeOK
<1>5. ASSUME NEW j \in Intents
      PROVE  IntentInv(j)'
  <2>1. CASE j = i
    BY <2>1
  <2>2. CASE j # i
    <3>1. IntentInv(j)
      BY DEF ExecutorInv, LeaseInv
    <3>2. NoneSent(j) => NoneSent(j)'
      BY <1>2, <2>2 DEF NoneSent
    <3> QED
      BY <1>2, <2>2, <3>1, <3>2 DEF IntentInv
  <2> QED
    BY <2>1, <2>2
<1> QED
  BY <1>3, <1>4, <1>5 DEF LeaseInv

\* Steps of the holder that write nothing: a refused signature or a send that
\* never started (to "release"), a poll that goes on or is decided.
LEMMA QuietHolderKeeps ==
    ASSUME ExecutorInv, NEW w \in Watchers, watchers[w].pc \in Holding, NEW pc,
           Advances(w, pc),
           \/ pc = "release" /\ watchers[w].pc \in Unsent
           \/ pc = "poll" /\ At(w, "poll")
           \/ pc = "completeRule" /\ At(w, "poll") /\ Decided(watchers[w].sig)
              /\ deposits[watchers[w].sig].ok
           \/ pc = "fail" /\ At(w, "poll") /\ Decided(watchers[w].sig)
              /\ ~deposits[watchers[w].sig].ok,
           UNCHANGED <<intents, rules, deposits>>
    PROVE  LeaseInv'
<1>0. PICK i \in Intents : watchers[w].intent = i
  BY DEF ExecutorInv, Typed, PositionInv, Attempting
<1>1. PICK r \in Watcher : /\ watchers' = [watchers EXCEPT ![w] = r]
                           /\ r.pc = pc
                           /\ r.intent = i
                           /\ r.sig = watchers[w].sig
  BY <1>0 DEF Advances
<1>2. HolderKnows(watchers[w].pc, i, watchers[w].sig)
  BY <1>0 DEF ExecutorInv, LeaseInv, HolderInv
<1>3. watchers'[w] = r
  BY <1>1 DEF ExecutorInv, Typed, ExecutorTypeOK
<1>4. HolderInv(w)'
  BY <1>1, <1>2, <1>3
  DEF HolderInv, HolderKnows, IsExecuting, NoneSent, Sent, Unsent, Observing, At,
      Decided
<1>5. IntentInv(i)'
  BY DEF ExecutorInv, LeaseInv, IntentInv, NoneSent, Sent
<1> QED
  BY <1>0, <1>1, <1>4, <1>5, HolderStepKeeps

\* A fresh signature: the deposit is signed and not sent.
LEMMA SignKeeps ==
    ASSUME ExecutorInv, NEW w \in Watchers, At(w, "sign"), NEW s \in Deposits,
           deposits[s].status = "unused",
           deposits' = [deposits EXCEPT ![s].status = "signed",
                                        ![s].intent = watchers[w].intent],
           watchers' = [watchers EXCEPT ![w].pc = "send", ![w].sig = s],
           UNCHANGED <<intents, rules>>
    PROVE  Typed' => LeaseInv'
<1> SUFFICES ASSUME Typed'
             PROVE  LeaseInv'
  OBVIOUS
<1>0. PICK i \in Intents : watchers[w].intent = i
  BY DEF ExecutorInv, Typed, PositionInv, At, Attempting, Holding
<1>1. watchers[w].pc \in Holding
  BY DEF At, Holding
<1>2. PICK r \in Watcher : /\ watchers' = [watchers EXCEPT ![w] = r]
                           /\ watchers'[w] = r
                           /\ r.pc = "send"
                           /\ r.intent = i
                           /\ r.sig = s
  <2>1. /\ watchers'[w] \in Watcher
        /\ watchers' = [watchers EXCEPT ![w] = watchers'[w]]
        /\ watchers'[w].pc = "send"
        /\ watchers'[w].intent = i
        /\ watchers'[w].sig = s
    BY <1>0 DEF ExecutorInv, Typed, ExecutorTypeOK, Watcher
  <2> QED
    BY <2>1
<1>3. /\ deposits'[s].status = "signed"
      /\ deposits'[s].intent = i
      /\ \A x \in Deposits \ {s} : deposits'[x] = deposits[x]
  BY <1>0 DEF ExecutorInv, Typed, ExecutorTypeOK, Deposit
<1>4. /\ NoneSent(i)
      /\ IsExecuting(i)
      /\ ~rules[i].completed
  BY <1>0, <1>1 DEF ExecutorInv, LeaseInv, HolderInv, HolderKnows, At, Unsent
<1>5. NoneSent(i)'
  BY <1>3, <1>4 DEF NoneSent, Sent, Broadcast
<1>6. HolderInv(w)'
  BY <1>2, <1>3, <1>4, <1>5 DEF HolderInv, HolderKnows, IsExecuting, Observing
<1>7. IntentInv(i)'
  BY <1>4, <1>5 DEF IntentInv, IsExecuting, NoneSent
<1> QED
  BY <1>0, <1>1, <1>2, <1>3, <1>6, <1>7, HolderStepKeeps

\* The broadcast: the first one, since its holder had sent nothing.
LEMMA SendKeeps ==
    ASSUME ExecutorInv, NEW w \in Watchers, At(w, "send"),
           SetDeposit(watchers[w].sig, "signed", "sent"),
           Retreats(w) \/ Advances(w, "poll"),
           UNCHANGED <<intents, rules>>
    PROVE  LeaseInv'
<1>0. PICK i \in Intents, s \in Deposits :
         watchers[w].intent = i /\ watchers[w].sig = s
  BY DEF ExecutorInv, Typed, PositionInv, At, Attempting, Holding
<1>1. watchers[w].pc \in Holding
  BY DEF At, Holding
<1>2. PICK r \in Watcher :
         /\ watchers' = [watchers EXCEPT ![w] = r]
         /\ r.pc \in Holding => r.pc = "poll" /\ r.intent = i /\ r.sig = s
  BY <1>0 DEF Retreats, Advances, Holding
<1>3. /\ NoneSent(i)
      /\ IsExecuting(i)
      /\ ~rules[i].completed
      /\ deposits[s].status = "signed"
      /\ deposits[s].intent = i
  BY <1>0, <1>1 DEF ExecutorInv, LeaseInv, HolderInv, HolderKnows, At, Unsent
<1>4. /\ deposits'[s].status = "sent"
      /\ deposits'[s].intent = i
      /\ \A x \in Deposits \ {s} : deposits'[x] = deposits[x]
  BY <1>0, <1>3 DEF ExecutorInv, Typed, ExecutorTypeOK, Deposit, SetDeposit
<1>5. \A x \in Deposits : Sent(x, i)' <=> x = s
  BY <1>3, <1>4 DEF NoneSent, Sent, Broadcast
<1>6. HolderInv(w)'
  <2>1. watchers'[w] = r
    BY <1>2 DEF ExecutorInv, Typed, ExecutorTypeOK
  <2> QED
    BY <1>2, <1>3, <1>5, <2>1
    DEF HolderInv, HolderKnows, IsExecuting, Unsent
<1>7. IntentInv(i)'
  BY <1>3, <1>5 DEF IntentInv, IsExecuting
<1> QED
  BY <1>0, <1>1, <1>2, <1>3, <1>4, <1>6, <1>7, HolderStepKeeps

\* The first completion write: the intent is executing and stays so.
LEMMA CompleteRuleKeeps ==
    ASSUME ExecutorInv, NEW w \in Watchers, At(w, "completeRule"),
           rule_mark_completed(watchers[w].intent),
           Retreats(w) \/ Advances(w, "completeFunding"),
           UNCHANGED <<intents, deposits>>
    PROVE  LeaseInv'
<1>0. PICK i \in Intents, s \in Deposits :
         watchers[w].intent = i /\ watchers[w].sig = s
  BY DEF ExecutorInv, Typed, PositionInv, At, Attempting, Holding, Observing
<1>1. watchers[w].pc \in Holding
  BY DEF At, Holding
<1>2. PICK r \in Watcher :
         /\ watchers' = [watchers EXCEPT ![w] = r]
         /\ r.pc \in Holding => r.pc = "completeFunding" /\ r.intent = i /\ r.sig = s
  BY <1>0 DEF Retreats, Advances, Holding
<1>3. HolderKnows("completeRule", i, s)
  BY <1>0, <1>1 DEF ExecutorInv, LeaseInv, HolderInv, At
<1>4. /\ rules'[i].completed
      /\ \A j \in Intents \ {i} : rules'[j] = rules[j]
  BY <1>0 DEF ExecutorInv, Typed, ExecutorTypeOK, RuleRow, rule_mark_completed
<1>5. HolderInv(w)'
  <2>1. watchers'[w] = r
    BY <1>2 DEF ExecutorInv, Typed, ExecutorTypeOK
  <2> QED
    BY <1>2, <1>3, <1>4, <2>1
    DEF HolderInv, HolderKnows, IsExecuting, Sent, Observing, Unsent
<1>6. IntentInv(i)'
  BY <1>3, <1>4
  DEF IntentInv, HolderKnows, IsExecuting, NoneSent, Sent, ExecutorInv, LeaseInv
<1> QED
  BY <1>0, <1>1, <1>2, <1>4, <1>5, <1>6, HolderStepKeeps

\* A step of the chain: final deposits stay as they are, and what was sent
\* stays sent.
LEMMA ChainKeeps ==
    ASSUME ExecutorInv, NEW x \in Deposits, ChainStep(x), UNCHANGED watchers
    PROVE  LeaseInv'
<1>1. /\ \A s \in Deposits : deposits'[s].intent = deposits[s].intent
      /\ \A s \in Deposits : deposits'[s].status \in Broadcast
                                <=> deposits[s].status \in Broadcast
      /\ \A s \in Deposits : deposits[s].status \in {"signed", "finalized"}
                                => deposits'[s] = deposits[s]
  BY DEF ExecutorInv, Typed, ExecutorTypeOK, Deposit, ChainStep, Land, Finalize,
         RollBack, SetDeposit, Broadcast
<1>2. \A i, s : s \in Deposits => (Sent(s, i)' <=> Sent(s, i))
  BY <1>1 DEF Sent
<1>3. \A i : NoneSent(i)' <=> NoneSent(i)
  BY <1>2 DEF NoneSent
<1>4. UNCHANGED <<intents, rules>>
  BY DEF ChainStep
<1>5. ASSUME NEW v \in Watchers
      PROVE  HolderInv(v)'
  <2>1. HolderInv(v) /\ PositionInv(v)
    BY DEF ExecutorInv, LeaseInv, Typed
  <2> QED
    BY <1>1, <1>2, <1>3, <1>4, <2>1
    DEF HolderInv, HolderKnows, IsExecuting, PositionInv, Observing
<1>6. ASSUME NEW i \in Intents
      PROVE  IntentInv(i)'
  <2>1. IntentInv(i)
    BY DEF ExecutorInv, LeaseInv
  <2> QED
    BY <1>1, <1>2, <1>3, <1>4, <2>1 DEF IntentInv
<1> QED
  BY <1>5, <1>6 DEF ExecutorInv, LeaseInv, OneHolder

\* The surroundings keep the leases.
LEMMA SurroundingsKeep ==
    ASSUME ExecutorInv, Surroundings
    PROVE  LeaseInv'
<1>0. UNCHANGED watchers
  BY DEF Surroundings
<1> USE DEF ExecutorInv, LeaseInv, HolderInv, HolderKnows, OneHolder, IntentInv,
            NoneSent, Sent, IsExecuting
<1>1. CASE ClocksAdvance
  BY <1>0, <1>1 DEF ClocksAdvance, Tick
<1>2. ASSUME NEW i \in Intents, Reserve(i)
      PROVE  LeaseInv'
  <2>1. /\ intents[i].status = "funding_submitted"
        /\ intents'[i].status = "budget_reserved"
        /\ \A j \in Intents \ {i} : intents'[j] = intents[j]
    BY <1>2 DEF Reserve, mark_budget_reserved_if_submitted, SubmittedWith, Typed,
                ExecutorTypeOK, FundingTypeOK, Row
  <2>2. UNCHANGED <<rules, deposits>>
    BY <1>2 DEF Reserve
  <2>3. ASSUME NEW v \in Watchers
        PROVE  HolderInv(v)'
    <3>1. HolderInv(v) /\ PositionInv(v)
      BY DEF Typed
    <3> QED
      BY <1>0, <2>1, <2>2, <3>1 DEF PositionInv, Attempting
  <2>4. ASSUME NEW j \in Intents
        PROVE  IntentInv(j)'
    BY <2>1, <2>2
  <2> QED
    BY <1>0, <2>3, <2>4
<1>3. ASSUME NEW i \in Intents, Revoke(i)
      PROVE  LeaseInv'
  <2>1. \A j \in Intents : rules'[j].completed = rules[j].completed
    BY <1>3 DEF Revoke, rule_mark_revoked, Typed, ExecutorTypeOK, RuleRow
  <2>2. UNCHANGED <<intents, deposits>>
    BY <1>3 DEF Revoke
  <2>3. ASSUME NEW v \in Watchers
        PROVE  HolderInv(v)'
    <3>1. HolderInv(v) /\ PositionInv(v)
      BY DEF Typed
    <3> QED
      BY <1>0, <2>1, <2>2, <3>1 DEF PositionInv, Attempting
  <2>4. ASSUME NEW j \in Intents
        PROVE  IntentInv(j)'
    BY <2>1, <2>2
  <2> QED
    BY <1>0, <2>3, <2>4
<1>4. ASSUME NEW s \in Deposits, ChainStep(s)
      PROVE  LeaseInv'
  BY <1>0, <1>4, ChainKeeps
<1> QED
  BY <1>1, <1>2, <1>3, <1>4 DEF Surroundings

-----------------------------------------------------------------------------
(* Steps of a watcher *)

\* Positions stay typed when a watcher retreats or goes on.
LEMMA RetreatTyped ==
    ASSUME Typed, NEW w \in Watchers, Retreats(w)
    PROVE  /\ watchers' \in [Watchers -> Watcher]
           /\ \A v \in Watchers : PositionInv(v)'
BY MoveTyped DEF Retreats, Attempting, Holding, Observing

\* It keeps its candidate, and its signature if it has one.
LEMMA AdvanceTyped ==
    ASSUME Typed, NEW w \in Watchers, watchers[w].pc \in Attempting, NEW pc,
           Advances(w, pc),
           pc \in Observing \cup {"send"} => watchers[w].sig \in Deposits
    PROVE  /\ watchers' \in [Watchers -> Watcher]
           /\ \A v \in Watchers : PositionInv(v)'
<1>1. watchers[w].intent \in Intents
  BY DEF Typed, PositionInv
<1>2. PICK r \in Watcher : /\ watchers' = [watchers EXCEPT ![w] = r]
                           /\ r.pc = pc
                           /\ r.intent = watchers[w].intent
                           /\ r.sig = watchers[w].sig
  BY DEF Advances
<1> QED
  BY <1>1, <1>2, MoveTyped

\* The reading steps.
LEMMA ReadingKeeps ==
    ASSUME ExecutorInv, NEW w \in Watchers,
           scan_cycle(w) \/ Revalidate(w) \/ ValidateChain(w) \/ SampleClock(w)
    PROVE  ExecutorInv'
<1>1. UNCHANGED <<intents, rules, deposits, faults, now, slot, rollbacks>>
  BY DEF scan_cycle, Revalidate, ValidateChain, SampleClock, outside
<1>2. PICK r \in Watcher :
         /\ watchers' = [watchers EXCEPT ![w] = r]
         /\ r.pc \in {"idle", "cycle", "chain", "clock", "lease"}
         /\ r.pc \in Attempting => r.intent \in Intents
  BY ReadingMoves DEF ExecutorInv
<1>3. /\ watchers' \in [Watchers -> Watcher]
      /\ \A v \in Watchers : PositionInv(v)'
  BY <1>2, MoveTyped DEF ExecutorInv, Observing
<1>4. LeaseInv'
  BY <1>1, <1>2, QuietMove DEF Holding
<1> QED
  BY <1>1, <1>3, <1>4 DEF ExecutorInv, Typed, ExecutorTypeOK, FundingTypeOK

\* Retreating without a write: a lost compare-and-set, an ambiguous send, an
\* exhausted poll, a failed store call, a crash.
LEMMA RetreatKeeps ==
    ASSUME ExecutorInv, NEW w \in Watchers, Retreats(w), faults' \in Nat,
           UNCHANGED <<intents, rules, deposits, outside>>
    PROVE  ExecutorInv'
<1>1. LeaseInv'
  BY QuietMove DEF Retreats, Holding
<1> QED
  BY <1>1, RetreatTyped DEF ExecutorInv, Typed, ExecutorTypeOK, FundingTypeOK, outside

\* The compare-and-set.
LEMMA LeaseStep ==
    ASSUME ExecutorInv, NEW w \in Watchers, At(w, "lease"), faults' \in Nat,
           lease_execution_if_budget_reserved(watchers[w].intent, watchers[w].t),
           Retreats(w) \/ Advances(w, "sign"),
           UNCHANGED <<rules, deposits, outside>>
    PROVE  ExecutorInv'
<1>1. /\ watchers[w].t \in Nat
      /\ watchers[w].intent \in Intents
      /\ watchers[w].pc \in Attempting
  BY DEF ExecutorInv, Typed, ExecutorTypeOK, Watcher, PositionInv, At, Attempting
<1>2. FundingTypeOK'
  BY <1>1, StatementTyped DEF ExecutorInv, Typed, ExecutorTypeOK, outside
<1>3. /\ watchers' \in [Watchers -> Watcher]
      /\ \A v \in Watchers : PositionInv(v)'
  BY <1>1, RetreatTyped, AdvanceTyped DEF ExecutorInv, Observing
<1>4. LeaseInv'
  BY <1>1, LeaseKeeps
<1> QED
  BY <1>2, <1>3, <1>4 DEF ExecutorInv, Typed, ExecutorTypeOK, outside

\* The last writes: release, completion and failure of the funding row.
LEMMA LastWriteStep ==
    ASSUME ExecutorInv, NEW w \in Watchers, Retreats(w), faults' \in Nat,
           \/ /\ At(w, "release")
              /\ release_execution_lease_to_budget_reserved(watchers[w].intent)
           \/ /\ At(w, "completeFunding")
              /\ mark_completed_if_executing(watchers[w].intent, watchers[w].sig)
           \/ At(w, "fail") /\ mark_failed(watchers[w].intent),
           UNCHANGED <<rules, deposits, outside>>
    PROVE  ExecutorInv'
<1>1. /\ watchers[w].intent \in Intents
      /\ At(w, "completeFunding") => watchers[w].sig \in Deposits
  BY DEF ExecutorInv, Typed, PositionInv, At, Attempting, Holding, Observing
<1>2. FundingTypeOK'
  BY <1>1, StatementTyped DEF ExecutorInv, Typed, ExecutorTypeOK, outside
<1>3. LeaseInv'
  BY ReleaseKeeps, CompleteFundingKeeps, FailKeeps
<1> QED
  BY <1>2, <1>3, RetreatTyped DEF ExecutorInv, Typed, ExecutorTypeOK, outside

\* The first completion write.
LEMMA CompleteRuleStep ==
    ASSUME ExecutorInv, NEW w \in Watchers, At(w, "completeRule"), faults' \in Nat,
           rule_mark_completed(watchers[w].intent),
           Retreats(w) \/ Advances(w, "completeFunding"),
           UNCHANGED <<intents, deposits, outside>>
    PROVE  ExecutorInv'
<1>1. /\ watchers[w].intent \in Intents
      /\ watchers[w].sig \in Deposits
      /\ watchers[w].pc \in Attempting
  BY DEF ExecutorInv, Typed, PositionInv, At, Attempting, Holding, Observing
<1>2. rules' \in [Intents -> RuleRow]
  BY <1>1, RuleStatementTyped DEF ExecutorInv, Typed, ExecutorTypeOK
<1>3. /\ watchers' \in [Watchers -> Watcher]
      /\ \A v \in Watchers : PositionInv(v)'
  BY <1>1, RetreatTyped, AdvanceTyped DEF ExecutorInv
<1>4. LeaseInv'
  BY CompleteRuleKeeps
<1> QED
  BY <1>2, <1>3, <1>4 DEF ExecutorInv, Typed, ExecutorTypeOK, FundingTypeOK, outside

\* A signature, or its refusal.
LEMMA SignStep ==
    ASSUME ExecutorInv, NEW w \in Watchers, Sign(w)
    PROVE  ExecutorInv'
<1>0. /\ At(w, "sign")
      /\ UNCHANGED <<intents, rules, faults, now, slot, rollbacks>>
  BY DEF Sign, outside
<1>1. watchers[w].intent \in Intents /\ watchers[w].pc \in Holding
  BY <1>0 DEF ExecutorInv, Typed, PositionInv, At, Attempting, Holding
<1>2. ASSUME NEW s \in Deposits, deposits[s].status = "unused",
             deposits' = [deposits EXCEPT ![s].status = "signed",
                                          ![s].intent = watchers[w].intent],
             watchers' = [watchers EXCEPT ![w].pc = "send", ![w].sig = s]
      PROVE  ExecutorInv'
  <2> DEFINE r == [watchers[w] EXCEPT !.pc = "send", !.sig = s]
             d == [deposits[s] EXCEPT !.status = "signed",
                                      !.intent = watchers[w].intent]
  <2>1. r \in Watcher /\ r.intent \in Intents /\ r.sig \in Deposits
    BY <1>1 DEF ExecutorInv, Typed, ExecutorTypeOK, Watcher, Holding
  <2>2. watchers' = [watchers EXCEPT ![w] = r]
    BY <1>2 DEF ExecutorInv, Typed, ExecutorTypeOK
  <2>3. /\ watchers' \in [Watchers -> Watcher]
        /\ \A v \in Watchers : PositionInv(v)'
    BY <2>1, <2>2, MoveTyped DEF ExecutorInv
  <2>4. deposits' \in [Deposits -> Deposit]
    <3>1. d \in Deposit
      BY <1>1 DEF ExecutorInv, Typed, ExecutorTypeOK, Deposit
    <3>2. deposits' = [deposits EXCEPT ![s] = d]
      BY <1>2 DEF ExecutorInv, Typed, ExecutorTypeOK
    <3> QED
      BY <3>1, <3>2 DEF ExecutorInv, Typed, ExecutorTypeOK
  <2>5. Typed'
    BY <1>0, <2>3, <2>4 DEF ExecutorInv, Typed, ExecutorTypeOK, FundingTypeOK
  <2> QED
    BY <1>0, <1>2, <2>5, SignKeeps DEF ExecutorInv
<1>3. ASSUME NEW ready \in {watchers[w].ready, {}},
             watchers' = [watchers EXCEPT ![w].pc = "release", ![w].ready = ready],
             UNCHANGED deposits
      PROVE  ExecutorInv'
  <2> DEFINE r == [watchers[w] EXCEPT !.pc = "release", !.ready = ready]
  <2>1. /\ r \in Watcher /\ r.pc = "release"
        /\ r.intent = watchers[w].intent /\ r.sig = watchers[w].sig
    BY DEF ExecutorInv, Typed, ExecutorTypeOK, Watcher, Holding
  <2>2. watchers' = [watchers EXCEPT ![w] = r]
    BY <1>3 DEF ExecutorInv, Typed, ExecutorTypeOK
  <2>3. Advances(w, "release")
    BY <2>1, <2>2 DEF Advances
  <2>4. LeaseInv'
    BY <1>0, <1>1, <1>3, <2>3, QuietHolderKeeps DEF At, Unsent
  <2>5. /\ watchers' \in [Watchers -> Watcher]
        /\ \A v \in Watchers : PositionInv(v)'
    BY <1>1, <2>3, AdvanceTyped DEF ExecutorInv, Attempting, Observing
  <2> QED
    BY <1>0, <1>3, <2>4, <2>5 DEF ExecutorInv, Typed, ExecutorTypeOK, FundingTypeOK
<1> QED
  BY <1>2, <1>3 DEF Sign

\* The send, with every answer it may get.
LEMMA SendStep ==
    ASSUME ExecutorInv, NEW w \in Watchers, Send(w)
    PROVE  ExecutorInv'
<1>0. /\ At(w, "send")
      /\ UNCHANGED <<intents, rules, faults, outside>>
  BY DEF Send
<1>1. /\ watchers[w].sig \in Deposits
      /\ watchers[w].pc \in Holding
      /\ watchers[w].pc \in Attempting
  BY <1>0 DEF ExecutorInv, Typed, PositionInv, At, Attempting, Holding
<1>2. CASE Goto(w, "release") /\ UNCHANGED deposits
  <2>1. Advances(w, "release")
    BY <1>2, GotoAdvances DEF ExecutorInv, Holding
  <2>2. LeaseInv'
    BY <1>0, <1>1, <1>2, <2>1, QuietHolderKeeps DEF At, Unsent
  <2>3. /\ watchers' \in [Watchers -> Watcher]
        /\ \A v \in Watchers : PositionInv(v)'
    BY <1>1, <2>1, AdvanceTyped DEF ExecutorInv
  <2> QED
    BY <1>0, <1>2, <2>2, <2>3
    DEF ExecutorInv, Typed, ExecutorTypeOK, FundingTypeOK, outside
<1>3. CASE EndAttempt(w) /\ UNCHANGED deposits
  <2>1. faults' \in Nat
    BY <1>0 DEF ExecutorInv, Typed, ExecutorTypeOK
  <2> QED
    BY <1>0, <1>3, <2>1, EndAttemptRetreats, RetreatKeeps DEF ExecutorInv
<1>4. CASE /\ EndAttempt(w) \/ Goto(w, "poll")
           /\ SetDeposit(watchers[w].sig, "signed", "sent")
  <2>1. Retreats(w) \/ Advances(w, "poll")
    BY <1>4, EndAttemptRetreats, GotoAdvances DEF ExecutorInv, Holding
  <2>2. LeaseInv'
    BY <1>0, <1>4, <2>1, SendKeeps
  <2>3. /\ watchers' \in [Watchers -> Watcher]
        /\ \A v \in Watchers : PositionInv(v)'
    BY <1>1, <2>1, RetreatTyped, AdvanceTyped DEF ExecutorInv
  <2>4. deposits' \in [Deposits -> Deposit]
    BY <1>1, <1>4 DEF SetDeposit, Deposit, ExecutorInv, Typed, ExecutorTypeOK
  <2> QED
    BY <1>0, <2>2, <2>3, <2>4
    DEF ExecutorInv, Typed, ExecutorTypeOK, FundingTypeOK, outside
<1> QED
  BY <1>2, <1>3, <1>4 DEF Send

\* One poll, decided, undecided or given up.
LEMMA PollStep ==
    ASSUME ExecutorInv, NEW w \in Watchers, poll_finalized(w)
    PROVE  ExecutorInv'
<1>0. /\ At(w, "poll")
      /\ UNCHANGED <<intents, rules, deposits, faults, outside>>
      /\ faults' \in Nat
  BY DEF poll_finalized, ExecutorInv, Typed, ExecutorTypeOK
<1>1. /\ watchers[w].sig \in Deposits
      /\ watchers[w].pc \in Holding
      /\ watchers[w].pc \in Attempting
  BY <1>0 DEF ExecutorInv, Typed, PositionInv, At, Attempting, Holding, Observing
<1>2. CASE EndAttempt(w)
  BY <1>0, <1>2, EndAttemptRetreats, RetreatKeeps DEF ExecutorInv
<1>3. ASSUME NEW pc \in {"poll", "completeRule", "fail"}, Advances(w, pc),
             pc = "completeRule" => /\ Decided(watchers[w].sig)
                                    /\ deposits[watchers[w].sig].ok,
             pc = "fail" => /\ Decided(watchers[w].sig)
                            /\ ~deposits[watchers[w].sig].ok
      PROVE  ExecutorInv'
  <2>1. LeaseInv'
    BY <1>0, <1>1, <1>3, QuietHolderKeeps
  <2>2. /\ watchers' \in [Watchers -> Watcher]
        /\ \A v \in Watchers : PositionInv(v)'
    BY <1>1, <1>3, AdvanceTyped DEF ExecutorInv
  <2> QED
    BY <1>0, <2>1, <2>2
    DEF ExecutorInv, Typed, ExecutorTypeOK, FundingTypeOK, outside
<1>4. CASE Decided(watchers[w].sig) /\
           Goto(w, IF deposits[watchers[w].sig].ok THEN "completeRule" ELSE "fail")
  <2>1. CASE deposits[watchers[w].sig].ok
    <3>1. Advances(w, "completeRule")
      BY <1>4, <2>1, GotoAdvances DEF ExecutorInv, Holding
    <3> QED
      BY <1>3, <1>4, <2>1, <3>1
  <2>2. CASE ~deposits[watchers[w].sig].ok
    <3>1. Advances(w, "fail")
      BY <1>4, <2>2, GotoAdvances DEF ExecutorInv, Holding
    <3> QED
      BY <1>3, <1>4, <2>2, <3>1
  <2> QED
    BY <2>1, <2>2
<1>5. ASSUME NEW errors \in Nat,
             watchers' = [watchers EXCEPT ![w].polls = @ + 1, ![w].errors = errors]
      PROVE  ExecutorInv'
  <2> DEFINE old == watchers[w]
             r == [old EXCEPT !.polls = old.polls + 1, !.errors = errors]
  <2>0. old \in Watcher /\ old.pc = "poll"
    BY <1>0 DEF ExecutorInv, Typed, ExecutorTypeOK, At
  <2>1. /\ r \in Watcher /\ r.pc = "poll"
        /\ r.intent = old.intent /\ r.sig = old.sig
    <3> HIDE DEF old
    <3>1. old.polls + 1 \in Nat
      BY <2>0 DEF Watcher
    <3> QED
      BY <2>0, <3>1 DEF Watcher
  <2>2. watchers' = [watchers EXCEPT ![w] = r]
    BY <1>5 DEF ExecutorInv, Typed, ExecutorTypeOK
  <2>3. Advances(w, "poll")
    BY <2>1, <2>2 DEF Advances
  <2> QED
    BY <1>3, <2>3
<1>6. watchers[w].errors + 1 \in Nat
  BY DEF ExecutorInv, Typed, ExecutorTypeOK, Watcher
<1>7. \/ EndAttempt(w)
      \/ Decided(watchers[w].sig) /\
           Goto(w, IF deposits[watchers[w].sig].ok THEN "completeRule" ELSE "fail")
      \/ watchers' = [watchers EXCEPT ![w].polls = @ + 1, ![w].errors = 0]
      \/ watchers' = [watchers EXCEPT ![w].polls = @ + 1, ![w].errors = @ + 1]
  BY DEF poll_finalized
<1> QED
  BY <1>2, <1>4, <1>5, <1>6, <1>7

\* Every step of an attempt.
LEMMA AttemptStep ==
    ASSUME ExecutorInv, NEW w \in Watchers, Attempt(w)
    PROVE  ExecutorInv'
<1>0. faults \in Nat /\ (UNCHANGED faults => faults' \in Nat)
  BY DEF ExecutorInv, Typed, ExecutorTypeOK
<1>1. CASE Revalidate(w) \/ ValidateChain(w) \/ SampleClock(w)
  BY <1>1, ReadingKeeps
<1>2. CASE Lease(w)
  <2>1. CASE /\ lease_execution_if_budget_reserved(watchers[w].intent, watchers[w].t)
             /\ Goto(w, "sign")
    <3>1. Advances(w, "sign")
      BY <2>1, GotoAdvances DEF ExecutorInv, Holding
    <3> QED
      BY <1>0, <1>2, <2>1, <3>1, LeaseStep DEF Lease
  <2>2. CASE EndAttempt(w) /\ UNCHANGED intents
    BY <1>0, <1>2, <2>2, EndAttemptRetreats, RetreatKeeps DEF Lease, ExecutorInv
  <2> QED
    BY <1>2, <2>1, <2>2 DEF Lease
<1>3. CASE Sign(w)
  BY <1>3, SignStep
<1>4. CASE release_prebroadcast_failure(w)
  <2>1. Retreats(w)
    BY <1>4, EndAttemptRetreats DEF release_prebroadcast_failure, ExecutorInv
  <2> QED
    BY <1>0, <1>4, <2>1, LastWriteStep, RetreatKeeps DEF release_prebroadcast_failure
<1>5. CASE Send(w)
  BY <1>5, SendStep
<1>6. CASE poll_finalized(w)
  BY <1>6, PollStep
<1>7. CASE CompleteRule(w)
  <2>1. Advances(w, "completeFunding")
    BY <1>7, GotoAdvances DEF CompleteRule, ExecutorInv, Holding
  <2> QED
    BY <1>0, <1>7, <2>1, CompleteRuleStep DEF CompleteRule
<1>8. CASE CompleteFunding(w)
  <2>1. Retreats(w)
    BY <1>8, EndAttemptRetreats DEF CompleteFunding, ExecutorInv
  <2> QED
    BY <1>0, <1>8, <2>1, LastWriteStep, RetreatKeeps DEF CompleteFunding
<1>9. CASE mark_onchain_failed(w)
  <2>1. Retreats(w)
    BY <1>9, EndAttemptRetreats DEF mark_onchain_failed, ExecutorInv
  <2> QED
    BY <1>0, <1>9, <2>1, LastWriteStep, RetreatKeeps DEF mark_onchain_failed
<1> QED
  BY <1>1, <1>2, <1>3, <1>4, <1>5, <1>6, <1>7, <1>8, <1>9 DEF Attempt

\* A store call that reports an error, effective or not.
LEMMA StoreFailsStep ==
    ASSUME ExecutorInv, NEW w \in Watchers, StoreFails(w)
    PROVE  ExecutorInv'
<1>1. /\ Retreats(w)
      /\ faults' \in Nat
      /\ UNCHANGED <<deposits, outside>>
  BY EndAttemptRetreats DEF StoreFails, ExecutorInv, Typed, ExecutorTypeOK
<1>2. CASE UNCHANGED <<intents, rules>>
  BY <1>1, <1>2, RetreatKeeps
<1>3. CASE /\ At(w, "lease") /\ UNCHANGED rules
           /\ lease_execution_if_budget_reserved(watchers[w].intent, watchers[w].t)
  BY <1>1, <1>3, LeaseStep
<1>4. CASE At(w, "completeRule") /\ rule_mark_completed(watchers[w].intent)
           /\ UNCHANGED intents
  BY <1>1, <1>4, CompleteRuleStep
<1>5. CASE /\ UNCHANGED rules
           /\ \/ /\ At(w, "release")
                 /\ release_execution_lease_to_budget_reserved(watchers[w].intent)
              \/ /\ At(w, "completeFunding")
                 /\ mark_completed_if_executing(watchers[w].intent, watchers[w].sig)
              \/ At(w, "fail") /\ mark_failed(watchers[w].intent)
  BY <1>1, <1>5, LastWriteStep
<1> QED
  BY <1>2, <1>3, <1>4, <1>5 DEF StoreFails, ExecutionStatePort

\* A crash: the lease stays behind, held by nobody.
LEMMA CrashStep ==
    ASSUME ExecutorInv, NEW w \in Watchers, Crash(w)
    PROVE  ExecutorInv'
<1>1. Retreats(w)
  <2>1. IdleWatcher \in Watcher /\ IdleWatcher.pc = "idle"
    BY DEF IdleWatcher, Watcher
  <2> QED
    BY <2>1 DEF Crash, Retreats
<1>2. faults' \in Nat /\ UNCHANGED <<intents, rules, deposits, outside>>
  BY DEF Crash, ExecutorInv, Typed, ExecutorTypeOK
<1> QED
  BY <1>1, <1>2, RetreatKeeps

-----------------------------------------------------------------------------
(* Results *)

\* Every step of the surroundings, of a watcher or of nobody.
LEMMA ExecutorSteps == ExecutorInv /\ [ExecutorNext]_executorVars => ExecutorInv'
<1> SUFFICES ASSUME ExecutorInv, [ExecutorNext]_executorVars
             PROVE  ExecutorInv'
  OBVIOUS
<1>1. CASE Surroundings
  BY <1>1, SurroundingsTyped, SurroundingsKeep DEF ExecutorInv
<1>2. ASSUME NEW w \in Watchers,
             scan_cycle(w) \/ Attempt(w) \/ StoreFails(w) \/ Crash(w)
      PROVE  ExecutorInv'
  BY <1>2, ReadingKeeps, AttemptStep, StoreFailsStep, CrashStep
<1>3. CASE UNCHANGED executorVars
  BY <1>3 DEF executorVars, ExecutorInv, Typed, ExecutorTypeOK, FundingTypeOK,
              PositionInv, LeaseInv, HolderInv, HolderKnows, OneHolder, IntentInv,
              NoneSent, Sent, IsExecuting
<1> QED
  BY <1>1, <1>2, <1>3 DEF ExecutorNext

\* The invariant holds in every state of the executor, for every number of
\* watchers, intents, attempts and faults.
THEOREM ExecutorSafe == ExecutorSpec => []ExecutorInv
<1>1. ExecutorInit => ExecutorInv
  BY ExecutorInitTyped, ExecutorInitLease DEF ExecutorInv
<1> QED
  BY <1>1, ExecutorSteps, PTL DEF ExecutorSpec

\* Types of the tables, the deposits and the watchers.
THEOREM ExecutorTypes == ExecutorSpec => []ExecutorTypeOK
BY ExecutorSafe, PTL DEF ExecutorInv, Typed

\* At most one deposit of an intent ever reaches the network.
THEOREM AtMostOneBroadcastAlways == ExecutorSpec => []AtMostOneBroadcast
<1>1. ExecutorInv => AtMostOneBroadcast
  BY DEF ExecutorInv, LeaseInv, IntentInv, AtMostOneBroadcast, SentFor, Sent
<1> QED
  BY <1>1, ExecutorSafe, PTL

\* Nothing has been broadcast for an intent that is open for execution.
THEOREM ReservedIsUnspentAlways == ExecutorSpec => []ReservedIsUnspent
<1>1. ExecutorInv => ReservedIsUnspent
  BY DEF ExecutorInv, LeaseInv, IntentInv, ReservedIsUnspent, SentFor, NoneSent, Sent
<1> QED
  BY <1>1, ExecutorSafe, PTL

\* A lease has one holder, and its row is executing until the last write.
THEOREM LeaseIsExclusiveAlways == ExecutorSpec => []LeaseIsExclusive
<1>1. ExecutorInv => LeaseIsExclusive
  BY DEF ExecutorInv, LeaseInv, HolderInv, HolderKnows, OneHolder, LeaseIsExclusive
<1> QED
  BY <1>1, ExecutorSafe, PTL

\* A recorded outcome is the final outcome on the chain.
THEOREM OutcomeIsTrueAlways == ExecutorSpec => []OutcomeIsTrue
<1>1. ExecutorInv => OutcomeIsTrue
  BY DEF ExecutorInv, LeaseInv, IntentInv, OutcomeIsTrue, SentFor, Sent
<1> QED
  BY <1>1, ExecutorSafe, PTL

\* The completion writes are torn apart in one direction only.
THEOREM SplitStateIsOneSidedAlways == ExecutorSpec => []SplitStateIsOneSided
<1>1. ExecutorInv => SplitStateIsOneSided
  BY DEF ExecutorInv, LeaseInv, IntentInv, SplitStateIsOneSided
<1> QED
  BY <1>1, ExecutorSafe, PTL

-----------------------------------------------------------------------------
(* Status queries. *)

\* A completed rule says so, or that it was revoked later.
RuleOK(rule) == rule.completed => rule.status \in {"completed", "revoked"}

\* A row that was read is still true where it is terminal.
RowOK(row, i) ==
    /\ row.status = "completed" => rules[i].completed
    /\ row.status \in is_terminal => intents[i].status = row.status

ResponseOK(r, ref, i) ==
    /\ r.source = "w5h_funding_intent" /\ r.status = "completed"
          => r.rule \in {"completed", "revoked"}
    /\ r.source = "w5h_funding_intent" /\ r.terminal
          => intents[i].status = r.status /\ r.status \in is_terminal
    /\ r.source = "watch_rule" /\ r.terminal
          => rules[i].status \in TerminalRule
    /\ r.source # NULL /\ ref.kind = "hash"
          => i = ref.intent /\ r.hash = ref.created

ReadRow == [status : Status \cup {"absent"}, hash : Slots \cup {NULL}]

\* What a query knows at each of its positions.
QueryOK ==
    /\ query.pc \in {"funding", "rule"} => query.intent \in Intents
    /\ query.pc = "rule" =>
          query.row \in ReadRow /\ RowOK(query.row, query.intent)
    /\ query.pc = "done" =>
          /\ query.response.source # NULL => query.intent \in Intents
          /\ ResponseOK(query.response, query.ref, query.intent)

StatusInv ==
    /\ ExecutorInv
    /\ \A i \in Intents : RuleOK(rules[i])
    /\ query \in Query
    /\ QueryOK

-----------------------------------------------------------------------------
(* The tables. *)

\* What the rows of one intent never lose.
Forward(i) ==
    /\ intents[i].status \in is_terminal => intents'[i].status = intents[i].status
    /\ rules[i].completed => rules'[i].completed
    /\ rules[i].revoked => rules'[i].revoked
    /\ rules[i].status \in TerminalRule => rules'[i].status \in TerminalRule
    /\ RuleOK(rules[i]) => RuleOK(rules'[i])

\* A step writes the row of one funding intent, which was not terminal, or
\* the rule of one, or neither.
FundingWrite ==
    \E j \in Intents : \E q :
        /\ intents' = [intents EXCEPT ![j] = q]
        /\ intents[j].status \notin is_terminal

RuleWrite == \E j \in Intents : rule_mark_completed(j) \/ rule_mark_revoked(j)

\* The statements that the executor and its surroundings use.
LEMMA StatementsWrite ==
    ASSUME Typed, NEW j \in Intents,
           \/ \E s, t : mark_budget_reserved_if_submitted(j, s, t)
           \/ \E t : lease_execution_if_budget_reserved(j, t)
           \/ \E s : mark_completed_if_executing(j, s)
           \/ release_execution_lease_to_budget_reserved(j)
           \/ mark_failed(j)
    PROVE  FundingWrite
<1>0. intents \in [Intents -> Row]
    BY DEF Typed, ExecutorTypeOK, FundingTypeOK
<1>1. ASSUME NEW s, NEW t, mark_budget_reserved_if_submitted(j, s, t)
      PROVE  /\ intents' = [intents EXCEPT ![j] =
                   [intents[j] EXCEPT !.status = "budget_reserved", !.fslot = t]]
             /\ intents[j].status \notin is_terminal
    BY <1>0, <1>1 DEF mark_budget_reserved_if_submitted, SubmittedWith, is_terminal
<1>2. ASSUME NEW s, mark_completed_if_executing(j, s)
      PROVE  /\ intents' = [intents EXCEPT ![j] =
                   [intents[j] EXCEPT !.status = "completed", !.esig = s]]
             /\ intents[j].status \notin is_terminal
    BY <1>0, <1>2 DEF mark_completed_if_executing, IsExecuting, is_terminal
<1>3. ASSUME NEW t, lease_execution_if_budget_reserved(j, t)
      PROVE  /\ intents' = [intents EXCEPT ![j] = [intents[j] EXCEPT !.status = "executing"]]
             /\ intents[j].status \notin is_terminal
    BY <1>0, <1>3 DEF lease_execution_if_budget_reserved, CanLeaseExecution, is_terminal
<1>4. ASSUME release_execution_lease_to_budget_reserved(j)
      PROVE  /\ intents' = [intents EXCEPT ![j] =
                   [intents[j] EXCEPT !.status = "budget_reserved"]]
             /\ intents[j].status \notin is_terminal
    BY <1>0, <1>4 DEF release_execution_lease_to_budget_reserved, IsExecuting, is_terminal
<1>5. ASSUME mark_failed(j)
      PROVE  /\ intents' = [intents EXCEPT ![j] = [intents[j] EXCEPT !.status = "failed"]]
             /\ intents[j].status \notin is_terminal
    BY <1>0, <1>5 DEF mark_failed, CanMarkFailed
<1> QED  BY <1>1, <1>2, <1>3, <1>4, <1>5 DEF FundingWrite

\* Where the executor writes.
LEMMA ExecutorWrites ==
    ASSUME ExecutorInv, [ExecutorNext]_executorVars
    PROVE  /\ UNCHANGED intents \/ FundingWrite
           /\ UNCHANGED rules \/ RuleWrite
<1> DEFINE Writes == (UNCHANGED intents \/ FundingWrite) /\ (UNCHANGED rules \/ RuleWrite)
<1>0. Typed
    BY DEF ExecutorInv
<1>1. CASE Surroundings
    <2>1. CASE \E i \in Intents : Reserve(i)
        BY <1>0, <2>1, StatementsWrite DEF Reserve
    <2>2. CASE \E i \in Intents : Revoke(i)
        BY <2>2 DEF Revoke, RuleWrite
    <2>3. CASE ClocksAdvance \/ \E s \in Deposits : ChainStep(s)
        BY <2>3 DEF ClocksAdvance, ChainStep, Tick
    <2> QED  BY <1>1, <2>1, <2>2, <2>3 DEF Surroundings
<1>2. ASSUME NEW w \in Watchers, scan_cycle(w) \/ Crash(w)
      PROVE  Writes
    BY <1>2 DEF scan_cycle, Crash
<1>3. ASSUME NEW w \in Watchers, Attempt(w)
      PROVE  Writes
    <2>1. CASE Revalidate(w) \/ ValidateChain(w) \/ SampleClock(w) \/ Sign(w)
                  \/ Send(w) \/ poll_finalized(w)
        BY <2>1 DEF Revalidate, ValidateChain, SampleClock, Sign, Send, poll_finalized
    <2> DEFINE i == watchers[w].intent
    <2>2. watchers[w].pc \in Attempting => i \in Intents
        BY <1>0 DEF Typed, PositionInv
    <2> HIDE DEF i
    <2>3. CASE Lease(w)
        BY <1>0, <2>2, <2>3, StatementsWrite DEF Lease, At, Attempting, i
    <2>4. CASE release_prebroadcast_failure(w)
        BY <1>0, <2>2, <2>4, StatementsWrite
        DEF release_prebroadcast_failure, At, Attempting, Holding, i
    <2>5. CASE CompleteFunding(w)
        BY <1>0, <2>2, <2>5, StatementsWrite DEF CompleteFunding, At, Attempting, Holding, i
    <2>6. CASE mark_onchain_failed(w)
        BY <1>0, <2>2, <2>6, StatementsWrite
        DEF mark_onchain_failed, At, Attempting, Holding, i
    <2>7. CASE CompleteRule(w)
        BY <2>2, <2>7 DEF CompleteRule, At, Attempting, Holding, i, RuleWrite
    <2> QED
        BY <1>3, <2>1, <2>3, <2>4, <2>5, <2>6, <2>7 DEF Attempt
<1>4. ASSUME NEW w \in Watchers, StoreFails(w)
      PROVE  Writes
    <2> DEFINE i == watchers[w].intent
    <2>1. watchers[w].pc \in Attempting => i \in Intents
        BY <1>0 DEF Typed, PositionInv
    <2> HIDE DEF i
    <2>2. CASE ExecutionStatePort(w)
        BY <1>0, <2>1, <2>2, StatementsWrite
        DEF ExecutionStatePort, At, Attempting, Holding, i, RuleWrite
    <2> QED  BY <1>4, <2>2 DEF StoreFails
<1>5. CASE UNCHANGED executorVars
    BY <1>5 DEF executorVars
<1> QED  BY <1>1, <1>2, <1>3, <1>4, <1>5 DEF ExecutorNext

\* The tables move in one direction only.
LEMMA TablesMove ==
    ASSUME ExecutorInv, [ExecutorNext]_executorVars, NEW i \in Intents
    PROVE  Forward(i)
<1>0. intents \in [Intents -> Row] /\ rules \in [Intents -> RuleRow]
    BY DEF ExecutorInv, Typed, ExecutorTypeOK, FundingTypeOK
<1>1. intents[i].status \in is_terminal => intents'[i] = intents[i]
    <2>1. CASE UNCHANGED intents
        BY <2>1
    <2>2. CASE FundingWrite
        BY <1>0, <2>2 DEF FundingWrite
    <2> QED  BY <2>1, <2>2, ExecutorWrites
<1>2. \/ rules'[i] = rules[i]
      \/ rules'[i] = [rules[i] EXCEPT !.status = "completed", !.completed = TRUE]
      \/ rules'[i] = [rules[i] EXCEPT !.status = "revoked", !.revoked = TRUE]
    <2>1. CASE UNCHANGED rules
        BY <2>1
    <2>2. ASSUME NEW j \in Intents, rule_mark_completed(j)
          PROVE  \/ rules'[i] = rules[i]
                 \/ rules'[i] = [rules[i] EXCEPT !.status = "completed", !.completed = TRUE]
        BY <1>0, <2>2 DEF rule_mark_completed
    <2>3. ASSUME NEW j \in Intents, rule_mark_revoked(j)
          PROVE  \/ rules'[i] = rules[i]
                 \/ rules'[i] = [rules[i] EXCEPT !.status = "revoked", !.revoked = TRUE]
        BY <1>0, <2>3 DEF rule_mark_revoked
    <2> QED  BY <2>1, <2>2, <2>3, ExecutorWrites DEF RuleWrite
<1>3. rules[i] \in RuleRow
    BY <1>0
<1> QED  BY <1>1, <1>2, <1>3 DEF Forward, RuleOK, RuleRow, TerminalRule

-----------------------------------------------------------------------------
(* Initial states. *)

\* An intent that finalize left without a rule, and a rule without an intent,
\* satisfy the executor's invariant too.
LEMMA StatusInitially == StatusInit => StatusInv
<1> SUFFICES ASSUME StatusInit
             PROVE  StatusInv
    OBVIOUS
<1>1. query \in Query /\ QueryOK
    BY DEF StatusInit, NoQuery, Query, QueryOK
<1>2. CASE ExecutorInit
    <2>1. \A i \in Intents : ~rules[i].completed
        BY <1>2 DEF ExecutorInit, NoRule
    <2> QED
        BY <1>1, <1>2, <2>1, ExecutorInitTyped, ExecutorInitLease
        DEF StatusInv, ExecutorInv, RuleOK
<1>3. CASE ~ExecutorInit
    <2>1. PICK lost \in SUBSET Intents, payment \in Sigs \ Deposits :
             /\ now = 0 /\ slot = 0 /\ faults = 0 /\ rollbacks = 0
             /\ intents = [i \in Intents |->
                             IF i \in lost THEN NoRow ELSE SubmittedIntent(payment)]
             /\ rules = [i \in Intents |->
                           IF i \in lost THEN [NoRule EXCEPT !.status = "active", !.created = 0]
                                         ELSE NoRule]
             /\ deposits = [s \in Deposits |-> NoDeposit]
             /\ watchers = [w \in Watchers |-> IdleWatcher]
        BY <1>3 DEF StatusInit
    <2>2. FundingTypeOK
        <3>1. (CHOOSE x \in Wallets : TRUE) \in Wallets
            BY ExecutorStartAssumption
        <3>2. SubmittedIntent(payment) \in Row /\ NoRow \in Row
            BY <3>1, ExecutorStartAssumption, LifetimeAssumption
            DEF SubmittedIntent, NoRow, Row, Status
        <3> QED  BY <2>1, <3>2 DEF FundingTypeOK
    <2>3. rules \in [Intents -> RuleRow] /\ \A i \in Intents : ~rules[i].completed
        <3>1. /\ NoRule \in RuleRow /\ ~NoRule.completed
              /\ [NoRule EXCEPT !.status = "active", !.created = 0] \in RuleRow
              /\ ~[NoRule EXCEPT !.status = "active", !.created = 0].completed
            BY ExecutorStartAssumption DEF NoRule, RuleRow, RuleStatus
        <3> QED  BY <2>1, <3>1
    <2>4. /\ deposits \in [Deposits -> Deposit]
          /\ \A s \in Deposits : deposits[s].status = "unused"
        BY <2>1 DEF NoDeposit, Deposit
    <2>5. /\ watchers \in [Watchers -> Watcher]
          /\ \A w \in Watchers : watchers[w].pc = "idle"
        BY <2>1 DEF IdleWatcher, Watcher
    <2>6. Typed
        BY <2>1, <2>2, <2>3, <2>4, <2>5, ExecutorStartAssumption
        DEF Typed, ExecutorTypeOK, PositionInv, Attempting, Holding, Observing
    <2>7. \A i \in Intents : intents[i].status \in {"absent", "funding_submitted"}
        BY <2>1 DEF SubmittedIntent, NoRow
    <2>8. LeaseInv
        BY <2>3, <2>4, <2>5, <2>7
        DEF LeaseInv, HolderInv, OneHolder, IntentInv, NoneSent, Sent, Holding, Broadcast
    <2> QED  BY <1>1, <2>3, <2>6, <2>8 DEF StatusInv, ExecutorInv, RuleOK
<1> QED  BY <1>2, <1>3

-----------------------------------------------------------------------------
(* The query. *)

\* A step of the executor leaves what a query knows true.
LEMMA ExecutorLeavesQuery ==
    ASSUME StatusInv, [ExecutorNext]_executorVars, UNCHANGED query
    PROVE  StatusInv'
<1>1. ExecutorInv /\ ExecutorInv'
    BY ExecutorSteps DEF StatusInv
<1>2. \A i \in Intents : Forward(i)
    BY <1>1, TablesMove
<1>3. \A i \in Intents : RuleOK(rules'[i])
    BY <1>2 DEF StatusInv, Forward
<1>4. query' \in Query
    BY DEF StatusInv
<1>5. query.pc \in {"funding", "rule"} => query.intent \in Intents
    BY DEF StatusInv, QueryOK
<1>6. query.pc = "rule" => query.row \in ReadRow /\ RowOK(query.row, query.intent)'
    BY <1>2, <1>5 DEF StatusInv, QueryOK, RowOK, Forward
<1>7. query.pc = "done" =>
          /\ query.response.source # NULL => query.intent \in Intents
          /\ ResponseOK(query.response, query.ref, query.intent)'
    <2> SUFFICES ASSUME query.pc = "done"
                 PROVE  /\ query.response.source # NULL => query.intent \in Intents
                        /\ ResponseOK(query.response, query.ref, query.intent)'
        OBVIOUS
    <2> DEFINE r == query.response
               i == query.intent
    <2>1. /\ r.source # NULL => i \in Intents
          /\ ResponseOK(r, query.ref, i)
        BY DEF StatusInv, QueryOK
    <2>2. r.source \in {"w5h_funding_intent", "watch_rule"} => i \in Intents /\ Forward(i)
        BY <1>2, <2>1, StatusNullAssumption
    <2> QED  BY <2>1, <2>2 DEF ResponseOK, Forward
<1> QED  BY <1>1, <1>3, <1>4, <1>5, <1>6, <1>7 DEF StatusInv, QueryOK

\* An answer that names no row says nothing.
LEMMA EmptyResponse ==
    ASSUME NEW r \in {unsupported_response, not_found_response}
    PROVE  /\ r \in Response /\ r.source = NULL
           /\ Responded(r) \in Query
           /\ Responded(r).pc = "done" /\ Responded(r).response = r
<1>1. r \in Response /\ r.source = NULL
    <2>1. \E status \in {"unsupported_ref", "not_found"} :
             r = [status |-> status, source |-> NULL, terminal |-> FALSE,
                  hash |-> NULL, rule |-> NULL]
        BY DEF unsupported_response, not_found_response
    <2> QED  BY <2>1 DEF Response
<1>2. Responded(r) = [pc |-> "done", ref |-> NULL, intent |-> NULL, row |-> NULL,
                      response |-> r]
    BY <1>1 DEF Responded, NoQuery
<1> QED  BY <1>1, <1>2 DEF Query

LEMMA EmptyIsOK ==
    ASSUME StatusInv, UNCHANGED executorVars,
           NEW r \in {unsupported_response, not_found_response}, query' = Responded(r)
    PROVE  query' \in Query /\ QueryOK'
<1>1. /\ query' \in Query /\ query'.pc = "done" /\ query'.response.source = NULL
    BY EmptyResponse
<1> QED  BY <1>1, StatusNullAssumption DEF QueryOK, ResponseOK

\* The two reads: the row is true when it is read, and the rule that is read
\* after it can only have moved on.
LEMMA QueryKeeps ==
    ASSUME StatusInv, QueryStep
    PROVE  query' \in Query /\ QueryOK'
<1>0. /\ UNCHANGED executorVars /\ query \in Query /\ QueryOK
      /\ intents \in [Intents -> Row] /\ rules \in [Intents -> RuleRow]
    BY DEF StatusInv, QueryStep, Ask, ReadFunding, ReadRule, QueryFails, ExecutorInv,
           Typed, ExecutorTypeOK, FundingTypeOK
<1>1. CASE Ask
    <2>1. PICK ref \in Refs : \E i \in Named(ref) :
             query' = IF i = NULL THEN Responded(unsupported_response)
                      ELSE [NoQuery EXCEPT !.pc = "funding", !.ref = ref, !.intent = i]
        BY <1>1 DEF Ask
    <2>2. PICK i \in Named(ref) :
             query' = IF i = NULL THEN Responded(unsupported_response)
                      ELSE [NoQuery EXCEPT !.pc = "funding", !.ref = ref, !.intent = i]
        BY <2>1
    <2>3. i \in Intents \cup {NULL}
        BY DEF Named, Refs
    <2>4. CASE i = NULL
        BY <1>0, <2>2, <2>4, EmptyIsOK
    <2>5. CASE i # NULL
        <3>1. query' = [pc |-> "funding", ref |-> ref, intent |-> i, row |-> NULL,
                        response |-> NULL]
            BY <2>2, <2>5 DEF NoQuery
        <3> QED  BY <2>3, <2>5, <3>1 DEF Query, QueryOK
    <2> QED  BY <2>4, <2>5
<1>2. CASE ReadFunding
    <2> DEFINE row == intents[query.intent]
               read == [status |-> row.status, hash |-> row.hash]
               q == [query EXCEPT !.pc = "rule", !.row = read]
    <2>1. query.intent \in Intents /\ query' = q
        BY <1>0, <1>2 DEF ReadFunding, QueryOK
    <2>2. read \in ReadRow
        BY <1>0, <2>1 DEF Row, ReadRow
    <2>3. RowOK(read, query.intent)
        BY <2>1 DEF StatusInv, ExecutorInv, LeaseInv, IntentInv, RowOK
    <2> HIDE DEF read
    <2>4. q \in Query /\ q.pc = "rule" /\ q.row = read /\ q.intent = query.intent
        BY <1>0, <2>2 DEF Query, ReadRow
    <2> HIDE DEF q
    <2> QED  BY <1>0, <2>1, <2>2, <2>3, <2>4 DEF QueryOK, RowOK, executorVars
<1>3. CASE ReadRule
    <2> DEFINE rule == rules[query.intent]
               row == query.row
               i == query.intent
               ref == query.ref
               Mapped == canonical_mapping_matches_main_store(ref, i, row, rule)
               p == project_status(row, rule)
    <2>1. /\ i \in Intents /\ row \in ReadRow /\ RowOK(row, i)
          /\ query' = Responded(IF ref.kind = "hash" /\ ~Mapped
                                THEN unsupported_response ELSE p)
        BY <1>0, <1>3 DEF ReadRule, QueryOK
    <2>2. CASE ref.kind = "hash" /\ ~Mapped
        BY <1>0, <2>1, <2>2, EmptyIsOK
    <2>3. CASE /\ ref.kind = "hash" => Mapped
               /\ row.status = "absent" /\ rule.status = "absent"
        BY <1>0, <2>1, <2>3, EmptyIsOK DEF project_status
    <2>4. CASE /\ ref.kind = "hash" => Mapped
               /\ row.status # "absent" \/ rule.status # "absent"
        <3>1. rule \in RuleRow /\ RuleOK(rule)
            BY <1>0, <2>1 DEF StatusInv
        <3>2. /\ p \in Response /\ p.source \in {"w5h_funding_intent", "watch_rule"}
              /\ ResponseOK(p, ref, i)
            <4>1. CASE row.status # "absent"
                <5>1. p = [status   |-> row.status,
                           source   |-> "w5h_funding_intent",
                           terminal |-> row.status \in is_terminal,
                           hash     |-> row.hash,
                           rule     |-> IF rule.status = "absent" THEN NULL ELSE rule.status]
                    BY <4>1 DEF project_status, funding_response
                <5>2. p \in Response
                    BY <2>1, <3>1, <4>1, <5>1 DEF Response, ReadRow, RuleRow
                <5>3. ref.kind = "hash" => i = ref.intent /\ row.hash = ref.created
                    BY <2>4, <4>1 DEF canonical_mapping_matches_main_store
                <5>4. row.status = "completed" => rule.status \in {"completed", "revoked"}
                    BY <2>1, <3>1 DEF RowOK, RuleOK
                <5>5. row.status \in is_terminal => intents[i].status = row.status
                    BY <2>1 DEF RowOK
                <5> HIDE DEF p, rule, row, i, ref
                <5> QED  BY <5>1, <5>2, <5>3, <5>4, <5>5 DEF ResponseOK
            <4>2. CASE row.status = "absent"
                <5>1. p = [status   |-> rule.status,
                           source   |-> "watch_rule",
                           terminal |-> rule.status \in TerminalRule,
                           hash     |-> rule.created,
                           rule     |-> rule.status]
                    BY <2>4, <4>2 DEF project_status, watch_rule_response
                <5>2. p \in Response
                    BY <2>4, <3>1, <4>2, <5>1 DEF Response, RuleRow
                <5>3. ref.kind = "hash" => i = ref.intent /\ rule.created = ref.created
                    BY <2>4 DEF canonical_mapping_matches_main_store
                <5>4. rule.status \in TerminalRule => rules[i].status \in TerminalRule
                    OBVIOUS
                <5> HIDE DEF p, rule, row, i, ref
                <5> QED  BY <5>1, <5>2, <5>3, <5>4 DEF ResponseOK
            <4> QED  BY <4>1, <4>2
        <3> DEFINE q == [query EXCEPT !.pc = "done", !.row = NULL, !.response = p]
        <3> HIDE DEF p
        <3>3. query' = q
            BY <2>1, <2>4, <3>2, StatusNullAssumption DEF Responded
        <3>4. /\ q \in Query /\ q.pc = "done" /\ q.response = p
              /\ q.intent = i /\ q.ref = ref
            BY <1>0, <3>2 DEF Query
        <3> HIDE DEF q
        <3> QED
            BY <1>0, <2>1, <3>2, <3>3, <3>4 DEF QueryOK, ResponseOK, executorVars
    <2> QED  BY <2>2, <2>3, <2>4
<1>4. CASE QueryFails
    BY <1>4 DEF QueryFails, NoQuery, Query, QueryOK
<1> QED  BY <1>1, <1>2, <1>3, <1>4 DEF QueryStep

-----------------------------------------------------------------------------
(* Revocation. *)

\* The rule is revoked, no attempt has passed its revalidation, and nothing
\* has been sent.
Stopped(i) == rules[i].revoked /\ ~InFlight(i) /\ SentFor(i) = {}

\* A watcher that attempts an intent did so before, or has just found the rule
\* in force.
Onward(w) ==
    \E r : /\ watchers' = [watchers EXCEPT ![w] = r]
           /\ r.pc \in Attempting =>
                 \/ watchers[w].pc \in Attempting /\ r.intent = watchers[w].intent
                 \/ ~rules[r.intent].revoked

LEMMA StepsOnward ==
    ASSUME Typed, NEW w \in Watchers,
           scan_cycle(w) \/ Attempt(w) \/ StoreFails(w) \/ Crash(w)
    PROVE  Onward(w)
<1>0. watchers \in [Watchers -> Watcher]
    BY DEF Typed, ExecutorTypeOK
<1>1. ASSUME Retreats(w)
      PROVE  Onward(w)
    BY <1>1 DEF Retreats, Onward, Attempting, Holding
<1>2. ASSUME NEW pc, Advances(w, pc), watchers[w].pc \in Attempting
      PROVE  Onward(w)
    BY <1>2 DEF Advances, Onward
<1>3. CASE EndAttempt(w)
    BY <1>1, <1>3, EndAttemptRetreats
<1>4. ASSUME NEW pc \in {"clock"} \cup Holding, Goto(w, pc), watchers[w].pc \in Attempting
      PROVE  Onward(w)
    BY <1>2, <1>4, GotoAdvances
<1>5. CASE scan_cycle(w)
    <2>1. PICK ready \in SUBSET Intents : NextCandidate(w, ready)
        BY <1>5 DEF scan_cycle, execute_ready_intent_ids, list_budget_reserved
    <2> QED  BY <1>1, <2>1, NextCandidateMoves DEF Retreats
<1>6. CASE Crash(w)
    <2>1. IdleWatcher \in Watcher /\ IdleWatcher.pc = "idle"
        BY DEF IdleWatcher, Watcher
    <2> QED  BY <1>1, <1>6, <2>1 DEF Crash, Retreats
<1>7. CASE Revalidate(w)
    <2>1. PICK i \in watchers[w].ready :
             IF preflight_candidate(i)
             THEN watchers' = [watchers EXCEPT ![w].pc = "chain",
                                               ![w].ready = @ \ {i},
                                               ![w].intent = i]
             ELSE NextCandidate(w, watchers[w].ready \ {i})
        BY <1>7 DEF Revalidate
    <2>2. CASE preflight_candidate(i)
        <3> DEFINE r == [watchers[w] EXCEPT !.pc = "chain", !.ready = @ \ {i}, !.intent = i]
        <3>1. watchers' = [watchers EXCEPT ![w] = r] /\ r.intent = i
            BY <1>0, <2>1, <2>2 DEF Watcher
        <3>2. ~rules[i].revoked
            BY <2>2 DEF preflight_candidate, LifecycleEligible
        <3> HIDE DEF r
        <3> QED  BY <3>1, <3>2 DEF Onward
    <2>3. CASE ~preflight_candidate(i)
        <3>1. watchers[w].ready \ {i} \in SUBSET Intents
            BY <1>0 DEF Watcher
        <3> QED  BY <1>1, <2>1, <2>3, <3>1, NextCandidateMoves DEF Retreats
    <2> QED  BY <2>2, <2>3
<1>8. CASE ValidateChain(w)
    BY <1>3, <1>4, <1>8 DEF ValidateChain, EndAttempt, At, Attempting
<1>9. CASE SampleClock(w)
    <2> DEFINE r == [watchers[w] EXCEPT !.pc = "lease", !.t = now]
    <2>1. watchers' = [watchers EXCEPT ![w] = r] /\ r.intent = watchers[w].intent
        BY <1>0, <1>9 DEF SampleClock, Watcher
    <2> HIDE DEF r
    <2> QED  BY <1>9, <2>1 DEF SampleClock, Onward, At, Attempting
<1>10. CASE Sign(w)
    <2>1. CASE \E s \in Deposits :
                  watchers' = [watchers EXCEPT ![w].pc = "send", ![w].sig = s]
        <3>1. PICK s \in Deposits :
                 watchers' = [watchers EXCEPT ![w].pc = "send", ![w].sig = s]
            BY <2>1
        <3> DEFINE r == [watchers[w] EXCEPT !.pc = "send", !.sig = s]
        <3>2. watchers' = [watchers EXCEPT ![w] = r] /\ r.intent = watchers[w].intent
            BY <1>0, <3>1 DEF Watcher
        <3> HIDE DEF r
        <3> QED  BY <1>10, <3>2 DEF Sign, Onward, At, Attempting, Holding
    <2>2. CASE \E ready : watchers' = [watchers EXCEPT ![w].pc = "release", ![w].ready = ready]
        <3>1. PICK ready :
                 watchers' = [watchers EXCEPT ![w].pc = "release", ![w].ready = ready]
            BY <2>2
        <3> DEFINE r == [watchers[w] EXCEPT !.pc = "release", !.ready = ready]
        <3>2. watchers' = [watchers EXCEPT ![w] = r] /\ r.intent = watchers[w].intent
            BY <1>0, <3>1 DEF Watcher
        <3> HIDE DEF r
        <3> QED  BY <1>10, <3>2 DEF Sign, Onward, At, Attempting, Holding
    <2> QED  BY <1>10, <2>1, <2>2 DEF Sign
<1>11. CASE poll_finalized(w)
    <2>1. ASSUME NEW n, NEW m, watchers' = [watchers EXCEPT ![w].polls = n, ![w].errors = m]
          PROVE  Onward(w)
        <3> DEFINE r == [watchers[w] EXCEPT !.polls = n, !.errors = m]
        <3>1. watchers' = [watchers EXCEPT ![w] = r] /\ r.intent = watchers[w].intent
            BY <1>0, <2>1 DEF Watcher
        <3> HIDE DEF r
        <3> QED  BY <1>11, <3>1 DEF poll_finalized, Onward, At, Attempting, Holding
    <2>2. watchers[w].pc \in Attempting
        BY <1>11 DEF poll_finalized, At, Attempting, Holding
    <2>3. \/ EndAttempt(w)
          \/ \E pc \in {"completeRule", "fail"} : Goto(w, pc)
          \/ \E n, m : watchers' = [watchers EXCEPT ![w].polls = n, ![w].errors = m]
        BY <1>11 DEF poll_finalized
    <2> QED  BY <1>3, <1>4, <2>1, <2>2, <2>3 DEF Holding
<1>12. CASE Lease(w) \/ Send(w) \/ CompleteRule(w)
    BY <1>3, <1>4, <1>12 DEF Lease, Send, CompleteRule, At, Attempting, Holding
<1>13. CASE release_prebroadcast_failure(w) \/ CompleteFunding(w) \/ mark_onchain_failed(w)
               \/ StoreFails(w)
    BY <1>3, <1>13
    DEF release_prebroadcast_failure, CompleteFunding, mark_onchain_failed, StoreFails
<1> QED
    BY <1>5, <1>6, <1>7, <1>8, <1>9, <1>10, <1>11, <1>12, <1>13 DEF Attempt

\* Only Send puts a deposit on the network, and it is one of the intent that
\* its watcher attempts.
LEMMA SendsAttempted ==
    ASSUME ExecutorInv, [ExecutorNext]_executorVars, NEW i \in Intents, ~InFlight(i),
           NEW s \in Deposits, s \in SentFor(i)'
    PROVE  s \in SentFor(i)
<1>0. deposits \in [Deposits -> Deposit]
    BY DEF ExecutorInv, Typed, ExecutorTypeOK
<1>1. CASE UNCHANGED deposits
    BY <1>1 DEF SentFor
<1>2. ASSUME NEW d \in Deposits, ChainStep(d)
      PROVE  s \in SentFor(i)
    BY <1>0, <1>2 DEF ChainStep, Land, Finalize, RollBack, SetDeposit, SentFor, Broadcast,
                      Deposit
<1>3. ASSUME NEW w \in Watchers, Sign(w)
      PROVE  s \in SentFor(i)
    <2>1. CASE \E d \in Deposits :
                  deposits' = [deposits EXCEPT ![d].status = "signed",
                                               ![d].intent = watchers[w].intent]
        <3>1. PICK d \in Deposits :
                 deposits' = [deposits EXCEPT ![d].status = "signed",
                                              ![d].intent = watchers[w].intent]
            BY <2>1
        <3>2. deposits'[d].status = "signed" /\ (s # d => deposits'[s] = deposits[s])
            BY <1>0, <3>1 DEF Deposit
        <3> QED  BY <3>2 DEF SentFor, Broadcast
    <2> QED  BY <1>1, <1>3, <2>1 DEF Sign
<1>4. ASSUME NEW w \in Watchers, Send(w)
      PROVE  s \in SentFor(i)
    <2>1. /\ watchers[w].intent # i
          /\ deposits[watchers[w].sig].intent = watchers[w].intent
        BY <1>4 DEF Send, At, InFlight, Holding, ExecutorInv, LeaseInv, HolderInv, HolderKnows
    <2> QED  BY <1>0, <1>1, <1>4, <2>1 DEF Send, SetDeposit, SentFor, Broadcast, Deposit
<1>5. CASE Surroundings
    BY <1>1, <1>2, <1>5 DEF Surroundings, ClocksAdvance, Reserve, Revoke
<1>6. ASSUME NEW w \in Watchers,
             scan_cycle(w) \/ Attempt(w) \/ StoreFails(w) \/ Crash(w)
      PROVE  s \in SentFor(i)
    BY <1>1, <1>3, <1>4, <1>6
    DEF scan_cycle, Attempt, StoreFails, Crash, Revalidate, ValidateChain, SampleClock,
        Lease, release_prebroadcast_failure, poll_finalized, CompleteRule,
        CompleteFunding, mark_onchain_failed
<1>7. CASE UNCHANGED executorVars
    BY <1>1, <1>7 DEF executorVars
<1> QED  BY <1>5, <1>6, <1>7 DEF ExecutorNext

\* What is stopped stays stopped.
LEMMA StoppedStays ==
    ASSUME ExecutorInv, [ExecutorNext]_executorVars, NEW i \in Intents, Stopped(i)
    PROVE  Stopped(i)'
<1>1. rules'[i].revoked
    BY TablesMove DEF Forward, Stopped
<1>2. SentFor(i)' = {}
    <2>1. SentFor(i)' \subseteq Deposits
        BY DEF SentFor
    <2> QED  BY <2>1, SendsAttempted DEF Stopped
<1>3. ~InFlight(i)'
    <2>1. CASE UNCHANGED watchers
        BY <2>1 DEF Stopped, InFlight
    <2>2. ASSUME NEW w \in Watchers, Onward(w)
          PROVE  ~InFlight(i)'
        <3>1. PICK r : /\ watchers' = [watchers EXCEPT ![w] = r]
                       /\ r.pc \in Attempting =>
                             \/ watchers[w].pc \in Attempting /\ r.intent = watchers[w].intent
                             \/ ~rules[r.intent].revoked
            BY <2>2 DEF Onward
        <3>2. \A v \in Watchers : watchers'[v] = IF v = w THEN r ELSE watchers[v]
            BY <3>1 DEF ExecutorInv, Typed, ExecutorTypeOK
        <3> QED  BY <3>1, <3>2 DEF Stopped, InFlight, Attempting
    <2>3. CASE Surroundings \/ UNCHANGED executorVars
        BY <2>1, <2>3 DEF Surroundings, executorVars
    <2> QED  BY <2>2, <2>3, StepsOnward DEF ExecutorNext, ExecutorInv
<1> QED  BY <1>1, <1>2, <1>3 DEF Stopped

-----------------------------------------------------------------------------
(* The theorems. *)

LEMMA StatusSteps == StatusInv /\ [StatusNext]_statusVars => StatusInv'
<1> SUFFICES ASSUME StatusInv, [StatusNext]_statusVars
             PROVE  StatusInv'
    OBVIOUS
<1>1. CASE QueryStep
    <2>1. UNCHANGED executorVars
        BY <1>1 DEF QueryStep, Ask, ReadFunding, ReadRule, QueryFails
    <2>2. ExecutorInv'
        BY <2>1, ExecutorSteps DEF StatusInv
    <2>3. \A i \in Intents : RuleOK(rules'[i])
        BY <2>1 DEF StatusInv, executorVars
    <2> QED  BY <1>1, <2>2, <2>3, QueryKeeps DEF StatusInv
<1>2. CASE [ExecutorNext]_executorVars /\ UNCHANGED query
    BY <1>2, ExecutorLeavesQuery
<1> QED  BY <1>1, <1>2 DEF StatusNext, statusVars

LEMMA StatusInvAlways == StatusSpec => []StatusInv
BY StatusInitially, StatusSteps, PTL DEF StatusSpec

\* An answer of get_intent_status never contradicts itself, a terminal answer
\* stays true, and a hash is answered with its own data only, whatever the
\* watchers write between the two SELECTs (query_intent_status).
THEOREM StatusIsCoherentAlways == StatusSpec => []StatusIsCoherent
<1>1. StatusInv => StatusIsCoherent
    BY DEF StatusInv, QueryOK, ResponseOK, StatusIsCoherent
<1> QED  BY <1>1, StatusInvAlways, PTL

\* Once a rule is revoked and no attempt on it has passed its final
\* revalidation, nothing is ever broadcast for the intent (revalidate_one reads
\* the rule again; the lease does not).
THEOREM RevocationIsHonouredAlways == StatusSpec => RevocationIsHonoured
<1>1. ASSUME NEW i \in Intents
      PROVE  StatusSpec => [](Stopped(i) => [](SentFor(i) = {}))
    <2>1. StatusInv /\ Stopped(i) /\ [StatusNext]_statusVars => Stopped(i)'
        <3> SUFFICES ASSUME StatusInv, Stopped(i), [StatusNext]_statusVars
                     PROVE  Stopped(i)'
            OBVIOUS
        <3>1. [ExecutorNext]_executorVars
            BY DEF StatusNext, statusVars, QueryStep, Ask, ReadFunding, ReadRule, QueryFails
        <3> QED  BY <3>1, StoppedStays DEF StatusInv
    <2>2. Stopped(i) => SentFor(i) = {}
        BY DEF Stopped
    <2> QED  BY <2>1, <2>2, StatusInvAlways, PTL DEF StatusSpec
<1> QED  BY <1>1 DEF RevocationIsHonoured, Stopped

-----------------------------------------------------------------------------
(* The executor as a caller of the table. *)

\* The clock sample of a lease was taken, and a submitted row names its payment.
SampledInv ==
    /\ \A w \in Watchers : watchers[w].pc = "lease" => watchers[w].t \in Sampled
    /\ \A i \in Intents : intents[i].status = "funding_submitted" => intents[i].fsig \in Sigs

\* Whatever the executor and its surroundings do to the funding table is one
\* call of a method of the repository.  The lease uses a clock sample from
\* before the compare-and-set, never one from the future.
LEMMA ExecutorCallsTable ==
    ASSUME Typed, SampledInv, [ExecutorNext]_executorVars
    PROVE  [FundingNext]_fundingVars
<1>1. ASSUME UNCHANGED <<intents, now>>
      PROVE  [FundingNext]_fundingVars
    BY <1>1 DEF fundingVars
<1>2. ASSUME NEW i \in Intents, Update(i), UNCHANGED now
      PROVE  [FundingNext]_fundingVars
    BY <1>2 DEF FundingNext
<1>3. ASSUME NEW i \in Intents, Reserve(i)
      PROVE  [FundingNext]_fundingVars
    <2>1. intents[i].fsig \in Sigs
        BY <1>3 DEF Reserve, mark_budget_reserved_if_submitted, SubmittedWith, SampledInv
    <2>2. slot \in Slots
        BY DEF Typed, ExecutorTypeOK
    <2>3. Update(i)
        BY <1>3, <2>1, <2>2 DEF Reserve, Update
    <2> QED  BY <1>2, <1>3, <2>3 DEF Reserve
<1>4. CASE Surroundings
    <2>1. CASE Tick
        BY <2>1 DEF FundingNext
    <2>2. CASE NextSlot /\ UNCHANGED <<intents, now>>
        BY <1>1, <2>2
    <2>3. CASE \E i \in Intents : Revoke(i)
        BY <1>1, <2>3 DEF Revoke
    <2>4. CASE \E s \in Deposits : ChainStep(s)
        BY <1>1, <2>4 DEF ChainStep
    <2> QED  BY <1>3, <1>4, <2>1, <2>2, <2>3, <2>4 DEF Surroundings, ClocksAdvance
<1>5. ASSUME NEW w \in Watchers, scan_cycle(w) \/ Attempt(w) \/ StoreFails(w) \/ Crash(w)
      PROVE  [FundingNext]_fundingVars
    <2> DEFINE i == watchers[w].intent
               s == watchers[w].sig
               t == watchers[w].t
    <2>1. now' = now
        BY <1>5 DEF scan_cycle, Attempt, Revalidate, ValidateChain, SampleClock, Lease, Sign,
                    release_prebroadcast_failure, Send, poll_finalized, CompleteRule,
                    CompleteFunding, mark_onchain_failed, StoreFails, Crash, outside
    <2>2. /\ watchers[w].pc \in Attempting => i \in Intents
          /\ watchers[w].pc = "completeFunding" => s \in Sigs
          /\ watchers[w].pc = "lease" => t \in Sampled
        BY DepositsAssumption DEF Typed, PositionInv, Observing, SampledInv
    <2> HIDE DEF i, s, t
    <2>3. CASE At(w, "lease") /\ lease_execution_if_budget_reserved(i, t)
        BY <1>2, <2>1, <2>2, <2>3 DEF Update, At, Attempting
    <2>4. CASE At(w, "release") /\ release_execution_lease_to_budget_reserved(i)
        BY <1>2, <2>1, <2>2, <2>4 DEF Update, At, Attempting, Holding
    <2>5. CASE At(w, "completeFunding") /\ mark_completed_if_executing(i, s)
        BY <1>2, <2>1, <2>2, <2>5 DEF Update, At, Attempting, Holding
    <2>6. CASE At(w, "fail") /\ mark_failed(i)
        BY <1>2, <2>1, <2>2, <2>6 DEF Update, At, Attempting, Holding
    <2>7. CASE UNCHANGED intents
        BY <1>1, <2>1, <2>7
    <2>8. ASSUME Attempt(w)
          PROVE  \/ At(w, "lease") /\ lease_execution_if_budget_reserved(i, t)
                 \/ At(w, "release") /\ release_execution_lease_to_budget_reserved(i)
                 \/ At(w, "completeFunding") /\ mark_completed_if_executing(i, s)
                 \/ At(w, "fail") /\ mark_failed(i)
                 \/ UNCHANGED intents
        BY <2>8 DEF Attempt, Revalidate, ValidateChain, SampleClock, Lease, Sign,
                    release_prebroadcast_failure, Send, poll_finalized, CompleteRule,
                    CompleteFunding, mark_onchain_failed, i, s, t
    <2>9. CASE StoreFails(w)
        BY <2>3, <2>4, <2>5, <2>6, <2>7, <2>9 DEF StoreFails, ExecutionStatePort, i, s, t
    <2>10. CASE scan_cycle(w) \/ Crash(w)
        BY <2>7, <2>10 DEF scan_cycle, Crash
    <2> QED  BY <1>5, <2>3, <2>4, <2>5, <2>6, <2>7, <2>8, <2>9, <2>10
<1>6. CASE UNCHANGED executorVars
    BY <1>1, <1>6 DEF executorVars
<1> QED  BY <1>4, <1>5, <1>6 DEF ExecutorNext

\* A watcher that gets to the lease has just sampled the clock.
LEMMA StepsSample ==
    ASSUME Typed, NEW w \in Watchers,
           scan_cycle(w) \/ Attempt(w) \/ StoreFails(w) \/ Crash(w)
    PROVE  \E r : watchers' = [watchers EXCEPT ![w] = r] /\ (r.pc = "lease" => r.t = now)
<1> DEFINE Samples == \E r : /\ watchers' = [watchers EXCEPT ![w] = r]
                             /\ r.pc = "lease" => r.t = now
<1>0. watchers \in [Watchers -> Watcher]
    BY DEF Typed, ExecutorTypeOK
<1>1. ASSUME Retreats(w)
      PROVE  Samples
    BY <1>1 DEF Retreats
<1>2. CASE EndAttempt(w)
    BY <1>1, <1>2, EndAttemptRetreats
<1>3. ASSUME NEW pc \in {"clock"} \cup Holding, Goto(w, pc)
      PROVE  Samples
    <2>1. Advances(w, pc) /\ pc # "lease"
        BY <1>3, GotoAdvances DEF Holding
    <2> QED  BY <2>1 DEF Advances
<1>4. CASE scan_cycle(w) \/ Crash(w)
    <2>1. CASE \E ready \in SUBSET Intents : NextCandidate(w, ready)
        BY <1>1, <2>1, NextCandidateMoves DEF Retreats
    <2>2. IdleWatcher.pc = "idle"
        BY DEF IdleWatcher
    <2> QED  BY <1>4, <2>1, <2>2
             DEF scan_cycle, Crash, execute_ready_intent_ids, list_budget_reserved
<1>5. CASE Revalidate(w)
    <2>1. PICK i \in watchers[w].ready :
             IF preflight_candidate(i)
             THEN watchers' = [watchers EXCEPT ![w].pc = "chain",
                                               ![w].ready = @ \ {i},
                                               ![w].intent = i]
             ELSE NextCandidate(w, watchers[w].ready \ {i})
        BY <1>5 DEF Revalidate
    <2>2. CASE NextCandidate(w, watchers[w].ready \ {i})
        <3>1. watchers[w].ready \ {i} \in SUBSET Intents
            BY <1>0 DEF Watcher
        <3> QED  BY <1>1, <2>2, <3>1, NextCandidateMoves DEF Retreats
    <2>3. CASE preflight_candidate(i)
        <3> DEFINE r == [watchers[w] EXCEPT !.pc = "chain", !.ready = @ \ {i}, !.intent = i]
        <3>1. watchers' = [watchers EXCEPT ![w] = r] /\ r.pc = "chain"
            BY <1>0, <2>1, <2>3 DEF Watcher
        <3> HIDE DEF r
        <3> QED  BY <3>1
    <2> QED  BY <2>1, <2>2, <2>3
<1>6. CASE SampleClock(w)
    <2> DEFINE r == [watchers[w] EXCEPT !.pc = "lease", !.t = now]
    <2>1. watchers' = [watchers EXCEPT ![w] = r] /\ r.t = now
        BY <1>0, <1>6 DEF SampleClock, Watcher
    <2> HIDE DEF r
    <2> QED  BY <2>1
<1>7. CASE Sign(w)
    <2>1. ASSUME NEW x, watchers' = [watchers EXCEPT ![w].pc = "send", ![w].sig = x]
          PROVE  Samples
        <3> DEFINE r == [watchers[w] EXCEPT !.pc = "send", !.sig = x]
        <3>1. watchers' = [watchers EXCEPT ![w] = r] /\ r.pc = "send"
            BY <1>0, <2>1 DEF Watcher
        <3> HIDE DEF r
        <3> QED  BY <3>1
    <2>2. ASSUME NEW x, watchers' = [watchers EXCEPT ![w].pc = "release", ![w].ready = x]
          PROVE  Samples
        <3> DEFINE r == [watchers[w] EXCEPT !.pc = "release", !.ready = x]
        <3>1. watchers' = [watchers EXCEPT ![w] = r] /\ r.pc = "release"
            BY <1>0, <2>2 DEF Watcher
        <3> HIDE DEF r
        <3> QED  BY <3>1
    <2> QED  BY <1>7, <2>1, <2>2 DEF Sign
<1>8. CASE poll_finalized(w)
    <2>1. ASSUME NEW n, NEW m, watchers' = [watchers EXCEPT ![w].polls = n, ![w].errors = m]
          PROVE  Samples
        <3> DEFINE r == [watchers[w] EXCEPT !.polls = n, !.errors = m]
        <3>1. watchers' = [watchers EXCEPT ![w] = r] /\ r.pc = "poll"
            BY <1>0, <1>8, <2>1 DEF poll_finalized, At, Watcher
        <3> HIDE DEF r
        <3> QED  BY <3>1
    <2>2. \/ EndAttempt(w)
          \/ \E pc \in {"completeRule", "fail"} : Goto(w, pc)
          \/ \E n, m : watchers' = [watchers EXCEPT ![w].polls = n, ![w].errors = m]
        BY <1>8 DEF poll_finalized
    <2> QED  BY <1>2, <1>3, <2>1, <2>2 DEF Holding
<1>9. CASE ValidateChain(w) \/ Lease(w) \/ Send(w) \/ CompleteRule(w)
    BY <1>2, <1>3, <1>9 DEF ValidateChain, Lease, Send, CompleteRule, EndAttempt, Holding
<1>10. CASE release_prebroadcast_failure(w) \/ CompleteFunding(w) \/ mark_onchain_failed(w)
               \/ StoreFails(w)
    BY <1>2, <1>10
    DEF release_prebroadcast_failure, CompleteFunding, mark_onchain_failed, StoreFails
<1> QED  BY <1>4, <1>5, <1>6, <1>7, <1>8, <1>9, <1>10 DEF Attempt

\* Only mark_funding_submitted_if_required makes a row a submitted one.
LEMMA SubmittedNamesPayment ==
    ASSUME FundingTypeOK, NEW i \in Intents, Update(i),
           intents'[i].status = "funding_submitted"
    PROVE  intents'[i].fsig \in Sigs
<1> USE DEF FundingTypeOK, Row
<1>1. ASSUME NEW sig \in Sigs, mark_funding_submitted_if_required(i, sig)
      PROVE  intents'[i].fsig \in Sigs
    BY <1>1 DEF mark_funding_submitted_if_required
<1>2. ASSUME \/ \E w, h, e : insert(i, w, h, e)
             \/ \E s, t : mark_budget_reserved_if_submitted(i, s, t)
             \/ \E s : mark_funding_invalid_if_submitted(i, s)
             \/ \E t : lease_execution_if_budget_reserved(i, t)
             \/ \E s : mark_completed_if_executing(i, s)
             \/ release_execution_lease_to_budget_reserved(i)
             \/ \E t : mark_expired_if_past(i, t)
             \/ \E t : lease_refund_if_expired_or_past(i, t)
             \/ \E s : mark_refunded_if_refunding(i, s)
             \/ mark_failed(i)
      PROVE  intents'[i].status # "funding_submitted"
    BY <1>2 DEF insert, mark_budget_reserved_if_submitted,
                mark_funding_invalid_if_submitted, lease_execution_if_budget_reserved,
                mark_completed_if_executing, release_execution_lease_to_budget_reserved,
                mark_expired_if_past, lease_refund_if_expired_or_past,
                mark_refunded_if_refunding, mark_failed
<1> QED  BY <1>1, <1>2 DEF Update

\* Every step keeps the samples in the past and the payments named.
LEMMA SampledSteps ==
    ASSUME Typed, SampledInv, [ExecutorNext]_executorVars
    PROVE  SampledInv'
<1>0. /\ FundingTypeOK /\ now \in Nat /\ watchers \in [Watchers -> Watcher]
      /\ \A w \in Watchers : watchers[w].t \in Nat
    BY DEF Typed, ExecutorTypeOK, FundingTypeOK, Watcher
<1>1. now' \in Nat /\ now <= now'
    BY <1>0, MaxNowAssumption, ExecutorCallsTable DEF FundingNext, Tick, fundingVars
<1>2. ASSUME NEW w \in Watchers, watchers'[w].pc = "lease"
      PROVE  watchers'[w].t \in Sampled'
    <2>1. watchers'[w].t = now \/ watchers'[w] = watchers[w]
        <3>1. ASSUME NEW v \in Watchers,
                     scan_cycle(v) \/ Attempt(v) \/ StoreFails(v) \/ Crash(v)
              PROVE  watchers'[w].t = now \/ watchers'[w] = watchers[w]
            BY <1>0, <1>2, <3>1, StepsSample
        <3>2. CASE Surroundings \/ UNCHANGED executorVars
            BY <3>2 DEF Surroundings, executorVars
        <3> QED  BY <3>1, <3>2 DEF ExecutorNext
    <2>2. CASE watchers'[w].t = now
        BY <1>0, <1>1, <2>2 DEF Sampled
    <2>3. CASE watchers'[w] = watchers[w]
        BY <1>0, <1>1, <1>2, <2>3 DEF Sampled, SampledInv
    <2> QED  BY <2>1, <2>2, <2>3
<1>3. ASSUME NEW i \in Intents, intents'[i].status = "funding_submitted"
      PROVE  intents'[i].fsig \in Sigs
    <2>1. CASE intents'[i] = intents[i]
        BY <1>3, <2>1 DEF SampledInv
    <2>2. ASSUME NEW j \in Intents, Update(j)
          PROVE  intents'[i].fsig \in Sigs
        BY <1>0, <1>3, <2>1, <2>2, OneRow, SubmittedNamesPayment
    <2> QED  BY <2>1, <2>2, ExecutorCallsTable DEF FundingNext, Tick, fundingVars
<1> QED  BY <1>2, <1>3 DEF SampledInv

\* The executor finds intents that were paid for and not yet reserved.
LEMMA ExecutorInitUnfunded ==
    ASSUME ExecutorInit
    PROVE  LeftUnfunded /\ SampledInv
<1>1. PICK payment \in [Intents -> Sigs \ Deposits] :
         intents = [i \in Intents |-> SubmittedIntent(payment[i])]
    BY DEF ExecutorInit
<1>2. ASSUME NEW pay
      PROVE  /\ SubmittedIntent(pay).status = "funding_submitted"
             /\ SubmittedIntent(pay).fsig = pay /\ SubmittedIntent(pay).fslot = NULL
             /\ SubmittedIntent(pay).esig = NULL /\ SubmittedIntent(pay).rsig = NULL
    BY DEF SubmittedIntent, NoRow
<1>3. FundingTypeOK
    BY ExecutorInitTyped DEF Typed, ExecutorTypeOK
<1>4. LeftUnfunded
    BY <1>1, <1>2, <1>3 DEF LeftUnfunded, Unpaid
<1>5. ASSUME NEW w \in Watchers
      PROVE  watchers[w].pc # "lease"
    BY DEF ExecutorInit, IdleWatcher
<1> QED  BY <1>1, <1>2, <1>4, <1>5 DEF SampledInv

\* Whatever watchers do, however they fail and are restarted, they keep every
\* promise of the table: no budget is held, spent or returned without its
\* payment on record, none is both spent and returned, nothing leaves a
\* terminal status, and each budget moves as the custody contract says.
THEOREM ExecutorKeepsPromises == ExecutorSpec => TablePromises
<1>1. ExecutorInv /\ SampledInv /\ [ExecutorNext]_executorVars
         => SampledInv' /\ [FundingNext]_fundingVars
    BY SampledSteps, ExecutorCallsTable DEF ExecutorInv
<1>2. ExecutorInit => LeftUnfunded /\ SampledInv
    BY ExecutorInitUnfunded
<1> QED  BY <1>1, <1>2, ExecutorSafe, CallersKeepPromises, PTL DEF ExecutorSpec

=============================================================================
