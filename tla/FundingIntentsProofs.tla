------------------------ MODULE FundingIntentsProofs ------------------------
(***************************************************************************)
(* What the funding table guarantees, for every set of intents, signatures *)
(* and slots and every lifetime.  The three safety invariants, with the    *)
(* types, are inductive together.                                          *)
(*                                                                         *)
(* CallersKeepPromises carries these results over to the processes of the  *)
(* rail: each of them owes a proof that it only calls the table's methods. *)
(***************************************************************************)
EXTENDS FundingIntents, TLAPS

FundingInv ==
    /\ FundingTypeOK
    /\ FundedHasEvidence
    /\ SettledOnce
    /\ RefundOnlyAfterDeadline

\* An empty table satisfies the invariant.
LEMMA FundingInitInv == FundingInit => FundingInv
BY NullAssumption, FundingNullAssumption
   DEF FundingInit, FundingInv, FundingTypeOK, FundedHasEvidence, SettledOnce,
       RefundOnlyAfterDeadline, NoRow, Row, Status, Funded

\* The row that mark_funding_submitted_if_required writes is a row.
LEMMA SubmittedRow ==
    ASSUME NEW row \in Row, NEW sig \in Sigs
    PROVE  [row EXCEPT !.status = "funding_submitted", !.fsig = sig] \in Row
BY DEF Row, Status

\* The row that mark_budget_reserved_if_submitted writes is a row.
LEMMA ReservedRow ==
    ASSUME NEW row \in Row, NEW slot \in Slots
    PROVE  [row EXCEPT !.status = "budget_reserved", !.fslot = slot] \in Row
BY DEF Row, Status

\* Every statement of the repository, with any clock sample, keeps it.
LEMMA FundingUpdateInv ==
    ASSUME FundingInv, NEW i \in Intents, Update(i), UNCHANGED now
    PROVE  FundingInv'
<1> USE NullAssumption, FundingNullAssumption, LifetimeAssumption
    DEF FundingInv, FundingTypeOK, FundedHasEvidence, SettledOnce,
        RefundOnlyAfterDeadline, Row, Status, Funded, Sampled
<1>1. ASSUME NEW wallet \in Wallets, NEW hash \in Slots, NEW t \in Sampled,
             insert(i, wallet, hash, t + Lifetime)
      PROVE  FundingInv'
  BY <1>1 DEF insert, CanInsert, NoRow
<1>2. ASSUME NEW sig \in Sigs, mark_funding_submitted_if_required(i, sig)
      PROVE  FundingInv'
  <2> USE <1>2 DEF mark_funding_submitted_if_required, CanSubmitFunding
  <2>0. intents' = [intents EXCEPT ![i] =
             [intents[i] EXCEPT !.status = "funding_submitted", !.fsig = sig]]
    OBVIOUS
  <2>1. FundingTypeOK'
    <3>1. [intents[i] EXCEPT !.status = "funding_submitted", !.fsig = sig] \in Row
      BY SubmittedRow
    <3> QED
      BY <2>0, <3>1
  <2>2. FundedHasEvidence'
    OBVIOUS
  <2>3. SettledOnce'
    OBVIOUS
  <2>4. RefundOnlyAfterDeadline'
    OBVIOUS
  <2> QED
    BY <2>1, <2>2, <2>3, <2>4
<1>3. ASSUME NEW sig \in Sigs, NEW slot \in Slots,
             mark_budget_reserved_if_submitted(i, sig, slot)
      PROVE  FundingInv'
  <2> USE <1>3 DEF mark_budget_reserved_if_submitted, SubmittedWith
  <2>0. intents' = [intents EXCEPT ![i] =
             [intents[i] EXCEPT !.status = "budget_reserved", !.fslot = slot]]
    OBVIOUS
  <2>1. FundingTypeOK'
    <3>1. [intents[i] EXCEPT !.status = "budget_reserved", !.fslot = slot] \in Row
      BY ReservedRow
    <3> QED
      BY <2>0, <3>1
  <2>2. FundedHasEvidence'
    OBVIOUS
  <2>3. SettledOnce'
    OBVIOUS
  <2>4. RefundOnlyAfterDeadline'
    OBVIOUS
  <2> QED
    BY <2>1, <2>2, <2>3, <2>4
<1>4. ASSUME NEW sig \in Sigs, mark_funding_invalid_if_submitted(i, sig)
      PROVE  FundingInv'
  BY <1>4 DEF mark_funding_invalid_if_submitted, SubmittedWith
<1>5. ASSUME NEW t \in Sampled, lease_execution_if_budget_reserved(i, t)
      PROVE  FundingInv'
  BY <1>5 DEF lease_execution_if_budget_reserved, CanLeaseExecution
<1>6. ASSUME NEW sig \in Sigs, mark_completed_if_executing(i, sig)
      PROVE  FundingInv'
  BY <1>6 DEF mark_completed_if_executing, IsExecuting
<1>7. ASSUME release_execution_lease_to_budget_reserved(i)
      PROVE  FundingInv'
  BY <1>7 DEF release_execution_lease_to_budget_reserved, IsExecuting
<1>8. ASSUME NEW t \in Sampled, mark_expired_if_past(i, t)
      PROVE  FundingInv'
  BY <1>8 DEF mark_expired_if_past
<1>9. ASSUME NEW t \in Sampled, lease_refund_if_expired_or_past(i, t)
      PROVE  FundingInv'
  BY <1>9 DEF lease_refund_if_expired_or_past, CanLeaseRefund
<1>10. ASSUME NEW sig \in Sigs, mark_refunded_if_refunding(i, sig)
       PROVE  FundingInv'
  BY <1>10 DEF mark_refunded_if_refunding
<1>11. ASSUME mark_failed(i)
       PROVE  FundingInv'
  BY <1>11 DEF mark_failed, CanMarkFailed, is_terminal
<1> QED
  BY <1>1, <1>2, <1>3, <1>4, <1>5, <1>6, <1>7, <1>8, <1>9, <1>10, <1>11
  DEF Update

\* So does every step of the repository, the clock included.
LEMMA FundingStepInv == FundingInv /\ [FundingNext]_fundingVars => FundingInv'
<1> SUFFICES ASSUME FundingInv, [FundingNext]_fundingVars
             PROVE  FundingInv'
  OBVIOUS
<1>1. CASE Tick
  BY <1>1, MaxNowAssumption
  DEF Tick, FundingInv, FundingTypeOK, FundedHasEvidence, SettledOnce,
      RefundOnlyAfterDeadline, Row
<1>2. ASSUME NEW i \in Intents, Update(i), UNCHANGED now
      PROVE  FundingInv'
  BY <1>2, FundingUpdateInv
<1>3. CASE UNCHANGED fundingVars
  BY <1>3 DEF fundingVars, FundingInv, FundingTypeOK, FundedHasEvidence,
              SettledOnce, RefundOnlyAfterDeadline
<1> QED
  BY <1>1, <1>2, <1>3 DEF FundingNext

\* The invariant holds in every state of every behaviour of the repository.
THEOREM FundingSafe == FundingSpec => []FundingInv
BY FundingStepInv, FundingInitInv, PTL DEF FundingSpec

\* Types of the table and the clock.
THEOREM FundingTypes == FundingSpec => []FundingTypeOK
BY FundingSafe, PTL DEF FundingInv

\* Money is never held, spent or returned without the transaction that paid it.
THEOREM FundedHasEvidenceAlways == FundingSpec => []FundedHasEvidence
BY FundingSafe, PTL DEF FundingInv

\* The budget of an intent is spent or returned, never both.
THEOREM SettledOnceAlways == FundingSpec => []SettledOnce
BY FundingSafe, PTL DEF FundingInv

\* No refund begins before the deadline, whatever clock samples are used.
THEOREM RefundOnlyAfterDeadlineAlways == FundingSpec => []RefundOnlyAfterDeadline
BY FundingSafe, PTL DEF FundingInv

-----------------------------------------------------------------------------
\* A statement touches the row it names and no other.
LEMMA OneRow ==
    ASSUME FundingTypeOK, NEW i \in Intents, Update(i),
           NEW j \in Intents, j # i
    PROVE  intents'[j] = intents[j]
BY DEF FundingTypeOK, Update, insert, mark_funding_submitted_if_required,
       mark_budget_reserved_if_submitted, mark_funding_invalid_if_submitted,
       lease_execution_if_budget_reserved, mark_completed_if_executing,
       release_execution_lease_to_budget_reserved, mark_expired_if_past,
       lease_refund_if_expired_or_past, mark_refunded_if_refunding, mark_failed

\* The life cycle of a row: the status graph of migration 0012, with the
\* lease release, the direct refund of a reserved row and failure from any
\* status that is not terminal.
Edges ==
    {<<"absent", "funding_required">>,
     <<"funding_required", "funding_submitted">>,
     <<"funding_submitted", "funding_submitted">>,
     <<"funding_submitted", "budget_reserved">>,
     <<"funding_submitted", "funding_invalid">>,
     <<"budget_reserved", "executing">>,
     <<"executing", "completed">>,
     <<"executing", "budget_reserved">>,
     <<"budget_reserved", "expired">>,
     <<"budget_reserved", "refunding">>,
     <<"expired", "refunding">>,
     <<"refunding", "refunded">>}
    \cup {<<s, "failed">> : s \in Status \ is_terminal}

\* Every statement moves its row along an edge.
LEMMA UpdateIsEdge ==
    ASSUME FundingTypeOK, NEW i \in Intents, Update(i)
    PROVE  <<intents[i].status, intents'[i].status>> \in Edges
<1> USE DEF FundingTypeOK, Row
<1>1. ASSUME NEW wallet, NEW hash, NEW t, insert(i, wallet, hash, t)
      PROVE  /\ intents[i].status = "absent"
             /\ intents'[i].status = "funding_required"
  BY <1>1 DEF insert, CanInsert
<1>2. ASSUME NEW sig, mark_funding_submitted_if_required(i, sig)
      PROVE  /\ intents[i].status \in {"funding_required", "funding_submitted"}
             /\ intents'[i].status = "funding_submitted"
  BY <1>2 DEF mark_funding_submitted_if_required, CanSubmitFunding
<1>3. ASSUME NEW sig, NEW slot, mark_budget_reserved_if_submitted(i, sig, slot)
      PROVE  /\ intents[i].status = "funding_submitted"
             /\ intents'[i].status = "budget_reserved"
  BY <1>3 DEF mark_budget_reserved_if_submitted, SubmittedWith
<1>4. ASSUME NEW sig, mark_funding_invalid_if_submitted(i, sig)
      PROVE  /\ intents[i].status = "funding_submitted"
             /\ intents'[i].status = "funding_invalid"
  BY <1>4 DEF mark_funding_invalid_if_submitted, SubmittedWith
<1>5. ASSUME NEW t, lease_execution_if_budget_reserved(i, t)
      PROVE  /\ intents[i].status = "budget_reserved"
             /\ intents'[i].status = "executing"
  BY <1>5 DEF lease_execution_if_budget_reserved, CanLeaseExecution
<1>6. ASSUME NEW sig, mark_completed_if_executing(i, sig)
      PROVE  /\ intents[i].status = "executing"
             /\ intents'[i].status = "completed"
  BY <1>6 DEF mark_completed_if_executing, IsExecuting
<1>7. ASSUME release_execution_lease_to_budget_reserved(i)
      PROVE  /\ intents[i].status = "executing"
             /\ intents'[i].status = "budget_reserved"
  BY <1>7 DEF release_execution_lease_to_budget_reserved, IsExecuting
<1>8. ASSUME NEW t, mark_expired_if_past(i, t)
      PROVE  /\ intents[i].status = "budget_reserved"
             /\ intents'[i].status = "expired"
  BY <1>8 DEF mark_expired_if_past
<1>9. ASSUME NEW t, lease_refund_if_expired_or_past(i, t)
      PROVE  /\ intents[i].status \in {"budget_reserved", "expired"}
             /\ intents'[i].status = "refunding"
  BY <1>9 DEF lease_refund_if_expired_or_past, CanLeaseRefund
<1>10. ASSUME NEW sig, mark_refunded_if_refunding(i, sig)
       PROVE  /\ intents[i].status = "refunding"
              /\ intents'[i].status = "refunded"
  BY <1>10 DEF mark_refunded_if_refunding
<1>11. ASSUME mark_failed(i)
       PROVE  /\ intents[i].status \in Status \ is_terminal
              /\ intents'[i].status = "failed"
  BY <1>11 DEF mark_failed, CanMarkFailed, Status
<1> QED
  BY <1>1, <1>2, <1>3, <1>4, <1>5, <1>6, <1>7, <1>8, <1>9, <1>10, <1>11
  DEF Update, Edges

\* What TerminalIsFinal says of a step.
TerminalKept == \A i \in Intents :
    intents[i].status \in is_terminal => intents'[i] = intents[i]

\* No step changes a terminal row: no statement has one in its WHERE clause.
LEMMA FundingStepEnds == FundingInv /\ [FundingNext]_fundingVars => [TerminalKept]_fundingVars
<1> SUFFICES ASSUME FundingInv, FundingNext
             PROVE  TerminalKept
  OBVIOUS
<1>1. CASE Tick
  BY <1>1 DEF Tick, TerminalKept
<1>2. ASSUME NEW i \in Intents, Update(i)
      PROVE  TerminalKept
  <2>1. intents[i].status \notin is_terminal
    BY <1>2, UpdateIsEdge DEF FundingInv, Edges, is_terminal
  <2> QED
    BY <1>2, <2>1, OneRow DEF FundingInv, TerminalKept
<1> QED
  BY <1>1, <1>2 DEF FundingNext

\* A row in a terminal status never changes again.
THEOREM TerminalIsFinalAlways == FundingSpec => TerminalIsFinal
BY FundingStepEnds, FundingSafe, PTL DEF FundingSpec, TerminalIsFinal, TerminalKept

-----------------------------------------------------------------------------
(* The evidence of payment is written once. *)

\* Before a row is submitted it has no signature, before it is reserved no slot.
Unpaid(row) ==
    /\ row.status \in {"absent", "funding_required"} => row.fsig = NULL
    /\ row.status \in {"absent", "funding_required", "funding_submitted"}
          => row.fslot = NULL

\* What EvidenceIsFrozen says of one row.
Kept(old, new) ==
    old.status # "absent" =>
        /\ new.wallet = old.wallet
        /\ new.hash = old.hash
        /\ new.expires = old.expires
        /\ old.fsig # NULL => new.fsig = old.fsig
        /\ old.fslot # NULL => new.fslot = old.fslot

\* Every statement that finds a row unpaid in this sense leaves it so, and
\* keeps the evidence that is there.
LEMMA UpdateKeepsEvidence ==
    ASSUME FundingTypeOK, NEW i \in Intents, Unpaid(intents[i]), Update(i)
    PROVE  Unpaid(intents'[i]) /\ Kept(intents[i], intents'[i])
<1> DEFINE Goal == Unpaid(intents'[i]) /\ Kept(intents[i], intents'[i])
<1> USE DEF FundingTypeOK, Row, Unpaid, Kept
<1>1. ASSUME NEW wallet \in Wallets, NEW hash \in Slots, NEW t \in Sampled,
             insert(i, wallet, hash, t + Lifetime)
      PROVE  Goal
  BY <1>1 DEF insert, CanInsert
<1>2. ASSUME NEW sig \in Sigs, mark_funding_submitted_if_required(i, sig)
      PROVE  Goal
  BY <1>2 DEF mark_funding_submitted_if_required, CanSubmitFunding
<1>3. ASSUME NEW sig \in Sigs, NEW slot \in Slots,
             mark_budget_reserved_if_submitted(i, sig, slot)
      PROVE  Goal
  BY <1>3 DEF mark_budget_reserved_if_submitted, SubmittedWith
<1>4. ASSUME NEW sig \in Sigs, mark_funding_invalid_if_submitted(i, sig)
      PROVE  Goal
  BY <1>4 DEF mark_funding_invalid_if_submitted
<1>5. ASSUME NEW t \in Sampled, lease_execution_if_budget_reserved(i, t)
      PROVE  Goal
  BY <1>5 DEF lease_execution_if_budget_reserved
<1>6. ASSUME NEW sig \in Sigs, mark_completed_if_executing(i, sig)
      PROVE  Goal
  BY <1>6 DEF mark_completed_if_executing
<1>7. ASSUME release_execution_lease_to_budget_reserved(i)
      PROVE  Goal
  BY <1>7 DEF release_execution_lease_to_budget_reserved
<1>8. ASSUME NEW t \in Sampled, mark_expired_if_past(i, t)
      PROVE  Goal
  BY <1>8 DEF mark_expired_if_past
<1>9. ASSUME NEW t \in Sampled, lease_refund_if_expired_or_past(i, t)
      PROVE  Goal
  BY <1>9 DEF lease_refund_if_expired_or_past
<1>10. ASSUME NEW sig \in Sigs, mark_refunded_if_refunding(i, sig)
       PROVE  Goal
  BY <1>10 DEF mark_refunded_if_refunding
<1>11. ASSUME mark_failed(i)
       PROVE  Goal
  BY <1>11 DEF mark_failed
<1> QED
  BY <1>1, <1>2, <1>3, <1>4, <1>5, <1>6, <1>7, <1>8, <1>9, <1>10, <1>11
  DEF Update

AllUnpaid == \A i \in Intents : Unpaid(intents[i])

AllKept == \A i \in Intents : Kept(intents[i], intents'[i])

\* Every step keeps the evidence of every row.
LEMMA FundingStepKeepsEvidence ==
    FundingInv /\ AllUnpaid /\ [FundingNext]_fundingVars => AllUnpaid' /\ AllKept
<1> SUFFICES ASSUME FundingInv, AllUnpaid, [FundingNext]_fundingVars
             PROVE  AllUnpaid' /\ AllKept
  OBVIOUS
<1>1. CASE UNCHANGED intents
  BY <1>1 DEF AllUnpaid, AllKept, Unpaid, Kept
<1>2. ASSUME NEW i \in Intents, Update(i)
      PROVE  AllUnpaid' /\ AllKept
  <2>1. Unpaid(intents'[i]) /\ Kept(intents[i], intents'[i])
    BY <1>2, UpdateKeepsEvidence DEF FundingInv, AllUnpaid
  <2>2. \A j \in Intents : j # i => intents'[j] = intents[j]
    BY <1>2, OneRow DEF FundingInv
  <2>3. ASSUME NEW j \in Intents
        PROVE  Unpaid(intents'[j]) /\ Kept(intents[j], intents'[j])
    BY <2>1, <2>2 DEF AllUnpaid, Kept
  <2> QED
    BY <2>3 DEF AllUnpaid, AllKept, Unpaid
<1> QED
  BY <1>1, <1>2 DEF FundingNext, Tick, fundingVars

\* An empty table has no evidence yet.
LEMMA FundingInitUnpaid == FundingInit => AllUnpaid
<1>1. Unpaid(NoRow)
  BY DEF Unpaid, NoRow
<1> QED
  BY <1>1 DEF FundingInit, AllUnpaid

\* No statement edits what was fixed at creation, replaces the signature an
\* intent was submitted with, or moves the slot of its payment.
THEOREM EvidenceIsFrozenAlways == FundingSpec => EvidenceIsFrozen
<1>1. FundingInv /\ AllUnpaid /\ [FundingNext]_fundingVars
         => AllUnpaid' /\ [AllKept]_fundingVars
  BY FundingStepKeepsEvidence
<1>2. FundingSpec => [][AllKept]_fundingVars
  BY <1>1, FundingInitUnpaid, FundingSafe, PTL DEF FundingSpec
<1> QED
  BY <1>2 DEF EvidenceIsFrozen, AllKept, Kept

-----------------------------------------------------------------------------
(* Refinement: the table implements the custody contract. *)

CustodyBar == [i \in Intents |-> CustodyOf(intents[i].status)]

\* Seen from the contract, a change of status is one move of one budget, or
\* no move at all.
LEMMA EdgeIsCustodyStep ==
    ASSUME NEW from, NEW to, <<from, to>> \in Edges
    PROVE  \/ CustodyOf(from) = CustodyOf(to)
           \/ <<CustodyOf(from), CustodyOf(to)>> \in
                 {<<"none", "held">>, <<"held", "executing">>,
                  <<"executing", "held">>, <<"executing", "spent">>,
                  <<"held", "refunding">>, <<"refunding", "returned">>}
           \/ /\ CustodyOf(from) \in Custody!Hands \ Custody!Settled
              /\ CustodyOf(to) = "writtenOff"
BY DEF Edges, CustodyOf, Status, is_terminal, Custody!Hands, Custody!Settled

\* Every step of the table is a step of the contract.
LEMMA FundingStepMovesCustody ==
    FundingInv /\ [FundingNext]_fundingVars => [Custody!Next]_CustodyBar
<1> SUFFICES ASSUME FundingInv, [FundingNext]_fundingVars
             PROVE  Custody!Next \/ CustodyBar' = CustodyBar
  OBVIOUS
<1>1. CASE UNCHANGED intents
  BY <1>1 DEF CustodyBar
<1>2. ASSUME NEW i \in Intents, Update(i)
      PROVE  Custody!Next \/ CustodyBar' = CustodyBar
  <2> DEFINE from == CustodyOf(intents[i].status)
             to   == CustodyOf(intents'[i].status)
  <2>1. CustodyBar' = [CustodyBar EXCEPT ![i] = to]
    BY <1>2, OneRow DEF CustodyBar, FundingInv
  <2>2. CustodyBar[i] = from
    BY DEF CustodyBar
  <2>3. \A S : from \in S => Custody!Move(i, S, to)
    BY <2>1, <2>2 DEF Custody!Move, CustodyBar
  <2>4. \/ from = to
        \/ <<from, to>> \in
              {<<"none", "held">>, <<"held", "executing">>,
               <<"executing", "held">>, <<"executing", "spent">>,
               <<"held", "refunding">>, <<"refunding", "returned">>}
        \/ from \in Custody!Hands \ Custody!Settled /\ to = "writtenOff"
    BY <1>2, UpdateIsEdge, EdgeIsCustodyStep DEF FundingInv
  <2> QED
    BY <2>1, <2>2, <2>3, <2>4
    DEF CustodyBar, Custody!Next, Custody!Fund, Custody!LeaseExecution,
        Custody!ReleaseLease, Custody!Spend, Custody!LeaseRefund,
        Custody!Return, Custody!WriteOff
<1> QED
  BY <1>1, <1>2 DEF FundingNext, Tick, fundingVars

\* The table implements the race-safety contract of migration 0012.
THEOREM FundingImplementsCustody == FundingSpec => CustodyContract
<1>1. FundingInit => Custody!Init
  BY DEF FundingInit, Custody!Init, CustodyOf, NoRow
<1> QED
  BY <1>1, FundingStepMovesCustody, FundingSafe, PTL
  DEF FundingSpec, CustodyContract, Custody!Spec, CustodyBar

-----------------------------------------------------------------------------
(* For the processes that use the table.  Their behaviours begin with rows  *)
(* that earlier calls have left, and every step of theirs that touches the  *)
(* table is one of its statements: then what the table promises holds of    *)
(* the whole process.                                                       *)

\* Rows from before any money was received.
LeftUnfunded ==
    /\ FundingTypeOK
    /\ \A i \in Intents :
          /\ intents[i].status \in {"absent", "funding_required", "funding_submitted"}
          /\ Unpaid(intents[i])
          /\ intents[i].esig = NULL
          /\ intents[i].rsig = NULL

TablePromises ==
    /\ [](FundedHasEvidence /\ SettledOnce /\ RefundOnlyAfterDeadline)
    /\ TerminalIsFinal
    /\ EvidenceIsFrozen
    /\ CustodyContract

\* A process that starts on unfunded rows and touches them only by calling
\* the methods of the repository, with clock samples of its past, never
\* breaks a promise of the table.
THEOREM CallersKeepPromises ==
    LeftUnfunded /\ [][FundingNext]_fundingVars => TablePromises
<1>1. LeftUnfunded => FundingInv /\ AllUnpaid /\ Custody!Init
  <2> SUFFICES ASSUME LeftUnfunded
               PROVE  FundingInv /\ AllUnpaid /\ Custody!Init
    OBVIOUS
  <2>1. FundingInv
    BY DEF LeftUnfunded, FundingInv, FundedHasEvidence, SettledOnce,
           RefundOnlyAfterDeadline, Funded
  <2>2. AllUnpaid /\ Custody!Init
    BY DEF LeftUnfunded, AllUnpaid, Custody!Init, CustodyOf
  <2> QED
    BY <2>1, <2>2
<1>2. FundingInv /\ AllUnpaid /\ [FundingNext]_fundingVars
         => AllUnpaid' /\ [AllKept]_fundingVars
  BY FundingStepKeepsEvidence
<1>3. FundingInv => FundedHasEvidence /\ SettledOnce /\ RefundOnlyAfterDeadline
  BY DEF FundingInv
<1>4. LeftUnfunded /\ [][FundingNext]_fundingVars
         => /\ [](FundedHasEvidence /\ SettledOnce /\ RefundOnlyAfterDeadline)
            /\ [][TerminalKept]_fundingVars
            /\ [][AllKept]_fundingVars
            /\ Custody!Init /\ [][Custody!Next]_CustodyBar
  BY <1>1, <1>2, <1>3, FundingStepInv, FundingStepEnds, FundingStepMovesCustody, PTL
<1>5. [][TerminalKept]_fundingVars => TerminalIsFinal
  BY DEF TerminalIsFinal, TerminalKept
<1>6. [][AllKept]_fundingVars => EvidenceIsFrozen
  BY DEF EvidenceIsFrozen, AllKept, Kept
<1>7. Custody!Init /\ [][Custody!Next]_CustodyBar => CustodyContract
  BY DEF CustodyContract, Custody!Spec, CustodyBar
<1> QED
  BY <1>4, <1>5, <1>6, <1>7, PTL DEF TablePromises

=============================================================================
