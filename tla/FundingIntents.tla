--------------------------- MODULE FundingIntents ---------------------------
(***************************************************************************)
(* Stage2W5hFundingIntentRepository                                        *)
(* (crates/state-store/src/stage2_w5h_funding.rs): the table of funding    *)
(* intents, one row per intent id, and the guarded UPDATEs that are the    *)
(* only way a row changes.                                                 *)
(*                                                                         *)
(* Each UPDATE is one atomic SQLite statement.  Its WHERE clause is a      *)
(* predicate (CanLeaseExecution, ...), which handlers test to tell one     *)
(* affected row from none, and the operator that bears the method's name   *)
(* is the statement when it does affect the row.  A call that affects no   *)
(* row changes nothing.                                                    *)
(*                                                                         *)
(* Spec lets any caller call any method in any order, with any clock       *)
(* sample it may have taken earlier: it shows what the table guarantees    *)
(* with no discipline at all on the side of its callers.                   *)
(***************************************************************************)
EXTENDS Identifiers

CONSTANTS
    Wallets,    \* user wallets
    Sigs,       \* transaction signatures
    Lifetime,   \* FUNDING_WINDOW: expires_at_ms - created_at_ms
    MaxNow      \* bound on the clock

ASSUME FundingNullAssumption == NULL \notin Wallets \cup Sigs
ASSUME LifetimeAssumption == Lifetime \in Nat
ASSUME MaxNowAssumption == MaxNow \in Nat

VARIABLES
    intents,    \* the table: intent id -> row
    now         \* wall clock, milliseconds

fundingVars == <<intents, now>>

-----------------------------------------------------------------------------
(* Rows *)

Status == {"funding_required", "funding_submitted", "funding_invalid",
           "budget_reserved", "executing", "completed", "expired",
           "refunding", "refunded", "failed"}

is_terminal == {"funding_invalid", "completed", "refunded", "failed"}

\* The status "absent" stands for an intent id with no row.  The amount and
\* the threshold are what the id is made of, and the canonical rule of an id
\* is determined by the slot the rule was created at: that slot stands for
\* canonical_rule_hash_hex.
Row == [status  : Status \cup {"absent"},
        wallet  : Wallets \cup {NULL},   \* user_wallet
        hash    : Slots \cup {NULL},     \* canonical_rule_hash_hex
        expires : Nat,                   \* expires_at_ms
        fsig    : Sigs \cup {NULL},      \* funding_signature
        fslot   : Slots \cup {NULL},     \* funding_finalized_slot
        esig    : Sigs \cup {NULL},      \* execution_signature
        rsig    : Sigs \cup {NULL}]      \* refund_signature

NoRow == [status |-> "absent", wallet |-> NULL, hash |-> NULL, expires |-> 0,
          fsig |-> NULL, fslot |-> NULL, esig |-> NULL, rsig |-> NULL]

FundingInit ==
    /\ intents = [i \in Intents |-> NoRow]
    /\ now = 0

-----------------------------------------------------------------------------
(* The statements.  t is the caller's clock sample, taken before the call. *)

CanInsert(i) == intents[i].status = "absent"

insert(i, wallet, hash, expires) ==
    /\ CanInsert(i)
    /\ intents' = [intents EXCEPT ![i] =
          [status |-> "funding_required", wallet |-> wallet, hash |-> hash,
           expires |-> expires, fsig |-> NULL, fslot |-> NULL, esig |-> NULL,
           rsig |-> NULL]]

\* Mutant: a second signature replaces the first.
CanSubmitFunding_any_signature(i, sig) ==
    intents[i].status \in {"funding_required", "funding_submitted"}

\* Mutant: the statement is not idempotent.
CanSubmitFunding_first_only(i, sig) == intents[i].status = "funding_required"

CanSubmitFunding(i, sig) ==
    \/ intents[i].status = "funding_required"
    \/ /\ intents[i].status = "funding_submitted"
       /\ intents[i].fsig \in {NULL, sig}

mark_funding_submitted_if_required(i, sig) ==
    /\ CanSubmitFunding(i, sig)
    /\ intents' = [intents EXCEPT ![i].status = "funding_submitted",
                                  ![i].fsig = sig]

SubmittedWith(i, sig) ==
    /\ intents[i].status = "funding_submitted"
    /\ intents[i].fsig = sig

\* Mutant: the slot is not written.
mark_budget_reserved_without_slot(i, sig, slot) ==
    /\ SubmittedWith(i, sig)
    /\ intents' = [intents EXCEPT ![i].status = "budget_reserved"]

mark_budget_reserved_if_submitted(i, sig, slot) ==
    /\ SubmittedWith(i, sig)
    /\ intents' = [intents EXCEPT ![i].status = "budget_reserved",
                                  ![i].fslot = slot]

mark_funding_invalid_if_submitted(i, sig) ==
    /\ SubmittedWith(i, sig)
    /\ intents' = [intents EXCEPT ![i].status = "funding_invalid"]

\* Mutant: the deadline is tested and the status is not.
CanLeaseExecution_any_status(i, t) ==
    /\ intents[i].status \notin is_terminal \cup {"absent"}
    /\ intents[i].expires > t

CanLeaseExecution(i, t) ==
    /\ intents[i].status = "budget_reserved"
    /\ intents[i].expires > t

lease_execution_if_budget_reserved(i, t) ==
    /\ CanLeaseExecution(i, t)
    /\ intents' = [intents EXCEPT ![i].status = "executing"]

\* Mutant: the row exists, whatever its status.
IsExecuting_any_status(i) == intents[i].status # "absent"

IsExecuting(i) == intents[i].status = "executing"

mark_completed_if_executing(i, sig) ==
    /\ IsExecuting(i)
    /\ intents' = [intents EXCEPT ![i].status = "completed",
                                  ![i].esig = sig]

release_execution_lease_to_budget_reserved(i) ==
    /\ IsExecuting(i)
    /\ intents' = [intents EXCEPT ![i].status = "budget_reserved"]

mark_expired_if_past(i, t) ==
    /\ intents[i].status = "budget_reserved"
    /\ intents[i].expires <= t
    /\ intents' = [intents EXCEPT ![i].status = "expired"]

\* Mutant: the deadline is not tested.
CanLeaseRefund_any_time(i, t) ==
    intents[i].status \in {"budget_reserved", "expired"}

CanLeaseRefund(i, t) ==
    /\ intents[i].status \in {"budget_reserved", "expired"}
    /\ intents[i].expires <= t

lease_refund_if_expired_or_past(i, t) ==
    /\ CanLeaseRefund(i, t)
    /\ intents' = [intents EXCEPT ![i].status = "refunding"]

mark_refunded_if_refunding(i, sig) ==
    /\ intents[i].status = "refunding"
    /\ intents' = [intents EXCEPT ![i].status = "refunded",
                                  ![i].rsig = sig]

\* Mutant: terminal rows fail too.
CanMarkFailed_terminal_too(i) == intents[i].status # "absent"

CanMarkFailed(i) == intents[i].status \notin is_terminal \cup {"absent"}

\* Mutant: a status that the enum does not know.
mark_failed_unknown_status(i) ==
    /\ CanMarkFailed(i)
    /\ intents' = [intents EXCEPT ![i].status = "error"]

mark_failed(i) ==
    /\ CanMarkFailed(i)
    /\ intents' = [intents EXCEPT ![i].status = "failed"]

-----------------------------------------------------------------------------
(* Any caller, any order. *)

Tick ==
    /\ now < MaxNow
    /\ now' = now + 1
    /\ UNCHANGED intents

\* A clock sample of some caller: taken at or before this moment.
Sampled == 0 .. now

Update(i) ==
    \/ \E wallet \in Wallets, hash \in Slots, t \in Sampled :
          insert(i, wallet, hash, t + Lifetime)
    \/ \E sig \in Sigs : mark_funding_submitted_if_required(i, sig)
    \/ \E sig \in Sigs, slot \in Slots :
          mark_budget_reserved_if_submitted(i, sig, slot)
    \/ \E sig \in Sigs : mark_funding_invalid_if_submitted(i, sig)
    \/ \E t \in Sampled : lease_execution_if_budget_reserved(i, t)
    \/ \E sig \in Sigs : mark_completed_if_executing(i, sig)
    \/ release_execution_lease_to_budget_reserved(i)
    \/ \E t \in Sampled : mark_expired_if_past(i, t)
    \/ \E t \in Sampled : lease_refund_if_expired_or_past(i, t)
    \/ \E sig \in Sigs : mark_refunded_if_refunding(i, sig)
    \/ mark_failed(i)

FundingNext ==
    \/ Tick
    \/ \E i \in Intents : Update(i) /\ UNCHANGED now

FundingSpec == FundingInit /\ [][FundingNext]_fundingVars

-----------------------------------------------------------------------------
(* Properties *)

FundingTypeOK ==
    /\ intents \in [Intents -> Row]
    /\ now \in Nat

\* Statuses in which the controlled wallet holds, or has already passed on,
\* the user's money.
Funded == {"budget_reserved", "executing", "completed", "expired",
           "refunding", "refunded"}

\* No path through the table reaches a funded status without the signature
\* and the slot of the transaction that paid for it: the evidence the
\* executor and the refund route act on.
FundedHasEvidence ==
    \A i \in Intents : intents[i].status \in Funded =>
        /\ intents[i].fsig # NULL
        /\ intents[i].fslot # NULL

\* The execution and the refund leases exclude each other for good: the two
\* signatures that say where the budget went are never both present, and each
\* one is present exactly in its own terminal status.
SettledOnce ==
    \A i \in Intents :
        /\ intents[i].esig # NULL <=> intents[i].status = "completed"
        /\ intents[i].rsig # NULL <=> intents[i].status = "refunded"

\* Whatever stale clock samples callers use, no row is expired, refunding or
\* refunded before its deadline has really passed.
RefundOnlyAfterDeadline ==
    \A i \in Intents :
        intents[i].status \in {"expired", "refunding", "refunded"}
            => intents[i].expires <= now

\* "Terminal statuses: the intent will not change again" (is_terminal).
TerminalIsFinal ==
    [][\A i \in Intents : intents[i].status \in is_terminal
                             => intents'[i] = intents[i]]_fundingVars

\* The columns fixed at creation, the deadline among them, are never edited,
\* the first signature an intent is submitted with is never replaced, and the
\* slot is written once.
EvidenceIsFrozen ==
    [][\A i \in Intents : intents[i].status # "absent" =>
          /\ intents'[i].wallet = intents[i].wallet
          /\ intents'[i].hash = intents[i].hash
          /\ intents'[i].expires = intents[i].expires
          /\ intents[i].fsig # NULL => intents'[i].fsig = intents[i].fsig
          /\ intents[i].fslot # NULL => intents'[i].fslot = intents[i].fslot
      ]_fundingVars

\* Who has the budget of an intent with this status.
CustodyOf(status) ==
    CASE status \in {"absent", "funding_required", "funding_submitted"} -> "none"
      [] status \in {"budget_reserved", "expired"} -> "held"
      [] status = "executing" -> "executing"
      [] status = "completed" -> "spent"
      [] status = "refunding" -> "refunding"
      [] status = "refunded"  -> "returned"
      [] OTHER -> "writtenOff"

Custody == INSTANCE BudgetCustody WITH
              custody <- [i \in Intents |-> CustodyOf(intents[i].status)]

\* The table implements the race-safety contract of migration 0012.
CustodyContract == Custody!Spec

=============================================================================
