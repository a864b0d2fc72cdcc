---------------------------- MODULE PendingState ----------------------------
(***************************************************************************)
(* The durable tables of an approval in progress: pending_approvals,       *)
(* pending_signatures and pending_completion_meta                          *)
(* (crates/state-store/src/pending_state.rs), approval_workflows           *)
(* (approval_workflow.rs) and pending_jupiter_swaps (pending_jupiter.rs).  *)
(* Each method of the repositories is an operator; a table maps a request  *)
(* to its row or NULL, and a statement that finds no row changes nothing.  *)
(***************************************************************************)
EXTENDS Naturals, Null

CONSTANT Requests

VARIABLES
    approvals,      \* pending_approvals: state, created and what was parked
    workflows,      \* approval_workflows: the workflow as JSON
    signatures,     \* pending_signatures
    metas,          \* pending_completion_meta
    swaps           \* pending_jupiter_swaps: the state

pendingVars == <<approvals, workflows, signatures, metas, swaps>>

RowStates == {"pending", "consumed", "expired", "rejected"}

SwapStates == {"pending_approval", "approved_waiting_jit", "jit_building",
               "jit_build_failed", "awaiting_wallet_signature", "submitted",
               "rejected", "expired"}

Empty == [r \in Requests |-> NULL]

PendingInit ==
    approvals = Empty /\ workflows = Empty /\ signatures = Empty
        /\ metas = Empty /\ swaps = Empty

Pending(table) == {r \in Requests : table[r] # NULL /\ table[r].state = "pending"}

-----------------------------------------------------------------------------
(* pending_approvals *)

insert_pending_approval(r, parked, now) ==
    approvals' = [approvals EXCEPT ![r] =
                     [state |-> "pending", created |-> now, parked |-> parked]]

\* Mutant: the UPDATE does not ask for a pending row.
mark_approval_terminal_Unguarded(r, state, updated) ==
    /\ updated = (approvals[r] # NULL)
    /\ approvals' = IF updated THEN [approvals EXCEPT ![r].state = state] ELSE approvals

\* The answer tells whether a row was updated.
mark_approval_terminal(r, state, updated) ==
    /\ updated = (r \in Pending(approvals))
    /\ approvals' = IF updated THEN [approvals EXCEPT ![r].state = state] ELSE approvals

load_pending_approvals == Pending(approvals)

-----------------------------------------------------------------------------
(* approval_workflows: rows are never deleted, and update asks for nothing. *)

\* Mutant: a workflow that is not there is not inserted.
create_Existing(r, workflow) ==
    workflows' = [workflows EXCEPT ![r] = IF @ = NULL THEN NULL ELSE workflow]

create(r, workflow) ==
    workflows' = [workflows EXCEPT ![r] = IF @ = NULL THEN workflow ELSE @]

load(r) == workflows[r]

update(r, workflow) ==
    workflows' = [workflows EXCEPT ![r] = IF @ = NULL THEN NULL ELSE workflow]

-----------------------------------------------------------------------------
(* pending_signatures and the fee that belongs to each: one transaction.   *)

\* Mutant: the metadata is left to be inserted later.
insert_signature_and_meta_Halved(r, now) ==
    /\ signatures' = [signatures EXCEPT ![r] = [state |-> "pending", created |-> now]]
    /\ UNCHANGED metas

insert_signature_and_meta(r, now) ==
    /\ signatures' = [signatures EXCEPT ![r] = [state |-> "pending", created |-> now]]
    /\ metas' = [metas EXCEPT ![r] = [state |-> "pending", created |-> now]]

mark_signature_terminal(r, state, updated) ==
    /\ updated = (r \in Pending(signatures))
    /\ signatures' = IF updated THEN [signatures EXCEPT ![r].state = state] ELSE signatures

mark_completion_meta_terminal(r, state) ==
    metas' = IF r \in Pending(metas) THEN [metas EXCEPT ![r].state = state] ELSE metas

-----------------------------------------------------------------------------
(* pending_jupiter_swaps: no transition asks where it comes from.          *)

insert(r, state) == swaps' = [swaps EXCEPT ![r] = state]

mark_state(r, state) ==
    swaps' = [swaps EXCEPT ![r] = IF @ = NULL THEN NULL ELSE state]

expire_stuck(states) ==
    swaps' = [r \in Requests |-> IF swaps[r] \in states THEN "expired" ELSE swaps[r]]

-----------------------------------------------------------------------------
(* Cleanup of one table at a time, as the statements are.                  *)

\* What is pending and old enough has expired: expire_older_than.
Expired(table, now, maxAge) ==
    [r \in Requests |->
        IF r \in Pending(table) /\ table[r].created + maxAge <= now
        THEN [table[r] EXCEPT !.state = "expired"] ELSE table[r]]

\* What is decided and old enough is deleted: purge_terminal.
Purged(table, now, retention) ==
    [r \in Requests |->
        IF table[r] # NULL /\ r \notin Pending(table) /\ table[r].created + retention <= now
        THEN NULL ELSE table[r]]

=============================================================================
