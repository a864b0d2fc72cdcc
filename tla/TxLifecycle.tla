---------------------------- MODULE TxLifecycle ----------------------------
(***************************************************************************)
(* The lifecycle state machine of a submitted transaction                  *)
(* (crates/solana-core/src/tx_lifecycle.rs): pure operators on a tracking  *)
(* record and on what an RPC node says of the signature.                   *)
(***************************************************************************)
EXTENDS Naturals, Sequences, Null

CONSTANTS
    DROPPED_GRACE_BLOCKS,       \* blocks a null status is taken for lag
    EXPIRY_TRACKING_BUFFER      \* blocks an expired record is kept

ASSUME GraceAssumption == DROPPED_GRACE_BLOCKS \in Nat
ASSUME BufferAssumption == EXPIRY_TRACKING_BUFFER \in Nat

TxState == {"submitted", "dropped", "confirmed", "finalized", "failed", "expired"}

precedence == [submitted |-> 0, dropped |-> 1, expired |-> 1,
               confirmed |-> 2, failed |-> 3, finalized |-> 4]

ASSUME CommitmentAssumption == NULL \notin {"processed", "confirmed", "finalized"}

\* What a node reports: a commitment (NULL: signature unknown), whether the
\* execution failed, and the slot of the block.
NullObservation == [status |-> NULL, err |-> FALSE, slot |-> NULL]

\* state and slot are the variant of TxState and the slot it carries; bytes
\* says that the signed bytes are at hand for a rebroadcast.
NewRecord(lastValid, height, bytes) ==
    [state |-> "submitted", slot |-> NULL, lastValid |-> lastValid,
     submission |-> height, bytes |-> bytes, retries |-> 0]

saturating_sub(a, b) == IF a >= b THEN a - b ELSE 0

Unseen(record, height) ==
    IF record.state = "confirmed" THEN "confirmed"
    ELSE IF height > record.lastValid THEN "expired"
    ELSE IF /\ record.state = "submitted"
            /\ saturating_sub(height, record.submission) >= DROPPED_GRACE_BLOCKS
         THEN "dropped"
         ELSE record.state

\* Mutant: a finalized observation keeps the slot the record already has.
calculate_next_state_OldSlot(record, obs, height) ==
    CASE record.state \in {"finalized", "failed"} -> record
      [] obs.err -> [record EXCEPT !.state = "failed", !.slot = NULL]
      [] obs.status = "finalized" ->
            [record EXCEPT !.state = "finalized",
                           !.slot = IF @ = NULL THEN obs.slot ELSE @]
      [] obs.status = "confirmed" /\ precedence[record.state] < precedence["confirmed"] ->
            [record EXCEPT !.state = "confirmed", !.slot = obs.slot]
      [] obs.status = NULL -> [record EXCEPT !.state = Unseen(record, height)]
      [] OTHER -> record

\* The arms are tried in order: terminal states, an error at any commitment,
\* the commitments, and last the null observation.
calculate_next_state(record, obs, height) ==
    IF record.state \in {"finalized", "failed"} THEN record
    ELSE IF obs.err THEN [record EXCEPT !.state = "failed", !.slot = NULL]
    ELSE CASE obs.status = "finalized" ->
                [record EXCEPT !.state = "finalized", !.slot = obs.slot]
           [] obs.status = "confirmed" ->
                IF precedence[record.state] < precedence["confirmed"]
                THEN [record EXCEPT !.state = "confirmed", !.slot = obs.slot]
                ELSE record
           [] obs.status = "processed" -> record
           [] obs.status = NULL ->
                [record EXCEPT !.state = Unseen(record, height)]

should_continue_tracking(record, height) ==
    CASE record.state \in {"finalized", "failed"} -> FALSE
      [] record.state = "expired" ->
            height <= record.lastValid + EXPIRY_TRACKING_BUFFER
      [] OTHER -> TRUE

\* Mutant: finalized does not make up for a confirmed event that was missed.
pending_events_FinalizedOnly(state, emitted) ==
    IF state = "submitted" \/ state \in emitted THEN << >> ELSE <<state>>

\* The events of a state that are not yet marked as emitted, in the order of
\* their emission.
pending_events(state, emitted) ==
    LET due(e) == IF e \in emitted THEN << >> ELSE <<e>>
    IN  CASE state = "submitted" -> << >>
          [] state = "finalized" -> due("confirmed") \o due("finalized")
          [] OTHER -> due(state)

=============================================================================
