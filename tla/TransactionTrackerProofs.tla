---------------------- MODULE TransactionTrackerProofs ----------------------
(***************************************************************************)
(* The transaction tracker keeps its types, calls final only what is       *)
(* final, keeps the outcome in its table and reports it coherently, for    *)
(* every set of signatures and endpoints and all values of the bounds.     *)
(*                                                                         *)
(* What is said of one signature is said by SigOK, over its transaction,   *)
(* its submission, its record, its changes in the channel, its row and     *)
(* whether the row waits to be restored; a step is shown to keep SigOK     *)
(* signature by signature.                                                 *)
(***************************************************************************)
EXTENDS TransactionTracker, SequenceTheorems, TLAPS

Decided == {"finalized", "failed"}
Landed == {"processed", "confirmed", "finalized"}
Slot == Heights \cup {NULL}
Changed == [state : TxState, slot : Slot]

\* What lives only in the future of a submission is not there before it.
TxOK(tx, sub) ==
    /\ sub = "new" => tx.status = "unbuilt"
    /\ sub = "built" => tx.status = "signed"
    /\ tx.status \in Landed => tx.slot \in Heights

\* A row is there before the record, a record before its changes; what is to
\* be restored is neither tracked nor in the channel.
StageOK(sub, rec, ch, row, waits) ==
    /\ sub \in {"new", "built", "sent"} => row = NULL
    /\ row = NULL => rec = NULL /\ ch = << >>
    /\ rec # NULL => sub = "ended"
    /\ sub = "recorded" => /\ row # NULL /\ row.state = "submitted"
                           /\ rec = NULL /\ ch = << >>
    /\ waits => /\ row # NULL /\ row.state \notin Decided
                /\ rec = NULL /\ ch = << >> /\ sub = "ended"

\* Nothing follows an outcome: not in the channel, not from the record.
DecidedOK(rec, ch, row) ==
    /\ \A i \in 1 .. Len(ch) : ch[i].state \in Decided =>
          i = Len(ch) /\ (rec # NULL => rec.state \in Decided)
    /\ (row # NULL /\ row.state \in Decided) =>
          ch = << >> /\ (rec # NULL => rec.state \in Decided)

\* entry, a record, a row or a change, tells the truth about tx.
TellsTruth(entry, tx) ==
    entry.state = "finalized" =>
        tx.status = "finalized" /\ tx.ok /\ entry.slot = tx.slot

TruthOK(tx, rec, ch, row) ==
    /\ rec # NULL => TellsTruth(rec, tx)
    /\ row # NULL => TellsTruth(row, tx)
    /\ \A i \in 1 .. Len(ch) : TellsTruth(ch[i], tx)

EventsOK(row) ==
    row # NULL =>
        /\ "failed" \in row.emitted => row.state = "failed"
        /\ "finalized" \in row.emitted =>
              row.state = "finalized" /\ "confirmed" \in row.emitted

SigOK(tx, sub, rec, ch, row, waits) ==
    /\ TxOK(tx, sub)
    /\ StageOK(sub, rec, ch, row, waits)
    /\ DecidedOK(rec, ch, row)
    /\ TruthOK(tx, rec, ch, row)
    /\ EventsOK(row)

\* What is left to be sent again is tracked, dropped and within the policy.
WorkerOK ==
    worker.pc = "rebroadcast" =>
        \A s \in worker.todo : /\ tracking[s] # NULL
                               /\ tracking[s].state = "dropped"
                               /\ tracking[s].retries < MaxRetries

EachOK ==
    \A s \in Sigs : SigOK(txs[s], submits[s], tracking[s], changes[s], rows[s],
                          s \in restoring)

TrackerInv == TrackerTypeOK /\ WorkerOK /\ EachOK

-----------------------------------------------------------------------------
(* The pool. *)

\* Whom a call goes to is an endpoint of the pool.
LEMMA ClientsAreEndpoints ==
    read_client \subseteq Endpoints /\ write_client \subseteq Endpoints
BY EndpointAssumption DEF read_client, write_client, FirstAvailable, Endpoints

\* A success, a failure and a tick of the clock keep the breakers' type.
LEMMA BreakerTypes ==
    ASSUME PoolTypeOK, NEW e \in Endpoints,
           record_success(e) \/ record_failure(e)
    PROVE  PoolTypeOK'
<1>1. CASE record_success(e)
    BY <1>1, ThresholdAssumption DEF PoolTypeOK, record_success
<1>2. CASE record_failure(e)
    <2> DEFINE b == endpoints[e]
               n == IF b.failures < FailureThreshold THEN b.failures + 1 ELSE b.failures
               o == IF n >= FailureThreshold /\ b.open = NULL THEN 0 ELSE b.open
               new == [b EXCEPT !.failures = n, !.open = o]
    <2>1. b \in [failures : 0 .. FailureThreshold,
                 open : (0 .. RecoveryInterval) \cup {NULL}]
        BY DEF PoolTypeOK
    <2>2. n \in 0 .. FailureThreshold
        BY <2>1, ThresholdAssumption
    <2>3. o \in (0 .. RecoveryInterval) \cup {NULL}
        BY <2>1, RecoveryAssumption
    <2>4. endpoints' = [endpoints EXCEPT ![e] = new]
        BY <1>2 DEF record_failure, PoolTypeOK
    <2> HIDE DEF n, o
    <2>5. new \in [failures : 0 .. FailureThreshold,
                   open : (0 .. RecoveryInterval) \cup {NULL}]
        BY <2>1, <2>2, <2>3
    <2> HIDE DEF new
    <2> QED  BY <2>4, <2>5 DEF PoolTypeOK
<1> QED  BY <1>1, <1>2

LEMMA CallTypes ==
    ASSUME PoolTypeOK,
           Exhausted \/ Failed(read_client) \/ Answered(read_client)
           \/ Failed(write_client) \/ Answered(write_client)
           \/ UNCHANGED endpoints
    PROVE  PoolTypeOK'
<1>1. CASE UNCHANGED endpoints
    BY <1>1 DEF PoolTypeOK
<1>2. CASE Failed(read_client) \/ Answered(read_client)
           \/ Failed(write_client) \/ Answered(write_client)
    <2>1. PICK e \in Endpoints : record_success(e) \/ record_failure(e)
        BY <1>2, ClientsAreEndpoints DEF Failed, Answered
    <2> QED  BY <2>1, BreakerTypes
<1> QED  BY <1>1, <1>2 DEF Exhausted

LEMMA ElapseTypes ==
    ASSUME PoolTypeOK, Elapse
    PROVE  PoolTypeOK'
<1> DEFINE Breaker == [failures : 0 .. FailureThreshold,
                       open : (0 .. RecoveryInterval) \cup {NULL}]
           later(o) == IF o \in {NULL, RecoveryInterval} THEN o ELSE o + 1
<1>1. ASSUME NEW e \in Endpoints
      PROVE  [endpoints[e] EXCEPT !.open = later(endpoints[e].open)] \in Breaker
    <2>1. endpoints[e] \in Breaker
        BY DEF PoolTypeOK
    <2>2. later(endpoints[e].open) \in (0 .. RecoveryInterval) \cup {NULL}
        BY <2>1, RecoveryAssumption
    <2> QED  BY <2>1, <2>2
<1> QED  BY <1>1 DEF PoolTypeOK, Elapse

-----------------------------------------------------------------------------
(* The lifecycle. *)

\* The tracker polls a signature: its record keeps its type and its retries,
\* an outcome is not reconsidered, and finalized is said of a transaction
\* that is final, went well, and with its slot.
LEMMA NextStateIsTrue ==
    ASSUME NEW s \in Sigs, NEW rec \in Record, NEW obs \in Observations(s),
           NEW height \in Heights,
           txs[s] \in Tx, TxOK(txs[s], submits[s]), TellsTruth(rec, txs[s])
    PROVE  LET new == calculate_next_state(rec, obs, height)
           IN  /\ new \in Record
               /\ rec.state \in Decided => new = rec
               /\ TellsTruth(new, txs[s])
<1> DEFINE new == calculate_next_state(rec, obs, height)
           tx == txs[s]
<1>1. rec.state \in TxState /\ rec.slot \in Slot /\ rec.retries \in 0 .. MaxRetries
    BY DEF Record, Slot
<1>2. \/ obs = NullObservation
      \/ tx.status \in Landed /\ obs = [status |-> tx.status, err |-> ~tx.ok, slot |-> tx.slot]
    BY DEF Observations, Landed
<1>3. tx.slot \in Slot /\ tx.ok \in BOOLEAN
    BY DEF Tx, Slot
<1>4. CASE rec.state \in Decided
    BY <1>4 DEF calculate_next_state, Decided
<1>5. CASE rec.state \notin Decided /\ obs.err
    <2>1. new = [rec EXCEPT !.state = "failed", !.slot = NULL]
        BY <1>5 DEF calculate_next_state, Decided
    <2> QED  BY <1>5, <2>1 DEF Record, TxState, TellsTruth
<1>6. CASE rec.state \notin Decided /\ ~obs.err /\ obs = NullObservation
    <2>1. new = [rec EXCEPT !.state = Unseen(rec, height)]
        BY <1>6, CommitmentAssumption DEF calculate_next_state, Decided, NullObservation
    <2>2. Unseen(rec, height) \in TxState \ Decided
        BY <1>1, <1>6 DEF Unseen, TxState, Decided
    <2> QED  BY <1>6, <2>1, <2>2 DEF Record, TxState, TellsTruth, Decided
<1>7. CASE /\ rec.state \notin Decided /\ ~obs.err /\ tx.status \in Landed
           /\ obs = [status |-> tx.status, err |-> ~tx.ok, slot |-> tx.slot]
    <2>1. tx.ok
        BY <1>3, <1>7
    <2>2. CASE tx.status = "finalized"
        <3>1. new = [rec EXCEPT !.state = "finalized", !.slot = tx.slot]
            BY <1>7, <2>2, CommitmentAssumption DEF calculate_next_state, Decided
        <3> QED  BY <1>3, <1>7, <2>1, <2>2, <3>1 DEF Record, TxState, TellsTruth, Slot
    <2>3. CASE tx.status = "confirmed"
        <3>1. new \in {rec, [rec EXCEPT !.state = "confirmed", !.slot = tx.slot]}
            BY <1>7, <2>3, CommitmentAssumption DEF calculate_next_state, Decided
        <3> QED  BY <1>3, <1>7, <3>1 DEF Record, TxState, TellsTruth, Slot, Decided
    <2>4. CASE tx.status = "processed"
        <3>1. new = rec
            BY <1>7, <2>4, CommitmentAssumption DEF calculate_next_state, Decided
        <3> QED  BY <1>7, <3>1
    <2> QED  BY <1>7, <2>2, <2>3, <2>4 DEF Landed
<1> QED  BY <1>2, <1>4, <1>5, <1>6, <1>7

\* The next event of a row is one of its state; finalized comes after
\* confirmed.
LEMMA EventsAreDue ==
    ASSUME NEW state \in TxState, NEW emitted, pending_events(state, emitted) # << >>
    PROVE  LET e == Head(pending_events(state, emitted))
           IN  /\ e \in TxState
               /\ e = "failed" => state = "failed"
               /\ e = "finalized" => state = "finalized" /\ "confirmed" \in emitted
<1>1. CASE state = "submitted"
    BY <1>1 DEF pending_events
<1>2. CASE state = "finalized"
    BY <1>2 DEF pending_events, TxState
<1>3. CASE state \notin {"submitted", "finalized"}
    BY <1>3 DEF pending_events, TxState
<1> QED  BY <1>1, <1>2, <1>3

-----------------------------------------------------------------------------
(* What may happen to one signature. *)

\* Its transaction and its submission move on.  A final transaction is final.
LEMMA TxMoves ==
    ASSUME NEW t, NEW u, NEW sub, NEW sub2, NEW rec, NEW ch, NEW row, NEW waits,
           SigOK(t, sub, rec, ch, row, waits),
           TxOK(u, sub2), StageOK(sub2, rec, ch, row, waits),
           t.status = "finalized" => u = t
    PROVE  SigOK(u, sub2, rec, ch, row, waits)
BY DEF SigOK, TruthOK, TellsTruth

\* Its record is forgotten.
LEMMA RecordForgotten ==
    ASSUME NEW t, NEW sub, NEW rec, NEW ch, NEW row, NEW waits,
           SigOK(t, sub, rec, ch, row, waits)
    PROVE  SigOK(t, sub, NULL, ch, row, waits)
BY DEF SigOK, StageOK, DecidedOK, TruthOK

\* Its record, dropped, is started again or charged a retry.
LEMMA RecordRetried ==
    ASSUME NEW t, NEW sub, NEW rec, NEW new, NEW ch, NEW row, NEW waits,
           SigOK(t, sub, rec, ch, row, waits),
           rec # NULL, rec.state = "dropped", new.state \in {"submitted", "dropped"}
    PROVE  SigOK(t, sub, new, ch, row, waits)
BY DEF SigOK, StageOK, DecidedOK, TruthOK, TellsTruth, Decided

\* Its record is polled, and changes.
LEMMA RecordPolled ==
    ASSUME NEW t, NEW sub, NEW rec \in Record, NEW new \in Record,
           NEW ch \in Seq(Changed), NEW row, NEW waits,
           SigOK(t, sub, rec, ch, row, waits),
           rec.state \notin Decided, TellsTruth(new, t)
    PROVE  SigOK(t, sub, new, Append(ch, Change(new)), row, waits)
<1> DEFINE ch2 == Append(ch, Change(new))
<1>1. rec # NULL /\ new # NULL
    BY AbsentAssumption
<1>2. /\ Len(ch) \in Nat /\ Len(ch2) = Len(ch) + 1
      /\ \A i \in 1 .. Len(ch) : ch2[i] = ch[i]
      /\ ch2[Len(ch2)] = Change(new)
    BY DEF Change, Changed, Record, Slot
<1>3. Change(new).state = new.state /\ Change(new).slot = new.slot
    BY DEF Change
<1>4. /\ \A i \in 1 .. Len(ch) : ch[i].state \notin Decided
      /\ row # NULL => row.state \notin Decided
    BY <1>1 DEF SigOK, DecidedOK
<1> HIDE DEF ch2
<1>5. ASSUME NEW i \in 1 .. Len(ch2)
      PROVE  i = Len(ch2) \/ i \in 1 .. Len(ch)
    BY <1>2
<1>6. DecidedOK(new, ch2, row)
    BY <1>1, <1>2, <1>3, <1>4, <1>5 DEF DecidedOK
<1>7. TruthOK(t, new, ch2, row)
    BY <1>1, <1>2, <1>3, <1>5 DEF SigOK, TruthOK, TellsTruth
<1>8. StageOK(sub, new, ch2, row, waits)
    BY <1>1 DEF SigOK, StageOK
<1> QED  BY <1>6, <1>7, <1>8 DEF SigOK, ch2

-----------------------------------------------------------------------------
(* The steps of the chain and of a submission. *)

LEMMA TipTypes ==
    ASSUME TrackerTypeOK
    PROVE  /\ MaxHeight \in Nat /\ Validity \in Nat
           /\ tip \in Nat /\ tip <= MaxHeight
           /\ Reported \subseteq Heights
BY HeightAssumption DEF TrackerTypeOK, Heights, Reported

\* A step of the chain on a transaction that has been sent.
LEMMA ChainMoves ==
    ASSUME TrackerInv, NEW s \in Sigs, Land(s) \/ Vote(s) \/ Fork(s)
    PROVE  \E u \in Tx :
              /\ txs' = [txs EXCEPT ![s] = u]
              /\ txs[s].status \notin {"unbuilt", "signed", "finalized"}
              /\ u.status \in Landed => u.slot \in Heights
<1> DEFINE t == txs[s]
<1>1. t \in Tx /\ t.slot \in Slot /\ t.ok \in BOOLEAN /\ t.lastValid \in Fetched
    BY DEF TrackerInv, TrackerTypeOK, Tx, Slot
<1>2. t.status \in Landed => t.slot \in Heights
    BY DEF TrackerInv, EachOK, SigOK, TxOK
<1>3. txs \in [Sigs -> Tx] /\ tip \in Heights
    BY DEF TrackerInv, TrackerTypeOK
<1>4. CASE Land(s)
    <2>1. PICK ok \in BOOLEAN :
            txs' = [txs EXCEPT ![s].status = "processed", ![s].ok = ok, ![s].slot = tip]
        BY <1>4 DEF Land
    <2> DEFINE u == [t EXCEPT !.status = "processed", !.ok = ok, !.slot = tip]
    <2>2. txs' = [txs EXCEPT ![s] = u]
        BY <2>1, <1>3
    <2>3. u \in Tx /\ u.slot = tip
        BY <1>1, <1>3 DEF Tx, Slot
    <2> QED  BY <1>3, <1>4, <2>2, <2>3 DEF Land
<1>5. CASE Vote(s)
    <2> DEFINE v == IF t.status = "processed" THEN "confirmed" ELSE "finalized"
               u == [t EXCEPT !.status = v]
    <2>1. txs' = [txs EXCEPT ![s] = u]
        BY <1>3, <1>5 DEF Vote
    <2>2. u \in Tx /\ u.slot = t.slot
        BY <1>1 DEF Tx, Slot
    <2> QED  BY <1>2, <1>5, <2>1, <2>2 DEF Vote, Landed
<1>6. CASE Fork(s)
    <2> DEFINE u == [t EXCEPT !.status = "pending", !.ok = FALSE, !.slot = NULL]
    <2>1. txs' = [txs EXCEPT ![s] = u]
        BY <1>3, <1>6 DEF Fork
    <2>2. u \in Tx /\ u.status = "pending"
        BY <1>1 DEF Tx, Slot
    <2> QED  BY <1>6, <2>1, <2>2 DEF Fork, Landed
<1> QED  BY <1>4, <1>5, <1>6

LEMMA ChainKeeps ==
    ASSUME TrackerInv, ChainStep
    PROVE  TrackerInv'
<1>1. UNCHANGED <<endpoints, submits, tracking, worker, changes, rows,
                  persister, restoring, crashes>>
    BY DEF ChainStep, tableVars
<1>2. PoolTypeOK'
    BY <1>1, CallTypes DEF TrackerInv, TrackerTypeOK
<1>3. CASE NextBlock
    <2>1. tip' \in Heights /\ UNCHANGED <<txs, forks>>
        BY <1>3, TipTypes DEF TrackerInv, NextBlock, Heights
    <2> QED  BY <1>1, <1>2, <2>1 DEF TrackerInv, TrackerTypeOK, WorkerOK, EachOK
<1>4. ASSUME NEW s \in Sigs, Land(s) \/ Vote(s) \/ Fork(s)
      PROVE  TrackerInv'
    <2>1. PICK u \in Tx : /\ txs' = [txs EXCEPT ![s] = u]
                          /\ txs[s].status \notin {"unbuilt", "signed", "finalized"}
                          /\ u.status \in Landed => u.slot \in Heights
        BY <1>4, ChainMoves
    <2>2. tip' = tip /\ forks' \in 0 .. MaxForks
        <3>1. forks \in 0 .. MaxForks /\ MaxForks \in Nat
            BY HeightAssumption DEF TrackerInv, TrackerTypeOK
        <3>2. /\ tip' = tip
              /\ forks' = forks \/ (forks < MaxForks /\ forks' = forks + 1)
            BY <1>4 DEF Land, Vote, Fork
        <3> QED  BY <3>1, <3>2
    <2>3. TrackerTypeOK'
        BY <1>1, <1>2, <2>1, <2>2 DEF TrackerInv, TrackerTypeOK
    <2>4. WorkerOK'
        BY <1>1 DEF TrackerInv, WorkerOK
    <2>5. ASSUME NEW r \in Sigs
          PROVE  SigOK(txs[r], submits[r], tracking[r], changes[r], rows[r],
                       r \in restoring)'
        <3>0. SigOK(txs[r], submits[r], tracking[r], changes[r], rows[r], r \in restoring)
            BY DEF TrackerInv, EachOK
        <3>1. CASE r # s
            <4>1. txs'[r] = txs[r]
                BY <2>1, <3>1 DEF TrackerInv, TrackerTypeOK
            <4> QED  BY <1>1, <3>0, <4>1
        <3>2. CASE r = s
            <4>1. txs'[s] = u
                BY <2>1 DEF TrackerInv, TrackerTypeOK
            <4>2. TxOK(u, submits[s])
                BY <2>1, <3>0, <3>2 DEF SigOK, TxOK
            <4>3. StageOK(submits[s], tracking[s], changes[s], rows[s], s \in restoring)
                BY <3>0, <3>2 DEF SigOK
            <4>4. SigOK(u, submits[s], tracking[s], changes[s], rows[s], s \in restoring)
                BY <2>1, <3>0, <3>2, <4>2, <4>3, TxMoves
            <4> QED  BY <1>1, <3>2, <4>1, <4>4
        <3> QED  BY <3>1, <3>2
    <2> QED  BY <2>3, <2>4, <2>5 DEF TrackerInv, EachOK
<1> QED  BY <1>3, <1>4 DEF ChainStep

\* A step that touches one signature keeps the invariant when it keeps the
\* types, leaves the worker's part alone and keeps what is said of that
\* signature.
LEMMA OneSignature ==
    ASSUME TrackerInv, NEW s \in Sigs, TrackerTypeOK', WorkerOK',
           \A r \in Sigs \ {s} :
              /\ txs'[r] = txs[r] /\ submits'[r] = submits[r]
              /\ tracking'[r] = tracking[r] /\ changes'[r] = changes[r]
              /\ rows'[r] = rows[r]
              /\ (r \in restoring') = (r \in restoring),
           SigOK(txs[s], submits[s], tracking[s], changes[s], rows[s],
                 s \in restoring)'
    PROVE  TrackerInv'
<1> SUFFICES ASSUME NEW r \in Sigs \ {s}
             PROVE  SigOK(txs[r], submits[r], tracking[r], changes[r], rows[r],
                          r \in restoring)'
    BY DEF TrackerInv, EachOK
<1>1. SigOK(txs[r], submits[r], tracking[r], changes[r], rows[r], r \in restoring)
    BY DEF TrackerInv, EachOK
<1> QED  BY <1>1

\* The types and what is said of a signature, at hand.
LEMMA OneTypes ==
    ASSUME TrackerInv, NEW s \in Sigs
    PROVE  /\ PoolTypeOK
           /\ txs[s] \in Tx
           /\ submits[s] \in {"new", "built", "sent", "recorded", "ended"}
           /\ tracking[s] \in Record \cup {NULL}
           /\ changes[s] \in Seq(Changed)
           /\ rows[s] \in TrackingRow \cup {NULL}
           /\ SigOK(txs[s], submits[s], tracking[s], changes[s], rows[s], s \in restoring)
BY DEF TrackerInv, TrackerTypeOK, EachOK, Changed, Slot

LEMMA FreshKeeps ==
    ASSUME TrackerInv, NEW s \in Sigs, get_fresh(s)
    PROVE  TrackerInv'
<1>1. PICK h \in 0 .. tip :
        txs' = [txs EXCEPT ![s].status = "signed", ![s].lastValid = h + Validity]
    BY DEF get_fresh
<1>2. /\ submits[s] = "new" /\ submits' = [submits EXCEPT ![s] = "built"]
      /\ UNCHANGED <<tip, forks, endpoints, tracking, worker, changes, rows,
                     persister, restoring, crashes>>
    BY DEF get_fresh, tableVars
<1> DEFINE u == [txs[s] EXCEPT !.status = "signed", !.lastValid = h + Validity]
<1>3. txs' = [txs EXCEPT ![s] = u]
    BY <1>1 DEF TrackerInv, TrackerTypeOK
<1>4. h + Validity \in Fetched
    BY TipTypes DEF TrackerInv, Fetched
<1>5. u \in Tx /\ u.status = "signed"
    BY <1>4, OneTypes DEF Tx
<1> HIDE DEF u
<1>6. PoolTypeOK'
    BY <1>2, CallTypes, OneTypes
<1>7. TrackerTypeOK'
    BY <1>2, <1>3, <1>5, <1>6 DEF TrackerInv, TrackerTypeOK
<1>8. WorkerOK'
    BY <1>2 DEF TrackerInv, WorkerOK
<1>9. txs'[s] = u /\ submits'[s] = "built"
    BY <1>2, <1>3 DEF TrackerInv, TrackerTypeOK
<1>10. SigOK(u, "built", tracking[s], changes[s], rows[s], s \in restoring)
    <2>1. SigOK(txs[s], "new", tracking[s], changes[s], rows[s], s \in restoring)
        BY <1>2, OneTypes
    <2>2. txs[s].status = "unbuilt"
        BY <2>1 DEF SigOK, TxOK
    <2>3. TxOK(u, "built")
        BY <1>5 DEF TxOK, Landed
    <2>4. StageOK("built", tracking[s], changes[s], rows[s], s \in restoring)
        BY <2>1 DEF SigOK, StageOK
    <2> QED  BY <2>1, <2>2, <2>3, <2>4, TxMoves
<1>11. \A r \in Sigs \ {s} : txs'[r] = txs[r] /\ submits'[r] = submits[r]
    BY <1>2, <1>3 DEF TrackerInv, TrackerTypeOK
<1> QED  BY <1>2, <1>7, <1>8, <1>9, <1>10, <1>11, OneSignature

LEMMA SubmitKeeps ==
    ASSUME TrackerInv, NEW s \in Sigs, Submit(s)
    PROVE  TrackerInv'
<1>1. PICK answered \in BOOLEAN, accepted \in BOOLEAN :
        /\ submits' = [submits EXCEPT ![s] = IF answered THEN "sent" ELSE "ended"]
        /\ txs' = [txs EXCEPT ![s].status = IF accepted THEN "pending" ELSE @]
    BY DEF Submit
<1>2. /\ submits[s] = "built"
      /\ UNCHANGED <<tip, forks, endpoints, tracking, worker, changes, rows,
                     persister, restoring, crashes>>
    BY DEF Submit, tableVars
<1> DEFINE v == IF accepted THEN "pending" ELSE txs[s].status
           u == [txs[s] EXCEPT !.status = v]
           sub2 == IF answered THEN "sent" ELSE "ended"
<1>3. txs' = [txs EXCEPT ![s] = u] /\ submits' = [submits EXCEPT ![s] = sub2]
    BY <1>1 DEF TrackerInv, TrackerTypeOK
<1>4. /\ SigOK(txs[s], "built", tracking[s], changes[s], rows[s], s \in restoring)
      /\ txs[s].status = "signed"
    BY <1>2, OneTypes DEF SigOK, TxOK
<1>5. v \in {"pending", "signed"} /\ sub2 \in {"sent", "ended"}
    BY <1>4
<1> HIDE DEF v, sub2
<1>6. u \in Tx /\ u.status = v
    BY <1>5, OneTypes DEF Tx
<1> HIDE DEF u
<1>7. PoolTypeOK'
    BY <1>2, CallTypes, OneTypes
<1>8. TrackerTypeOK'
    BY <1>2, <1>3, <1>5, <1>6, <1>7 DEF TrackerInv, TrackerTypeOK
<1>9. WorkerOK'
    BY <1>2 DEF TrackerInv, WorkerOK
<1>10. txs'[s] = u /\ submits'[s] = sub2
    BY <1>3 DEF TrackerInv, TrackerTypeOK
<1>11. SigOK(u, sub2, tracking[s], changes[s], rows[s], s \in restoring)
    <2>1. TxOK(u, sub2)
        BY <1>5, <1>6 DEF TxOK, Landed
    <2>2. StageOK(sub2, tracking[s], changes[s], rows[s], s \in restoring)
        BY <1>4, <1>5 DEF SigOK, StageOK
    <2> QED  BY <1>4, <2>1, <2>2, TxMoves
<1>12. \A r \in Sigs \ {s} : txs'[r] = txs[r] /\ submits'[r] = submits[r]
    BY <1>3 DEF TrackerInv, TrackerTypeOK
<1> QED  BY <1>2, <1>8, <1>9, <1>10, <1>11, <1>12, OneSignature

LEMMA AnchorKeeps ==
    ASSUME TrackerInv, NEW s \in Sigs, Anchor(s)
    PROVE  TrackerInv'
<1>1. /\ submits[s] = "sent"
      /\ UNCHANGED <<tip, txs, forks, endpoints, tracking, worker, changes,
                     persister, restoring, crashes>>
    BY DEF Anchor, chainVars
<1>2. PoolTypeOK'
    BY <1>1, CallTypes, OneTypes
<1>3. WorkerOK'
    BY <1>1 DEF TrackerInv, WorkerOK
<1>4. SigOK(txs[s], "sent", tracking[s], changes[s], rows[s], s \in restoring)
    BY <1>1, OneTypes
<1>5. /\ rows[s] = NULL /\ tracking[s] = NULL /\ changes[s] = << >> /\ s \notin restoring
      /\ txs[s].status \in Landed => txs[s].slot \in Heights
    BY <1>4 DEF SigOK, StageOK, TxOK
<1>6. CASE submits' = [submits EXCEPT ![s] = "ended"] /\ rows' = rows
    <2>1. TrackerTypeOK'
        BY <1>1, <1>2, <1>6 DEF TrackerInv, TrackerTypeOK
    <2>2. submits'[s] = "ended" /\ \A r \in Sigs \ {s} : submits'[r] = submits[r]
        BY <1>6 DEF TrackerInv, TrackerTypeOK
    <2>3. SigOK(txs[s], "ended", tracking[s], changes[s], rows[s], s \in restoring)
        BY <1>4, <1>5 DEF SigOK, StageOK, TxOK
    <2> QED  BY <1>1, <1>3, <1>6, <2>1, <2>2, <2>3, OneSignature
<1>7. ASSUME NEW h \in Reported, submits' = [submits EXCEPT ![s] = "recorded"],
             insert(s, h)
      PROVE  TrackerInv'
    <2> DEFINE row == [state |-> "submitted", slot |-> NULL, submission |-> h,
                       lastValid |-> txs[s].lastValid, emitted |-> {}]
    <2>1. rows' = [rows EXCEPT ![s] = row]
        BY <1>5, <1>7 DEF insert
    <2>2. row \in TrackingRow /\ row # NULL
        BY OneTypes, TipTypes, AbsentAssumption DEF TrackerInv, TrackingRow, Tx, TxState
    <2>3. row.state = "submitted" /\ row.emitted = {}
        OBVIOUS
    <2> HIDE DEF row
    <2>4. TrackerTypeOK'
        BY <1>1, <1>2, <1>7, <2>1, <2>2 DEF TrackerInv, TrackerTypeOK
    <2>5. /\ submits'[s] = "recorded" /\ rows'[s] = row
          /\ \A r \in Sigs \ {s} : submits'[r] = submits[r] /\ rows'[r] = rows[r]
        BY <1>7, <2>1 DEF TrackerInv, TrackerTypeOK
    <2>6. SigOK(txs[s], "recorded", tracking[s], changes[s], row, s \in restoring)
        BY <1>5, <2>2, <2>3
        DEF SigOK, StageOK, TxOK, DecidedOK, TruthOK, EventsOK, TellsTruth, Decided
    <2> QED  BY <1>1, <1>3, <2>4, <2>5, <2>6, OneSignature
<1> QED  BY <1>6, <1>7 DEF Anchor

\* A record that starts, from a row, with nothing in the channel.
LEMMA RecordStarts ==
    ASSUME NEW t, NEW sub, NEW row \in TrackingRow, NEW bytes \in BOOLEAN, NEW waits,
           SigOK(t, sub, NULL, << >>, row, waits), row.state \notin Decided
    PROVE  LET new == NewRecord(row.lastValid, row.submission, bytes)
           IN  /\ new \in Record /\ new # NULL
               /\ SigOK(t, "ended", new, << >>, row, FALSE)
<1> DEFINE new == NewRecord(row.lastValid, row.submission, bytes)
<1>1. new \in Record
    BY RetriesAssumption DEF NewRecord, Record, TrackingRow, TxState
<1>2. new # NULL /\ new.state = "submitted" /\ row # NULL
    BY <1>1, AbsentAssumption DEF NewRecord
<1> HIDE DEF new
<1>3. SigOK(t, "ended", new, << >>, row, FALSE)
    BY <1>2 DEF SigOK, StageOK, TxOK, DecidedOK, TruthOK, TellsTruth
<1> QED  BY <1>1, <1>2, <1>3 DEF new

LEMMA TrackKeeps ==
    ASSUME TrackerInv, NEW s \in Sigs, track(s)
    PROVE  TrackerInv'
<1> DEFINE new == NewRecord(rows[s].lastValid, rows[s].submission, TRUE)
<1>1. /\ submits[s] = "recorded" /\ submits' = [submits EXCEPT ![s] = "ended"]
      /\ TrackAs(s, new)
      /\ UNCHANGED <<tip, txs, forks, endpoints, worker, changes, rows,
                     persister, restoring, crashes>>
    BY DEF track, chainVars, tableVars
<1>2. SigOK(txs[s], "recorded", tracking[s], changes[s], rows[s], s \in restoring)
    BY <1>1, OneTypes
<1>3. /\ rows[s] # NULL /\ rows[s].state = "submitted" /\ tracking[s] = NULL
      /\ changes[s] = << >> /\ s \notin restoring
    BY <1>2 DEF SigOK, StageOK
<1>4. rows[s] \in TrackingRow
    BY <1>3, OneTypes
<1>5. new \in Record /\ new # NULL /\ SigOK(txs[s], "ended", new, << >>, rows[s], FALSE)
    BY <1>2, <1>3, <1>4, RecordStarts DEF Decided
<1> HIDE DEF new
<1>6. tracking' = [tracking EXCEPT ![s] = new]
    BY <1>1, <1>3 DEF TrackAs
<1>7. PoolTypeOK'
    BY <1>1, CallTypes, OneTypes
<1>8. TrackerTypeOK'
    BY <1>1, <1>5, <1>6, <1>7 DEF TrackerInv, TrackerTypeOK
<1>9. /\ submits'[s] = "ended" /\ tracking'[s] = new
      /\ \A r \in Sigs \ {s} : submits'[r] = submits[r] /\ tracking'[r] = tracking[r]
    BY <1>1, <1>6 DEF TrackerInv, TrackerTypeOK
<1>10. WorkerOK'
    BY <1>1, <1>3, <1>9 DEF TrackerInv, WorkerOK, TrackerTypeOK
<1>11. (s \in restoring') = FALSE
    BY <1>1, <1>3
<1>12. SigOK(txs[s], submits[s], tracking[s], changes[s], rows[s], s \in restoring)'
    BY <1>1, <1>3, <1>5, <1>9, <1>11
<1> QED  BY <1>1, <1>8, <1>9, <1>10, <1>12, OneSignature

-----------------------------------------------------------------------------
(* The table and the process around it. *)

\* The row after update_state, in place.
LEMMA RowUpdated ==
    ASSUME NEW t, NEW sub, NEW rec, NEW ch \in Seq(Changed), NEW row \in TrackingRow,
           NEW waits, SigOK(t, sub, rec, ch, row, waits), ch # << >>
    PROVE  LET slot == IF Head(ch).slot = NULL THEN row.slot ELSE Head(ch).slot
               new == [row EXCEPT !.state = Head(ch).state, !.slot = slot]
           IN  /\ new \in TrackingRow
               /\ SigOK(t, sub, rec, Tail(ch), new, waits)
<1> DEFINE c == ch[1]
           slot == IF c.slot = NULL THEN row.slot ELSE c.slot
           new == [row EXCEPT !.state = c.state, !.slot = slot]
           ch2 == Tail(ch)
<1>1. /\ Len(ch) \in Nat /\ Len(ch) >= 1 /\ Head(ch) = c /\ c \in Changed
      /\ ch2 \in Seq(Changed) /\ Len(ch2) = Len(ch) - 1
      /\ \A i \in 1 .. Len(ch2) : ch2[i] = ch[i + 1]
    <2>1. Len(ch) \in Nat /\ Len(ch) >= 1 /\ Head(ch) = c
        OBVIOUS
    <2>2. c \in Changed
        BY <2>1
    <2>3. ch2 \in Seq(Changed) /\ Len(ch2) = Len(ch) - 1
        OBVIOUS
    <2>4. \A i \in 1 .. Len(ch2) : ch2[i] = ch[i + 1]
        BY <2>1, <2>3
    <2> QED  BY <2>1, <2>2, <2>3, <2>4
<1>2. c.state \in TxState /\ c.slot \in Slot /\ row.slot \in Slot /\ row # NULL
    BY <1>1, AbsentAssumption DEF Changed, TrackingRow, Slot
<1>3. slot \in Slot /\ (c.slot \in Heights => slot = c.slot)
    BY <1>2, AbsentAssumption
<1> HIDE DEF slot, c
<1>4. /\ new \in TrackingRow /\ new # NULL
      /\ new.state = c.state /\ new.slot = slot /\ new.emitted = row.emitted
    BY <1>2, <1>3, AbsentAssumption DEF TrackingRow, Slot
<1> HIDE DEF new, ch2
<1>5. row.state \notin Decided
    BY <1>2 DEF SigOK, DecidedOK
<1>6. c.state \in Decided => Len(ch) = 1 /\ (rec # NULL => rec.state \in Decided)
    <2>1. 1 \in 1 .. Len(ch)
        BY <1>1
    <2> QED  BY <1>1, <2>1 DEF SigOK, DecidedOK, c
<1>7. Len(ch2) = 0 => ch2 = << >>
    BY <1>1
<1>8. \A i \in 1 .. Len(ch2) : i + 1 \in 1 .. Len(ch) /\ (i + 1 = Len(ch) => i = Len(ch2))
    BY <1>1
<1>9. DecidedOK(rec, ch2, new)
    <2>1. \A i \in 1 .. Len(ch2) : ch2[i].state \in Decided =>
              i = Len(ch2) /\ (rec # NULL => rec.state \in Decided)
        BY <1>1, <1>8 DEF SigOK, DecidedOK
    <2>2. new.state \in Decided => ch2 = << >> /\ (rec # NULL => rec.state \in Decided)
        BY <1>1, <1>4, <1>6, <1>7
    <2> QED  BY <2>1, <2>2 DEF DecidedOK
<1>10. TruthOK(t, rec, ch2, new)
    <2>1. \A i \in 1 .. Len(ch2) : TellsTruth(ch2[i], t)
        BY <1>1, <1>8 DEF SigOK, TruthOK
    <2>2. TellsTruth(c, t)
        <3>1. 1 \in 1 .. Len(ch)
            BY <1>1
        <3> QED  BY <3>1 DEF SigOK, TruthOK, c
    <2>3. TellsTruth(new, t)
        BY <1>3, <1>4, <2>2 DEF SigOK, TxOK, Landed, TellsTruth
    <2> QED  BY <2>1, <2>3 DEF SigOK, TruthOK
<1>11. StageOK(sub, rec, ch2, new, waits)
    BY <1>2, <1>4 DEF SigOK, StageOK
<1>12. EventsOK(new)
    BY <1>2, <1>4, <1>5 DEF SigOK, EventsOK, Decided
<1> QED  BY <1>1, <1>4, <1>9, <1>10, <1>11, <1>12 DEF SigOK, new, slot, ch2

LEMMA PersistKeeps ==
    ASSUME TrackerInv, NEW s \in Sigs, Persist(s)
    PROVE  TrackerInv'
<1>1. /\ changes[s] # << >> /\ update_state(s, Head(changes[s]))
      /\ changes' = [changes EXCEPT ![s] = Tail(changes[s])] /\ persister' = s
      /\ UNCHANGED <<tip, txs, forks, endpoints, submits, tracking, worker,
                     restoring, crashes>>
    BY DEF Persist, chainVars
<1>2. rows[s] # NULL
    BY <1>1, OneTypes DEF SigOK, StageOK
<1>3. rows[s] \in TrackingRow /\ changes[s] \in Seq(Changed)
    BY <1>2, OneTypes
<1> DEFINE c == Head(changes[s])
           slot == IF c.slot = NULL THEN rows[s].slot ELSE c.slot
           new == [rows[s] EXCEPT !.state = c.state, !.slot = slot]
<1>4. rows' = [rows EXCEPT ![s] = new]
    BY <1>1, <1>2 DEF update_state
<1>5. /\ new \in TrackingRow
      /\ SigOK(txs[s], submits[s], tracking[s], Tail(changes[s]), new, s \in restoring)
    BY <1>1, <1>3, OneTypes, RowUpdated
<1> HIDE DEF new
<1>6. Tail(changes[s]) \in Seq(Changed)
    BY <1>1, <1>3
<1>7. PoolTypeOK'
    BY <1>1, CallTypes, OneTypes
<1>8. TrackerTypeOK'
    BY <1>1, <1>4, <1>5, <1>6, <1>7 DEF TrackerInv, TrackerTypeOK, Changed, Slot
<1>9. /\ changes'[s] = Tail(changes[s]) /\ rows'[s] = new
      /\ \A r \in Sigs \ {s} : changes'[r] = changes[r] /\ rows'[r] = rows[r]
    BY <1>1, <1>4 DEF TrackerInv, TrackerTypeOK
<1>10. WorkerOK'
    BY <1>1 DEF TrackerInv, WorkerOK
<1> QED  BY <1>1, <1>5, <1>8, <1>9, <1>10, OneSignature

LEMMA EmitKeeps ==
    ASSUME TrackerInv, Emit
    PROVE  TrackerInv'
<1> DEFINE s == persister
           due == IF rows[s] = NULL THEN << >>
                  ELSE pending_events(rows[s].state, rows[s].emitted)
<1>1. /\ s # NULL
      /\ IF due = << >> THEN UNCHANGED rows ELSE mark_event_emitted(s, Head(due))
      /\ persister' \in {NULL, s}
      /\ UNCHANGED <<tip, txs, forks, endpoints, submits, tracking, worker,
                     changes, restoring, crashes>>
    BY DEF Emit, chainVars
<1>2. s \in Sigs /\ persister' \in Sigs \cup {NULL}
    BY <1>1 DEF TrackerInv, TrackerTypeOK
<1>3. PoolTypeOK'
    BY <1>1, <1>2, CallTypes, OneTypes
<1>4. WorkerOK'
    BY <1>1 DEF TrackerInv, WorkerOK
<1>5. CASE due = << >>
    BY <1>1, <1>2, <1>3, <1>4, <1>5 DEF TrackerInv, TrackerTypeOK, EachOK
<1>6. CASE due # << >>
    <2>1. rows[s] # NULL /\ rows[s] \in TrackingRow
        BY <1>2, <1>6, OneTypes
    <2>2. due = pending_events(rows[s].state, rows[s].emitted)
        BY <2>1
    <2> DEFINE e == Head(due)
               heard == rows[s].emitted \cup {e}
               new == [rows[s] EXCEPT !.emitted = heard]
    <2>3. rows[s].state \in TxState /\ rows[s].emitted \subseteq TxState
        BY <2>1 DEF TrackingRow
    <2>4. /\ e \in TxState
          /\ e = "failed" => rows[s].state = "failed"
          /\ e = "finalized" =>
                rows[s].state = "finalized" /\ "confirmed" \in rows[s].emitted
        BY <1>6, <2>2, <2>3, EventsAreDue
    <2>5. rows' = [rows EXCEPT ![s] = new]
        BY <1>1, <1>2, <1>6 DEF mark_event_emitted, TrackerInv, TrackerTypeOK
    <2> HIDE DEF e
    <2>6. heard \subseteq TxState
        BY <2>3, <2>4
    <2> HIDE DEF heard
    <2>7. /\ new \in TrackingRow /\ new # NULL /\ new.emitted = heard
          /\ new.state = rows[s].state /\ new.slot = rows[s].slot
        BY <2>1, <2>6, AbsentAssumption DEF TrackingRow
    <2> HIDE DEF new
    <2>8. TrackerTypeOK'
        BY <1>1, <1>2, <1>3, <2>5, <2>7 DEF TrackerInv, TrackerTypeOK
    <2>9. SigOK(txs[s], submits[s], tracking[s], changes[s], rows[s], s \in restoring)
        BY <1>2, OneTypes
    <2>10. EventsOK(new)
        BY <2>1, <2>4, <2>7, <2>9 DEF SigOK, EventsOK, heard
    <2>11. SigOK(txs[s], submits[s], tracking[s], changes[s], new, s \in restoring)
        BY <2>1, <2>7, <2>9, <2>10 DEF SigOK, StageOK, DecidedOK, TruthOK, TellsTruth
    <2>12. rows'[s] = new /\ \A r \in Sigs \ {s} : rows'[r] = rows[r]
        BY <1>2, <2>5 DEF TrackerInv, TrackerTypeOK
    <2> HIDE DEF s
    <2>13. SigOK(txs'[s], submits'[s], tracking'[s], changes'[s], rows'[s], s \in restoring')
        BY <1>1, <2>11, <2>12
    <2>14. ASSUME NEW r \in Sigs
           PROVE  SigOK(txs[r], submits[r], tracking[r], changes[r], rows[r],
                        r \in restoring)'
        <3>1. CASE r = s
            BY <2>13, <3>1
        <3>2. CASE r # s
            <4>1. SigOK(txs[r], submits[r], tracking[r], changes[r], rows[r],
                        r \in restoring)
                BY OneTypes
            <4> QED  BY <1>1, <2>12, <3>2, <4>1
        <3> QED  BY <3>1, <3>2
    <2> QED  BY <1>4, <2>8, <2>14 DEF TrackerInv, EachOK
<1> QED  BY <1>5, <1>6

LEMMA CrashKeeps ==
    ASSUME TrackerInv, Crash
    PROVE  TrackerInv'
<1>1. /\ crashes < MaxCrashes /\ crashes' = crashes + 1
      /\ endpoints' = [e \in Endpoints |-> [failures |-> 0, open |-> NULL]]
      /\ submits' = [s \in Sigs |-> IF submits[s] = "new" THEN "new" ELSE "ended"]
      /\ tracking' = [s \in Sigs |-> NULL] /\ worker' = Idle
      /\ changes' = [s \in Sigs |-> << >>] /\ persister' = NULL
      /\ restoring' = load_active
      /\ UNCHANGED <<tip, txs, forks, rows>>
    BY DEF Crash, chainVars
<1>2. PoolTypeOK'
    BY <1>1, ThresholdAssumption DEF PoolTypeOK
<1>3. crashes' \in 0 .. MaxCrashes
    BY <1>1, HeightAssumption DEF TrackerInv, TrackerTypeOK
<1>4. worker' \in [pc : {"idle", "poll", "rebroadcast"}, height : Heights, todo : SUBSET Sigs]
      /\ worker'.pc = "idle" /\ worker'.todo = {}
    BY <1>1, HeightAssumption DEF Idle, Heights
<1>5. /\ submits' \in [Sigs -> {"new", "built", "sent", "recorded", "ended"}]
      /\ tracking' \in [Sigs -> Record \cup {NULL}]
      /\ changes' \in [Sigs -> Seq([state : TxState, slot : Heights \cup {NULL}])]
      /\ restoring' \subseteq Sigs
    BY <1>1 DEF load_active
<1>6. TrackerTypeOK'
    BY <1>1, <1>2, <1>3, <1>4, <1>5 DEF TrackerInv, TrackerTypeOK
<1>7. WorkerOK'
    BY <1>4 DEF WorkerOK
<1>8. ASSUME NEW s \in Sigs
      PROVE  SigOK(txs[s], submits[s], tracking[s], changes[s], rows[s], s \in restoring)'
    <2> DEFINE sub2 == IF submits[s] = "new" THEN "new" ELSE "ended"
               loads == s \in load_active
    <2>1. SigOK(txs[s], submits[s], tracking[s], changes[s], rows[s], s \in restoring)
        BY OneTypes
    <2>2. TxOK(txs[s], sub2)
        BY <2>1 DEF SigOK, TxOK
    <2>3. loads => rows[s] # NULL /\ rows[s].state \notin Decided
        BY DEF load_active, Decided
    <2>4. rows[s] # NULL => submits[s] # "new"
        BY <2>1 DEF SigOK, StageOK
    <2>5. StageOK(sub2, NULL, << >>, rows[s], loads)
        <3> HIDE DEF loads
        <3> QED  BY <2>3, <2>4 DEF StageOK
    <2>6. SigOK(txs[s], sub2, NULL, << >>, rows[s], loads)
        BY <2>1, <2>2, <2>5 DEF SigOK, DecidedOK, TruthOK
    <2>7. /\ txs'[s] = txs[s] /\ submits'[s] = sub2 /\ tracking'[s] = NULL
          /\ changes'[s] = << >> /\ rows'[s] = rows[s] /\ (s \in restoring') = loads
        BY <1>1
    <2> HIDE DEF sub2, loads
    <2> QED  BY <2>6, <2>7
<1> QED  BY <1>6, <1>7, <1>8 DEF TrackerInv, EachOK

LEMMA RestoreKeeps ==
    ASSUME TrackerInv, NEW s \in Sigs, Restore(s)
    PROVE  TrackerInv'
<1>1. /\ s \in restoring /\ restoring' = restoring \ {s}
      /\ UNCHANGED <<tip, txs, forks, endpoints, submits, worker, changes,
                     persister, crashes>>
    BY DEF Restore, chainVars
<1>2. (s \in restoring) = TRUE /\ (s \in restoring') = FALSE
    BY <1>1
<1>3. SigOK(txs[s], submits[s], tracking[s], changes[s], rows[s], TRUE)
    BY <1>2, OneTypes
<1>4. /\ rows[s] # NULL /\ rows[s].state \notin Decided
      /\ tracking[s] = NULL /\ changes[s] = << >> /\ submits[s] = "ended"
    BY <1>3 DEF SigOK, StageOK
<1>5. rows[s] \in TrackingRow
    BY <1>4, OneTypes
<1>6. PoolTypeOK'
    BY <1>1, CallTypes, OneTypes
<1>7. \A r \in Sigs \ {s} : (r \in restoring') = (r \in restoring)
    BY <1>1
<1>8. restoring' \subseteq Sigs
    BY <1>1 DEF TrackerInv, TrackerTypeOK
<1>9. CASE mark_expired(s) /\ UNCHANGED tracking
    <2> DEFINE new == [rows[s] EXCEPT !.state = "expired"]
    <2>1. rows' = [rows EXCEPT ![s] = new]
        BY <1>9 DEF mark_expired, TrackerInv, TrackerTypeOK
    <2>2. /\ new \in TrackingRow /\ new # NULL /\ new.state = "expired"
          /\ new.emitted = rows[s].emitted
        BY <1>5, AbsentAssumption DEF TrackingRow, TxState
    <2> HIDE DEF new
    <2>3. TrackerTypeOK'
        BY <1>1, <1>6, <1>8, <1>9, <2>1, <2>2 DEF TrackerInv, TrackerTypeOK
    <2>4. WorkerOK'
        BY <1>1, <1>9 DEF TrackerInv, WorkerOK
    <2>5. SigOK(txs[s], "ended", NULL, << >>, new, FALSE)
        BY <1>3, <1>4, <2>2
        DEF SigOK, StageOK, DecidedOK, TruthOK, TellsTruth, EventsOK, Decided
    <2>6. rows'[s] = new /\ \A r \in Sigs \ {s} : rows'[r] = rows[r]
        BY <2>1 DEF TrackerInv, TrackerTypeOK
    <2>7. SigOK(txs[s], submits[s], tracking[s], changes[s], rows[s], s \in restoring)'
        BY <1>1, <1>2, <1>4, <1>9, <2>5, <2>6
    <2> QED  BY <1>1, <1>7, <1>9, <2>3, <2>4, <2>6, <2>7, OneSignature
<1>10. CASE /\ TrackAs(s, NewRecord(rows[s].lastValid, rows[s].submission, FALSE))
            /\ UNCHANGED rows
    <2> DEFINE new == NewRecord(rows[s].lastValid, rows[s].submission, FALSE)
    <2>1. /\ new \in Record /\ new # NULL
          /\ SigOK(txs[s], "ended", new, << >>, rows[s], FALSE)
        BY <1>3, <1>4, <1>5, RecordStarts
    <2> HIDE DEF new
    <2>2. tracking' = [tracking EXCEPT ![s] = new]
        BY <1>4, <1>10 DEF TrackAs, new
    <2>3. TrackerTypeOK'
        BY <1>1, <1>6, <1>8, <1>10, <2>1, <2>2 DEF TrackerInv, TrackerTypeOK
    <2>4. tracking'[s] = new /\ \A r \in Sigs \ {s} : tracking'[r] = tracking[r]
        BY <2>2 DEF TrackerInv, TrackerTypeOK
    <2>5. WorkerOK'
        BY <1>1, <1>4, <2>4 DEF TrackerInv, WorkerOK, TrackerTypeOK
    <2>6. SigOK(txs[s], submits[s], tracking[s], changes[s], rows[s], s \in restoring)'
        BY <1>1, <1>2, <1>4, <1>10, <2>1, <2>4
    <2> QED  BY <1>1, <1>7, <1>10, <2>3, <2>4, <2>5, <2>6, OneSignature
<1> QED  BY <1>9, <1>10 DEF Restore

-----------------------------------------------------------------------------
(* The polling loop. *)

\* What follows a batch or a rebroadcast, from a map of records whose rest is
\* in order: records stay or are forgotten, and the loop is in order again.
LEMMA ProceedKeeps ==
    ASSUME TrackerInv, NEW map \in [Sigs -> Record \cup {NULL}],
           NEW pc \in {"poll", "rebroadcast"}, NEW todo \in SUBSET Sigs,
           Proceed(map, pc, todo),
           pc = "rebroadcast" => \A s \in todo : /\ map[s] # NULL
                                                 /\ map[s].state = "dropped"
                                                 /\ map[s].retries < MaxRetries
    PROVE  /\ tracking' \in [Sigs -> Record \cup {NULL}]
           /\ \A s \in Sigs : tracking'[s] \in {map[s], NULL}
           /\ worker' \in [pc : {"idle", "poll", "rebroadcast"}, height : Heights,
                           todo : SUBSET Sigs]
           /\ (worker'.pc = "idle") = (worker'.todo = {})
           /\ WorkerOK'
<1> DEFINE next == IF pc = "poll" /\ todo = {}
                   THEN Rebroadcastable(map, worker.height) ELSE todo
           where == IF todo = {} THEN "rebroadcast" ELSE pc
<1>1. next \subseteq Sigs
    BY DEF Rebroadcastable, Tracked
<1>2. where = "rebroadcast" =>
        \A s \in next : map[s] # NULL /\ map[s].state = "dropped" /\ map[s].retries < MaxRetries
    BY DEF Rebroadcastable, Tracked
<1>3. where \in {"poll", "rebroadcast"}
    OBVIOUS
<1>4. \/ next = {} /\ tracking' = Cleaned(map, worker.height) /\ worker' = Idle
      \/ /\ next # {} /\ tracking' = map
         /\ worker' = [worker EXCEPT !.todo = next, !.pc = where]
    BY DEF Proceed
<1> HIDE DEF next, where
<1>5. CASE next = {} /\ tracking' = Cleaned(map, worker.height) /\ worker' = Idle
    <2>1. \A s \in Sigs : Cleaned(map, worker.height)[s] \in {map[s], NULL}
        BY DEF Cleaned
    <2>2. Cleaned(map, worker.height) \in [Sigs -> Record \cup {NULL}]
        BY <2>1 DEF Cleaned
    <2>3. worker'.pc = "idle" /\ worker'.todo = {} /\ worker'.height = 0
        BY <1>5 DEF Idle
    <2>4. worker' \in [pc : {"idle", "poll", "rebroadcast"}, height : Heights,
                       todo : SUBSET Sigs]
        BY <1>5, HeightAssumption DEF Idle, Heights
    <2> QED  BY <1>5, <2>1, <2>2, <2>3, <2>4 DEF WorkerOK
<1>6. CASE /\ next # {} /\ tracking' = map
           /\ worker' = [worker EXCEPT !.todo = next, !.pc = where]
    <2>1. worker \in [pc : {"idle", "poll", "rebroadcast"}, height : Heights,
                      todo : SUBSET Sigs]
        BY DEF TrackerInv, TrackerTypeOK
    <2>2. /\ worker' \in [pc : {"idle", "poll", "rebroadcast"}, height : Heights,
                          todo : SUBSET Sigs]
          /\ worker'.pc = where /\ worker'.todo = next
        BY <1>1, <1>3, <1>6, <2>1
    <2>3. (worker'.pc = "idle") = (worker'.todo = {})
        BY <1>3, <1>6, <2>2
    <2>4. WorkerOK'
        BY <1>2, <1>6, <2>2 DEF WorkerOK
    <2> QED  BY <1>6, <2>2, <2>3, <2>4
<1> QED  BY <1>4, <1>5, <1>6

\* A step of the loop, signature by signature.
LEMMA LoopStep ==
    ASSUME TrackerInv, NEW map \in [Sigs -> Record \cup {NULL}],
           NEW pc \in {"poll", "rebroadcast"}, NEW todo \in SUBSET Sigs,
           Proceed(map, pc, todo),
           pc = "rebroadcast" => \A s \in todo : /\ map[s] # NULL
                                                 /\ map[s].state = "dropped"
                                                 /\ map[s].retries < MaxRetries,
           PoolTypeOK', txs' \in [Sigs -> Tx], changes' \in [Sigs -> Seq(Changed)],
           UNCHANGED <<tip, forks, submits, rows, persister, restoring, crashes>>,
           \A s \in Sigs : SigOK(txs'[s], submits[s], map[s], changes'[s], rows[s],
                                 s \in restoring)
    PROVE  TrackerInv'
<1>1. /\ tracking' \in [Sigs -> Record \cup {NULL}]
      /\ \A s \in Sigs : tracking'[s] \in {map[s], NULL}
      /\ worker' \in [pc : {"idle", "poll", "rebroadcast"}, height : Heights,
                      todo : SUBSET Sigs]
      /\ (worker'.pc = "idle") = (worker'.todo = {})
      /\ WorkerOK'
    BY ProceedKeeps
<1>2. TrackerTypeOK'
    BY <1>1 DEF TrackerInv, TrackerTypeOK, Changed, Slot
<1>3. ASSUME NEW s \in Sigs
      PROVE  SigOK(txs[s], submits[s], tracking[s], changes[s], rows[s], s \in restoring)'
    <2>1. SigOK(txs'[s], submits[s], map[s], changes'[s], rows[s], s \in restoring)
        OBVIOUS
    <2>2. CASE tracking'[s] = map[s]
        BY <2>1, <2>2
    <2>3. CASE tracking'[s] = NULL
        <3>1. SigOK(txs'[s], submits[s], NULL, changes'[s], rows[s], s \in restoring)
            BY <2>1, RecordForgotten
        <3> QED  BY <2>3, <3>1
    <2> QED  BY <1>1, <2>2, <2>3
<1> QED  BY <1>1, <1>2, <1>3 DEF TrackerInv, EachOK

LEMMA TickKeeps ==
    ASSUME TrackerInv, NEW h \in Reported, NEW eligible \in SUBSET Sigs,
           TickFails \/ Tick(h, eligible)
    PROVE  TrackerInv'
<1>1. /\ Failed(read_client) \/ Answered(read_client)
      /\ UNCHANGED <<tip, txs, forks, submits, tracking, changes, rows,
                     persister, restoring, crashes>>
    BY DEF TickFails, Tick, chainVars, tableVars
<1>2. PoolTypeOK'
    BY <1>1, CallTypes DEF TrackerInv, TrackerTypeOK
<1>3. EachOK'
    BY <1>1 DEF TrackerInv, EachOK
<1>4. /\ worker' \in [pc : {"idle", "poll", "rebroadcast"}, height : Heights,
                      todo : SUBSET Sigs]
      /\ (worker'.pc = "idle") = (worker'.todo = {})
      /\ WorkerOK'
    <2>1. CASE worker' = worker
        BY <1>1, <2>1 DEF TrackerInv, TrackerTypeOK, WorkerOK
    <2>2. CASE worker' = Idle
        BY <2>2, HeightAssumption DEF Idle, WorkerOK, Heights
    <2>3. CASE worker' = [pc |-> "poll", height |-> h, todo |-> eligible] /\ eligible # {}
        BY <2>3, TipTypes DEF TrackerInv, WorkerOK
    <2> QED  BY <2>1, <2>2, <2>3 DEF TickFails, Tick
<1> QED  BY <1>1, <1>2, <1>3, <1>4 DEF TrackerInv, TrackerTypeOK

LEMMA BatchFailsKeeps ==
    ASSUME TrackerInv, NEW batch \in SUBSET Sigs, BatchFails(batch)
    PROVE  TrackerInv'
<1>1. /\ Exhausted \/ Failed(read_client)
      /\ Proceed(tracking, "poll", worker.todo \ batch)
      /\ UNCHANGED <<tip, txs, forks, submits, changes, rows, persister,
                     restoring, crashes>>
    BY DEF BatchFails, chainVars, tableVars
<1>2. PoolTypeOK'
    BY <1>1, CallTypes DEF TrackerInv, TrackerTypeOK
<1>3. /\ tracking \in [Sigs -> Record \cup {NULL}] /\ worker.todo \ batch \in SUBSET Sigs
      /\ txs' \in [Sigs -> Tx] /\ changes' \in [Sigs -> Seq(Changed)]
    BY <1>1 DEF TrackerInv, TrackerTypeOK, Changed, Slot
<1>4. \A s \in Sigs : SigOK(txs'[s], submits[s], tracking[s], changes'[s], rows[s],
                            s \in restoring)
    BY <1>1 DEF TrackerInv, EachOK
<1> QED  BY <1>1, <1>2, <1>3, <1>4, LoopStep

LEMMA PollKeeps ==
    ASSUME TrackerInv, NEW batch \in SUBSET Sigs, NEW seen, PollBatch(batch, seen)
    PROVE  TrackerInv'
<1> DEFINE next(s) == IF tracking[s] = NULL THEN NULL
                      ELSE calculate_next_state(tracking[s], seen[s], worker.height)
           polled == [s \in Sigs |-> IF s \in batch THEN next(s) ELSE tracking[s]]
           sent(s) == IF polled[s] = tracking[s] THEN changes[s]
                      ELSE Append(changes[s], Change(polled[s]))
<1>1. /\ Answered(read_client) /\ \A s \in batch : seen[s] \in Observations(s)
      /\ changes' = [s \in Sigs |-> sent(s)]
      /\ Proceed(polled, "poll", worker.todo \ batch)
      /\ UNCHANGED <<tip, txs, forks, submits, rows, persister, restoring, crashes>>
    BY DEF PollBatch, Poll, chainVars, tableVars
<1>2. PoolTypeOK'
    BY <1>1, CallTypes DEF TrackerInv, TrackerTypeOK
<1>3. worker.todo \ batch \in SUBSET Sigs /\ txs' \in [Sigs -> Tx] /\ worker.height \in Heights
    BY <1>1 DEF TrackerInv, TrackerTypeOK
<1>4. ASSUME NEW s \in Sigs
      PROVE  /\ polled[s] \in Record \cup {NULL}
             /\ sent(s) \in Seq(Changed)
             /\ SigOK(txs[s], submits[s], polled[s], sent(s), rows[s], s \in restoring)
    <2>1. /\ SigOK(txs[s], submits[s], tracking[s], changes[s], rows[s], s \in restoring)
          /\ tracking[s] \in Record \cup {NULL} /\ changes[s] \in Seq(Changed)
        BY OneTypes
    <2>2. CASE polled[s] = tracking[s]
        BY <2>1, <2>2
    <2>3. CASE polled[s] # tracking[s]
        <3> DEFINE new == calculate_next_state(tracking[s], seen[s], worker.height)
        <3>1. s \in batch /\ tracking[s] # NULL /\ polled[s] = new
            BY <2>3
        <3>2. tracking[s] \in Record /\ seen[s] \in Observations(s)
            BY <1>1, <2>1, <3>1
        <3>3. TxOK(txs[s], submits[s]) /\ TellsTruth(tracking[s], txs[s])
            BY <2>1, <3>1 DEF SigOK, TruthOK
        <3>4. /\ new \in Record /\ TellsTruth(new, txs[s])
              /\ tracking[s].state \in Decided => new = tracking[s]
            BY <1>3, <3>2, <3>3, OneTypes, NextStateIsTrue
        <3> HIDE DEF new
        <3>5. SigOK(txs[s], submits[s], new, Append(changes[s], Change(new)), rows[s],
                    s \in restoring)
            BY <2>1, <2>3, <3>1, <3>2, <3>4, RecordPolled
        <3>6. Change(new) \in Changed
            BY <3>4 DEF Change, Changed, Record, Slot
        <3>7. sent(s) = Append(changes[s], Change(new))
            BY <2>3, <3>1
        <3>8. Append(changes[s], Change(new)) \in Seq(Changed)
            BY <2>1, <3>6
        <3> HIDE DEF polled, sent
        <3> QED  BY <3>1, <3>4, <3>5, <3>7, <3>8
    <2> QED  BY <2>2, <2>3
<1>5. polled \in [Sigs -> Record \cup {NULL}]
    BY <1>4
<1>6. changes' \in [Sigs -> Seq(Changed)]
    BY <1>1, <1>4
<1>7. \A s \in Sigs : SigOK(txs'[s], submits[s], polled[s], changes'[s], rows[s],
                            s \in restoring)
    BY <1>1, <1>4
<1> HIDE DEF polled
<1> QED  BY <1>1, <1>2, <1>3, <1>5, <1>6, <1>7, LoopStep

LEMMA RebroadcastKeeps ==
    ASSUME TrackerInv, NEW s \in Sigs, Rebroadcast(s)
    PROVE  TrackerInv'
<1> DEFINE again(sent) == [tracking[s] EXCEPT !.retries = @ + 1,
                              !.state = IF sent THEN "submitted" ELSE @,
                              !.submission = IF sent THEN worker.height ELSE @]
<1>1. PICK sent \in BOOLEAN :
        /\ rebroadcast(s, sent)
        /\ Proceed([tracking EXCEPT ![s] = again(sent)], "rebroadcast", worker.todo \ {s})
    BY DEF Rebroadcast
<1>2. /\ worker.pc = "rebroadcast" /\ s \in worker.todo
      /\ UNCHANGED <<tip, forks, submits, changes, rows, persister, restoring, crashes>>
    BY DEF Rebroadcast, tableVars
<1>3. /\ tracking[s] # NULL /\ tracking[s].state = "dropped"
      /\ tracking[s].retries < MaxRetries
    BY <1>2 DEF TrackerInv, WorkerOK
<1>4. tracking[s] \in Record /\ worker.height \in Heights /\ worker.todo \ {s} \in SUBSET Sigs
    BY <1>3, OneTypes DEF TrackerInv, TrackerTypeOK
<1> DEFINE old == tracking[s]
           n == old.retries + 1
           st == IF sent THEN "submitted" ELSE old.state
           sb == IF sent THEN worker.height ELSE old.submission
           new == [old EXCEPT !.retries = n, !.state = st, !.submission = sb]
           map == [tracking EXCEPT ![s] = new]
<1>5. Proceed(map, "rebroadcast", worker.todo \ {s})
    BY <1>1
<1>6. n \in 0 .. MaxRetries
    BY <1>3, <1>4, RetriesAssumption DEF Record
<1>7. st \in {"submitted", "dropped"} /\ sb \in Heights
    BY <1>3, <1>4 DEF Record
<1> HIDE DEF n, st, sb
<1>8. new \in Record /\ new.state = st
    BY <1>4, <1>6, <1>7 DEF Record, TxState
<1> HIDE DEF new
<1>9. /\ map \in [Sigs -> Record \cup {NULL}] /\ map[s] = new
      /\ \A r \in Sigs \ {s} : map[r] = tracking[r]
    BY <1>8 DEF TrackerInv, TrackerTypeOK
<1> HIDE DEF map
<1>10. PoolTypeOK'
    BY <1>1, CallTypes, OneTypes DEF rebroadcast
<1>11. PICK through \in BOOLEAN :
         txs' = [txs EXCEPT ![s].status =
                    IF through /\ @ = "signed" THEN "pending" ELSE @]
    BY <1>1 DEF rebroadcast
<1> DEFINE v == IF through /\ txs[s].status = "signed" THEN "pending" ELSE txs[s].status
           u == [txs[s] EXCEPT !.status = v]
<1>12. txs' = [txs EXCEPT ![s] = u]
    BY <1>11 DEF TrackerInv, TrackerTypeOK
<1>13. u \in Tx /\ u.status = v /\ u.slot = txs[s].slot
    BY OneTypes DEF Tx
<1>14. v = txs[s].status \/ (txs[s].status = "signed" /\ v = "pending")
    OBVIOUS
<1>15. txs[s].status = "finalized" => u = txs[s]
    BY OneTypes DEF Tx
<1> HIDE DEF u, v
<1>16. /\ txs' \in [Sigs -> Tx] /\ txs'[s] = u
       /\ \A r \in Sigs \ {s} : txs'[r] = txs[r]
    BY <1>12, <1>13 DEF TrackerInv, TrackerTypeOK
<1>17. SigOK(u, submits[s], new, changes[s], rows[s], s \in restoring)
    <2>1. SigOK(txs[s], submits[s], tracking[s], changes[s], rows[s], s \in restoring)
        BY OneTypes
    <2>2. SigOK(txs[s], submits[s], new, changes[s], rows[s], s \in restoring)
        BY <1>3, <1>7, <1>8, <2>1, RecordRetried
    <2>3. submits[s] = "ended"
        BY <1>3, <2>1 DEF SigOK, StageOK
    <2>4. TxOK(u, submits[s])
        BY <1>13, <1>14, <2>1, <2>3 DEF SigOK, TxOK, Landed
    <2>5. StageOK(submits[s], new, changes[s], rows[s], s \in restoring)
        BY <2>2 DEF SigOK
    <2> QED  BY <1>15, <2>2, <2>4, <2>5, TxMoves
<1>18. ASSUME NEW r \in Sigs
       PROVE  SigOK(txs'[r], submits[r], map[r], changes'[r], rows[r], r \in restoring)
    <2>1. CASE r = s
        BY <1>2, <1>9, <1>16, <1>17, <2>1
    <2>2. CASE r # s
        <3>1. SigOK(txs[r], submits[r], tracking[r], changes[r], rows[r], r \in restoring)
            BY OneTypes
        <3> QED  BY <1>2, <1>9, <1>16, <2>2, <3>1
    <2> QED  BY <2>1, <2>2
<1>19. \A r \in worker.todo \ {s} : /\ map[r] # NULL /\ map[r].state = "dropped"
                                    /\ map[r].retries < MaxRetries
    BY <1>2, <1>4, <1>9 DEF TrackerInv, WorkerOK
<1>20. changes' \in [Sigs -> Seq(Changed)]
    BY <1>2 DEF TrackerInv, TrackerTypeOK, Changed, Slot
<1> QED  BY <1>2, <1>4, <1>5, <1>9, <1>10, <1>16, <1>18, <1>19, <1>20, LoopStep

LEMMA WorkerKeeps ==
    ASSUME TrackerInv, WorkerStep
    PROVE  TrackerInv'
<1>1. CASE TickFails
    <2>1. tip \in Reported
        BY TipTypes, HeightAssumption DEF Reported, TrackerInv, TrackerTypeOK, Heights
    <2> QED  BY <1>1, <2>1, TickKeeps
<1>2. CASE \E h \in Reported, eligible \in SUBSET Sigs : Tick(h, eligible)
    BY <1>2, TickKeeps
<1>3. CASE \E batch \in (SUBSET Sigs) \ {{}} : BatchFails(batch)
    BY <1>3, BatchFailsKeeps
<1>4. ASSUME NEW batch \in SUBSET Sigs, NEW seen, PollBatch(batch, seen)
      PROVE  TrackerInv'
    BY <1>4, PollKeeps
<1>5. CASE \E s \in Sigs : Rebroadcast(s)
    BY <1>5, RebroadcastKeeps
<1> QED  BY <1>1, <1>2, <1>3, <1>4, <1>5 DEF WorkerStep

-----------------------------------------------------------------------------
(* The theorems. *)

LEMMA TrackerInitially ==
    ASSUME TrackerInit
    PROVE  TrackerInv
<1>1. PoolTypeOK
    BY ThresholdAssumption DEF TrackerInit, PoolInit, PoolTypeOK
<1>2. NoTx \in Tx /\ NoTx.status = "unbuilt"
    BY HeightAssumption DEF NoTx, Tx, Fetched
<1>3. /\ worker \in [pc : {"idle", "poll", "rebroadcast"}, height : Heights,
                     todo : SUBSET Sigs]
      /\ worker.pc = "idle" /\ worker.todo = {}
    BY HeightAssumption DEF TrackerInit, Idle, Heights
<1>4. tip \in Heights /\ forks \in 0 .. MaxForks /\ crashes \in 0 .. MaxCrashes
    BY HeightAssumption DEF TrackerInit, Heights
<1>5. TrackerTypeOK
    BY <1>1, <1>2, <1>3, <1>4 DEF TrackerInit, TrackerTypeOK
<1>6. ASSUME NEW s \in Sigs
      PROVE  SigOK(txs[s], submits[s], tracking[s], changes[s], rows[s], s \in restoring)
    <2>1. /\ txs[s] = NoTx /\ submits[s] = "new" /\ tracking[s] = NULL
          /\ changes[s] = << >> /\ rows[s] = NULL /\ s \notin restoring
        BY DEF TrackerInit
    <2> QED  BY <1>2, <2>1
             DEF SigOK, TxOK, StageOK, DecidedOK, TruthOK, EventsOK, Landed
<1> QED  BY <1>3, <1>5, <1>6 DEF TrackerInv, WorkerOK, EachOK

LEMMA TrackerSteps ==
    ASSUME TrackerInv, [Next]_trackerVars
    PROVE  TrackerInv'
<1>1. CASE TimePasses
    <2>1. PoolTypeOK'
        BY <1>1, ElapseTypes DEF TimePasses, TrackerInv, TrackerTypeOK
    <2> QED  BY <1>1, <2>1 DEF TimePasses, chainVars, tableVars, TrackerInv,
                               TrackerTypeOK, WorkerOK, EachOK
<1>2. CASE UNCHANGED trackerVars
    BY <1>2 DEF trackerVars, chainVars, tableVars, TrackerInv, TrackerTypeOK,
                PoolTypeOK, WorkerOK, EachOK
<1>3. ASSUME NEW s \in Sigs, \/ get_fresh(s) \/ Submit(s) \/ Anchor(s) \/ track(s)
                             \/ Persist(s) \/ Restore(s)
      PROVE  TrackerInv'
    BY <1>3, FreshKeeps, SubmitKeeps, AnchorKeeps, TrackKeeps, PersistKeeps, RestoreKeeps
<1> QED  BY <1>1, <1>2, <1>3, ChainKeeps, WorkerKeeps, EmitKeeps, CrashKeeps DEF Next

LEMMA TrackerInvAlways == TrackerSafety => []TrackerInv
BY TrackerInitially, TrackerSteps, PTL DEF TrackerSafety

\* The tracker, the pool and the table keep their types; the retry policy
\* bounds every record.
THEOREM TrackerTypes == TrackerSpec => []TrackerTypeOK
<1>1. TrackerInv => TrackerTypeOK
    BY DEF TrackerInv
<1> QED  BY <1>1, TrackerInvAlways, PTL DEF TrackerSpec

\* What the map or the table calls finalized is final, went well and is in
\* the slot they name (calculate_next_state, update_state), whatever the
\* forks, the lagging nodes and the restarts.
THEOREM FinalizedIsTrueAlways == TrackerSpec => []FinalizedIsTrue
<1>1. TrackerInv => FinalizedIsTrue
    BY DEF TrackerInv, EachOK, SigOK, TruthOK, TellsTruth, FinalizedIsTrue
<1> QED  BY <1>1, TrackerInvAlways, PTL DEF TrackerSpec

\* finalized is heard after confirmed and never with failed (pending_events,
\* mark_event_emitted).
THEOREM EventsAgreeAlways == TrackerSpec => []EventsAgree
<1>1. TrackerInv => EventsAgree
    BY DEF TrackerInv, EachOK, SigOK, EventsOK, EventsAgree
<1> QED  BY <1>1, TrackerInvAlways, PTL DEF TrackerSpec

\* A step never replaces an outcome that is in the table: update_state has
\* no guard, and no change follows an outcome through the channel.
LEMMA OutcomeStep ==
    ASSUME TrackerInv, [Next]_trackerVars, NEW s \in Sigs,
           rows[s] # NULL, rows[s].state \in Decided
    PROVE  rows'[s] # NULL /\ rows'[s].state = rows[s].state
<1>1. /\ changes[s] = << >> /\ s \notin restoring
      /\ submits[s] \notin {"new", "built", "sent", "recorded"}
    BY OneTypes DEF SigOK, StageOK, DecidedOK, Decided
<1>2. /\ TrackerInv' /\ rows \in [Sigs -> TrackingRow \cup {NULL}]
      /\ rows'[s] \in TrackingRow \cup {NULL}
    BY TrackerSteps DEF TrackerInv, TrackerTypeOK
<1>3. CASE rows' = rows
    BY <1>3
<1>4. ASSUME NEW r \in Sigs, Anchor(r), rows' # rows
      PROVE  rows'[s] = rows[s]
    BY <1>1, <1>2, <1>4 DEF Anchor, insert
<1>5. ASSUME NEW r \in Sigs, Persist(r)
      PROVE  rows'[s] = rows[s]
    BY <1>1, <1>2, <1>5 DEF Persist, update_state
<1>6. ASSUME NEW r \in Sigs, Restore(r), rows' # rows
      PROVE  rows'[s] = rows[s]
    BY <1>1, <1>2, <1>6 DEF Restore, mark_expired
<1>7. ASSUME Emit, rows' # rows
      PROVE  rows'[s] # NULL /\ rows'[s].state = rows[s].state
    <2>1. /\ persister \in Sigs /\ rows[persister] # NULL
          /\ LET due == pending_events(rows[persister].state, rows[persister].emitted)
             IN  due # << >> /\ mark_event_emitted(persister, Head(due))
        BY <1>7 DEF Emit, TrackerInv, TrackerTypeOK
    <2> DEFINE e == Head(pending_events(rows[persister].state, rows[persister].emitted))
               heard == rows[s].emitted \cup {e}
               new == [rows[s] EXCEPT !.emitted = heard]
    <2>2. rows' = [rows EXCEPT ![persister].emitted = rows[persister].emitted \cup {e}]
        BY <2>1 DEF mark_event_emitted
    <2>3. rows[persister] \in TrackingRow
        BY <1>2, <2>1
    <2>4. e \in TxState
        <3>1. rows[persister].state \in TxState
            BY <2>3 DEF TrackingRow
        <3> QED  BY <2>1, <3>1, EventsAreDue
    <2> HIDE DEF e
    <2>5. CASE persister # s
        BY <1>2, <2>1, <2>2, <2>5
    <2>6. CASE persister = s
        <3>1. rows'[s] = new
            BY <1>2, <2>2, <2>6
        <3>2. heard \subseteq TxState
            BY <2>3, <2>4, <2>6 DEF TrackingRow
        <3> HIDE DEF heard
        <3>3. new \in TrackingRow /\ new.state = rows[s].state
            BY <2>3, <2>6, <3>2 DEF TrackingRow
        <3> QED  BY <3>1, <3>3, AbsentAssumption
    <2> QED  BY <2>5, <2>6
<1>8. CASE ChainStep \/ WorkerStep \/ Crash \/ TimePasses \/ UNCHANGED trackerVars
    BY <1>8 DEF ChainStep, WorkerStep, TickFails, Tick, BatchFails, PollBatch,
                Rebroadcast, Crash, TimePasses, trackerVars, tableVars
<1>9. ASSUME NEW r \in Sigs, get_fresh(r) \/ Submit(r) \/ track(r)
      PROVE  rows' = rows
    BY <1>9 DEF get_fresh, Submit, track, tableVars
<1> QED  BY <1>3, <1>4, <1>5, <1>6, <1>7, <1>8, <1>9 DEF Next

\* An outcome, once in the table, stays: whatever is in the channel, however
\* often the process restarts (update_state, load_active, mark_expired).
THEOREM OutcomeIsKeptAlways == TrackerSpec => OutcomeIsKept
<1>1. TrackerInv /\ [Next]_trackerVars =>
        [\A s \in Sigs :
            (rows[s] # NULL /\ rows[s].state \in {"finalized", "failed"}) =>
                rows'[s] # NULL /\ rows'[s].state = rows[s].state]_trackerVars
    BY OutcomeStep DEF Decided
<1> QED  BY <1>1, TrackerInvAlways, PTL DEF TrackerSpec, TrackerSafety, OutcomeIsKept

=============================================================================
